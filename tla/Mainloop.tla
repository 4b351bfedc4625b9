------------------------------ MODULE Mainloop ------------------------------
(***************************************************************************)
(* How an asynchronous event gets the main thread out of the guest: the    *)
(* loop of cpu/ppc/mainloop_asm.S, interrupt_emulation, set_cpu_irq and    *)
(* mainloop_interrupt of cpu/mainloop.c, doze and abort_doze of            *)
(* main/timer.c, with the interrupt controller drivers/osi_pic.c as the    *)
(* user of set_cpu_irq.  Every access to shared memory that is not under   *)
(* the controller's lock is a step of its own; memory is sequentially      *)
(* consistent.                                                             *)
(***************************************************************************)
EXTENDS Integers, FiniteSets

CONSTANTS
  Threads,      \* threads other than the main thread
  Main,         \* the main thread
  NoOne,        \* holder of a free lock
  Irqs,         \* interrupt lines
  Smp,          \* TRUE: threads run while the main thread is in the guest
  MaxAbort,     \* bound: abort bytes left over when a doze starts
  MaxDozing     \* bound: aborts counted in ts.dozing between two dozes

ASSUME MainAssumption == Main \notin Threads /\ NoOne \notin Threads \cup {Main}
ASSUME SmpAssumption == Smp \in BOOLEAN

VARIABLES
  interrupt, in_virtual_mode,         \* mregs->interrupt, in_virtual_mode
  ipi,                                \* an inter-processor interrupt is due
  irq_pending,                        \* fb_IRQPending in mregs->flag_bits
  cpu_irq_raise, cpu_irq_lower,
  level, mask, cpu_irq, lock,         \* osi_pic.c: ps
  dozing, abortpipe,                  \* timer.c: ts.dozing, ts.abortpipe
  pc, raise,                          \* per thread: pc, argument of set_cpu_irq
  ret,                                \* where a call of the main thread returns
  r7                                  \* the flag as mainloop_asm.S read it

picVars  == <<level, mask, cpu_irq, lock, raise>>
irqVars  == <<cpu_irq_raise, cpu_irq_lower, irq_pending>>
dozeVars == <<dozing, abortpipe>>
loopVars == <<interrupt, in_virtual_mode, ipi, ret, r7>>
vars == <<picVars, irqVars, dozeVars, loopVars, pc>>

Actors == Threads \cup {Main}

\* Where a call returns to: a thread is idle, the main thread goes on with the
\* loop or with mainloop_interrupt.
Done(a) == IF a = Main THEN ret ELSE "idle"

Goto(a, l) == pc' = [pc EXCEPT ![a] = l]

\* On one processor the others run only after a context switch, and that takes
\* the main thread out of the guest.
MayRun(a) == a = Main \/ Smp \/ pc[Main] # "guest"

\* A thread may start a call when it has nothing to do, the main thread when it
\* runs a return vector on behalf of the guest or the handlers of pending I/O.
CanCall(a) ==
  /\ MayRun(a)
  /\ IF a = Main THEN pc[a] \in {"rvec", "events"}
     ELSE pc[a] = "idle" /\ dozing < MaxDozing

-----------------------------------------------------------------------------
(* interrupt_emulation                                                     *)

InterruptCall(a) ==
  /\ CanCall(a)
  /\ Goto(a, "set_interrupt")
  /\ UNCHANGED <<picVars, irqVars, dozeVars, loopVars>>

\* The lock is still held if set_cpu_irq was the caller.
AfterInterrupt(a) == IF lock = a THEN "unlock" ELSE Done(a)

SetInterrupt(a) ==
  /\ MayRun(a) /\ pc[a] = "set_interrupt"
  /\ interrupt' = TRUE
  /\ Goto(a, IF a = Main THEN AfterInterrupt(a) ELSE "abort_doze")
  /\ UNCHANGED <<picVars, irqVars, dozeVars, in_virtual_mode, ipi, ret, r7>>

\* Mutant: a doze that was announced is not aborted.
AbortDoze_NoWrite(a) ==
  /\ MayRun(a) /\ pc[a] = "abort_doze"
  /\ dozing' = dozing + 1
  /\ Goto(a, "test_virtual")
  /\ UNCHANGED <<picVars, irqVars, loopVars, abortpipe>>

\* abort_doze: the increment is atomic; reaching zero means the main thread had
\* announced a doze.
AbortDoze(a) ==
  /\ MayRun(a) /\ pc[a] = "abort_doze"
  /\ dozing' = dozing + 1
  /\ Goto(a, IF dozing + 1 = 0 THEN "abort_write" ELSE "test_virtual")
  /\ UNCHANGED <<picVars, irqVars, loopVars, abortpipe>>

AbortWrite(a) ==
  /\ MayRun(a) /\ pc[a] = "abort_write"
  /\ abortpipe' = abortpipe + 1
  /\ Goto(a, "test_virtual")
  /\ UNCHANGED <<picVars, irqVars, loopVars, dozing>>

TestVirtual(a) ==
  /\ MayRun(a) /\ pc[a] = "test_virtual"
  /\ ipi' = (ipi \/ in_virtual_mode)
  /\ Goto(a, AfterInterrupt(a))
  /\ UNCHANGED <<picVars, irqVars, dozeVars, interrupt, in_virtual_mode, ret, r7>>

-----------------------------------------------------------------------------
(* osi_pic.c and set_cpu_irq                                               *)

\* source_hi and source_low up to the call of set_cpu_irq: the lock is taken,
\* the level updated, and the CPU line changed if it has to.
SourceStep(a, newLevel, r) ==
  /\ CanCall(a) /\ lock = NoOne
  /\ level' = newLevel
  /\ IF cpu_irq # r /\ (newLevel \cap mask # {}) = r
     THEN /\ cpu_irq' = r /\ lock' = a
          /\ raise' = [raise EXCEPT ![a] = r]
          /\ Goto(a, "set_raise")
     ELSE UNCHANGED <<cpu_irq, lock, raise>> /\ Goto(a, Done(a))
  /\ UNCHANGED <<mask, irqVars, dozeVars, loopVars>>

SourceHi(a, i)  == SourceStep(a, level \cup {i}, TRUE)
SourceLow(a, i) == SourceStep(a, level \ {i}, FALSE)

\* set_cpu_irq_: two stores, then interrupt_emulation.
SetRaise(a) ==
  /\ MayRun(a) /\ pc[a] = "set_raise"
  /\ cpu_irq_raise' = raise[a]
  /\ Goto(a, "set_lower")
  /\ UNCHANGED <<picVars, cpu_irq_lower, irq_pending, dozeVars, loopVars>>

SetLower(a) ==
  /\ MayRun(a) /\ pc[a] = "set_lower"
  /\ cpu_irq_lower' = ~raise[a]
  /\ Goto(a, "set_interrupt")
  /\ UNCHANGED <<picVars, cpu_irq_raise, irq_pending, dozeVars, loopVars>>

Unlock(a) ==
  /\ MayRun(a) /\ pc[a] = "unlock"
  /\ lock' = NoOne
  /\ raise' = [raise EXCEPT ![a] = FALSE]
  /\ Goto(a, Done(a))
  /\ UNCHANGED <<level, mask, cpu_irq, irqVars, dozeVars, loopVars>>

\* Mutant: the line is computed from the mask before the change.
MaskStep_OldMask(newMask, r) ==
  /\ pc[Main] = "rvec" /\ lock = NoOne
  /\ mask' = newMask
  /\ IF cpu_irq # r /\ (level \cap mask # {}) = r
     THEN /\ cpu_irq' = r /\ irq_pending' = r
          /\ cpu_irq_raise' = FALSE /\ cpu_irq_lower' = FALSE
     ELSE UNCHANGED <<cpu_irq, irqVars>>
  /\ Goto(Main, "loop")
  /\ UNCHANGED <<level, lock, raise, dozeVars, loopVars>>

\* osip_pic_mask_irq and osip_pic_unmask_irq run on the main thread and use
\* set_cpu_irq_mt: requests under way are dropped, the CPU line set at once.
MaskStep(newMask, r) ==
  /\ pc[Main] = "rvec" /\ lock = NoOne
  /\ mask' = newMask
  /\ IF cpu_irq # r /\ (level \cap newMask # {}) = r
     THEN /\ cpu_irq' = r /\ irq_pending' = r
          /\ cpu_irq_raise' = FALSE /\ cpu_irq_lower' = FALSE
     ELSE UNCHANGED <<cpu_irq, irqVars>>
  /\ Goto(Main, "loop")
  /\ UNCHANGED <<level, lock, raise, dozeVars, loopVars>>

UnmaskIrq(i) == MaskStep(mask \cup {i}, TRUE)
MaskIrq(i)   == MaskStep(mask \ {i}, FALSE)

-----------------------------------------------------------------------------
(* The loop of mainloop_asm.S                                              *)

\* loop: the flag is loaded ...
LoadInterrupt ==
  /\ pc[Main] = "loop"
  /\ r7' = interrupt
  /\ Goto(Main, "store")
  /\ UNCHANGED <<picVars, irqVars, dozeVars, interrupt, in_virtual_mode, ipi, ret>>

\* ... then in_virtual_mode is stored, and the loaded value is tested.
StoreVirtualMode ==
  /\ pc[Main] = "store"
  /\ in_virtual_mode' = TRUE
  /\ Goto(Main, IF r7 THEN "irq" ELSE "enter")
  /\ r7' = FALSE
  /\ UNCHANGED <<picVars, irqVars, dozeVars, interrupt, ipi, ret>>

EnterGuest ==
  /\ pc[Main] = "enter"
  /\ Goto(Main, "guest")
  /\ UNCHANGED <<picVars, irqVars, dozeVars, loopVars>>

\* A host exception (timer tick, device, IPI) ends the virtualization; the
\* return vector is RVEC_NOP and in_virtual_mode stays as it is.
HostException ==
  /\ pc[Main] = "guest"
  /\ ipi' = FALSE
  /\ Goto(Main, "loop")
  /\ UNCHANGED <<picVars, irqVars, dozeVars, interrupt, in_virtual_mode, ret, r7>>

\* An IPI that finds the main thread outside the guest has no effect on MOL.
IpiOutsideGuest ==
  /\ ipi /\ pc[Main] # "guest"
  /\ ipi' = FALSE
  /\ UNCHANGED <<picVars, irqVars, dozeVars, interrupt, in_virtual_mode, ret, r7,
                 pc>>

\* The guest needs the emulator: any other return vector.
GuestRvec ==
  /\ pc[Main] = "guest"
  /\ in_virtual_mode' = FALSE
  /\ ret' = "loop"
  /\ Goto(Main, "rvec")
  /\ UNCHANGED <<picVars, irqVars, dozeVars, interrupt, ipi, r7>>

\* A return vector that touches nothing modelled here.
RvecReturn ==
  /\ pc[Main] = "rvec"
  /\ Goto(Main, "loop")
  /\ UNCHANGED <<picVars, irqVars, dozeVars, loopVars>>
-----------------------------------------------------------------------------
(* mainloop_interrupt                                                      *)

ClearInterrupt ==
  /\ pc[Main] = "irq"
  /\ interrupt' = FALSE
  /\ ret' = "test_raise"
  /\ Goto(Main, "events")
  /\ UNCHANGED <<picVars, irqVars, dozeVars, in_virtual_mode, ipi, r7>>

\* do_async_io, recalc_mol_timer and hostirq_update_irqs; what they do to the
\* interrupt lines are calls of SourceHi and SourceLow.
EventsDone ==
  /\ pc[Main] = "events"
  /\ Goto(Main, "test_raise")
  /\ UNCHANGED <<picVars, irqVars, dozeVars, loopVars>>

TestRaise ==
  /\ pc[Main] = "test_raise"
  /\ Goto(Main, IF cpu_irq_raise THEN "do_raise" ELSE "test_lower")
  /\ ret' = "loop"
  /\ UNCHANGED <<picVars, irqVars, dozeVars, interrupt, in_virtual_mode, ipi, r7>>

DoRaise ==
  /\ pc[Main] = "do_raise"
  /\ cpu_irq_raise' = FALSE
  /\ irq_pending' = TRUE
  /\ Goto(Main, "test_lower")
  /\ UNCHANGED <<picVars, cpu_irq_lower, dozeVars, loopVars>>

\* Mutant: the flag is (also) cleared after the sources were looked at.
TestLower_ClearLate ==
  /\ pc[Main] = "test_lower"
  /\ Goto(Main, IF cpu_irq_lower THEN "do_lower" ELSE "loop")
  /\ interrupt' = FALSE
  /\ UNCHANGED <<picVars, irqVars, dozeVars, in_virtual_mode, ipi, ret, r7>>

TestLower ==
  /\ pc[Main] = "test_lower"
  /\ Goto(Main, IF cpu_irq_lower THEN "do_lower" ELSE "loop")
  /\ UNCHANGED <<picVars, irqVars, dozeVars, loopVars>>

\* Mutant: the request to lower the line is dropped.
DoLower_KeepPending ==
  /\ pc[Main] = "do_lower"
  /\ cpu_irq_lower' = FALSE
  /\ UNCHANGED irq_pending
  /\ Goto(Main, "loop")
  /\ UNCHANGED <<picVars, cpu_irq_raise, dozeVars, loopVars>>

DoLower ==
  /\ pc[Main] = "do_lower"
  /\ cpu_irq_lower' = FALSE
  /\ irq_pending' = FALSE
  /\ Goto(Main, "loop")
  /\ UNCHANGED <<picVars, cpu_irq_raise, dozeVars, loopVars>>

-----------------------------------------------------------------------------
(* doze (from rvec_msr_pow): the guest has nothing to do.                  *)

\* Nothing is due yet: announce the doze.
DozeAnnounce ==
  /\ pc[Main] = "rvec"
  /\ abortpipe <= MaxAbort
  /\ dozing' = dozing - 1
  /\ Goto(Main, "doze")
  /\ UNCHANGED <<picVars, irqVars, loopVars, abortpipe>>

\* Mutant: the doze is entered although an abort came first.
DozeTest_Always ==
  /\ pc[Main] = "doze"
  /\ \/ dozing = -1 /\ Goto(Main, "select")
     \/ dozing = -1 /\ Goto(Main, "doze_end")
     \/ dozing # -1 /\ Goto(Main, "select")
  /\ UNCHANGED <<picVars, irqVars, dozeVars, loopVars>>

\* An abort that came first cancels the doze.  Every 256th doze reclaims memory
\* in place of the select.
DozeTest ==
  /\ pc[Main] = "doze"
  /\ \/ dozing = -1 /\ Goto(Main, "select")
     \/ dozing = -1 /\ Goto(Main, "doze_end")
     \/ dozing # -1 /\ Goto(Main, "doze_end")
  /\ UNCHANGED <<picVars, irqVars, dozeVars, loopVars>>

\* Mutant: a byte is taken from the pipe without testing for one.
DozeRead_Empty ==
  /\ pc[Main] = "select"
  /\ abortpipe' = abortpipe - 1
  /\ Goto(Main, "doze_end")
  /\ UNCHANGED <<picVars, irqVars, loopVars, dozing>>

DozeRead ==
  /\ pc[Main] = "select"
  /\ abortpipe > 0
  /\ abortpipe' = abortpipe - 1
  /\ Goto(Main, "doze_end")
  /\ UNCHANGED <<picVars, irqVars, loopVars, dozing>>

DozeTimeout ==
  /\ pc[Main] = "select"
  /\ abortpipe = 0
  /\ Goto(Main, "doze_end")
  /\ UNCHANGED <<picVars, irqVars, dozeVars, loopVars>>

DozeEnd ==
  /\ pc[Main] = "doze_end"
  /\ dozing' = 0
  /\ Goto(Main, "loop")
  /\ UNCHANGED <<picVars, irqVars, loopVars, abortpipe>>

-----------------------------------------------------------------------------
Init ==
  /\ interrupt = FALSE /\ in_virtual_mode = FALSE /\ ipi = FALSE
  /\ irq_pending = FALSE /\ cpu_irq_raise = FALSE /\ cpu_irq_lower = FALSE
  /\ level = {} /\ mask = {} /\ cpu_irq = FALSE /\ lock = NoOne
  /\ dozing = 0 /\ abortpipe = 0
  /\ pc = [a \in Actors |-> IF a = Main THEN "loop" ELSE "idle"]
  /\ raise = [a \in Actors |-> FALSE]
  /\ ret = "loop" /\ r7 = FALSE

\* A call in progress takes its next step.
Continue(a) ==
  \/ SetInterrupt(a) \/ AbortDoze(a) \/ AbortWrite(a) \/ TestVirtual(a)
  \/ SetRaise(a) \/ SetLower(a) \/ Unlock(a)

Call(a) ==
  \/ InterruptCall(a)
  \/ \E i \in Irqs : SourceHi(a, i) \/ SourceLow(a, i)

MainCall == \E i \in Irqs : UnmaskIrq(i) \/ MaskIrq(i)

\* What the main thread does by itself, the doze timing out left aside.
MainStep ==
  \/ LoadInterrupt \/ StoreVirtualMode \/ EnterGuest \/ HostException
  \/ RvecReturn \/ ClearInterrupt \/ EventsDone
  \/ TestRaise \/ DoRaise \/ TestLower \/ DoLower
  \/ DozeTest \/ DozeRead \/ DozeEnd

Next ==
  \/ \E a \in Actors : Call(a) \/ Continue(a)
  \/ MainCall \/ MainStep
  \/ GuestRvec \/ DozeAnnounce \/ DozeTimeout \/ IpiOutsideGuest

Spec == Init /\ [][Next]_vars

\* Every thread that is in a call is scheduled.  The guest leaves virtualization
\* mode at the next host exception at the latest.  Nothing is assumed of a doze
\* timing out.
FairSpec ==
  /\ Spec
  /\ \A a \in Actors : WF_vars(Continue(a))
  /\ WF_vars(MainStep)

-----------------------------------------------------------------------------
(* Properties.                                                             *)

Pcs == {"idle", "set_interrupt", "abort_doze", "abort_write", "test_virtual",
        "set_raise", "set_lower", "unlock", "loop", "store", "enter", "guest",
        "rvec", "irq", "events", "test_raise", "do_raise", "test_lower",
        "do_lower", "doze", "select", "doze_end"}

\* Type invariant.
TypeOK ==
  /\ interrupt \in BOOLEAN /\ in_virtual_mode \in BOOLEAN /\ ipi \in BOOLEAN
  /\ irq_pending \in BOOLEAN
  /\ cpu_irq_raise \in BOOLEAN /\ cpu_irq_lower \in BOOLEAN
  /\ level \subseteq Irqs /\ mask \subseteq Irqs /\ cpu_irq \in BOOLEAN
  /\ lock \in Actors \cup {NoOne}
  /\ dozing \in Int /\ abortpipe \in Nat
  /\ pc \in [Actors -> Pcs] /\ raise \in [Actors -> BOOLEAN]
  /\ ret \in {"loop", "test_raise"} /\ r7 \in BOOLEAN

\* The controller's cached output is the masked level whenever its lock is free,
\* whichever thread raised, lowered, masked or unmasked last.
PicLine == lock = NoOne => (cpu_irq <=> level \cap mask # {})

\* No wake-up is lost: if the main thread sleeps in the select of doze() while an
\* interrupt is flagged, then the abort byte is in the pipe or the thread that
\* flagged it is still on its way through abort_doze.
NoLostWakeup ==
  pc[Main] = "select" /\ interrupt =>
    \/ abortpipe > 0
    \/ \E t \in Threads : pc[t] \in {"abort_doze", "abort_write"}

\* Places of mainloop_interrupt from which the two request flags are still read.
WillTestRaise == pc[Main] \in {"irq", "events", "test_raise", "do_raise"}
                 \/ (pc[Main] = "store" /\ r7)
                 \/ (ret = "test_raise" /\ pc[Main] \in
                      {"set_raise", "set_lower", "set_interrupt", "unlock"})
WillTestLower == WillTestRaise \/ pc[Main] \in {"test_lower", "do_lower"}

Flagging == \E a \in Actors : pc[a] \in {"set_lower", "set_interrupt"}

\* A request to change the CPU's interrupt line is never left behind: as long as
\* __cpu_irq_raise or __cpu_irq_lower is set, mregs->interrupt is set, or its
\* writer is about to set it, or mainloop_interrupt has yet to look.
RequestNoticed ==
  /\ cpu_irq_raise => interrupt \/ Flagging \/ WillTestRaise
  /\ cpu_irq_lower => interrupt \/ Flagging \/ WillTestLower

Settled ==
  /\ lock = NoOne /\ ~cpu_irq_raise /\ ~cpu_irq_lower
  /\ pc[Main] \notin {"do_raise", "do_lower"}

\* When the controller is quiet and no request is under way, the CPU sees no
\* interrupt that the controller has withdrawn.
NoStuckIrq == Settled /\ ~cpu_irq => ~irq_pending

\* mainloop_interrupt, "the following is a race free solution": when no request
\* is under way the CPU sees the line as the controller drives it.
IrqLineAgrees == Settled => (irq_pending <=> cpu_irq)

\* Comment on interrupt_emulation: "non-SMP mol can _never_ be in virtualization
\* mode when the flag is set".
FlagClearInGuest == ~Smp => ~(pc[Main] = "guest" /\ interrupt)

\* A flagged interrupt gets mainloop_interrupt to run, also out of a doze that
\* would not time out.
InterruptServed == interrupt ~> pc[Main] = "irq"

=============================================================================
