-------------------------- MODULE Mainloop_proofs --------------------------
(***************************************************************************)
(* The safety properties of the main loop, proved for any number of        *)
(* threads and interrupt lines.                                            *)
(***************************************************************************)
EXTENDS Mainloop, TLAPS

CallPcs == {"set_raise", "set_lower", "set_interrupt", "unlock"}
AbortPcs == {"abort_doze", "abort_write", "test_virtual"}
DozePcs == {"doze", "select", "doze_end"}
LoopPcs == {"loop", "store", "enter", "guest", "rvec", "irq", "events",
            "test_raise", "do_raise", "test_lower", "do_lower"}

\* Where the main thread and the others can be, and where a call returns to.
Places ==
  /\ pc \in [Actors -> Pcs]
  /\ pc[Main] \in LoopPcs \cup CallPcs \cup DozePcs
  /\ \A t \in Threads : pc[t] \in {"idle"} \cup CallPcs \cup AbortPcs
  /\ ret \in {"loop", "test_raise"}
  /\ pc[Main] = "events" => ret = "test_raise"
  /\ pc[Main] = "rvec" => ret = "loop"

\* The lock of the controller is held through set_cpu_irq, and the argument of
\* the call is the line as the controller has it.
Locking ==
  /\ raise \in [Actors -> BOOLEAN]
  /\ lock \in Actors \cup {NoOne}
  /\ \A a \in Actors : pc[a] \in {"set_raise", "set_lower", "unlock"} => lock = a
  /\ lock \in Actors => (raise[lock] <=> cpu_irq)

\* What is left of the types.
Values ==
  /\ interrupt \in BOOLEAN /\ in_virtual_mode \in BOOLEAN /\ ipi \in BOOLEAN
  /\ irq_pending \in BOOLEAN /\ cpu_irq_raise \in BOOLEAN
  /\ cpu_irq_lower \in BOOLEAN /\ cpu_irq \in BOOLEAN /\ r7 \in BOOLEAN
  /\ level \subseteq Irqs /\ mask \subseteq Irqs
  /\ dozing \in Int /\ abortpipe \in Nat

\* ts.dozing is negative only while a doze is announced and not aborted.
Counting ==
  /\ dozing >= -1
  /\ pc[Main] \notin DozePcs => dozing >= 0

Aborting == \E t \in Threads : pc[t] = "abort_doze"
Writing == \E t \in Threads : pc[t] = "abort_write"

\* From the load of the flag on, an interrupt the main thread has not seen is
\* counted in ts.dozing or about to be; in the select, an abort that was counted
\* has left a byte or is about to.
Waking ==
  /\ pc[Main] \in {"enter", "guest", "rvec"} \/ (pc[Main] = "store" /\ ~r7) =>
       (interrupt => dozing >= 1 \/ Aborting)
  /\ pc[Main] \in {"doze", "select"} => (interrupt => dozing >= 0 \/ Aborting)
  /\ pc[Main] = "select" => (dozing >= 0 => abortpipe > 0 \/ Writing)

\* The output of the controller is the masked level, also under the lock.
Line == cpu_irq <=> level \cap mask # {}

Lowering == \E a \in Actors : lock = a /\ pc[a] \in {"set_raise", "set_lower"}

\* While the controller drives the line low, what the CPU still sees, or is
\* about to see, of an interrupt will be withdrawn.
Withdrawn ==
  ~cpu_irq =>
    /\ cpu_irq_raise => \E a \in Actors : lock = a /\ pc[a] = "set_raise"
    /\ irq_pending \/ pc[Main] = "do_raise" =>
         cpu_irq_lower \/ pc[Main] = "do_lower" \/ Lowering

-----------------------------------------------------------------------------
\* The main loop starts outside the guest and every other thread is idle.
LEMMA PlacesInit == Init => Places
BY MainAssumption DEF Init, Places, Actors, Pcs, LoopPcs

\* No step takes an actor to a place it does not belong to.
LEMMA PlacesStep == Places /\ [Next]_vars => Places'
<1>1. SUFFICES ASSUME Places, [Next]_vars PROVE Places'
  OBVIOUS
<1> USE <1>1, MainAssumption
    DEF Places, Actors, Pcs, LoopPcs, CallPcs, AbortPcs, DozePcs, Goto, Done
<1>2. ASSUME NEW a \in Actors, Call(a) PROVE Places'
  <2>1. CASE InterruptCall(a)
    BY <1>2, <2>1 DEF InterruptCall, CanCall, loopVars
  <2>2. ASSUME NEW lv, NEW r, SourceStep(a, lv, r) PROVE Places'
    BY <1>2, <2>2 DEF SourceStep, CanCall, loopVars
  <2> QED BY <1>2, <2>1, <2>2, Zenon DEF Call, SourceHi, SourceLow
<1>3. ASSUME NEW a \in Actors, Continue(a) PROVE Places'
  <2>1. CASE SetInterrupt(a)
    BY <1>3, <2>1 DEF SetInterrupt, AfterInterrupt
  <2>2. CASE AbortDoze(a)
    BY <1>3, <2>2 DEF AbortDoze, loopVars
  <2>3. CASE AbortWrite(a)
    BY <1>3, <2>3 DEF AbortWrite, loopVars
  <2>4. CASE TestVirtual(a)
    BY <1>3, <2>4 DEF TestVirtual, AfterInterrupt
  <2>5. CASE SetRaise(a)
    BY <1>3, <2>5 DEF SetRaise, loopVars
  <2>6. CASE SetLower(a)
    BY <1>3, <2>6 DEF SetLower, loopVars
  <2>7. CASE Unlock(a)
    BY <1>3, <2>7 DEF Unlock, loopVars
  <2> QED BY <1>3, <2>1, <2>2, <2>3, <2>4, <2>5, <2>6, <2>7 DEF Continue
<1>4. CASE MainCall
  BY <1>4, Zenon DEF MainCall, UnmaskIrq, MaskIrq, MaskStep, loopVars
<1>5. CASE MainStep
  BY <1>5 DEF MainStep, LoadInterrupt, StoreVirtualMode, EnterGuest, HostException, RvecReturn,
     ClearInterrupt, EventsDone, TestRaise, DoRaise, TestLower, DoLower, DozeTest, DozeRead,
     DozeEnd, loopVars
<1>6. CASE GuestRvec \/ DozeAnnounce \/ DozeTimeout
  BY <1>6 DEF GuestRvec, DozeAnnounce, DozeTimeout, loopVars
<1>7. CASE IpiOutsideGuest \/ UNCHANGED vars
  BY <1>7 DEF IpiOutsideGuest, vars, loopVars
<1> QED BY <1>1, <1>2, <1>3, <1>4, <1>5, <1>6, <1>7 DEF Next

\* At start nobody holds the lock.
LEMMA LockingInit == Init => Locking
BY MainAssumption DEF Init, Locking, Actors

\* The lock is taken and released around set_cpu_irq.
LEMMA LockingStep == Places /\ Locking /\ [Next]_vars => Locking'
<1>1. SUFFICES ASSUME Places, Locking, [Next]_vars PROVE Locking'
  OBVIOUS
<1> USE <1>1, MainAssumption DEF Places, Locking, Actors, Goto, Done
<1>2. ASSUME NEW a \in Actors, Call(a) PROVE Locking'
  <2>1. CASE InterruptCall(a)
    BY <1>2, <2>1 DEF InterruptCall, CanCall, picVars
  <2>2. ASSUME NEW lv, NEW r \in BOOLEAN, SourceStep(a, lv, r) PROVE Locking'
    BY <1>2, <2>2 DEF SourceStep, CanCall
  <2> QED BY <1>2, <2>1, <2>2, Zenon DEF Call, SourceHi, SourceLow
<1>3. ASSUME NEW a \in Actors, Continue(a) PROVE Locking'
  <2>1. CASE SetInterrupt(a)
    BY <1>3, <2>1 DEF SetInterrupt, AfterInterrupt, picVars
  <2>2. CASE AbortDoze(a)
    BY <1>3, <2>2 DEF AbortDoze, picVars
  <2>3. CASE AbortWrite(a)
    BY <1>3, <2>3 DEF AbortWrite, picVars
  <2>4. CASE TestVirtual(a)
    BY <1>3, <2>4 DEF TestVirtual, AfterInterrupt, picVars
  <2>5. CASE SetRaise(a)
    BY <1>3, <2>5 DEF SetRaise, picVars
  <2>6. CASE SetLower(a)
    BY <1>3, <2>6 DEF SetLower, picVars
  <2>7. CASE Unlock(a)
    BY <1>3, <2>7 DEF Unlock
  <2> QED BY <1>3, <2>1, <2>2, <2>3, <2>4, <2>5, <2>6, <2>7 DEF Continue
<1>4. CASE MainCall
  BY <1>4, Zenon DEF MainCall, UnmaskIrq, MaskIrq, MaskStep
<1>5. CASE MainStep
  BY <1>5 DEF MainStep, LoadInterrupt, StoreVirtualMode, EnterGuest, HostException, RvecReturn,
     ClearInterrupt, EventsDone, TestRaise, DoRaise, TestLower, DoLower, DozeTest, DozeRead,
     DozeEnd, picVars
<1>6. CASE GuestRvec \/ DozeAnnounce \/ DozeTimeout
  <2>1. CASE GuestRvec
    BY <2>1 DEF GuestRvec, picVars
  <2>2. CASE DozeAnnounce
    BY <2>2 DEF DozeAnnounce, picVars
  <2>3. CASE DozeTimeout
    BY <2>3 DEF DozeTimeout, picVars
  <2> QED BY <1>6, <2>1, <2>2, <2>3, Zenon
<1>7. CASE IpiOutsideGuest \/ UNCHANGED vars
  BY <1>7 DEF IpiOutsideGuest, vars, picVars
<1> QED BY <1>1, <1>2, <1>3, <1>4, <1>5, <1>6, <1>7 DEF Next

\* The cached line is computed anew by every change of level or mask.
LEMMA LineStep == Line /\ cpu_irq \in BOOLEAN /\ [Next]_vars => Line'
<1>1. SUFFICES ASSUME Line, cpu_irq \in BOOLEAN, [Next]_vars PROVE Line'
  OBVIOUS
<1>2. ASSUME NEW a \in Actors, NEW i, SourceHi(a, i) PROVE Line'
  BY <1>1, <1>2, Zenon DEF SourceHi, SourceStep, Line
<1>3. ASSUME NEW a \in Actors, NEW i, SourceLow(a, i) PROVE Line'
  BY <1>1, <1>3, Zenon DEF SourceLow, SourceStep, Line
<1>4. ASSUME NEW i, UnmaskIrq(i) PROVE Line'
  BY <1>1, <1>4, Zenon DEF UnmaskIrq, MaskStep, Line
<1>5. ASSUME NEW i, MaskIrq(i) PROVE Line'
  BY <1>1, <1>5, Zenon DEF MaskIrq, MaskStep, Line
<1>6. ASSUME UNCHANGED <<level, mask, cpu_irq>> PROVE Line'
  BY <1>1, <1>6 DEF Line
<1>7. ASSUME NEW a \in Actors, InterruptCall(a) \/ Continue(a)
      PROVE UNCHANGED <<level, mask, cpu_irq>>
  BY <1>7 DEF InterruptCall, Continue, SetInterrupt, AbortDoze, AbortWrite, TestVirtual,
     SetRaise, SetLower, Unlock, picVars
<1>8. ASSUME MainStep PROVE UNCHANGED <<level, mask, cpu_irq>>
  BY <1>8 DEF MainStep, LoadInterrupt, StoreVirtualMode, EnterGuest, HostException, RvecReturn,
     ClearInterrupt, EventsDone, TestRaise, DoRaise, TestLower, DoLower, DozeTest, DozeRead,
     DozeEnd, picVars
<1>9. ASSUME GuestRvec \/ DozeAnnounce \/ DozeTimeout \/ IpiOutsideGuest
             \/ UNCHANGED vars
      PROVE UNCHANGED <<level, mask, cpu_irq>>
  BY <1>9 DEF GuestRvec, DozeAnnounce, DozeTimeout, IpiOutsideGuest, vars, picVars
<1> QED BY <1>1, <1>2, <1>3, <1>4, <1>5, <1>6, <1>7, <1>8, <1>9 DEF Next, Call, MainCall

\* Every step keeps the types of the flags, sets and counters.
LEMMA ValuesStep == Values /\ Locking /\ [Next]_vars => Values'
<1>1. SUFFICES ASSUME Values, Locking, [Next]_vars PROVE Values'
  OBVIOUS
<1> USE <1>1 DEF Values, Locking
<1>2. ASSUME NEW a \in Actors, InterruptCall(a) PROVE Values'
  BY <1>2 DEF InterruptCall, picVars, irqVars, dozeVars, loopVars
<1>3. ASSUME NEW a \in Actors, NEW i \in Irqs, SourceHi(a, i) \/ SourceLow(a, i)
      PROVE Values'
  BY <1>3, ZenonT(40) DEF SourceHi, SourceLow, SourceStep, irqVars, dozeVars, loopVars
<1>4. ASSUME NEW a \in Actors, SetInterrupt(a) \/ AbortDoze(a) \/ AbortWrite(a)
      PROVE Values'
  <2>1. CASE SetInterrupt(a)
    BY <2>1 DEF SetInterrupt, picVars, irqVars, dozeVars
  <2>2. CASE AbortDoze(a) \/ AbortWrite(a)
    BY <2>2 DEF AbortDoze, AbortWrite, picVars, irqVars, loopVars
  <2> QED BY <1>4, <2>1, <2>2
<1>5. ASSUME NEW a \in Actors, TestVirtual(a) PROVE Values'
  <2>1. ipi' \in BOOLEAN
    BY <1>5 DEF TestVirtual
  <2> QED BY <1>5, <2>1 DEF TestVirtual, picVars, irqVars, dozeVars
<1>6. ASSUME NEW a \in Actors, SetRaise(a) \/ SetLower(a) PROVE Values'
  <2>1. cpu_irq_raise' \in BOOLEAN /\ cpu_irq_lower' \in BOOLEAN
    BY <1>6, Zenon DEF SetRaise, SetLower
  <2> QED BY <1>6, <2>1 DEF SetRaise, SetLower, picVars, dozeVars, loopVars
<1>7. ASSUME NEW a \in Actors, Unlock(a) PROVE Values'
  BY <1>7 DEF Unlock, irqVars, dozeVars, loopVars
<1>8. ASSUME NEW i \in Irqs, UnmaskIrq(i) \/ MaskIrq(i) PROVE Values'
  BY <1>8, Zenon DEF UnmaskIrq, MaskIrq, MaskStep, irqVars, dozeVars, loopVars
<1>9. CASE MainStep
  <2>1. CASE LoadInterrupt
    BY <2>1 DEF LoadInterrupt, picVars, irqVars, dozeVars, loopVars
  <2>2. CASE StoreVirtualMode
    BY <2>2, Zenon DEF StoreVirtualMode, picVars, irqVars, dozeVars, loopVars
  <2>3. CASE EnterGuest \/ RvecReturn \/ EventsDone \/ TestLower \/ DozeTest
    BY <2>3 DEF EnterGuest, RvecReturn, EventsDone, TestLower, DozeTest, picVars, irqVars,
       dozeVars, loopVars
  <2>4. CASE HostException
    BY <2>4, Zenon DEF HostException, picVars, irqVars, dozeVars, loopVars
  <2>5. CASE ClearInterrupt
    BY <2>5, Zenon DEF ClearInterrupt, picVars, irqVars, dozeVars, loopVars
  <2>6. CASE TestRaise
    BY <2>6 DEF TestRaise, picVars, irqVars, dozeVars, loopVars
  <2>7. CASE DoRaise
    BY <2>7, Zenon DEF DoRaise, picVars, irqVars, dozeVars, loopVars
  <2>8. CASE DoLower
    BY <2>8, Zenon DEF DoLower, picVars, irqVars, dozeVars, loopVars
  <2>9. CASE DozeRead \/ DozeEnd
    BY <2>9 DEF DozeRead, DozeEnd, picVars, irqVars, dozeVars, loopVars
  <2> QED BY <1>9, <2>1, <2>2, <2>3, <2>4, <2>5, <2>6, <2>7, <2>8, <2>9 DEF MainStep
<1>10. CASE GuestRvec
  BY <1>10, Zenon DEF GuestRvec, picVars, irqVars, dozeVars
<1>11. CASE DozeAnnounce \/ DozeTimeout
  BY <1>11 DEF DozeAnnounce, DozeTimeout, picVars, irqVars, dozeVars, loopVars
<1>12. CASE IpiOutsideGuest
  BY <1>12, Zenon DEF IpiOutsideGuest, picVars, irqVars, dozeVars
<1>13. CASE UNCHANGED vars
  BY <1>13 DEF vars, picVars, irqVars, dozeVars, loopVars
<1> QED BY <1>1, <1>2, <1>3, <1>4, <1>5, <1>6, <1>7, <1>8, <1>9, <1>10, <1>11, <1>12, <1>13 DEF
   Next, Call, Continue, MainCall

\* ts.dozing is decremented only when it is not negative.
LEMMA CountingStep ==
  Places /\ Values /\ Counting /\ [Next]_vars => Counting'
<1>1. SUFFICES ASSUME Places, Values, Counting, [Next]_vars PROVE Counting'
  OBVIOUS
<1> USE <1>1, MainAssumption
    DEF Places, Values, Counting, Actors, CallPcs, AbortPcs, DozePcs, LoopPcs,
        Goto, Done
<1>2. ASSUME NEW a \in Actors, Call(a) PROVE Counting'
  BY <1>2, Zenon DEF Call, InterruptCall, SourceHi, SourceLow, SourceStep, CanCall, dozeVars
<1>3. ASSUME NEW a \in Actors, AbortDoze(a) PROVE Counting'
  BY <1>3 DEF AbortDoze
<1>4. ASSUME NEW a \in Actors, SetInterrupt(a) \/ AbortWrite(a) \/ TestVirtual(a)
             \/ SetRaise(a) \/ SetLower(a) \/ Unlock(a)
      PROVE Counting'
  BY <1>4 DEF SetInterrupt, AbortWrite, TestVirtual, SetRaise, SetLower, Unlock, AfterInterrupt,
     dozeVars
<1>5. CASE MainCall
  BY <1>5, Zenon DEF MainCall, UnmaskIrq, MaskIrq, MaskStep, dozeVars
<1>6. CASE MainStep
  <2>1. CASE LoadInterrupt \/ StoreVirtualMode \/ EnterGuest \/ HostException \/ RvecReturn
    BY <2>1 DEF LoadInterrupt, StoreVirtualMode, EnterGuest, HostException, RvecReturn, dozeVars
  <2>2. CASE ClearInterrupt \/ EventsDone \/ TestRaise \/ DoRaise \/ TestLower \/ DoLower
    BY <2>2 DEF ClearInterrupt, EventsDone, TestRaise, DoRaise, TestLower, DoLower, dozeVars
  <2>3. CASE DozeTest
    BY <2>3 DEF DozeTest, dozeVars
  <2>4. CASE DozeRead
    BY <2>4 DEF DozeRead, dozeVars
  <2>5. CASE DozeEnd
    BY <2>5 DEF DozeEnd, dozeVars
  <2> QED BY <1>6, <2>1, <2>2, <2>3, <2>4, <2>5, Zenon DEF MainStep
<1>7. CASE GuestRvec \/ DozeAnnounce \/ DozeTimeout
  BY <1>7 DEF GuestRvec, DozeAnnounce, DozeTimeout, dozeVars
<1>8. CASE IpiOutsideGuest \/ UNCHANGED vars
  BY <1>8 DEF IpiOutsideGuest, vars, dozeVars
<1> QED BY <1>1, <1>2, <1>3, <1>4, <1>5, <1>6, <1>7, <1>8 DEF Next, Continue

\* Between the load of the flag and the end of a doze no interrupt gets past the
\* main thread: who sets the flag goes on to abort_doze.
LEMMA WakingStep ==
  Places /\ Values /\ Counting /\ Waking /\ [Next]_vars => Waking'
<1>1. SUFFICES ASSUME Places, Values, Counting, Waking, [Next]_vars PROVE Waking'
  OBVIOUS
<1> USE <1>1, MainAssumption
    DEF Places, Values, Counting, Waking, Aborting, Writing, Actors, CallPcs,
        AbortPcs, DozePcs, LoopPcs, Goto, Done
<1>2. ASSUME NEW a \in Actors, InterruptCall(a) PROVE Waking'
  BY <1>2 DEF InterruptCall, CanCall, dozeVars, loopVars
<1>3. ASSUME NEW a \in Actors, NEW lv, NEW r, SourceStep(a, lv, r) PROVE Waking'
  BY <1>3 DEF SourceStep, CanCall, dozeVars, loopVars
<1>4. ASSUME NEW a \in Actors, SetInterrupt(a) PROVE Waking'
  BY <1>4 DEF SetInterrupt, AfterInterrupt, dozeVars
<1>5. ASSUME NEW a \in Actors, AbortDoze(a) PROVE Waking'
  BY <1>5 DEF AbortDoze, loopVars
<1>6. ASSUME NEW a \in Actors, AbortWrite(a) PROVE Waking'
  BY <1>6 DEF AbortWrite, loopVars
<1>7. ASSUME NEW a \in Actors, TestVirtual(a) PROVE Waking'
  BY <1>7 DEF TestVirtual, AfterInterrupt, dozeVars
<1>8. ASSUME NEW a \in Actors, SetRaise(a) \/ SetLower(a) \/ Unlock(a) PROVE Waking'
  BY <1>8 DEF SetRaise, SetLower, Unlock, dozeVars, loopVars
<1>9. CASE MainCall
  <2>1. pc' = [pc EXCEPT ![Main] = "loop"] /\ pc[Main] = "rvec"
    BY <1>9, Zenon DEF MainCall, UnmaskIrq, MaskIrq, MaskStep
  <2>2. pc'[Main] = "loop"
    BY <2>1
  <2> QED BY <2>2
<1>10. CASE MainStep
  <2>1. CASE LoadInterrupt
    BY <2>1 DEF LoadInterrupt, dozeVars
  <2>2. CASE StoreVirtualMode
    BY <2>2 DEF StoreVirtualMode, dozeVars
  <2>3. CASE EnterGuest \/ HostException \/ RvecReturn \/ EventsDone
    BY <2>3 DEF EnterGuest, HostException, RvecReturn, EventsDone, dozeVars, loopVars
  <2>4. CASE ClearInterrupt
    BY <2>4 DEF ClearInterrupt, dozeVars
  <2>5. CASE TestRaise \/ DoRaise \/ TestLower \/ DoLower
    BY <2>5 DEF TestRaise, DoRaise, TestLower, DoLower, dozeVars, loopVars
  <2>6. CASE DozeTest
    BY <2>6 DEF DozeTest, dozeVars, loopVars
  <2>7. CASE DozeRead \/ DozeEnd
    BY <2>7 DEF DozeRead, DozeEnd, loopVars
  <2> QED BY <1>10, <2>1, <2>2, <2>3, <2>4, <2>5, <2>6, <2>7 DEF MainStep
<1>11. CASE GuestRvec
  BY <1>11 DEF GuestRvec, dozeVars
<1>12. CASE DozeAnnounce \/ DozeTimeout
  BY <1>12 DEF DozeAnnounce, DozeTimeout, dozeVars, loopVars
<1>13. CASE IpiOutsideGuest \/ UNCHANGED vars
  BY <1>13 DEF IpiOutsideGuest, vars, dozeVars, loopVars
<1> QED BY <1>1, <1>2, <1>3, <1>4, <1>5, <1>6, <1>7, <1>8, <1>9, <1>10, <1>11, <1>12, <1>13,
   Zenon DEF Next, Call, Continue, SourceHi, SourceLow

\* Both request flags are set before the flag that makes mainloop_interrupt run,
\* and mainloop_interrupt clears that flag before it reads them.
LEMMA NoticedStep ==
  Places /\ Values /\ Locking /\ RequestNoticed /\ [Next]_vars => RequestNoticed'
<1>1. SUFFICES ASSUME Places, Values, Locking, RequestNoticed, [Next]_vars
      PROVE RequestNoticed'
  OBVIOUS
<1> USE <1>1, MainAssumption
    DEF Places, Values, Locking, Actors, CallPcs, AbortPcs, DozePcs, LoopPcs,
        Goto, Done, RequestNoticed, Flagging, WillTestRaise, WillTestLower
<1>2. ASSUME NEW a \in Actors, InterruptCall(a)
      PROVE RequestNoticed'
  BY <1>2 DEF InterruptCall, CanCall, irqVars, picVars, loopVars
<1>3. ASSUME NEW a \in Actors, NEW i, SourceHi(a, i) PROVE RequestNoticed'
  BY <1>3, ZenonT(40) DEF SourceHi, SourceStep, CanCall, irqVars, picVars, loopVars
<1>4. ASSUME NEW a \in Actors, NEW i, SourceLow(a, i) PROVE RequestNoticed'
  <2>1. UNCHANGED <<interrupt, cpu_irq_raise, cpu_irq_lower, ret, r7>>
    BY <1>4 DEF SourceLow, SourceStep, irqVars, loopVars
  <2>2. pc' = [pc EXCEPT ![a] = "set_raise"] \/ pc' = [pc EXCEPT ![a] = Done(a)]
    BY <1>4, Zenon DEF SourceLow, SourceStep
  <2>3. CASE a = Main
    BY <1>4, <2>1, <2>2, <2>3 DEF SourceLow, SourceStep, CanCall
  <2>4. CASE a # Main
    BY <1>4, <2>1, <2>2, <2>4 DEF SourceLow, SourceStep, CanCall
  <2> QED BY <2>3, <2>4
<1>5. ASSUME NEW a \in Actors, SetInterrupt(a)
      PROVE RequestNoticed'
  BY <1>5 DEF SetInterrupt, AfterInterrupt, irqVars, picVars, loopVars
<1>6. ASSUME NEW a \in Actors, AbortDoze(a) \/ AbortWrite(a)
      PROVE RequestNoticed'
  <2>1. CASE AbortDoze(a)
    BY <2>1 DEF AbortDoze, irqVars, picVars, loopVars
  <2>2. CASE AbortWrite(a)
    BY <2>2 DEF AbortWrite, irqVars, picVars, loopVars
  <2> QED BY <1>6, <2>1, <2>2, Zenon
<1>7. ASSUME NEW a \in Actors, TestVirtual(a)
      PROVE RequestNoticed'
  BY <1>7 DEF TestVirtual, AfterInterrupt, irqVars, picVars, loopVars
<1>8. ASSUME NEW a \in Actors, SetRaise(a)
      PROVE RequestNoticed'
  BY <1>8 DEF SetRaise, irqVars, picVars, loopVars
<1>9. ASSUME NEW a \in Actors, SetLower(a)
      PROVE RequestNoticed'
  BY <1>9 DEF SetLower, irqVars, picVars, loopVars
<1>10. ASSUME NEW a \in Actors, Unlock(a)
      PROVE RequestNoticed'
  BY <1>10 DEF Unlock, irqVars, picVars, loopVars
<1>11. ASSUME NEW i, UnmaskIrq(i) PROVE RequestNoticed'
  BY <1>11, Zenon DEF UnmaskIrq, MaskStep, irqVars, picVars, loopVars
<1>12. ASSUME NEW i, MaskIrq(i) PROVE RequestNoticed'
  BY <1>12, Zenon DEF MaskIrq, MaskStep, irqVars, picVars, loopVars
<1>13. CASE LoadInterrupt
  BY <1>13 DEF LoadInterrupt, irqVars, picVars, loopVars
<1>14. CASE StoreVirtualMode
  BY <1>14 DEF StoreVirtualMode, irqVars, picVars, loopVars
<1>15. CASE EnterGuest \/ HostException \/ RvecReturn
  <2>1. CASE EnterGuest
    BY <2>1 DEF EnterGuest, irqVars, picVars, loopVars
  <2>2. CASE HostException
    BY <2>2 DEF HostException, irqVars, picVars, loopVars
  <2>3. CASE RvecReturn
    BY <2>3 DEF RvecReturn, irqVars, picVars, loopVars
  <2> QED BY <1>15, <2>1, <2>2, <2>3, Zenon
<1>16. CASE ClearInterrupt \/ EventsDone
  BY <1>16 DEF ClearInterrupt, EventsDone, irqVars, picVars, loopVars
<1>17. CASE TestRaise
  BY <1>17 DEF TestRaise, irqVars, picVars, loopVars
<1>18. CASE DoRaise
  BY <1>18 DEF DoRaise, irqVars, picVars, loopVars
<1>19. CASE TestLower
  BY <1>19 DEF TestLower, irqVars, picVars, loopVars
<1>20. CASE DoLower
  BY <1>20 DEF DoLower, irqVars, picVars, loopVars
<1>21. CASE DozeTest \/ DozeRead \/ DozeEnd
  <2>1. CASE DozeTest
    BY <2>1 DEF DozeTest, irqVars, picVars, loopVars
  <2>2. CASE DozeRead
    BY <2>2 DEF DozeRead, irqVars, picVars, loopVars
  <2>3. CASE DozeEnd
    BY <2>3 DEF DozeEnd, irqVars, picVars, loopVars
  <2> QED BY <1>21, <2>1, <2>2, <2>3, Zenon
<1>22. CASE GuestRvec \/ DozeAnnounce \/ DozeTimeout
  <2>1. CASE GuestRvec
    BY <2>1 DEF GuestRvec, irqVars, picVars, loopVars
  <2>2. CASE DozeAnnounce
    BY <2>2 DEF DozeAnnounce, irqVars, picVars, loopVars
  <2>3. CASE DozeTimeout
    BY <2>3 DEF DozeTimeout, irqVars, picVars, loopVars
  <2> QED BY <1>22, <2>1, <2>2, <2>3, Zenon
<1>23. CASE IpiOutsideGuest \/ UNCHANGED vars
  <2>1. CASE IpiOutsideGuest
    BY <2>1 DEF IpiOutsideGuest, irqVars, picVars, loopVars
  <2>2. CASE UNCHANGED vars
    BY <2>2 DEF vars, irqVars, picVars, loopVars
  <2> QED BY <1>23, <2>1, <2>2, Zenon
<1> QED BY <1>1, <1>2, <1>3, <1>4, <1>5, <1>6, <1>7, <1>8, <1>9, <1>10, <1>11, <1>12, <1>13,
   <1>14, <1>15, <1>16, <1>17, <1>18, <1>19, <1>20, <1>21, <1>22, <1>23, Zenon DEF Next, Call,
   Continue, MainCall, MainStep

\* A line that goes low leaves a request to lower it behind whatever raised it.
LEMMA WithdrawnStep ==
  Places /\ Values /\ Locking /\ Withdrawn /\ [Next]_vars => Withdrawn'
<1>1. SUFFICES ASSUME Places, Values, Locking, Withdrawn, [Next]_vars
      PROVE Withdrawn'
  OBVIOUS
<1> USE <1>1, MainAssumption
    DEF Places, Values, Locking, Actors, CallPcs, AbortPcs, DozePcs, LoopPcs,
        Goto, Done, Withdrawn, Lowering
<1>2. ASSUME NEW a \in Actors, InterruptCall(a)
      PROVE Withdrawn'
  BY <1>2 DEF InterruptCall, CanCall, irqVars, picVars, loopVars
<1>3. ASSUME NEW a \in Actors, NEW i, SourceHi(a, i) PROVE Withdrawn'
  BY <1>3, Zenon DEF SourceHi, SourceStep, CanCall, irqVars, picVars, loopVars
<1>4. ASSUME NEW a \in Actors, NEW i, SourceLow(a, i) PROVE Withdrawn'
  BY <1>4, Zenon DEF SourceLow, SourceStep, CanCall, irqVars, picVars, loopVars
<1>5. ASSUME NEW a \in Actors, SetInterrupt(a)
      PROVE Withdrawn'
  BY <1>5 DEF SetInterrupt, AfterInterrupt, irqVars, picVars, loopVars
<1>6. ASSUME NEW a \in Actors, AbortDoze(a) \/ AbortWrite(a)
      PROVE Withdrawn'
  <2>1. CASE AbortDoze(a)
    BY <2>1 DEF AbortDoze, irqVars, picVars, loopVars
  <2>2. CASE AbortWrite(a)
    BY <2>2 DEF AbortWrite, irqVars, picVars, loopVars
  <2> QED BY <1>6, <2>1, <2>2, Zenon
<1>7. ASSUME NEW a \in Actors, TestVirtual(a)
      PROVE Withdrawn'
  BY <1>7 DEF TestVirtual, AfterInterrupt, irqVars, picVars, loopVars
<1>8. ASSUME NEW a \in Actors, SetRaise(a)
      PROVE Withdrawn'
  BY <1>8 DEF SetRaise, irqVars, picVars, loopVars
<1>9. ASSUME NEW a \in Actors, SetLower(a)
      PROVE Withdrawn'
  BY <1>9, Zenon DEF SetLower, irqVars, picVars, loopVars
<1>10. ASSUME NEW a \in Actors, Unlock(a)
      PROVE Withdrawn'
  BY <1>10 DEF Unlock, irqVars, picVars, loopVars
<1>11. ASSUME NEW i, UnmaskIrq(i) PROVE Withdrawn'
  BY <1>11, Zenon DEF UnmaskIrq, MaskStep, irqVars, picVars, loopVars
<1>12. ASSUME NEW i, MaskIrq(i) PROVE Withdrawn'
  BY <1>12, Zenon DEF MaskIrq, MaskStep, irqVars, picVars, loopVars
<1>13. CASE LoadInterrupt
  BY <1>13 DEF LoadInterrupt, irqVars, picVars, loopVars
<1>14. CASE StoreVirtualMode
  BY <1>14 DEF StoreVirtualMode, irqVars, picVars, loopVars
<1>15. CASE EnterGuest \/ HostException \/ RvecReturn
  <2>1. CASE EnterGuest
    BY <2>1 DEF EnterGuest, irqVars, picVars, loopVars
  <2>2. CASE HostException
    BY <2>2 DEF HostException, irqVars, picVars, loopVars
  <2>3. CASE RvecReturn
    BY <2>3 DEF RvecReturn, irqVars, picVars, loopVars
  <2> QED BY <1>15, <2>1, <2>2, <2>3, Zenon
<1>16. CASE ClearInterrupt \/ EventsDone
  BY <1>16 DEF ClearInterrupt, EventsDone, irqVars, picVars, loopVars
<1>17. CASE TestRaise
  BY <1>17 DEF TestRaise, irqVars, picVars, loopVars
<1>18. CASE DoRaise
  BY <1>18 DEF DoRaise, irqVars, picVars, loopVars
<1>19. CASE TestLower
  BY <1>19 DEF TestLower, irqVars, picVars, loopVars
<1>20. CASE DoLower
  BY <1>20 DEF DoLower, irqVars, picVars, loopVars
<1>21. CASE DozeTest \/ DozeRead \/ DozeEnd
  <2>1. CASE DozeTest
    BY <2>1 DEF DozeTest, irqVars, picVars, loopVars
  <2>2. CASE DozeRead
    BY <2>2 DEF DozeRead, irqVars, picVars, loopVars
  <2>3. CASE DozeEnd
    BY <2>3 DEF DozeEnd, irqVars, picVars, loopVars
  <2> QED BY <1>21, <2>1, <2>2, <2>3, Zenon
<1>22. CASE GuestRvec \/ DozeAnnounce \/ DozeTimeout
  <2>1. CASE GuestRvec
    BY <2>1 DEF GuestRvec, irqVars, picVars, loopVars
  <2>2. CASE DozeAnnounce
    BY <2>2 DEF DozeAnnounce, irqVars, picVars, loopVars
  <2>3. CASE DozeTimeout
    BY <2>3 DEF DozeTimeout, irqVars, picVars, loopVars
  <2> QED BY <1>22, <2>1, <2>2, <2>3, Zenon
<1>23. CASE IpiOutsideGuest \/ UNCHANGED vars
  <2>1. CASE IpiOutsideGuest
    BY <2>1 DEF IpiOutsideGuest, irqVars, picVars, loopVars
  <2>2. CASE UNCHANGED vars
    BY <2>2 DEF vars, irqVars, picVars, loopVars
  <2> QED BY <1>23, <2>1, <2>2, Zenon
<1> QED BY <1>1, <1>2, <1>3, <1>4, <1>5, <1>6, <1>7, <1>8, <1>9, <1>10, <1>11, <1>12, <1>13,
   <1>14, <1>15, <1>16, <1>17, <1>18, <1>19, <1>20, <1>21, <1>22, <1>23, Zenon DEF Next, Call,
   Continue, MainCall, MainStep

-----------------------------------------------------------------------------
\* The inductive invariant of the main loop.
LInv == Places /\ Locking /\ Values /\ Counting /\ Waking /\ Line
        /\ RequestNoticed /\ Withdrawn

\* The program starts with every flag clear and the doze count at zero.
LEMMA LInvInit == Init => LInv
<1> SUFFICES ASSUME Init PROVE LInv
  OBVIOUS
<1>1. Places /\ Locking
  BY PlacesInit, LockingInit
<1>2. Values
  <2>1. /\ interrupt \in BOOLEAN /\ in_virtual_mode \in BOOLEAN /\ ipi \in BOOLEAN
        /\ irq_pending \in BOOLEAN /\ cpu_irq_raise \in BOOLEAN
        /\ cpu_irq_lower \in BOOLEAN /\ cpu_irq \in BOOLEAN /\ r7 \in BOOLEAN
    BY Zenon DEF Init
  <2>2. /\ level \subseteq Irqs /\ mask \subseteq Irqs
        /\ dozing \in Int /\ abortpipe \in Nat
    BY DEF Init
  <2> QED BY <2>1, <2>2 DEF Values
<1>3. Counting
  BY DEF Init, Counting
<1>4. Waking
  BY MainAssumption DEF Init, Waking, Actors
<1>5. Line
  BY DEF Init, Line
<1>6. RequestNoticed
  BY DEF Init, RequestNoticed
<1>7. Withdrawn
  BY MainAssumption DEF Init, Withdrawn, Actors
<1> QED BY <1>1, <1>2, <1>3, <1>4, <1>5, <1>6, <1>7 DEF LInv

\* Every step of the main thread, the guest or another thread keeps it.
LEMMA LInvStep == LInv /\ [Next]_vars => LInv'
BY PlacesStep, LockingStep, ValuesStep, CountingStep, WakingStep, LineStep, NoticedStep,
   WithdrawnStep
DEF LInv, Values

\* The invariant holds in every state of every execution, for any number of
\* threads and interrupt lines, with one processor or several.
THEOREM LoopInvariant == Spec => []LInv
BY LInvInit, LInvStep, PTL DEF Spec

\* Types of the state of mainloop.c, osi_pic.c and the doze.
THEOREM TypeCorrect == Spec => []TypeOK
<1>1. LInv => TypeOK
  BY DEF LInv, Places, Locking, Values, TypeOK
<1> QED BY <1>1, LoopInvariant, PTL

\* No wake-up is lost: doze() does not sleep in its select on a flagged
\* interrupt unless the abort byte is there or about to be written.
THEOREM WakeupsKept == Spec => []NoLostWakeup
<1>1. LInv => NoLostWakeup
  BY DEF LInv, Waking, Aborting, Writing, NoLostWakeup
<1> QED BY <1>1, LoopInvariant, PTL

\* The line osi_pic.c has cached is the masked level.
THEOREM PicLineCorrect == Spec => []PicLine
<1>1. LInv => PicLine
  BY DEF LInv, Line, PicLine
<1> QED BY <1>1, LoopInvariant, PTL

\* mainloop_interrupt leaves no request to change the CPU's line behind.
THEOREM RequestsNoticed == Spec => []RequestNoticed
BY LoopInvariant, PTL DEF LInv

\* Once nothing is under way, the CPU sees no interrupt that the controller has
\* withdrawn: the order "raise, then lower" of mainloop_interrupt errs only in
\* the other direction.
THEOREM NoIrqStuck == Spec => []NoStuckIrq
<1>1. LInv => NoStuckIrq
  <2> SUFFICES ASSUME LInv, Settled, ~cpu_irq PROVE ~irq_pending
    BY DEF NoStuckIrq
  <2>1. ~Lowering
    BY MainAssumption DEF Settled, Lowering, Actors
  <2> QED BY <2>1 DEF LInv, Withdrawn, Settled
<1> QED BY <1>1, LoopInvariant, PTL
============================================================================
