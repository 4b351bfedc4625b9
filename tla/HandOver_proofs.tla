-------------------------- MODULE HandOver_proofs --------------------------
(***************************************************************************)
(* Hand-overs between threads: the three of the SCSI controller, for any   *)
(* number of commands, cancellations, segments and overflow lists, and the *)
(* handshake of async.c between the main thread and the poll thread, on    *)
(* which its handlers and its event hang, for every set of descriptors and *)
(* every table size.                                                       *)
(***************************************************************************)
EXTENDS Scsi, TLAPS

-----------------------------------------------------------------------------
(* The SCSI controller.  Each of its hand-overs (to the guest, to the CD   *)
(* thread and back, and from a command that waits for a list to the one    *)
(* that has it) is covered by somebody who will act.                       *)

\* Ending requests raises the line or leaves the chain alone.
LEMMA CompleteRaises ==
  ASSUME NEW d, complete(d), IrqCovers
  PROVE  IrqCovers'
<1>1. CASE d = <<>>
  BY <1>1 DEF complete, completed, IrqCovers
<1>2. CASE d # <<>>
  BY <1>2 DEF complete, Raised, IrqCovers
<1> QED BY <1>1, <1>2

\* A step of the emulator keeps the invariants.
LEMMA HostKeeps ==
  ASSUME Covers, Host
  PROVE  Covers'
<1>1. CASE async_completion
  BY <1>1, CompleteRaises DEF Covers, async_completion, CdCovered, DisabledEnds, lists, cd,
     handler
<1>2. CASE CdComplete
  BY <1>2, CompleteRaises DEF Covers, CdComplete, CdCovered, DisabledEnds, lists, handler
<1>3. CASE workloop
  BY <1>3 DEF Covers, workloop, IrqCovers, CdCovered, DisabledEnds, lists, handler, completed
<1>4. CASE do_execute
  BY <1>4 DEF Covers, do_execute, IrqCovers, CdCovered, DisabledEnds, lists, handler, completed
<1>5. CASE SendAevent
  BY <1>5 DEF Covers, SendAevent, IrqCovers, CdCovered, DisabledEnds, lists, handler, completed
<1> QED BY <1>1, <1>2, <1>3, <1>4, <1>5 DEF Host

\* Submitting a command keeps the invariants of the two hand-overs it starts.
LEMMA SubmitKeeps ==
  ASSUME NEW c, NEW t, IrqCovers, CdCovered, Submit(c, t)
  PROVE  IrqCovers' /\ CdCovered'
<1>1. CASE UNCHANGED <<completed, sg, cd>>
  BY <1>1 DEF completed, cd, IrqCovers, CdCovered
<1>2. CASE complete(<<c>>) /\ UNCHANGED cd
  BY <1>2, CompleteRaises DEF cd, CdCovered
<1>3. CASE SgExecute(c) /\ UNCHANGED cd
  BY <1>3, CompleteRaises DEF SgExecute, cd, completed, IrqCovers, CdCovered
<1>4. CASE CdExecute(c) /\ UNCHANGED <<cur, done, aev, sg>>
  BY <1>4 DEF CdExecute, completed, IrqCovers, CdCovered
<1> QED BY <1>1, <1>2, <1>3, <1>4 DEF Submit

\* Executing a command keeps the invariants.
LEMMA ExecuteKeeps ==
  ASSUME Covers, executeCommand
  PROVE  Covers'
<1> DEFINE c == Head(queue)
           n == size[c]
           free == Free(n)
           t == Taken(n, free)
<1>1. ipc' = ipc
  BY DEF executeCommand, handler
<1>2. CASE /\ MustWait(n) /\ disabled' = TRUE
           /\ UNCHANGED <<lists, completed, cd>>
  BY <1>2 DEF Covers, MustWait, IrqCovers, CdCovered, DisabledEnds, lists, completed, cd
<1>3. CASE Submit(c, t) /\ ~disabled /\ UNCHANGED disabled
  BY <1>3, SubmitKeeps DEF Covers, DisabledEnds
<1>4. CASE ~disabled /\ UNCHANGED <<disabled, completed, cd>>
  BY <1>4 DEF Covers, IrqCovers, CdCovered, DisabledEnds, completed, cd
<1> QED BY <1>2, <1>3, <1>4, Zenon DEF executeCommand

\* A step of the guest keeps the invariants.
LEMMA GuestKeeps ==
  ASSUME Covers, Guest
  PROVE  Covers'
<1>1. CASE executeCommand
  BY <1>1, ExecuteKeeps
<1>2. CASE interrupt
  BY <1>2 DEF Covers, interrupt, Restarted, IrqCovers, CdCovered, DisabledEnds, cd
<1>3. CASE CompleteCommand
  BY <1>3 DEF Covers, CompleteCommand, IrqCovers, CdCovered, DisabledEnds, cd
<1>4. CASE CompleteCancel
  BY <1>4 DEF Covers, CompleteCancel, IrqCovers, CdCovered, DisabledEnds, lists, completed, cd
<1>5. CASE InterruptEnd
  BY <1>5 DEF Covers, InterruptEnd, Reenabled, IrqCovers, CdCovered, DisabledEnds, completed, cd
<1> QED BY <1>1, <1>2, <1>3, <1>4, <1>5 DEF Guest

\* Every step keeps the invariants.
LEMMA NextKeeps ==
  ASSUME Covers, [Next]_vars
  PROVE  Covers'
<1>1. CASE Host
  BY <1>1, HostKeeps
<1>2. CASE Guest
  BY <1>2, GuestKeeps
<1>3. ASSUME NEW c \in Cmds, DeviceAnswers(c) PROVE Covers'
  BY <1>3 DEF Covers, DeviceAnswers, IrqCovers, CdCovered, DisabledEnds, lists, handler,
     completed, cd
<1>4. ASSUME NEW c \in Cmds, NEW n \in Sizes, Issue(c, n) PROVE Covers'
  BY <1>4 DEF Covers, Issue, IrqCovers, CdCovered, DisabledEnds, lists, handler, completed, cd
<1>5. ASSUME NEW x \in Cancels, NEW c \in Cmds, cancelCommand(x, c) PROVE Covers'
  BY <1>5 DEF Covers, cancelCommand, IrqCovers, CdCovered, DisabledEnds, lists, handler,
     completed, cd
<1>6. CASE UNCHANGED vars
  BY <1>6 DEF Covers, vars, IrqCovers, CdCovered, DisabledEnds, lists, handler, completed, cd
<1> QED BY <1>1, <1>2, <1>3, <1>4, <1>5, <1>6 DEF Next

\* The three invariants hold of every behaviour.
THEOREM Invariance == Spec => []Covers
<1>1. Init => Covers
  BY DEF Init, Covers, IrqCovers, CdCovered, DisabledEnds
<1>2. Covers /\ [Next]_vars => Covers'
  BY NextKeeps
<1> QED BY <1>1, <1>2, PTL DEF Spec

\* A completed request is never in the chain of scsi.c with the interrupt line
\* low: osip_scsi_ack lowers the line and takes the whole chain in one call,
\* and every completion raises it again.
THEOREM NoLostInterrupt == Spec => []IrqCovers
<1>1. Covers => IrqCovers
  BY DEF Covers
<1> QED BY <1>1, Invariance, PTL

\* In cd-scsi.c no request waits without a thread and no ended request without
\* an event, though the thread may leave while a request is being queued.
THEOREM CdHandsOver == Spec => []CdCovered
<1>1. Covers => CdCovered
  BY DEF Covers
<1> QED BY <1>1, Invariance, PTL

\* The driver never holds commands back with nothing left that would make it
\* enable them.
THEOREM HoldsBackForAReason == Spec => []DisabledEnds
<1>1. Covers => DisabledEnds
  BY DEF Covers
<1> QED BY <1>1, Invariance, PTL

-----------------------------------------------------------------------------
(* The poll thread of async.c.  The contents of the handler table play no  *)
(* part in the handshake.                                                  *)

CONSTANTS
  Fds, Conditions, AevFd, MAX_NUM_HANDLERS, MAX_NUM_AEVENTS, MaxHandlerId, MaxToken, MaxQueued

VARIABLES
  handlers, ufds, npoll, npending, handlers_modified, next_handler_id,
  aevents, num_aevents, next_aevent_token, live,
  io_is_pending, cancel_thread, pipefds, ackpipe, initstate,
  mregs_interrupt, ready, ppc, mpc, mi, mop, mcall

Async == INSTANCE AsyncIO WITH interrupt <- mregs_interrupt

PollPcs == {"none", "test", "poll", "pending", "interrupt", "ack", "done"}
MainPcs == {"boot", "loop", "run", "irq", "check", "dispatch", "aevent_rx",
            "handler", "ack", "wait", "mutate", "exit", "cancel",
            "cancel_ack", "join", "closed"}

\* The types the handshake needs.
HType ==
  /\ io_is_pending \in BOOLEAN /\ cancel_thread \in BOOLEAN
  /\ ackpipe \in Nat /\ initstate \in 0..2
  /\ ppc \in PollPcs /\ mpc \in MainPcs

\* How far start-up and shut-down have come.
Phases ==
  /\ initstate = 0 <=> mpc = "closed"
  /\ initstate = 1 => /\ mpc \in {"boot", "mutate", "exit"} /\ ppc = "none"
                      /\ ~io_is_pending /\ ~cancel_thread /\ ackpipe = 0
  /\ initstate = 2 => ppc # "none" /\ mpc # "boot"
  /\ ppc = "done" => mpc \in {"join", "closed"}
  /\ cancel_thread => mpc \in {"cancel_ack", "join"}
  /\ mpc = "cancel_ack" => cancel_thread

\* Where a table operation in progress was called from.
Callers ==
  /\ mpc = "wait" => /\ initstate = 2
                     /\ mop.op # "cleanup" => mop.from \in {"run", "exit"}
  /\ mpc = "mutate" => /\ mop.from \in {"boot", "run", "handler", "exit"}
                       /\ mop.from = "boot" => initstate = 1
                       /\ mop.from \in {"run", "handler"} => initstate = 2

\* Who holds the token that lets the poll thread run: the main thread while
\* __io_is_pending is set or it is about to acknowledge, the pipe while the byte
\* is in it, the poll thread otherwise.
Token ==
  /\ mpc \in {"dispatch", "aevent_rx", "handler", "cancel", "cancel_ack"} =>
       io_is_pending
  /\ mpc = "mutate" /\ initstate = 2 => io_is_pending
  /\ mpc = "ack" => ~io_is_pending
  /\ initstate = 2 /\ mpc # "join" /\ (io_is_pending \/ mpc = "ack") =>
       ppc \in {"interrupt", "ack"} /\ ackpipe = 0
  /\ initstate = 2 /\ mpc # "join" /\ ~io_is_pending /\ mpc # "ack" =>
       \/ ppc \in {"interrupt", "ack"} /\ ackpipe = 1
       \/ ppc \in {"test", "poll", "pending"} /\ ackpipe = 0
  /\ mpc = "join" =>
       /\ io_is_pending
       /\ \/ cancel_thread /\ ppc \in {"interrupt", "ack"} /\ ackpipe = 1
          \/ cancel_thread /\ ppc = "test" /\ ackpipe = 0
          \/ ~cancel_thread /\ ppc = "done" /\ ackpipe = 0
  /\ mpc = "closed" => ppc \in {"none", "done"} /\ ackpipe = 0

HInv == HType /\ Phases /\ Callers /\ Token
-----------------------------------------------------------------------------
\* async_init leaves a state in which the handshake is set up.
LEMMA HInvInit == Async!Init => HInv
<1> SUFFICES ASSUME Async!Init PROVE HInv
  OBVIOUS
<1>1. /\ initstate = 1 /\ ackpipe = 0 /\ mpc = "boot" /\ ppc = "none"
  BY DEF Async!Init
<1>2. ~io_is_pending /\ ~cancel_thread
  BY DEF Async!Init
<1>3. io_is_pending \in BOOLEAN /\ cancel_thread \in BOOLEAN
  BY Zenon DEF Async!Init
<1> QED BY <1>1, <1>2, <1>3 DEF HInv, HType, Phases, Callers, Token, PollPcs, MainPcs

\* Every step of either thread, of a driver or of the environment keeps it.
LEMMA HInvStep == HInv /\ [Async!Next]_(Async!vars) => HInv'
<1>1. SUFFICES ASSUME HInv, [Async!Next]_(Async!vars) PROVE HInv'
  OBVIOUS
<1> USE <1>1 DEF HInv, HType, Phases, Callers, Token, PollPcs, MainPcs
<1>2. CASE Async!PollTest
  <2>1. cancel_thread' \in BOOLEAN
    BY <1>2, Zenon DEF Async!PollTest
  <2>2. CASE cancel_thread
    <3>1. ~cancel_thread' /\ ppc' = "done"
      BY <1>2, <2>2 DEF Async!PollTest
    <3> QED BY <1>2, <2>1, <2>2, <3>1 DEF Async!PollTest
  <2>3. CASE ~cancel_thread
    BY <1>2, <2>1, <2>3 DEF Async!PollTest
  <2> QED BY <2>2, <2>3
<1>3. CASE Async!PollReturn
  BY <1>3 DEF Async!PollReturn, Async!pollVars, Async!mainRest
<1>4. CASE Async!PollInterrupted
  BY <1>4 DEF Async!PollInterrupted, Async!pollVars, Async!mainRest
<1>5. CASE Async!PollSetPending
  BY <1>5 DEF Async!PollSetPending, Async!pollVars, Async!mainRest
<1>6. CASE Async!PollInterruptEmulation
  BY <1>6 DEF Async!PollInterruptEmulation, Async!pollVars, Async!mainRest
<1>7. CASE Async!PollReadAck
  BY <1>7 DEF Async!PollReadAck, Async!pollVars, Async!mainRest
<1>8. CASE Async!MainSafe
  BY <1>8 DEF Async!MainSafe, Async!pollVars, Async!mainRest
<1>9. CASE Async!MainMutate
  BY <1>9 DEF Async!MainMutate, Async!pollVars, Async!mainRest
<1>10. CASE Async!AeventRx
  BY <1>10 DEF Async!AeventRx, Async!pollVars, Async!mainRest
<1>11. CASE Async!MainTestInterrupt
  BY <1>11 DEF Async!MainTestInterrupt, Async!pollVars, Async!mainRest
<1>12. CASE Async!MainClearInterrupt
  BY <1>12 DEF Async!MainClearInterrupt, Async!pollVars, Async!mainRest
<1>13. CASE Async!GuestExit
  BY <1>13 DEF Async!GuestExit, Async!pollVars, Async!mainRest
<1>14. CASE Async!MainCheckIo
  BY <1>14 DEF Async!MainCheckIo, Async!pollVars, Async!mainRest
<1>15. CASE Async!DispatchNext
  BY <1>15 DEF Async!DispatchNext, Async!pollVars, Async!mainRest
<1>16. CASE Async!HandlerReturn
  BY <1>16 DEF Async!HandlerReturn, Async!pollVars, Async!mainRest
<1>17. CASE Async!DispatchEnd
  BY <1>17, Zenon DEF Async!DispatchEnd, Async!pollVars, Async!mainRest
<1>18. CASE Async!WriteAck
  BY <1>18 DEF Async!WriteAck, Async!pollVars, Async!mainRest
<1>19. CASE Async!MainCancel
  BY <1>19 DEF Async!MainCancel, Async!pollVars, Async!mainRest
<1>20. CASE Async!MainCancelAck
  BY <1>20 DEF Async!MainCancelAck, Async!pollVars, Async!mainRest
<1>21. CASE Async!MainJoin
  BY <1>21 DEF Async!MainJoin, Async!pollVars, Async!mainRest
<1>22. CASE Async!MainRequest
  BY <1>22 DEF Async!MainRequest, Async!WaitSafe, Async!pollVars, Async!mainRest
<1>23. CASE Async!AddAevent
  BY <1>23 DEF Async!AddAevent, Async!pollVars, Async!mainRest
<1>24. CASE Async!StartAsyncThread
  BY <1>24 DEF Async!StartAsyncThread, Async!pollVars, Async!mainRest
<1>25. CASE Async!MainQuit
  BY <1>25 DEF Async!MainQuit, Async!pollVars, Async!mainRest
<1>26. CASE Async!AsyncCleanup
  BY <1>26 DEF Async!AsyncCleanup, Async!WaitSafe, Async!pollVars, Async!mainRest
<1>27. CASE Async!Closed
  BY <1>27 DEF Async!Closed, Async!vars, Async!pollVars, Async!mainRest
<1>28. CASE \E t \in 1..MaxToken : Async!DeleteAevent(t)
  BY <1>28 DEF Async!DeleteAevent, Async!pollVars
<1>29. CASE Async!Environment
  BY <1>29 DEF Async!Environment, Async!SendAevent, Async!Arrive, Async!pollVars
<1>30. CASE UNCHANGED Async!vars
  BY <1>30 DEF Async!vars
<1> QED BY <1>1, <1>2, <1>3, <1>4, <1>5, <1>6, <1>7, <1>8, <1>9, <1>10, <1>11, <1>12, <1>13,
   <1>14, <1>15, <1>16, <1>17, <1>18, <1>19, <1>20, <1>21, <1>22, <1>23, <1>24, <1>25, <1>26,
   <1>27, <1>28, <1>29, <1>30, Zenon DEF Async!Next, Async!PollThread, Async!MainThread

\* The handshake invariant holds in every state of every execution.
THEOREM HandshakeInvariant == Async!Spec => []HInv
BY HInvInit, HInvStep, PTL DEF Async!Spec

\* The poll thread is parked whenever the main thread is in a table operation or
\* in __do_async_io: wait_safe and the order "clear __io_is_pending, then write
\* the acknowledge byte" are what protects the table.
THEOREM TableIsExclusive == Async!Spec => []Async!TableExclusive
<1>1. HInv => Async!TableExclusive
  BY DEF HInv, HType, Phases, Token, Async!TableExclusive, Async!InTable, PollPcs, MainPcs
<1> QED BY <1>1, HandshakeInvariant, PTL

\* __io_is_pending and the acknowledge pipe never get out of step: at most one
\* byte is in the pipe, none while the flag is up.
THEOREM HandshakeInStep == Async!Spec => []Async!Handshake
<1>1. HInv => Async!Handshake
  BY DEF HInv, HType, Phases, Token, Async!Handshake, PollPcs, MainPcs
<1> QED BY <1>1, HandshakeInvariant, PTL
=============================================================================
