------------------------------ MODULE AsyncIO ------------------------------
(***************************************************************************)
(* The asynchronous I/O layer (main/async.c): a table of file-descriptor   *)
(* handlers shared by the main thread, which owns it, and the poll thread, *)
(* which sleeps in poll() on it.  There is no lock.  The table may be read *)
(* or changed by the main thread only while the poll thread is parked on   *)
(* the acknowledge pipe; wait_safe() gets it there.                        *)
(*                                                                         *)
(* Array indices are one higher than in C.  handlers[i] is the id of entry *)
(* i (it stands for the proc as well), ufds[i] its pollfd.                 *)
(***************************************************************************)
EXTENDS Integers, Sequences, FiniteSetsExt

CONSTANTS
  Fds,                \* descriptors drivers register
  Conditions,         \* poll conditions that occur: "IN" and perhaps "HUP"
  AevFd,              \* the read end of as.pipefds
  MAX_NUM_HANDLERS,   \* size of the handler table
  MAX_NUM_AEVENTS,    \* size of the aevent table
  MaxHandlerId,       \* bound: handler ids given out
  MaxToken,           \* bound: aevent tokens given out
  MaxQueued           \* bound: bytes other threads have in the aevent pipe

ASSUME AevFdAssumption == AevFd \notin Fds
ASSUME ConditionsAssumption == {"IN"} \subseteq Conditions
ASSUME BoundsAssumption ==
  /\ MAX_NUM_HANDLERS \in Nat \ {0} /\ MAX_NUM_AEVENTS \in Nat
  /\ MaxHandlerId \in Nat /\ MaxToken \in Nat /\ MaxQueued \in Nat

VARIABLES
  handlers, ufds, npoll, npending, handlers_modified, next_handler_id,
  aevents, num_aevents, next_aevent_token, live,
  io_is_pending, cancel_thread, pipefds, ackpipe, initstate,
  interrupt,          \* mregs->interrupt
  ready,              \* the conditions that hold on each descriptor
  ppc,                \* program counter of the poll thread
  mpc, mi, mop, mcall \* the main thread: pc, loop index, table operation
                      \* in progress, handler being run

tableVars  == <<handlers, ufds, npoll, handlers_modified, next_handler_id>>
aeventVars == <<aevents, num_aevents, next_aevent_token, live>>
vars == <<tableVars, npending, aeventVars, io_is_pending, cancel_thread,
          pipefds, ackpipe, initstate, interrupt, ready, ppc,
          mpc, mi, mop, mcall>>

EventSets == SUBSET Conditions
NoOp   == [op |-> "none", from |-> "run"]
NoCall == [fd |-> AevFd, token |-> 0, budget |-> 0]

-----------------------------------------------------------------------------
(* The handler table.                                                      *)

Active(u) == u.events # {}

Swap(s, i, j) == [s EXCEPT ![i] = s[j], ![j] = s[i]]

\* One round of permute_inactive: an inactive entry changes places with the
\* first active one behind it.
PermuteStep(u, p, i) ==
  LET later == {j \in (i+1)..Len(p) : Active(u[p[j]])}
  IN  IF Active(u[p[i]]) \/ later = {} THEN p ELSE Swap(p, i, Min(later))

Permutation(u) ==
  LET after[i \in 0..Len(u)] == IF i = 0 THEN [j \in 1..Len(u) |-> j]
                                ELSE PermuteStep(u, after[i - 1], i)
  IN  after[Len(u)]

\* Mutant: inactive entries are polled too.
LeadingActive_All(u) ==
  Len(u)

\* Mutant: the search for the first inactive entry ends one too far.
LeadingActive_PastEnd(u) ==
  1 + Max({n \in 0..Len(u) : \A i \in 1..n : Active(u[i])})

\* The number of leading active entries.
LeadingActive(u) ==
  Max({n \in 0..Len(u) : \A i \in 1..n : Active(u[i])})

permute_inactive(h, u) ==
  LET p  == Permutation(u)
      pu == [i \in 1..Len(u) |-> u[p[i]]]
  IN  /\ ufds' = pu
      /\ handlers' = [i \in 1..Len(h) |-> h[p[i]]]
      /\ npoll' = LeadingActive(pu)
      /\ handlers_modified' = TRUE

IndexOf(id) ==
  LET I == {i \in 1..Len(handlers) : handlers[i] = id}
  IN  IF I = {} THEN 0 ELSE Min(I)

\* The part of add_async_handler after wait_safe; fcntl() may fail.
AddEntry(o) ==
  \/ /\ permute_inactive(Append(handlers, next_handler_id),
                         Append(ufds, [fd |-> o.fd, events |-> o.events,
                                       revents |-> {}]))
     /\ next_handler_id' = next_handler_id + 1
  \/ UNCHANGED tableVars

\* The part of delete_async_handler after wait_safe.
DeleteEntry(o) ==
  LET i == IndexOf(o.id)
      Rest(s) == SubSeq(s, 1, i - 1) \o SubSeq(s, i + 1, Len(s))
  IN  IF i = 0 THEN UNCHANGED tableVars
      ELSE /\ permute_inactive(Rest(handlers), Rest(ufds))
           /\ UNCHANGED next_handler_id

\* The part of set_async_handler_events after wait_safe.
SetEntry(o) ==
  LET i == IndexOf(o.id)
      u == IF i = 0 THEN ufds ELSE [ufds EXCEPT ![i].events = o.events]
  IN  permute_inactive(handlers, u) /\ UNCHANGED next_handler_id

-----------------------------------------------------------------------------
(* The poll thread.                                                        *)

Readiness(fd) ==
  IF fd = AevFd THEN (IF pipefds = <<>> THEN {} ELSE {"IN"}) ELSE ready[fd]

\* What poll() stores in revents: the requested conditions, and a hang-up
\* whether it was requested or not.
Reported(u) == Readiness(u.fd) \cap (u.events \cup {"HUP"})

PollTest ==
  /\ ppc = "test"
  /\ IF cancel_thread
     THEN ppc' = "done" /\ cancel_thread' = FALSE
     ELSE ppc' = "poll" /\ UNCHANGED cancel_thread
  /\ UNCHANGED <<tableVars, npending, aeventVars, io_is_pending, pipefds,
                 ackpipe, initstate, interrupt, ready, mpc, mi, mop, mcall>>

PollReturn ==
  /\ ppc = "poll"
  /\ \E i \in 1..npoll : Reported(ufds[i]) # {}
  /\ npending' = Cardinality({i \in 1..npoll : Reported(ufds[i]) # {}})
  /\ ufds' = [i \in DOMAIN ufds |->
                IF i \in 1..npoll
                THEN [ufds[i] EXCEPT !.revents = Reported(ufds[i])]
                ELSE ufds[i]]
  /\ ppc' = "pending"
  /\ UNCHANGED <<handlers, npoll, handlers_modified, next_handler_id,
                 aeventVars, io_is_pending, cancel_thread, pipefds, ackpipe,
                 initstate, interrupt, ready, mpc, mi, mop, mcall>>

\* poll() interrupted by a signal; Linux reports ready descriptors first.
PollInterrupted ==
  /\ ppc = "poll"
  /\ \A i \in 1..npoll : Reported(ufds[i]) = {}
  /\ npending' = -1
  /\ ppc' = "test"
  /\ UNCHANGED <<tableVars, aeventVars, io_is_pending, cancel_thread, pipefds,
                 ackpipe, initstate, interrupt, ready, mpc, mi, mop, mcall>>

PollSetPending ==
  /\ ppc = "pending"
  /\ io_is_pending' = TRUE
  /\ ppc' = "interrupt"
  /\ UNCHANGED <<tableVars, npending, aeventVars, cancel_thread, pipefds,
                 ackpipe, initstate, interrupt, ready, mpc, mi, mop, mcall>>

\* Mutant: the main thread is not interrupted.
PollInterruptEmulation_None ==
  /\ ppc = "interrupt"
  /\ UNCHANGED interrupt
  /\ ppc' = "ack"
  /\ UNCHANGED <<tableVars, npending, aeventVars, io_is_pending, cancel_thread,
                 pipefds, ackpipe, initstate, ready, mpc, mi, mop, mcall>>

PollInterruptEmulation ==
  /\ ppc = "interrupt"
  /\ interrupt' = TRUE
  /\ ppc' = "ack"
  /\ UNCHANGED <<tableVars, npending, aeventVars, io_is_pending, cancel_thread,
                 pipefds, ackpipe, initstate, ready, mpc, mi, mop, mcall>>

PollReadAck ==
  /\ ppc = "ack"
  /\ ackpipe > 0
  /\ ackpipe' = ackpipe - 1
  /\ ppc' = "test"
  /\ UNCHANGED <<tableVars, npending, aeventVars, io_is_pending, cancel_thread,
                 pipefds, initstate, interrupt, ready, mpc, mi, mop, mcall>>

PollThread ==
  \/ PollTest \/ PollReturn \/ PollInterrupted \/ PollSetPending
  \/ PollInterruptEmulation \/ PollReadAck
-----------------------------------------------------------------------------
(* The main thread: calls of the handler API.                              *)

pollVars == <<ppc, npending, cancel_thread, ackpipe>>

\* The requests a driver may make: ids are the ones add_async_handler returned
\* (1 belongs to the aevent pipe and is never handed out), in use or stale.
Requests ==
  LET ids == 2..(next_handler_id - 1)
      evs == {E \in EventSets : E # {} => "IN" \in E}
  IN  [op : {"delete"}, id : ids] \cup [op : {"set"}, id : ids, events : evs]
      \cup (IF Len(handlers) < MAX_NUM_HANDLERS
               /\ next_handler_id <= MaxHandlerId
            THEN {[op |-> "add", fd |-> f, events |-> e] :
                    f \in Fds \ {ufds[i].fd : i \in DOMAIN ufds}, e \in evs}
            ELSE {})

\* Mutant: the poll thread is woken but not waited for.
WaitSafe_NoSpin(o, next) ==
  /\ mop' = o
  /\ IF initstate = 2 /\ ~io_is_pending
     THEN pipefds' = Append(pipefds, 0) /\ mpc' = next
     ELSE UNCHANGED pipefds /\ mpc' = next

\* Mutant: the poll thread is waited for but not woken.
WaitSafe_NoWakeup(o, next) ==
  /\ mop' = o
  /\ IF initstate = 2 /\ ~io_is_pending
     THEN UNCHANGED pipefds /\ mpc' = "wait"
     ELSE UNCHANGED pipefds /\ mpc' = next

\* wait_safe on entry: unless the poll thread is parked already, wake it.
WaitSafe(o, next) ==
  /\ mop' = o
  /\ IF initstate = 2 /\ ~io_is_pending
     THEN pipefds' = Append(pipefds, 0) /\ mpc' = "wait"
     ELSE UNCHANGED pipefds /\ mpc' = next

\* A driver calls add_, delete_ or set_async_handler..., during boot, from a
\* guest request, from a handler (one call per handler), or while exiting.
MainRequest ==
  /\ mpc \in {"boot", "run", "handler", "exit"}
  /\ mpc = "handler" => mcall.budget > 0
  /\ \E r \in Requests :
       /\ mpc = "exit" => r.op = "delete"
       /\ WaitSafe([op |-> r.op, from |-> mpc, arg |-> r], "mutate")
  /\ UNCHANGED <<tableVars, pollVars, aeventVars, io_is_pending, initstate,
                 interrupt, ready, mi, mcall>>

\* The spin in wait_safe ends.
MainSafe ==
  /\ mpc = "wait"
  /\ io_is_pending
  /\ mpc' = IF mop.op = "cleanup" THEN "cancel" ELSE "mutate"
  /\ UNCHANGED <<tableVars, pollVars, aeventVars, io_is_pending, pipefds,
                 initstate, interrupt, ready, mi, mop, mcall>>

MainMutate ==
  /\ mpc = "mutate"
  /\ CASE mop.op = "add"    -> AddEntry(mop.arg)
       [] mop.op = "delete" -> DeleteEntry(mop.arg)
       [] mop.op = "set"    -> SetEntry(mop.arg)
  /\ mpc' = IF mop.from = "run" THEN "loop" ELSE mop.from
  /\ mcall' = IF mop.from = "handler" THEN [mcall EXCEPT !.budget = 0] ELSE mcall
  /\ mop' = NoOp
  /\ UNCHANGED <<pollVars, aeventVars, io_is_pending, pipefds, initstate,
                 interrupt, ready, mi>>

-----------------------------------------------------------------------------
(* The main thread: asynchronous events.                                   *)

\* add_aevent_handler: a token beyond the last one is spent but not entered.
AddAevent ==
  /\ mpc \in {"boot", "run"}
  /\ num_aevents < MAX_NUM_AEVENTS
  /\ next_aevent_token <= MaxToken + 1
  /\ aevents' = [aevents EXCEPT ![num_aevents + 1] = next_aevent_token]
  /\ next_aevent_token' = next_aevent_token + 1
  /\ IF next_aevent_token > MaxToken
     THEN UNCHANGED <<num_aevents, live>>
     ELSE /\ num_aevents' = num_aevents + 1
          /\ live' = live \cup {next_aevent_token}
  /\ UNCHANGED <<tableVars, pollVars, io_is_pending, pipefds, initstate,
                 interrupt, ready, mpc, mi, mop, mcall>>

TokenIndex(t) ==
  LET I == {i \in 1..num_aevents : aevents[i] = t}
  IN  IF I = {} THEN 0 ELSE Min(I)

\* Mutant: the table is shortened without closing the gap.
DeleteAevent_NotMoved(t) ==
  /\ mpc \in {"boot", "run"}
  /\ LET k == TokenIndex(t)
     IN  aevents' = [i \in DOMAIN aevents |->
                       IF FALSE
                       THEN aevents[i + 1] ELSE aevents[i]]
  /\ num_aevents' = IF TokenIndex(t) = 0 THEN num_aevents ELSE num_aevents - 1
  /\ live' = live \ {t}
  /\ UNCHANGED <<tableVars, pollVars, next_aevent_token,
                 io_is_pending, pipefds, initstate, interrupt, ready, mpc, mi,
                 mop, mcall>>

\* delete_aevent_handler closes the gap and leaves num_aevents alone: the last
\* slot keeps its contents.
DeleteAevent(t) ==
  /\ mpc \in {"boot", "run"}
  /\ LET k == TokenIndex(t)
     IN  aevents' = [i \in DOMAIN aevents |->
                       IF k # 0 /\ i >= k /\ i < num_aevents
                       THEN aevents[i + 1] ELSE aevents[i]]
  /\ live' = live \ {t}
  /\ UNCHANGED <<tableVars, pollVars, num_aevents, next_aevent_token,
                 io_is_pending, pipefds, initstate, interrupt, ready, mpc, mi,
                 mop, mcall>>

\* send_aevent from any other thread, with a token it was given.
SendAevent(t) ==
  /\ initstate > 0
  /\ t \in live
  /\ Len(pipefds) < MaxQueued
  /\ pipefds' = Append(pipefds, t)
  /\ UNCHANGED <<tableVars, pollVars, aeventVars, io_is_pending, initstate,
                 interrupt, ready, mpc, mi, mop, mcall>>

\* aevent_rx: one byte is read; 0 only wakes the poll thread, a token is
\* looked up and its handler called.
AeventRx ==
  /\ mpc = "aevent_rx"
  /\ IF pipefds = <<>>
     THEN UNCHANGED <<pipefds, mcall>>
     ELSE LET t == Head(pipefds)
              found == t # 0 /\ TokenIndex(t) # 0
          IN  /\ pipefds' = Tail(pipefds)
              /\ mcall' = [mcall EXCEPT !.token = IF found THEN t ELSE 0,
                                        !.budget = IF found THEN 1 ELSE 0]
  /\ mpc' = "handler"
  /\ UNCHANGED <<tableVars, pollVars, aeventVars, io_is_pending, initstate,
                 interrupt, ready, mi, mop>>

-----------------------------------------------------------------------------
(* The main thread: the loop around the guest, and __do_async_io.          *)

mainRest == <<pollVars, aeventVars, pipefds, initstate, ready>>

\* start_async_thread
StartAsyncThread ==
  /\ mpc = "boot"
  /\ initstate' = 2
  /\ ppc' = "test"
  /\ mpc' = "loop"
  /\ UNCHANGED <<tableVars, npending, cancel_thread, ackpipe, aeventVars,
                 io_is_pending, pipefds, interrupt, ready, mi, mop, mcall>>

\* The loop in mainloop_asm.S tests mregs->interrupt before every entry.
MainTestInterrupt ==
  /\ mpc = "loop"
  /\ mpc' = IF interrupt THEN "irq" ELSE "run"
  /\ UNCHANGED <<tableVars, mainRest, io_is_pending, interrupt, mi, mop, mcall>>

\* mainloop_interrupt clears the flag before it looks at any event source.
MainClearInterrupt ==
  /\ mpc = "irq"
  /\ interrupt' = FALSE
  /\ mpc' = "check"
  /\ UNCHANGED <<tableVars, mainRest, io_is_pending, mi, mop, mcall>>

\* The guest gives control back without a table request.
GuestExit ==
  /\ mpc = "run"
  /\ mpc' = "loop"
  /\ UNCHANGED <<tableVars, mainRest, io_is_pending, interrupt, mi, mop, mcall>>

MainCheckIo ==
  /\ mpc = "check"
  /\ mpc' = IF io_is_pending THEN "dispatch" ELSE "loop"
  /\ mi' = 1
  /\ UNCHANGED <<tableVars, mainRest, io_is_pending, interrupt, mop, mcall>>

Due(i) == ufds[i].revents \cap ufds[i].events

\* Mutant: revents is not cleared before the handler runs.
DispatchNext_KeepRevents ==
  /\ mpc = "dispatch"
  /\ mi <= npoll /\ npending > 0
  /\ IF Due(mi) = {}
     THEN mi' = mi + 1 /\ UNCHANGED <<tableVars, npending, mpc, mcall>>
     ELSE /\ npending' = npending - 1
          /\ UNCHANGED ufds
          /\ handlers_modified' = FALSE
          /\ mcall' = [fd |-> ufds[mi].fd, token |-> 0, budget |-> 1]
          /\ mpc' = IF handlers[mi] = 1 THEN "aevent_rx" ELSE "handler"
          /\ UNCHANGED <<handlers, npoll, next_handler_id, mi>>
  /\ UNCHANGED <<ppc, cancel_thread, ackpipe, aeventVars, pipefds, initstate,
                 ready, io_is_pending, interrupt, mop>>

DispatchNext ==
  /\ mpc = "dispatch"
  /\ mi <= npoll /\ npending > 0
  /\ IF Due(mi) = {}
     THEN mi' = mi + 1 /\ UNCHANGED <<tableVars, npending, mpc, mcall>>
     ELSE /\ npending' = npending - 1
          /\ ufds' = [ufds EXCEPT ![mi].revents = {}]
          /\ handlers_modified' = FALSE
          /\ mcall' = [fd |-> ufds[mi].fd, token |-> 0, budget |-> 1]
          /\ mpc' = IF handlers[mi] = 1 THEN "aevent_rx" ELSE "handler"
          /\ UNCHANGED <<handlers, npoll, next_handler_id, mi>>
  /\ UNCHANGED <<ppc, cancel_thread, ackpipe, aeventVars, pipefds, initstate,
                 ready, io_is_pending, interrupt, mop>>

\* The handler returns; it may or may not have read what was there.  The loop
\* variable is cleared when the table was changed, then incremented.
HandlerReturn ==
  /\ mpc = "handler"
  /\ mi' = IF handlers_modified THEN 2 ELSE mi + 1
  /\ handlers_modified' = FALSE
  /\ \/ UNCHANGED ready
     \/ /\ mcall.fd \in Fds
        /\ ready' = [ready EXCEPT ![mcall.fd] = @ \ {"IN"}]
  /\ mpc' = "dispatch"
  /\ mcall' = NoCall
  /\ UNCHANGED <<handlers, ufds, npoll, next_handler_id, pollVars, aeventVars,
                 pipefds, initstate, io_is_pending, interrupt, mop>>

\* Mutant: the pending flag is not reset before the acknowledge.
DispatchEnd_FlagKept ==
  /\ mpc = "dispatch"
  /\ ~(mi <= npoll /\ npending > 0)
  /\ UNCHANGED io_is_pending
  /\ mpc' = "ack" /\ mi' = 1
  /\ UNCHANGED <<tableVars, mainRest, interrupt, mop, mcall>>

DispatchEnd ==
  /\ mpc = "dispatch"
  /\ ~(mi <= npoll /\ npending > 0)
  /\ io_is_pending' = FALSE
  /\ mpc' = "ack" /\ mi' = 1
  /\ UNCHANGED <<tableVars, mainRest, interrupt, mop, mcall>>

WriteAck ==
  /\ mpc = "ack"
  /\ ackpipe' = ackpipe + 1
  /\ mpc' = "loop"
  /\ UNCHANGED <<tableVars, ppc, npending, cancel_thread, aeventVars, pipefds,
                 initstate, ready, io_is_pending, interrupt, mi, mop, mcall>>

-----------------------------------------------------------------------------
(* The main thread: shutting down.                                         *)

\* The main loop ends (or booting fails); do_cleanup starts.
MainQuit ==
  /\ mpc \in {"boot", "loop"}
  /\ mpc' = "exit"
  /\ UNCHANGED <<tableVars, mainRest, io_is_pending, interrupt, mi, mop, mcall>>

\* async_cleanup
AsyncCleanup ==
  /\ mpc = "exit"
  /\ IF initstate > 1
     THEN /\ WaitSafe([op |-> "cleanup", from |-> "exit"], "cancel")
          /\ UNCHANGED initstate
     ELSE mpc' = "closed" /\ initstate' = 0 /\ UNCHANGED <<mop, pipefds>>
  /\ UNCHANGED <<tableVars, pollVars, aeventVars, io_is_pending, interrupt,
                 ready, mi, mcall>>

\* Mutant: the poll thread is let go without being told to leave.
MainCancel_NoFlag ==
  /\ mpc = "cancel"
  /\ UNCHANGED cancel_thread
  /\ mpc' = "cancel_ack"
  /\ UNCHANGED <<tableVars, ppc, npending, ackpipe, aeventVars, pipefds,
                 initstate, ready, io_is_pending, interrupt, mi, mop, mcall>>

MainCancel ==
  /\ mpc = "cancel"
  /\ cancel_thread' = TRUE
  /\ mpc' = "cancel_ack"
  /\ UNCHANGED <<tableVars, ppc, npending, ackpipe, aeventVars, pipefds,
                 initstate, ready, io_is_pending, interrupt, mi, mop, mcall>>

MainCancelAck ==
  /\ mpc = "cancel_ack"
  /\ ackpipe' = ackpipe + 1
  /\ mpc' = "join"
  /\ UNCHANGED <<tableVars, ppc, npending, cancel_thread, aeventVars, pipefds,
                 initstate, ready, io_is_pending, interrupt, mi, mop, mcall>>

MainJoin ==
  /\ mpc = "join"
  /\ ~cancel_thread
  /\ mpc' = "closed"
  /\ initstate' = 0
  /\ UNCHANGED <<tableVars, pollVars, aeventVars, pipefds, ready,
                 io_is_pending, interrupt, mi, mop, mcall>>

Closed == mpc = "closed" /\ UNCHANGED vars

MainThread ==
  \/ MainSafe \/ MainMutate \/ AeventRx \/ MainTestInterrupt
  \/ MainClearInterrupt \/ GuestExit
  \/ MainCheckIo \/ DispatchNext \/ HandlerReturn \/ DispatchEnd \/ WriteAck
  \/ MainCancel \/ MainCancelAck \/ MainJoin

-----------------------------------------------------------------------------
(* The environment: data arrives, the peer hangs up.                       *)

Arrive(fd, e) ==
  /\ e \notin ready[fd]
  /\ ready' = [ready EXCEPT ![fd] = @ \cup {e}]
  /\ UNCHANGED <<tableVars, pollVars, aeventVars, pipefds, initstate,
                 io_is_pending, interrupt, mpc, mi, mop, mcall>>

\* The state async_init leaves.
Init ==
  /\ handlers = <<1>>
  /\ ufds = <<[fd |-> AevFd, events |-> {"IN"}, revents |-> {}]>>
  /\ npoll = 1 /\ npending = 0
  /\ handlers_modified = TRUE /\ next_handler_id = 2
  /\ aevents = [i \in 1..MAX_NUM_AEVENTS |-> 0]
  /\ num_aevents = 0 /\ next_aevent_token = 1 /\ live = {}
  /\ io_is_pending = FALSE /\ cancel_thread = FALSE
  /\ pipefds = <<>> /\ ackpipe = 0 /\ initstate = 1
  /\ interrupt = FALSE
  /\ ready = [fd \in Fds |-> {}]
  /\ ppc = "none"
  /\ mpc = "boot" /\ mi = 1 /\ mop = NoOp /\ mcall = NoCall

Environment ==
  \/ \E t \in 1..MaxToken : SendAevent(t)
  \/ \E fd \in Fds, e \in Conditions : Arrive(fd, e)

Next ==
  \/ PollThread \/ MainThread \/ Environment
  \/ MainRequest \/ AddAevent \/ (\E t \in 1..MaxToken : DeleteAevent(t))
  \/ StartAsyncThread \/ MainQuit \/ AsyncCleanup \/ Closed

Spec == Init /\ [][Next]_vars

\* Both threads are scheduled; nothing is asked of drivers, guest and devices.
FairSpec == Spec /\ WF_vars(PollThread) /\ WF_vars(MainThread)

-----------------------------------------------------------------------------
(* Properties.                                                             *)

\* Type invariant of the layer's state.
TypeOK ==
  /\ handlers \in Seq(1..(next_handler_id - 1))
  /\ ufds \in Seq([fd : Fds \cup {AevFd}, events : EventSets,
                   revents : EventSets])
  /\ Len(handlers) = Len(ufds) /\ Len(ufds) <= MAX_NUM_HANDLERS
  /\ npoll \in 0..Len(ufds)
  /\ npending \in Int /\ mi \in Nat
  /\ handlers_modified \in BOOLEAN /\ next_handler_id \in Nat
  /\ aevents \in [1..MAX_NUM_AEVENTS -> Nat]
  /\ num_aevents \in 0..MAX_NUM_AEVENTS /\ next_aevent_token \in Nat
  /\ io_is_pending \in BOOLEAN /\ cancel_thread \in BOOLEAN
  /\ interrupt \in BOOLEAN
  /\ pipefds \in Seq(Nat) /\ ackpipe \in Nat /\ initstate \in 0..2
  /\ ready \in [Fds -> EventSets]
  /\ ppc \in {"none", "test", "poll", "pending", "interrupt", "ack", "done"}
  /\ mpc \in {"boot", "loop", "run", "irq", "check", "dispatch", "aevent_rx",
              "handler", "ack", "wait", "mutate", "exit", "cancel",
              "cancel_ack", "join", "closed"}

\* The main thread is where it reads or writes the handler table.
InTable == mpc \in {"mutate", "dispatch", "aevent_rx", "handler"}

\* The handler table has no lock: whenever the main thread is inside
\* permute_inactive, a table change or the dispatch loop, the poll thread is not
\* between entering poll() and setting __io_is_pending.
TableExclusive == InTable => ppc \in {"none", "interrupt", "ack"}

\* __io_is_pending and the acknowledge pipe stay in step: while the flag is up
\* the poll thread is parked and no acknowledge byte is waiting that would let
\* it go early; while it is down and the thread sits in the read(), a byte is
\* there or the main thread is about to write it.
Handshake ==
  /\ io_is_pending /\ mpc \notin {"join", "closed"} =>
       ppc \in {"interrupt", "ack"} /\ ackpipe = 0
  /\ ~io_is_pending /\ ppc \in {"interrupt", "ack"} =>
       ackpipe = 1 \/ mpc = "ack"
  /\ ackpipe <= 1

\* permute_inactive leaves exactly the active entries in the part of the table
\* that poll() sees, and entry and pollfd of the aevent pipe stay at the front.
PolledAreActive ==
  /\ \A i \in DOMAIN ufds : Active(ufds[i]) <=> i <= npoll
  /\ handlers[1] = 1 /\ ufds[1].fd = AevFd
  /\ \A i, j \in DOMAIN handlers : handlers[i] = handlers[j] => i = j

\* __do_async_io restarts behind entry 0 when a handler changed the table.  The
\* entry it steps over never holds an event that is still to be delivered.
RestartSkipsNothing == mpc = "dispatch" /\ mi > 1 => Due(1) = {}

\* An event sent for a registered aevent handler is delivered to it when its
\* byte is read, whatever was added or deleted in the table since.
LiveTokenDelivered ==
  [][\A t \in live :
       AeventRx /\ pipefds # <<>> /\ Head(pipefds) = t => mcall'.token = t]_vars

\* wait_safe always comes back: the poll thread answers the wake-up byte.
WaitSafeReturns == mpc = "wait" ~> mpc # "wait"

\* async_cleanup gets the poll thread to leave before the pipes are closed.
CleanupTerminates == mpc = "cancel" ~> (mpc = "closed" /\ ppc = "done")

Requested(fd, e) ==
  \E i \in DOMAIN ufds : ufds[i].fd = fd /\ e \in ufds[i].events

\* Input on a descriptor reaches the handler that asked for it, unless the
\* handler loses interest or MOL exits first.
InputServed ==
  \A fd \in Fds :
    (Requested(fd, "IN") /\ "IN" \in ready[fd] /\ mpc = "loop")
      ~> \/ mpc = "handler" /\ mcall.fd = fd
         \/ ~Requested(fd, "IN")
         \/ mpc = "exit"

\* async.h on set_async_handler_events: POLLHUP and POLLERR can not be masked,
\* so a hang-up reaches the handler whatever events it asked for.
HangupServed ==
  \A fd \in Fds :
    ((\E i \in DOMAIN ufds : ufds[i].fd = fd) /\ "HUP" \in ready[fd]
       /\ mpc = "loop")
      ~> \/ mpc = "handler" /\ mcall.fd = fd
         \/ ~ \E i \in DOMAIN ufds : ufds[i].fd = fd
         \/ mpc = "exit"

\* The handler table is intact: it has its type, its active entries are the
\* ones polled, and flag, pipe and thread agree on who may run (async.c 69-79).
TableIntact == TypeOK /\ PolledAreActive /\ Handshake
=============================================================================
