-------------------------------- MODULE Scsi --------------------------------
(***************************************************************************)
(* The SCSI controller from end to end: the OS X driver of the guest       *)
(* (MolSCSI.cpp), the controller of the emulator (drivers/disk/scsi.c) and *)
(* its two backends, sg-scsi.c, whose answers arrive through the poll      *)
(* loop, and cd-scsi.c, whose answers come from a thread of its own.       *)
(*                                                                         *)
(* An OSI call is one step.  The guest's driver runs on one work loop, but *)
(* completing a command may call it again from inside the interrupt        *)
(* handler, so the handler is cut at every completion.  A completed        *)
(* command may be issued anew at once: its memory is reused.  A segment of *)
(* data has unit size.  CDBs, status and sense data are left out.          *)
(***************************************************************************)
EXTENDS Integers, FiniteSets, Sequences, Functions

CONSTANTS
  Cmds,           \* command objects; each has its request in its private data
  Cancels,        \* command objects for cancellations
  Sizes,          \* numbers of data segments of a command
  MAX_NUM_SG,     \* segments that fit in the request
  PAGE_EL,        \* segments that fit in an overflow list
  OverflowPages,  \* values of NUM_OVERFLOW_PAGES
  MaxLost,        \* bound on submissions that fail
  NULL

ASSUME ScsiAssumption ==
  /\ Sizes \subseteq Nat /\ OverflowPages \subseteq Nat
  /\ {MAX_NUM_SG, PAGE_EL} \subseteq Nat \ {0} /\ MaxLost \in Nat
  /\ NULL \notin Cmds /\ Cancels \cap Cmds = {}

VARIABLES
  status,         \* of a command: free, queued or active (given to the driver)
  queue,          \* commands that IOSCSIParallelController has yet to dispatch
  size,           \* number of segments of a command
  cancels,        \* cancellations chained to a command (cancel_next)
  held,           \* overflow lists chained to its request (drv_next)
  olist, inuse,   \* length of the free list _olist, and _olists_in_use
  pages,          \* overflow lists allocated so far
  disabled,       \* _is_disabled
  ipc, p, cancelp,               \* MolSCSI::interrupt and its locals
  next,           \* next_completed of a request
  first, tail,    \* first_completed, completed_tail (NULL: &first_completed)
  line,           \* the interrupt line
  sgq, answered,  \* requests queued at the sg device; answers to be read
  rqueue, worker, cur, done,     \* cd-scsi: rqueue, the thread and its request, done_queue
  aev,            \* completion_aev has been sent
  lost            \* commands whose submission returned an error

driver == <<status, queue, size, cancels>>
lists == <<held, olist, inuse, pages>>
handler == <<ipc, p, cancelp>>
completed == <<next, first, tail, line>>
sg == <<sgq, answered>>
cd == <<rqueue, worker, cur, done, aev>>
vars == <<driver, lists, disabled, handler, completed, sg, cd, lost>>

-----------------------------------------------------------------------------
(* drivers/disk/scsi.c, completion.                                        *)

\* No interrupt is asked for while the guest handles one.
Raised_Idle == line \/ ipc = "idle"

Raised == TRUE

\* The requests of the sequence d end, one after the other.  Each is linked
\* where completed_tail points.
complete(d) ==
  IF d = <<>> THEN UNCHANGED completed
  ELSE /\ next' = [c \in Cmds |->
                     IF \E i \in DOMAIN d : d[i] = c
                     THEN LET i == CHOOSE j \in DOMAIN d : d[j] = c
                          IN  IF i = Len(d) THEN NULL ELSE d[i + 1]
                     ELSE IF c = tail THEN d[1] ELSE next[c]]
       /\ first' = IF tail = NULL THEN d[1] ELSE first
       /\ tail' = d[Len(d)]
       /\ line' = Raised

\* completed_tail is left where it was.
Restarted_Not == first' = NULL /\ tail' = tail

\* The chain is handed over, and the controller starts an empty one.
Restarted == first' = NULL /\ tail' = NULL

-----------------------------------------------------------------------------
(* The backends.                                                           *)

\* sg-scsi.c, execute: the request is queued, or the write fails and the
\* request ends at once
SgExecute(c) ==
  \/ sgq' = Append(sgq, c) /\ UNCHANGED completed
  \/ complete(<<c>>) /\ UNCHANGED sgq

DeviceAnswers(c) ==
  /\ c \in Range(sgq) \ Range(answered)
  /\ answered' = Append(answered, c)
  /\ UNCHANGED <<driver, lists, disabled, handler, completed, sgq, cd, lost>>

\* The request stays queued.
unlink_req_Not(c) == sgq

unlink_req(c) == SelectSeq(sgq, LAMBDA r : r # c)

async_completion ==
  /\ answered # <<>>
  /\ answered' = Tail(answered)
  /\ sgq' = unlink_req(Head(answered))
  /\ complete(<<Head(answered)>>)
  /\ UNCHANGED <<driver, lists, disabled, handler, cd, lost>>

\* The thread is only ever started for the first request.
CdExecute_Once(c) ==
  /\ rqueue' = Append(rqueue, c)
  /\ worker' = IF worker = "none" /\ rqueue = <<>> /\ done = <<>> THEN "loop" ELSE worker
  /\ UNCHANGED completed

\* cd-scsi.c, execute
CdExecute(c) ==
  /\ rqueue' = Append(rqueue, c)
  /\ worker' = IF worker = "none" THEN "loop" ELSE worker
  /\ UNCHANGED completed

\* workloop, one turn under the lock
workloop ==
  /\ worker = "loop"
  /\ IF rqueue = <<>> THEN worker' = "none" /\ UNCHANGED <<rqueue, cur>>
     ELSE worker' = "exec" /\ cur' = Head(rqueue) /\ rqueue' = Tail(rqueue)
  /\ UNCHANGED <<driver, lists, disabled, handler, completed, sg, done, aev, lost>>

\* do_execute up to the unlock
do_execute ==
  /\ worker = "exec"
  /\ done' = Append(done, cur) /\ cur' = NULL /\ worker' = "signal"
  /\ UNCHANGED <<driver, lists, disabled, handler, completed, sg, rqueue, aev, lost>>

\* send_aevent at the end of do_execute
SendAevent ==
  /\ worker = "signal"
  /\ aev' = TRUE /\ worker' = "loop"
  /\ UNCHANGED <<driver, lists, disabled, handler, completed, sg, rqueue, cur, done, lost>>

\* complete, the handler of completion_aev
CdComplete ==
  /\ aev /\ aev' = FALSE
  /\ complete(done) /\ done' = <<>>
  /\ UNCHANGED <<driver, lists, disabled, handler, sg, rqueue, worker, cur, lost>>

-----------------------------------------------------------------------------
(* MolSCSI.cpp, scatter and gather lists.  A list that is full is followed *)
(* by an overflow list even when there are no more segments.               *)

Wanted(n) == IF n < MAX_NUM_SG THEN 0 ELSE 1 + (n - MAX_NUM_SG) \div PAGE_EL

Taken(n, free) == IF Wanted(n) < free THEN Wanted(n) ELSE free

Capacity(t) == MAX_NUM_SG + t * PAGE_EL

\* prepareDataXfer reaches the end of the data.
Covered(n, free) == n <= Capacity(Taken(n, free))

\* The element that fills a list is not counted.
ListLengths_Short(n, t) ==
  [k \in 1..(t + 1) |-> IF k = t + 1 THEN n - (IF t = 0 THEN 0 ELSE Capacity(t - 1))
                        ELSE (IF k = 1 THEN MAX_NUM_SG ELSE PAGE_EL) - 1]

\* n_el of the lists of a request with t overflow lists
ListLengths(n, t) ==
  [k \in 1..(t + 1) |-> IF k = t + 1 THEN n - (IF t = 0 THEN 0 ELSE Capacity(t - 1))
                        ELSE IF k = 1 THEN MAX_NUM_SG ELSE PAGE_EL]

\* The elements osip_scsi_submit finds when it follows the lists for nsg
\* elements: it goes on to the next list after element n_el of one, and stops
\* early at the end of the last.
Gathered(l, nsg) ==
  LET before[k \in 0..Len(l)] == IF k = 0 THEN 0 ELSE before[k - 1] + l[k]
  IN  {i \in 1..nsg : \E k \in DOMAIN l : i \in (before[k - 1] + 1)..before[k]}

-----------------------------------------------------------------------------
(* MolSCSI.cpp, commands.                                                  *)

\* IOSCSIParallelController is given a command.
Issue(c, n) ==
  /\ status[c] = "free"
  /\ status' = [status EXCEPT ![c] = "queued"]
  /\ size' = [size EXCEPT ![c] = n]
  /\ queue' = Append(queue, c)
  /\ UNCHANGED <<cancels, lists, disabled, handler, completed, sg, cd, lost>>

\* OSI_SCSISubmit, whose result the driver ignores.  The controller may lack
\* memory; a target may be absent; hack_execute_hook may end the command.
Submit(c, t) ==
  \/ /\ Cardinality(lost) < MaxLost
     /\ lost' = lost \cup {c} /\ UNCHANGED <<completed, sg, cd>>
  \/ /\ UNCHANGED lost
     /\ Gathered(ListLengths(size[c], t), size[c]) = 1..size[c]
     /\ \/ complete(<<c>>) /\ UNCHANGED <<sg, cd>>
        \/ SgExecute(c) /\ UNCHANGED <<answered, cd>>
        \/ CdExecute(c) /\ UNCHANGED <<cur, done, aev, sg>>

\* The cancellations of the last use of the command are kept.
FreshCancels_Kept(c) == cancels

FreshCancels(c) == [cancels EXCEPT ![c] = <<>>]

\* prepareDataXfer failed for want of a list: "_olist ? -1 : 1" after its own
\* lists have been released
OutOfLists(n) == ~Covered(n, olist) /\ olist = 0

\* A list is allocated when none is in use.
Free(n) == IF OutOfLists(n) THEN 1 ELSE olist

\* Commands are held back even if no command has a list to give back.
MustWait_Always(n) == OutOfLists(n)

MustWait(n) == OutOfLists(n) /\ inuse > 0

executeCommand ==
  /\ queue # <<>> /\ ~disabled
  /\ LET c == Head(queue)
         n == size[c]
         free == Free(n)
         t == Taken(n, free)
     IN  /\ cancels' = FreshCancels(c)
         /\ \/ /\ MustWait(n)
               /\ disabled' = TRUE
               /\ UNCHANGED <<status, queue, size, lists, completed, sg, cd, lost>>
            \/ /\ ~MustWait(n) /\ Covered(n, free)
               /\ Submit(c, t)
               /\ status' = [status EXCEPT ![c] = "active"]
               /\ queue' = Tail(queue)
               /\ held' = [held EXCEPT ![c] = t]
               /\ olist' = free - t /\ inuse' = inuse + t
               /\ pages' = pages + (free - olist)
               /\ UNCHANGED <<size, disabled>>
            \/ \* "Bad SCSI command", or no memory for a list
               /\ ~MustWait(n)
               /\ \/ ~Covered(n, free) /\ olist' = free
                  \/ OutOfLists(n) /\ olist' = olist
               /\ pages' = pages + (olist' - olist)
               /\ status' = [status EXCEPT ![c] = "free"]
               /\ size' = [size EXCEPT ![c] = 0]
               /\ queue' = Tail(queue)
               /\ UNCHANGED <<disabled, held, inuse, completed, sg, cd, lost>>
  /\ UNCHANGED handler

\* The cancellation waits for the command to end.
cancelCommand(x, c) ==
  /\ status[x] = "free" /\ status[c] = "active"
  /\ status' = [status EXCEPT ![x] = "active"]
  /\ cancels' = [cancels EXCEPT ![c] = <<x>> \o @]
  /\ UNCHANGED <<queue, size, lists, disabled, handler, completed, sg, cd, lost>>

-----------------------------------------------------------------------------
(* MolSCSI::interrupt.                                                     *)

\* OSI_SCSIAck
interrupt ==
  /\ ipc = "idle" /\ line
  /\ ipc' = "loop" /\ p' = first /\ line' = FALSE
  /\ Restarted
  /\ UNCHANGED <<driver, lists, disabled, cancelp, next, sg, cd, lost>>

\* The counter is taken back by one whether or not there was a list.
Released_One(c) ==
  olist' = olist + held[c] /\ inuse' = inuse - 1 /\ held' = [held EXCEPT ![c] = 0]

\* The counter is not taken back.
Released_Uncounted(c) ==
  olist' = olist + held[c] /\ inuse' = inuse /\ held' = [held EXCEPT ![c] = 0]

\* releaseOLists
Released(c) ==
  olist' = olist + held[c] /\ inuse' = inuse - held[c] /\ held' = [held EXCEPT ![c] = 0]

\* One turn of the loop, up to the completion of the command.  The memory of
\* its request is no longer the driver's; its link is forgotten.
CompleteCommand ==
  /\ ipc = "loop" /\ p # NULL /\ cancelp = <<>>
  /\ p' = next[p] /\ cancelp' = cancels[p]
  /\ Released(p)
  /\ status' = [status EXCEPT ![p] = "free"]
  /\ size' = [size EXCEPT ![p] = 0]
  /\ next' = [next EXCEPT ![p] = NULL]
  /\ UNCHANGED <<queue, cancels, pages, disabled, ipc, first, tail, line, sg, cd, lost>>

CompleteCancel ==
  /\ cancelp # <<>>
  /\ cancelp' = Tail(cancelp)
  /\ status' = [status EXCEPT ![Head(cancelp)] = "free"]
  /\ UNCHANGED <<queue, size, cancels, lists, disabled, ipc, p, completed, sg, cd, lost>>

\* Commands stay disabled.
Reenabled_Not == disabled

Reenabled == FALSE

InterruptEnd ==
  /\ ipc = "loop" /\ p = NULL /\ cancelp = <<>>
  /\ ipc' = "idle" /\ disabled' = Reenabled
  /\ UNCHANGED <<driver, lists, p, cancelp, completed, sg, cd, lost>>

-----------------------------------------------------------------------------
Init ==
  /\ status = [c \in Cmds \cup Cancels |-> "free"] /\ queue = <<>>
  /\ size = [c \in Cmds |-> 0] /\ cancels = [c \in Cmds |-> <<>>]
  /\ held = [c \in Cmds |-> 0] /\ inuse = 0
  /\ olist \in OverflowPages /\ pages = olist
  /\ disabled = FALSE /\ ipc = "idle" /\ p = NULL /\ cancelp = <<>>
  /\ next = [c \in Cmds |-> NULL] /\ first = NULL /\ tail = NULL /\ line = FALSE
  /\ sgq = <<>> /\ answered = <<>>
  /\ rqueue = <<>> /\ worker = "none" /\ cur = NULL /\ done = <<>> /\ aev = FALSE
  /\ lost = {}

Host == async_completion \/ CdComplete \/ workloop \/ do_execute \/ SendAevent

Guest == executeCommand \/ interrupt \/ CompleteCommand \/ CompleteCancel \/ InterruptEnd

Next ==
  \/ Host \/ Guest
  \/ \E c \in Cmds : DeviceAnswers(c)
  \/ \E c \in Cmds, n \in Sizes : Issue(c, n)
  \/ \E x \in Cancels, c \in Cmds : cancelCommand(x, c)

Spec == Init /\ [][Next]_vars

\* The threads and the work loop run, and devices answer or time out.
Fairness ==
  /\ WF_vars(async_completion) /\ WF_vars(CdComplete)
  /\ WF_vars(workloop \/ do_execute \/ SendAevent)
  /\ WF_vars(executeCommand)
  /\ WF_vars(interrupt \/ CompleteCommand \/ CompleteCancel \/ InterruptEnd)
  /\ \A c \in Cmds : WF_vars(DeviceAnswers(c))

FairSpec == Spec /\ Fairness

-----------------------------------------------------------------------------
(* Properties.                                                             *)

\* The requests linked through next_completed from f on, at most one more
\* than there are
Chain(f) ==
  LET n == Cardinality(Cmds)
      link[k \in 0..n] == IF k = 0 THEN f
                          ELSE IF link[k - 1] = NULL THEN NULL ELSE next[link[k - 1]]
  IN  SelectSeq([k \in 1..(n + 1) |-> link[k - 1]], LAMBDA c : c # NULL)

\* Requests the emulator works on
InFlight == sgq \o rqueue \o (IF cur = NULL THEN <<>> ELSE <<cur>>) \o done

\* Every variable has its type, an answer is read only for a request that is
\* queued at the device, and the thread has a request exactly while it works
\* on one.
TypeOK ==
  /\ status \in [Cmds \cup Cancels -> {"free", "queued", "active"}]
  /\ size \in [Cmds -> Sizes \cup {0}] /\ held \in [Cmds -> Nat]
  /\ {olist, inuse, pages} \subseteq Nat
  /\ {disabled, line, aev} \subseteq BOOLEAN
  /\ ipc \in {"idle", "loop"} /\ worker \in {"none", "loop", "exec", "signal"}
  /\ next \in [Cmds -> Cmds \cup {NULL}] /\ {p, first, tail, cur} \subseteq Cmds \cup {NULL}
  /\ (cur # NULL) <=> (worker = "exec")
  /\ Range(answered) \subseteq Range(sgq)
  /\ lost \subseteq Cmds

\* A command the guest has submitted is in exactly one place of the emulator,
\* in the chain of completed requests or in the list the interrupt handler
\* works through; nothing else is.  So no command ends twice, none is
\* forgotten, and no request is linked while its memory may be in use for
\* another command, though completion callbacks issue commands from inside
\* the handler and the two backends end theirs in any order.
OnePlace ==
  LET all == InFlight \o Chain(first) \o Chain(p)
  IN  /\ IsInjective(all)
      /\ Range(all) = {c \in Cmds : status[c] = "active"} \ lost

\* completed_tail is where the chain of completed requests ends.  After an
\* acknowledge it no longer points into the memory of the guest.
TailIsEnd ==
  tail = IF first = NULL THEN NULL ELSE LET s == Chain(first) IN s[Len(s)]

\* While a completed request is in the chain the interrupt line is high,
\* whatever the handler has acknowledged before.
IrqCovers == first # NULL => line

\* Every overflow list is either free or chained to the request of a command
\* in the driver, _olists_in_use counts the latter, and none is dropped on
\* the way through rescheduling, errors and completion.
ListsConserved ==
  LET out == FoldFunction(+, 0, held)
  IN  /\ inuse = out /\ pages = olist + out
      /\ \A c \in Cmds : held[c] > 0 => status[c] = "active"

\* The emulator finds every segment of a submitted command by following the
\* lists of the driver.
GatherWhole ==
  \A c \in Cmds : status[c] = "active" =>
    Gathered(ListLengths(size[c], held[c]), size[c]) = 1..size[c]

\* A cancellation that has not ended is chained to exactly one command in the
\* driver or is about to be ended by the handler, and no other one is: none is
\* forgotten or ended twice, however the command's memory is used again.
CancelsHeld ==
  \A x \in Cancels :
    LET chained == {ci \in Cmds \X (1..Cardinality(Cancels)) :
                      /\ status[ci[1]] = "active" /\ ci[2] \in DOMAIN cancels[ci[1]]
                      /\ cancels[ci[1]][ci[2]] = x}
        ending == {i \in DOMAIN cancelp : cancelp[i] = x}
    IN  Cardinality(chained) + Cardinality(ending) = IF status[x] = "active" THEN 1 ELSE 0

\* A request a CD thread has yet to start has a thread, and one it has ended
\* has its event sent or about to be sent.
CdCovered ==
  /\ rqueue # <<>> => worker # "none"
  /\ done # <<>> => aev \/ worker = "signal"

\* Commands are held back only while a list is in use, whose command enables
\* them again when it completes, or the handler that does so runs.  (A command
\* the emulator refused never completes: its lists stay in use.)
DisabledEnds ==
  disabled => inuse > 0 \/ ipc = "loop"

\* Every command and every cancellation ends, rescheduled ones too, unless
\* the emulator refused a submission.
CommandsEnd ==
  \A c \in Cmds \cup Cancels : status[c] # "free" ~> (status[c] = "free" \/ lost # {})

\* The chain of completed requests is intact: types, every command in one
\* place, and completed_tail at the end of the chain (scsi.c 137-140).
ChainIntact == TypeOK /\ OnePlace /\ TailIsEnd

\* What hangs on a request is intact: overflow lists are neither lost nor
\* doubled, the controller finds all segments, cancellations are kept.
ListsIntact == ListsConserved /\ GatherWhole /\ CancelsHeld

\* Each hand-over is covered by somebody who will act: completed requests by
\* the line, requests of the CD by its thread or an event, commands that are
\* held back by a list in use or by the handler that runs.
Covers == IrqCovers /\ CdCovered /\ DisabledEnds
=============================================================================
