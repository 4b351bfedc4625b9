-------------------------------- MODULE ABlk --------------------------------
(***************************************************************************)
(* The asynchronous block device: the engine and OSI calls of              *)
(* drivers/disk/ablk.c against the transport layer of the OS X driver,     *)
(* MolBlockDriver.  They share a descriptor ring in guest memory, a        *)
(* request count and the interrupt line; they run on different host        *)
(* threads (the guest and its OSI calls on the main thread, do_work on the *)
(* i/o thread) and there is no lock.                                       *)
(*                                                                         *)
(* A request is a header descriptor and the scatter and gather buffers     *)
(* that follow it.  Descriptor contents are reduced to the kind of         *)
(* descriptor and the request it belongs to.                               *)
(***************************************************************************)
EXTENDS Integers, Sequences, FiniteSets

CONSTANTS
  RingSize,     \* DESC_NUM_EL
  MAX_IOVEC,    \* buffers executed with one iofunc call
  CountMod,     \* request counts are kept modulo this (2^32 in the code)
  FirstCount,   \* descriptors processed before the behaviour begins
  SgCounts,     \* numbers of buffers a request may have; 0: control request
  MaxRequests,  \* bound: requests the guest issues
  MaxEvents,    \* bound: disk events posted
  Errors        \* TRUE: a transfer may fail; bound: only once

ASSUME RingAssumption == RingSize \in Nat /\ RingSize >= 2
ASSUME BoundsAssumption ==
  /\ MAX_IOVEC \in Nat \ {0}
  /\ MaxRequests \in Nat /\ MaxEvents \in Nat
  /\ SgCounts \subseteq Nat
  /\ Errors \in BOOLEAN
\* No interrupt is left unserved for half the range of the counts.
ASSUME CountAssumption ==
  /\ CountMod \in Nat \ {0} /\ FirstCount \in 0..(CountMod - 1)
  /\ \A k \in SgCounts : CountMod > 2 * MaxRequests * (k + 1)

VARIABLES
  ring,                                  \* shared: the descriptor ring
  running, active, ctrl_pipe, req_head, n_requests,
  line,                                  \* level of ablk.irq
  event, events,                         \* ablk.event, devs[].events
  ipc, proceed, vec, header,             \* i/o thread; header: see IoFetch
  gpc, ri, reqCount, driverRunning,      \* guest: pc, _ri, _reqCount, _running
  req, loop, reqQueue, complQueue,       \* guest: request in hand, queues
  reply,                                 \* registers gpr[4] and gpr[6]
  size, executed, completed, posted      \* history

engineVars == <<running, active, ctrl_pipe, req_head, n_requests>>
eventVars  == <<event, events, posted>>
ioVars     == <<ipc, proceed, vec, header>>
driverVars == <<ri, reqCount, driverRunning, req, loop, reqQueue, complQueue, reply>>
guestVars  == <<gpc, driverVars>>
history    == <<size, executed, completed>>
vars == <<ring, engineVars, line, eventVars, ioVars, guestVars, history>>

Slots == 0..(RingSize - 1)
NEXT(i) == (i + 1) % RingSize
PREV(i) == (i - 1) % RingSize

Requests == 1..MaxRequests
Free == [kind |-> "none", irq |-> FALSE, proceed |-> FALSE, req |-> 0]
NoReq == [id |-> 0, sent |-> 0]

\* Mutant: a request is complete one descriptor early.
After_OffByOne(a, b) == (a - b) % CountMod \in 2..((CountMod - 1) \div 2)

\* a - b > 0 in C's signed arithmetic
After(a, b) == (a - b) % CountMod \in 1..((CountMod - 1) \div 2)

-----------------------------------------------------------------------------
(* The i/o thread: io_thread and do_work                                   *)

Cur  == ring[req_head]
Succ == ring[NEXT(req_head)]

IoRead ==
  /\ ipc = "idle"
  /\ ctrl_pipe > 0
  /\ ctrl_pipe' = ctrl_pipe - 1
  /\ ipc' = "top" /\ vec' = <<>>
  /\ UNCHANGED <<ring, running, active, req_head, n_requests, line, proceed,
                 header, guestVars, eventVars, history>>

\* Mutant: buffers are collected past MAX_IOVEC.
IoTop_NoLimit ==
  /\ ipc = "top"
  /\ proceed' = Cur.proceed
  /\ ipc' = IF vec # <<>> /\ (~Cur.proceed
                              \/ Succ.kind # "sg")
            THEN "exec" ELSE "advance"
  /\ UNCHANGED <<ring, engineVars, line, vec, header, guestVars, eventVars, history>>

\* Mutant: a new header does not flush the buffers of the last request.
IoTop_NoFlush ==
  /\ ipc = "top"
  /\ proceed' = Cur.proceed
  /\ ipc' = IF vec # <<>> /\ (~Cur.proceed \/ Len(vec) = MAX_IOVEC)
            THEN "exec" ELSE "advance"
  /\ UNCHANGED <<ring, engineVars, line, vec, header, guestVars, eventVars, history>>

\* Head of the loop: sample cur->proceed, decide whether the collected buffers
\* are executed now.
IoTop ==
  /\ ipc = "top"
  /\ proceed' = Cur.proceed
  /\ ipc' = IF vec # <<>> /\ (~Cur.proceed \/ Len(vec) = MAX_IOVEC
                              \/ Succ.kind # "sg")
            THEN "exec" ELSE "advance"
  /\ UNCHANGED <<ring, engineVars, line, vec, header, guestVars, eventVars, history>>

IoExec ==
  /\ ipc = "exec"
  /\ executed' = [r \in Requests |->
                    executed[r] + Cardinality({i \in DOMAIN vec : vec[i] = r})]
  /\ n_requests' = (n_requests + Len(vec)) % CountMod
  /\ vec' = <<>>
  /\ ipc' = IF Cur.irq /\ proceed THEN "exec_irq" ELSE "advance"
  /\ UNCHANGED <<ring, running, active, ctrl_pipe, req_head, line, proceed,
                 header, guestVars, eventVars, size, completed>>

IoExecIrq ==
  /\ ipc = "exec_irq"
  /\ line' = TRUE
  /\ ipc' = "advance"
  /\ UNCHANGED <<ring, engineVars, proceed, vec, header, guestVars, eventVars, history>>

\* Stall, or release the flags of the old head slot (the rest of its contents
\* is not read again) ...
IoAdvance ==
  /\ ipc = "advance"
  /\ IF ~proceed THEN ipc' = "stall" /\ UNCHANGED ring
     ELSE /\ ring' = [ring EXCEPT ![req_head].kind = "none",
                                  ![req_head].irq = FALSE,
                                  ![req_head].req = 0]
          /\ ipc' = "clear_proceed"
  /\ UNCHANGED <<engineVars, line, proceed, vec, header, guestVars, eventVars, history>>

\* ... then its proceed field, and move on to the next descriptor.
IoClearProceed ==
  /\ ipc = "clear_proceed"
  /\ ring' = [ring EXCEPT ![req_head].proceed = FALSE]
  /\ req_head' = NEXT(req_head)
  /\ ipc' = "fetch"
  /\ UNCHANGED <<running, active, ctrl_pipe, n_requests, line, proceed, vec,
                 header, guestVars, eventVars, history>>

\* Decode the new head.  header stands for cur_dev, iofunc and the position of
\* the seek: they belong to the request whose header was decoded last.  A
\* control request may be the eject of a CD, which can post an event.
IoFetch ==
  /\ ipc = "fetch"
  /\ IF Cur.kind = "sg"
     THEN /\ vec' = Append(vec, Cur.req)
          /\ ipc' = "top"
          /\ UNCHANGED header
     ELSE /\ header' = Cur.req
          /\ ipc' \in IF Cur.kind = "rw" THEN {"count"}
                      ELSE {IF Cur.irq THEN "ctl_irq" ELSE "count"}
                           \cup (IF Cur.kind = "ctl" /\ posted < MaxEvents
                                 THEN {"post"} ELSE {})
          /\ UNCHANGED vec
  /\ UNCHANGED <<ring, engineVars, line, eventVars, proceed, guestVars, history>>

\* ablk_post_event on the i/o thread, store by store
IoPost ==
  /\ ipc = "post"
  /\ events' = TRUE /\ posted' = posted + 1
  /\ ipc' = "post_flag"
  /\ UNCHANGED <<ring, engineVars, line, event, proceed, vec, header, guestVars,
                 history>>

IoPostFlag ==
  /\ ipc = "post_flag"
  /\ event' = TRUE
  /\ ipc' = "post_irq"
  /\ UNCHANGED <<ring, engineVars, line, events, posted, proceed, vec, header,
                 guestVars, history>>

IoPostIrq ==
  /\ ipc = "post_irq"
  /\ line' = TRUE
  /\ ipc' = IF Cur.irq THEN "ctl_irq" ELSE "count"
  /\ UNCHANGED <<ring, engineVars, eventVars, proceed, vec, header, guestVars,
                 history>>

\* A control request raises its interrupt before it is counted.
IoCtlIrq ==
  /\ ipc = "ctl_irq"
  /\ line' = TRUE
  /\ ipc' = "count"
  /\ UNCHANGED <<ring, engineVars, eventVars, proceed, vec, header, guestVars,
                 history>>

IoCount ==
  /\ ipc = "count"
  /\ n_requests' = (n_requests + 1) % CountMod
  /\ ipc' = "top"
  /\ UNCHANGED <<ring, running, active, ctrl_pipe, req_head, line, proceed, vec,
                 header, guestVars, eventVars, history>>

\* Mutant: the engine stalls without giving up the active flag.
IoStall_StaysActive ==
  /\ ipc = "stall"
  /\ UNCHANGED active
  /\ ipc' = "stall_irq"
  /\ UNCHANGED <<ring, running, ctrl_pipe, req_head, n_requests, line, proceed,
                 vec, header, guestVars, eventVars, history>>

IoStall ==
  /\ ipc = "stall"
  /\ active' = FALSE
  /\ ipc' = "stall_irq"
  /\ UNCHANGED <<ring, running, ctrl_pipe, req_head, n_requests, line, proceed,
                 vec, header, guestVars, eventVars, history>>

IoStallIrq ==
  /\ ipc = "stall_irq"
  /\ line' = TRUE
  /\ ipc' = "idle"
  /\ UNCHANGED <<ring, engineVars, proceed, vec, header, guestVars, eventVars, history>>

\* A failing iofunc, buffer address or seek: the channel is stopped.  A seek
\* fails after the header was decoded.
IoError ==
  /\ Errors /\ running      \* running: the bound on failures
  /\ ipc = "exec" \/ (ipc = "fetch" /\ Cur.kind \in {"sg", "rw"})
  /\ running' = FALSE
  /\ ipc' = "stall"
  /\ header' = IF ipc = "fetch" /\ Cur.kind = "rw" THEN Cur.req ELSE header
  /\ vec' = <<>> /\ proceed' = FALSE      \* locals of do_work, which returns
  /\ UNCHANGED <<ring, active, ctrl_pipe, req_head, n_requests, line, guestVars,
                 eventVars, history>>

IoThread ==
  \/ IoRead \/ IoTop \/ IoExec \/ IoExecIrq \/ IoAdvance \/ IoClearProceed
  \/ IoFetch \/ IoPost \/ IoPostFlag \/ IoPostIrq
  \/ IoCtlIrq \/ IoCount \/ IoStall \/ IoStallIrq

-----------------------------------------------------------------------------
(* The OSI calls, run by the guest on the main thread                      *)

\* osip_ablk_kick
Kick ==
  /\ active' = TRUE
  /\ ctrl_pipe' = IF active THEN ctrl_pipe ELSE ctrl_pipe + 1

\* osip_ablk_irq_ack: lower the line (an interrupt of another device on the
\* line, with this line low, is answered 0 and changes nothing) ...
AckLow ==
  /\ gpc = "idle"
  /\ line
  /\ line' = FALSE
  /\ gpc' = "ack_kick"
  /\ UNCHANGED <<ring, engineVars, eventVars, ioVars, driverVars, history>>

\* Mutant: the acknowledge does not restart the engine.
AckKick_NoRestart ==
  /\ gpc = "ack_kick"
  /\ UNCHANGED <<active, ctrl_pipe>>
  /\ gpc' = "ack_count"
  /\ UNCHANGED <<ring, running, req_head, n_requests, line, eventVars, ioVars,
                 driverVars, history>>

\* ... restart the engine if there is work to do ...
AckKick ==
  /\ gpc = "ack_kick"
  /\ IF ~active /\ running /\ Cur.proceed
     THEN Kick ELSE UNCHANGED <<active, ctrl_pipe>>
  /\ gpc' = "ack_count"
  /\ UNCHANGED <<ring, running, req_head, n_requests, line, eventVars, ioVars,
                 driverVars, history>>

\* ... and return the request count, ...
AckCount ==
  /\ gpc = "ack_count"
  /\ reply' = [reply EXCEPT !.count = n_requests]
  /\ gpc' = "ack_active"
  /\ UNCHANGED <<ring, engineVars, line, eventVars, ioVars, ri, reqCount,
                 driverRunning, req, loop, reqQueue, complQueue, history>>

\* Mutant: the wrong one of the two flags is returned.
AckActive_Running ==
  /\ gpc = "ack_active"
  /\ driverRunning' = running
  /\ gpc' = "ack_event"
  /\ UNCHANGED <<ring, engineVars, line, eventVars, ioVars, ri, reqCount, req,
                 loop, reqQueue, complQueue, reply, history>>

\* ... the active flag, which the driver keeps in _running, ...
AckActive ==
  /\ gpc = "ack_active"
  /\ driverRunning' = active
  /\ gpc' = "ack_event"
  /\ UNCHANGED <<ring, engineVars, line, eventVars, ioVars, ri, reqCount, req,
                 loop, reqQueue, complQueue, reply, history>>

\* ... and the event flag, ...
AckEvent ==
  /\ gpc = "ack_event"
  /\ reply' = [reply EXCEPT !.event = event]
  /\ gpc' = "ack_clear"
  /\ UNCHANGED <<ring, engineVars, line, eventVars, ioVars, ri, reqCount,
                 driverRunning, req, loop, reqQueue, complQueue, history>>

\* ... which is cleared after it was read.
AckClear ==
  /\ gpc = "ack_clear"
  /\ event' = FALSE
  /\ gpc' = IF reply.event THEN "get_events" ELSE "complete"
  /\ UNCHANGED <<ring, engineVars, line, events, posted, ioVars, driverVars,
                 history>>

\* The devices answer the driver's message with kABlkGetEvents; the read
\* and the reset of devs[unit].events are taken as one step.
GetEvents ==
  /\ gpc = "get_events"
  /\ events' = FALSE
  /\ line' = (line /\ running)
  /\ gpc' = "complete"
  /\ UNCHANGED <<ring, engineVars, event, posted, ioVars, driverVars, history>>

\* A timer of the main thread finds a disk (poll_for_cd), or the driver volume
\* is mounted: ablk_post_event on the main thread.
PostEvent ==
  /\ gpc = "idle"
  /\ posted < MaxEvents
  /\ posted' = posted + 1
  /\ event' = TRUE /\ events' = TRUE /\ line' = TRUE
  /\ UNCHANGED <<ring, engineVars, ioVars, guestVars, history>>

-----------------------------------------------------------------------------
(* The driver: receiveCmd, handleIRQ, processRequest                       *)

\* receiveCmd of a request with k buffers
ReceiveCmd(k) ==
  /\ gpc = "idle"
  /\ Len(size) < MaxRequests
  /\ size' = Append(size, k)
  /\ LET new == [id |-> Len(size) + 1, sent |-> 0]
     IN IF reqQueue = <<>>
        THEN req' = new /\ gpc' = "process" /\ UNCHANGED reqQueue
        ELSE reqQueue' = Append(reqQueue, new) /\ UNCHANGED <<req, gpc>>
  /\ loop' = FALSE
  /\ UNCHANGED <<ring, engineVars, line, eventVars, ioVars, ri, reqCount,
                 driverRunning, complQueue, reply, executed, completed>>

\* handleIRQ completes the requests at the head of the queue whose number the
\* count has reached.
CompletedPrefix ==
  LET done(k) == \A i \in 1..k : ~After(complQueue[i].num, reply.count)
  IN CHOOSE k \in 0..Len(complQueue) :
       done(k) /\ (k < Len(complQueue) => ~done(k + 1))

CompleteRequests ==
  /\ gpc = "complete"
  /\ LET k == CompletedPrefix
     IN /\ completed' = completed \o [i \in 1..k |-> complQueue[i].id]
        /\ complQueue' = SubSeq(complQueue, k + 1, Len(complQueue))
  /\ loop' = TRUE
  /\ gpc' = "dequeue"
  /\ reply' = [count |-> 0, event |-> FALSE]
  /\ UNCHANGED <<ring, engineVars, line, eventVars, ioVars, ri, reqCount,
                 driverRunning, req, reqQueue, size, executed>>

Dequeue ==
  /\ gpc = "dequeue"
  /\ IF reqQueue = <<>>
     THEN gpc' = "idle" /\ UNCHANGED <<req, reqQueue>>
     ELSE /\ req' = Head(reqQueue)
          /\ reqQueue' = Tail(reqQueue)
          /\ gpc' = "process"
  /\ loop' = (reqQueue # <<>>)
  /\ UNCHANGED <<ring, engineVars, line, eventVars, ioVars, ri, reqCount,
                 driverRunning, complQueue, reply, history>>

\* processRequest when the next slot is still in use
Saturated ==
  /\ gpc = "process"
  /\ ring[NEXT(ri)].kind # "none"
  /\ reqQueue' = <<req>> \o reqQueue
  /\ req' = NoReq
  /\ loop' = FALSE
  /\ gpc' = "kick"
  /\ UNCHANGED <<ring, engineVars, line, eventVars, ioVars, ri, reqCount,
                 driverRunning, complQueue, reply, history>>

\* Mutant: a slot in use is overwritten.
Fill_NoTest(kind, irq, last) ==
  /\ ri' = NEXT(ri)
  /\ reqCount' = (reqCount + 1) % CountMod
  /\ ring' = [ring EXCEPT ![NEXT(ri)] = [kind |-> kind, irq |-> irq,
                                         proceed |-> FALSE, req |-> req.id]]
  /\ complQueue' = IF last
                   THEN Append(complQueue, [id |-> req.id, num |-> reqCount'])
                   ELSE complQueue
  /\ req' = IF last THEN NoReq ELSE [req EXCEPT !.sent = @ + 1]
  /\ gpc' = "start"
  /\ UNCHANGED <<engineVars, line, eventVars, ioVars, driverRunning, loop,
                 reqQueue, reply, executed, completed>>

\* processRequest fills the next slot with a descriptor of the request; last
\* is true if the request is complete with it.
Fill(kind, irq, last) ==
  /\ ring[NEXT(ri)].kind = "none"
  /\ ri' = NEXT(ri)
  /\ reqCount' = (reqCount + 1) % CountMod
  /\ ring' = [ring EXCEPT ![NEXT(ri)] = [kind |-> kind, irq |-> irq,
                                         proceed |-> FALSE, req |-> req.id]]
  /\ complQueue' = IF last
                   THEN Append(complQueue, [id |-> req.id, num |-> reqCount'])
                   ELSE complQueue
  /\ req' = IF last THEN NoReq ELSE [req EXCEPT !.sent = @ + 1]
  /\ gpc' = "start"
  /\ UNCHANGED <<engineVars, line, eventVars, ioVars, driverRunning, loop,
                 reqQueue, reply, executed, completed>>

FillControl ==
  /\ gpc = "process" /\ req.sent = 0 /\ size[req.id] = 0
  /\ Fill("ctl", TRUE, TRUE)
  /\ UNCHANGED size

FillHeader ==
  /\ gpc = "process" /\ req.sent = 0 /\ size[req.id] > 0
  /\ Fill("rw", FALSE, FALSE)
  /\ UNCHANGED size

FillBuffer ==
  /\ gpc = "process" /\ req.sent > 0
  /\ LET last == req.sent = size[req.id] IN Fill("sg", last, last)
  /\ UNCHANGED size

\* The buffer of the request ends early: a NOP takes the place of the descriptor.
FillShort ==
  /\ gpc = "process" /\ req.sent > 0
  /\ Fill("nop", FALSE, TRUE)
  /\ size' = [size EXCEPT ![req.id] = req.sent - 1]

\* START_REQUEST: the previous slot may be left
StartRequest ==
  /\ gpc = "start"
  /\ ring' = [ring EXCEPT ![PREV(ri)].proceed = TRUE]
  /\ gpc' = IF req = NoReq THEN "kick" ELSE "process"
  /\ UNCHANGED <<engineVars, line, eventVars, ioVars, driverVars, history>>

\* The end of processRequest; handleIRQ goes on with its queue.
KickEngine ==
  /\ gpc = "kick"
  /\ IF driverRunning THEN UNCHANGED <<active, ctrl_pipe>> ELSE Kick
  /\ driverRunning' = TRUE
  /\ gpc' = IF loop THEN "dequeue" ELSE "idle"
  /\ UNCHANGED <<ring, running, req_head, n_requests, line, eventVars, ioVars,
                 ri, reqCount, req, loop, reqQueue, complQueue, reply, history>>

\* After the driver's start (kABlkReset, ring_setup, kABlkStart) and FirstCount
\* descriptors, with the ring idle
Init ==
  /\ ring = [i \in Slots |-> IF i = 0 THEN [Free EXCEPT !.kind = "nop"] ELSE Free]
  /\ running = TRUE /\ active = FALSE
  /\ ctrl_pipe = 0 /\ req_head = 0 /\ n_requests = FirstCount
  /\ line = FALSE
  /\ event = FALSE /\ events = FALSE /\ posted = 0
  /\ ipc = "idle" /\ proceed = FALSE /\ vec = <<>> /\ header = 0
  /\ gpc = "idle" /\ ri = 0 /\ reqCount = FirstCount /\ driverRunning = FALSE
  /\ req = NoReq /\ loop = FALSE
  /\ reqQueue = <<>> /\ complQueue = <<>>
  /\ reply = [count |-> 0, event |-> FALSE]
  /\ size = <<>> /\ executed = [r \in Requests |-> 0] /\ completed = <<>>

\* The guest's steps other than the arrival of a new request
Guest ==
  \/ AckLow \/ AckKick \/ AckCount \/ AckActive \/ AckEvent \/ AckClear
  \/ GetEvents \/ CompleteRequests \/ Dequeue
  \/ Saturated \/ FillControl \/ FillHeader \/ FillBuffer
  \/ StartRequest \/ KickEngine

Next ==
  \/ IoThread \/ IoError
  \/ Guest \/ FillShort \/ PostEvent
  \/ \E k \in SgCounts : ReceiveCmd(k)

Spec == Init /\ [][Next]_vars

\* The i/o thread is scheduled, the guest runs and takes the interrupts of a
\* raised line.  Nothing makes requests, events, errors or short buffers occur.
FairSpec == Spec /\ WF_vars(IoThread) /\ WF_vars(Guest)

-----------------------------------------------------------------------------
(* Properties                                                              *)

\* Types of the state of ablk.c, of the descriptor ring and of the driver.
TypeOK ==
  /\ ring \in [Slots -> [kind : {"none", "nop", "ctl", "rw", "sg"},
                         irq : BOOLEAN, proceed : BOOLEAN,
                         req : Requests \cup {0}]]
  /\ running \in BOOLEAN /\ active \in BOOLEAN /\ line \in BOOLEAN
  /\ event \in BOOLEAN /\ events \in BOOLEAN /\ driverRunning \in BOOLEAN
  /\ ctrl_pipe \in 0..1
  /\ {req_head, ri} \subseteq Slots
  /\ {n_requests, reqCount, reply.count} \subseteq 0..(CountMod - 1)
  /\ Len(vec) <= MAX_IOVEC
  /\ proceed \in BOOLEAN

\* The first slot the driver may not reuse: while do_work is between its two
\* stores to the old head (ablk.c 161-164) that is the slot after it.
FirstBusy == IF ipc = "clear_proceed" THEN NEXT(req_head) ELSE req_head

\* Neither side's unsynchronised stores to a descriptor undo the other's: from
\* the head of do_work to the driver's _ri every slot is in use and linked by
\* proceed to the next, and _ri's own link is open (ablk.c 127-166,
\* processRequest).
RingLinked ==
  LET used == (ri - FirstBusy) % RingSize
      slot(k) == ring[(FirstBusy + k) % RingSize]
  IN /\ \A k \in 0..used : slot(k).kind # "none"
     /\ \A k \in 0..(used - 1) :
          slot(k).proceed <=> ~(gpc = "start" /\ k = used - 1)
     /\ ~slot(used).proceed

\* No buffer is transferred twice, and until a transfer fails the driver reports
\* a request only after every one of its buffers was transferred, in the order
\* of submission, although it compares wrapping counts that do_work increments
\* concurrently.
CompletionsAreReal ==
  /\ running =>
       \A i \in DOMAIN completed : completed[i] = i /\ executed[i] = size[i]
  /\ \A r \in Requests : executed[r] <= IF r \in DOMAIN size THEN size[r] ELSE 0

\* iofunc is called with buffers of the request whose header chose the device,
\* the direction and the position, also when do_work stalls within a request
\* and resumes, or splits a request at MAX_IOVEC.
BuffersFollowHeader ==
  ipc = "exec" => \A i \in DOMAIN vec : vec[i] = header

\* "The client only needs to call kick if we return 0 in active" (ablk.c
\* 271-274): while the driver believes that the ring of a running channel is
\* being processed, the engine is active or an interrupt that corrects the
\* belief is on its way.
KickNotNeeded ==
  running /\ driverRunning =>
    \/ active \/ line
    \/ ipc = "stall_irq"
    \/ gpc \in {"ack_kick", "ack_count", "ack_active"}

\* The engine is active exactly while a byte is in the control pipe or do_work
\* runs: two kicks never queue two passes over the ring.
OnePass ==
  active <=> (ctrl_pipe = 1 \/ ipc \notin {"idle", "stall_irq"})

\* Every request handed to the driver is completed unless the device fails: no
\* order of stalls, acknowledgements, kicks and a saturated ring strands a
\* request.
RequestsComplete ==
  \A r \in Requests : (Len(size) >= r) ~> (Len(completed) >= r \/ ~running)

\* An event of a device that the driver has not fetched is announced by
\* ablk.event, "an event condition is pending" (ablk.c 49).
EventPending ==
  events => event \/ ipc = "post_flag" \/ gpc = "get_events" \/ reply.event

\* A channel that is not running, "ready for action" (ablk.c 47), transfers
\* nothing.
ErrorStopsChannel == [][executed' # executed => running]_vars

\* The ring is intact: it has its type, its descriptors are linked for the
\* engine, and one pass of do_work runs at a time (ablk.c 113-232).
RingIntact == TypeOK /\ RingLinked /\ OnePass
=============================================================================
