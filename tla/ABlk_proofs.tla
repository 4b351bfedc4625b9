---------------------------- MODULE ABlk_proofs ----------------------------
(***************************************************************************)
(* The descriptor ring of ablk.c for rings, requests and counts of every   *)
(* size.  The engine and the driver write descriptors without a lock; the  *)
(* invariant says which slots belong to whom: those from the engine's head *)
(* to _ri are in use and linked, the others are free, and the buffers that *)
(* do_work has collected belong to the header it has decoded.              *)
(***************************************************************************)
EXTENDS ABlk, SequenceTheorems, TLAPS

-----------------------------------------------------------------------------
(* Arithmetic of the ring.                                                 *)

\* slots from a on to b
Dist(a, b) == IF b >= a THEN b - a ELSE b - a + RingSize

\* NEXT and PREV without the remainder.
LEMMA Around ==
  ASSUME NEW i \in Slots
  PROVE  /\ NEXT(i) = IF i = RingSize - 1 THEN 0 ELSE i + 1
         /\ PREV(i) = IF i = 0 THEN RingSize - 1 ELSE i - 1
<1>1. i + 1 < RingSize => (i + 1) % RingSize = i + 1
  BY RingAssumption DEF RingAssumption, Slots
<1>2. i + 1 = RingSize => (i + 1) % RingSize = 0
  BY RingAssumption DEF RingAssumption, Slots
<1>3. i >= 1 => (i - 1) % RingSize = i - 1
  BY RingAssumption DEF RingAssumption, Slots
<1>4. i = 0 => (i - 1) % RingSize = RingSize - 1
  BY RingAssumption DEF RingAssumption, Slots
<1> QED BY <1>1, <1>2, <1>3, <1>4, RingAssumption DEF RingAssumption, Slots, NEXT, PREV

\* NEXT and PREV are slots, and each other's inverse.
LEMMA Neighbours ==
  ASSUME NEW i \in Slots
  PROVE  /\ NEXT(i) \in Slots /\ PREV(i) \in Slots
         /\ PREV(NEXT(i)) = i /\ NEXT(PREV(i)) = i /\ NEXT(i) # i
<1>1. NEXT(i) \in Slots /\ PREV(i) \in Slots
  BY Around, RingAssumption DEF RingAssumption, Slots
<1>2. /\ NEXT(i) = IF i = RingSize - 1 THEN 0 ELSE i + 1
      /\ PREV(i) = IF i = 0 THEN RingSize - 1 ELSE i - 1
      /\ PREV(NEXT(i)) = IF NEXT(i) = 0 THEN RingSize - 1 ELSE NEXT(i) - 1
      /\ NEXT(PREV(i)) = IF PREV(i) = RingSize - 1 THEN 0 ELSE PREV(i) + 1
  BY <1>1, Around
<1> QED BY <1>1, <1>2, RingAssumption DEF RingAssumption, Slots

\* The distance tells the slot.
LEMMA Distances ==
  ASSUME NEW a \in Slots, NEW b \in Slots
  PROVE  /\ Dist(a, b) \in 0..(RingSize - 1) /\ (Dist(a, b) = 0 <=> a = b)
         /\ (b - a) % RingSize = Dist(a, b)
         /\ \A c \in Slots : Dist(a, b) = Dist(a, c) => b = c
<1>1. Dist(a, b) \in 0..(RingSize - 1) /\ (Dist(a, b) = 0 <=> a = b)
  BY RingAssumption DEF RingAssumption, Slots, Dist
<1>2. b >= a => (b - a) % RingSize = b - a
  BY RingAssumption DEF RingAssumption, Slots
<1>3. b < a => (b - a) % RingSize = b - a + RingSize
  BY RingAssumption DEF RingAssumption, Slots
<1>4. (b - a) % RingSize = Dist(a, b)
  BY <1>2, <1>3 DEF Dist, Slots
<1>5. \A c \in Slots : Dist(a, b) = Dist(a, c) => b = c
  BY RingAssumption DEF RingAssumption, Slots, Dist
<1> QED BY <1>1, <1>4, <1>5

\* The slot at a distance.
LEMMA SlotAt ==
  ASSUME NEW a \in Slots, NEW k \in 0..(RingSize - 1)
  PROVE  (a + k) % RingSize \in Slots /\ Dist(a, (a + k) % RingSize) = k
<1>1. a + k < RingSize => (a + k) % RingSize = a + k
  BY RingAssumption DEF RingAssumption, Slots
<1>2. a + k >= RingSize => (a + k) % RingSize = a + k - RingSize
  BY RingAssumption DEF RingAssumption, Slots
<1> QED BY <1>1, <1>2, RingAssumption DEF RingAssumption, Slots, Dist

\* One slot further on either side.
LEMMA Further ==
  ASSUME NEW a \in Slots, NEW b \in Slots
  PROVE  /\ Dist(a, NEXT(b)) = IF Dist(a, b) = RingSize - 1 THEN 0 ELSE Dist(a, b) + 1
         /\ Dist(NEXT(a), b) = IF a = b THEN RingSize - 1 ELSE Dist(a, b) - 1
         /\ Dist(a, PREV(b)) = IF a = b THEN RingSize - 1 ELSE Dist(a, b) - 1
BY Around, RingAssumption DEF RingAssumption, Slots, Dist

-----------------------------------------------------------------------------
(* The invariant.                                                          *)

Begun == {"process", "start"}

Descriptor == [kind : {"none", "nop", "ctl", "rw", "sg"}, irq : BOOLEAN,
               proceed : BOOLEAN, req : Requests \cup {0}]

\* the types, those that TypeOK leaves out included, in parts
RingTyped == ring \in [Slots -> Descriptor] /\ req_head \in Slots /\ ri \in Slots

FlagsTyped ==
  /\ running \in BOOLEAN /\ active \in BOOLEAN /\ line \in BOOLEAN /\ event \in BOOLEAN
  /\ events \in BOOLEAN /\ driverRunning \in BOOLEAN /\ proceed \in BOOLEAN
  /\ ctrl_pipe \in 0..1

CountsTyped ==
  /\ n_requests \in 0..(CountMod - 1) /\ reqCount \in 0..(CountMod - 1)
  /\ reply \in [count : 0..(CountMod - 1), event : BOOLEAN]

Request == [id : Requests, sent : Nat]

QueueTyped ==
  /\ req \in [id : Nat, sent : Nat]
  /\ gpc \in Begun => (req = NoReq /\ gpc = "start") \/ req.id \in Requests
  /\ reqQueue \in Seq(Request)
  /\ size \in Seq(Nat)

VecTyped == vec \in Seq(Requests \cup {0}) /\ Len(vec) <= MAX_IOVEC

Types == RingTyped /\ FlagsTyped /\ CountsTyped /\ QueueTyped /\ VecTyped

Used == Dist(FirstBusy, ri)

\* s is right for the slot d after the first of u + 1; in the last but one the
\* link is still open if the driver has filled the last just now
LinkAt(s, d, u, open) ==
  /\ s.kind # "none" <=> d <= u
  /\ d < u => (s.proceed <=> ~(open /\ d = u - 1))
  /\ d = u => ~s.proceed

\* The slots from the engine's head to _ri, and no others, are in use; each is
\* linked to the next once the driver has started the next.
Links ==
  /\ \A j \in Slots : LinkAt(ring[j], Dist(FirstBusy, j), Used, gpc = "start")
  /\ gpc = "start" => Used >= 1

\* do_work's sample of the link is still right when it is used.
Sampled == ipc \in {"exec", "exec_irq", "advance"} /\ proceed => Cur.proceed

\* One byte in the pipe or one pass over the ring.
Passes == OnePass /\ (ctrl_pipe = 1 => ipc \in {"idle", "stall_irq"})

\* A buffer follows the header or another buffer of its request.
Chained ==
  \A j \in Slots : Dist(FirstBusy, j) < Used /\ ring[NEXT(j)].kind = "sg" =>
    ring[j].kind \in {"rw", "sg"} /\ ring[j].req = ring[NEXT(j)].req

\* do_work has decoded the header of the request at its head.
Decoded ==
  IF ipc \in {"clear_proceed", "fetch"}
  THEN ring[FirstBusy].kind = "sg" => header = ring[FirstBusy].req
  ELSE Cur.kind \in {"rw", "sg"} => header = Cur.req

\* The driver has filled the slots of a begun request up to _ri.
Open(r) == r.sent > 0 => ring[ri].kind \in {"rw", "sg"} /\ ring[ri].req = r.id

\* Only the request in hand, or else the first of the queue, has been begun.
Partial ==
  /\ gpc \in Begun => Open(req)
  /\ \A i \in DOMAIN reqQueue :
       IF i = 1 /\ gpc \notin Begun THEN Open(reqQueue[i]) ELSE reqQueue[i].sent = 0

\* Collected buffers are few enough and belong to the decoded header, and
\* another buffer follows them if they are kept for the next round.
Collected ==
  /\ ipc \in {"advance", "clear_proceed", "fetch"} => Len(vec) < MAX_IOVEC
  /\ ipc \notin {"top", "exec", "advance", "clear_proceed", "fetch"} => vec = <<>>
  /\ vec # <<>> =>
       /\ ipc = "advance" => proceed /\ Succ.kind = "sg"
       /\ ipc \in {"clear_proceed", "fetch"} => ring[FirstBusy].kind = "sg"
  /\ \A i \in DOMAIN vec : vec[i] = header

AInv == Types /\ Links /\ Sampled /\ Passes /\ Chained /\ Decoded /\ Partial /\ Collected

\* what the lemmas below need of the types
LEMMA Slotted ==
  ASSUME Types
  PROVE  /\ req_head \in Slots /\ ri \in Slots /\ FirstBusy \in Slots
         /\ Used \in 0..(RingSize - 1) /\ RingSize \in Nat
         /\ ring \in [Slots -> Descriptor]
<1>1. req_head \in Slots /\ ri \in Slots /\ ring \in [Slots -> Descriptor]
  BY DEF Types, RingTyped
<1>2. FirstBusy \in Slots
  BY <1>1, Neighbours DEF FirstBusy
<1> QED BY <1>1, <1>2, Distances, RingAssumption DEF Used, RingAssumption

-----------------------------------------------------------------------------
(* The steps that the ring takes.                                          *)

\* Nothing happens to the ring.
Quiet ==
  /\ ring' = ring /\ FirstBusy' = FirstBusy /\ ri' = ri
  /\ gpc' = "start" <=> gpc = "start"

\* do_work releases the descriptor at its head ...
Release ==
  /\ ipc = "advance" /\ ipc' = "clear_proceed" /\ Cur.proceed
  /\ ring' = [ring EXCEPT ![req_head] = [kind |-> "none", irq |-> FALSE,
                                         proceed |-> ring[req_head].proceed, req |-> 0]]
  /\ UNCHANGED <<req_head, ri, gpc>>

\* ... and moves on.
Clear ==
  /\ ipc = "clear_proceed" /\ ipc' = "fetch"
  /\ ring' = [ring EXCEPT ![req_head].proceed = FALSE]
  /\ req_head' = NEXT(req_head) /\ UNCHANGED <<ri, gpc>>

\* The driver fills a descriptor ...
Filled(d) ==
  /\ gpc = "process" /\ gpc' = "start" /\ ring[NEXT(ri)].kind = "none"
  /\ d.kind # "none" /\ ~d.proceed
  /\ ring' = [ring EXCEPT ![NEXT(ri)] = d]
  /\ ri' = NEXT(ri) /\ FirstBusy' = FirstBusy

\* ... and links the one before to it.
Linked ==
  /\ gpc = "start" /\ gpc' # "start"
  /\ ring' = [ring EXCEPT ![PREV(ri)].proceed = TRUE]
  /\ ri' = ri /\ FirstBusy' = FirstBusy

LEMMA QuietLinks ==
  ASSUME Links, Quiet
  PROVE  Links'
<1>1. Used' = Used
  BY DEF Quiet, Used
<1>2. \A j \in Slots : LinkAt(ring'[j], Dist(FirstBusy', j), Used', gpc' = "start")
  BY <1>1, Zenon DEF Links, Quiet
<1> QED BY <1>1, <1>2, Zenon DEF Links, Quiet

LEMMA ReleaseLinks ==
  ASSUME Types, Links, Release
  PROVE  Links' /\ Used' = Used - 1 /\ Used >= 1
<1>1. /\ req_head \in Slots /\ ri \in Slots /\ ring \in [Slots -> Descriptor]
      /\ Used \in 0..(RingSize - 1) /\ RingSize \in Nat
  BY Slotted
<1>2. FirstBusy = req_head /\ FirstBusy' = NEXT(req_head) /\ ri' = ri /\ gpc' = gpc
  BY DEF Release, FirstBusy
<1>3. Used = Dist(req_head, ri) /\ Dist(req_head, req_head) = 0
  BY <1>1, <1>2, Distances DEF Used
<1>4. Used # 0 /\ (gpc = "start" => Used # 1)
  BY <1>1, <1>2, <1>3 DEF Links, LinkAt, Release, Cur
<1>5. Used' = Used - 1
  BY <1>1, <1>2, <1>3, <1>4, Further DEF Used
<1>6. \A j \in Slots : Dist(req_head, j) \in 0..(RingSize - 1)
  BY <1>1, Distances
<1>7. \A j \in Slots : Dist(NEXT(req_head), j) =
        IF j = req_head THEN RingSize - 1 ELSE Dist(req_head, j) - 1
  BY <1>1, Further
<1>8. ring'[req_head].kind = "none" /\ \A j \in Slots : j # req_head => ring'[j] = ring[j]
  BY <1>1 DEF Release, Descriptor
<1>9. ASSUME NEW j \in Slots
      PROVE  LinkAt(ring'[j], Dist(FirstBusy', j), Used', gpc' = "start")
  <2>1. CASE j = req_head
    <3>1. Dist(FirstBusy', j) = RingSize - 1 /\ Used' < RingSize - 1 /\ ring'[j].kind = "none"
      BY <1>1, <1>2, <1>4, <1>5, <1>7, <1>8, <2>1
    <3> QED BY <1>1, <1>5, <3>1 DEF LinkAt
  <2>2. CASE j # req_head
    <3>1. LinkAt(ring[j], Dist(req_head, j), Used, gpc = "start")
      BY <1>2, Zenon DEF Links
    <3>2. Dist(FirstBusy', j) = Dist(req_head, j) - 1 /\ ring'[j] = ring[j]
      BY <1>2, <1>7, <1>8, <2>2, Zenon
    <3>3. Dist(req_head, j) \in Int
      BY <1>6
    <3>4. LinkAt(ring[j], Dist(req_head, j) - 1, Used - 1, gpc = "start")
      BY <1>1, <3>1, <3>3 DEF LinkAt
    <3> QED BY <1>2, <1>5, <3>2, <3>4
  <2> QED BY <2>1, <2>2
<1>10. gpc' = "start" => Used' >= 1
  BY <1>1, <1>2, <1>4, <1>5
<1>11. Links'
  BY <1>9, <1>10, Zenon DEF Links
<1> QED BY <1>1, <1>4, <1>5, <1>11

LEMMA ClearLinks ==
  ASSUME Types, Links, Clear
  PROVE  Links' /\ FirstBusy' = FirstBusy /\ Used' = Used
<1>1. /\ req_head \in Slots /\ ri \in Slots /\ ring \in [Slots -> Descriptor]
      /\ Used \in 0..(RingSize - 1) /\ RingSize \in Nat
  BY Slotted
<1>2. FirstBusy = NEXT(req_head) /\ FirstBusy' = FirstBusy /\ ri' = ri /\ gpc' = gpc
  BY DEF Clear, FirstBusy
<1>3. Used' = Used
  BY <1>2 DEF Used
<1>4. Dist(FirstBusy, req_head) = RingSize - 1
  BY <1>1, <1>2, Further
<1>5. \A j \in Slots : ring'[j].kind = ring[j].kind
                       /\ (ring'[j].proceed <=> ring[j].proceed /\ j # req_head)
  BY <1>1 DEF Clear, Descriptor
<1>6. ASSUME NEW j \in Slots, Dist(FirstBusy, j) < Used PROVE j # req_head
  BY <1>1, <1>4, <1>6
<1>7. ASSUME NEW j \in Slots
      PROVE  LinkAt(ring'[j], Dist(FirstBusy', j), Used', gpc' = "start")
  <2>1. LinkAt(ring[j], Dist(FirstBusy, j), Used, gpc = "start")
    BY Zenon DEF Links
  <2>2. LinkAt(ring'[j], Dist(FirstBusy, j), Used, gpc = "start")
    BY <1>5, <1>6, <2>1 DEF LinkAt
  <2> QED BY <1>2, <1>3, <2>2
<1>8. gpc' = "start" => Used' >= 1
  BY <1>2, <1>3 DEF Links
<1>9. Links'
  BY <1>7, <1>8, Zenon DEF Links
<1> QED BY <1>2, <1>3, <1>9

LEMMA FilledLinks ==
  ASSUME Types, Links, NEW d \in Descriptor, Filled(d)
  PROVE  /\ Links' /\ Used' = Used + 1
         /\ Dist(FirstBusy, NEXT(ri)) = Used + 1 /\ NEXT(ri) # ri
         /\ ring'[NEXT(ri)] = d /\ \A j \in Slots : j # NEXT(ri) => ring'[j] = ring[j]
<1>1. /\ ri \in Slots /\ NEXT(ri) \in Slots /\ ring \in [Slots -> Descriptor]
      /\ FirstBusy \in Slots /\ Used \in 0..(RingSize - 1) /\ RingSize \in Nat
      /\ NEXT(ri) # ri
  BY Slotted, Neighbours
<1>2. FirstBusy' = FirstBusy /\ ri' = NEXT(ri) /\ gpc' = "start" /\ gpc # "start"
  BY DEF Filled
<1>3. Dist(FirstBusy, NEXT(ri)) = Used + 1
  <2>1. ~(Dist(FirstBusy, NEXT(ri)) <= Used)
    BY <1>1 DEF Links, LinkAt, Filled
  <2>2. Dist(FirstBusy, NEXT(ri)) = IF Used = RingSize - 1 THEN 0 ELSE Used + 1
    BY <1>1, Further DEF Used
  <2> QED BY <1>1, <2>1, <2>2
<1>4. Used' = Used + 1
  BY <1>2, <1>3 DEF Used
<1>5. ring'[NEXT(ri)] = d /\ \A j \in Slots : j # NEXT(ri) => ring'[j] = ring[j]
  BY <1>1 DEF Filled
<1>6. \A j \in Slots : Dist(FirstBusy, j) \in Nat
  BY <1>1, Distances
<1>7. \A j \in Slots : Dist(FirstBusy, j) = Used + 1 => j = NEXT(ri)
  BY <1>1, <1>3, Distances
<1>8. ASSUME NEW j \in Slots
      PROVE  LinkAt(ring'[j], Dist(FirstBusy', j), Used', gpc' = "start")
  <2>1. CASE j = NEXT(ri)
    <3>1. d.kind # "none" /\ ~d.proceed
      BY DEF Filled
    <3>2. LinkAt(d, Used + 1, Used + 1, TRUE)
      BY <1>1, <3>1 DEF LinkAt
    <3> QED BY <1>2, <1>3, <1>4, <1>5, <2>1, <3>2, Zenon
  <2>2. CASE j # NEXT(ri)
    <3>1. LinkAt(ring[j], Dist(FirstBusy, j), Used, FALSE)
      BY <1>2, Zenon DEF Links
    <3>2. Dist(FirstBusy, j) # Used + 1 /\ ring'[j] = ring[j]
      BY <1>5, <1>7, <2>2, Zenon
    <3>3. Dist(FirstBusy, j) \in Nat
      BY <1>6, Zenon
    <3>4. LinkAt(ring[j], Dist(FirstBusy, j), Used + 1, TRUE)
      BY <1>1, <3>1, <3>2, <3>3 DEF LinkAt
    <3> QED BY <1>2, <1>4, <3>2, <3>4, Zenon
  <2> QED BY <2>1, <2>2
<1>9. gpc' = "start" => Used' >= 1
  BY <1>1, <1>4
<1>10. Links'
  BY <1>8, <1>9, Zenon DEF Links
<1> QED BY <1>1, <1>3, <1>4, <1>5, <1>10

LEMMA LinkedLinks ==
  ASSUME Types, Links, Linked
  PROVE  /\ Links' /\ Used' = Used
         /\ \A j \in Slots : ring'[j].kind = ring[j].kind /\ ring'[j].req = ring[j].req
                             /\ (ring[j].proceed => ring'[j].proceed)
<1>1. /\ ri \in Slots /\ PREV(ri) \in Slots /\ ring \in [Slots -> Descriptor]
      /\ FirstBusy \in Slots /\ Used \in 0..(RingSize - 1) /\ RingSize \in Nat
  BY Slotted, Neighbours
<1>2. FirstBusy' = FirstBusy /\ ri' = ri /\ gpc' # "start" /\ gpc = "start"
  BY DEF Linked
<1>3. Used' = Used /\ Used >= 1
  BY <1>2 DEF Used, Links
<1>4. Dist(FirstBusy, PREV(ri)) = Used - 1
  <2>1. Dist(FirstBusy, PREV(ri)) = IF FirstBusy = ri THEN RingSize - 1 ELSE Used - 1
    BY <1>1, Further DEF Used
  <2>2. FirstBusy # ri
    BY <1>1, <1>3, Distances DEF Used
  <2> QED BY <2>1, <2>2
<1>5. \A j \in Slots : ring'[j].kind = ring[j].kind /\ ring'[j].req = ring[j].req
                       /\ (ring'[j].proceed <=> ring[j].proceed \/ j = PREV(ri))
  BY <1>1 DEF Linked, Descriptor
<1>6. \A j \in Slots : Dist(FirstBusy, j) \in Nat
  BY <1>1, Distances
<1>7. \A j \in Slots : Dist(FirstBusy, j) = Used - 1 => j = PREV(ri)
  BY <1>1, <1>4, Distances
<1>8. ASSUME NEW j \in Slots
      PROVE  LinkAt(ring'[j], Dist(FirstBusy', j), Used', gpc' = "start")
  <2>1. LinkAt(ring[j], Dist(FirstBusy, j), Used, TRUE)
    BY <1>2, Zenon DEF Links
  <2>2. Dist(FirstBusy, j) \in Nat /\ (Dist(FirstBusy, j) = Used - 1 <=> j = PREV(ri))
    BY <1>4, <1>6, <1>7, Zenon
  <2>3. ring'[j].kind = ring[j].kind /\ (ring'[j].proceed <=> ring[j].proceed \/ j = PREV(ri))
    BY <1>5, Zenon
  <2>4. LinkAt(ring'[j], Dist(FirstBusy, j), Used, FALSE)
    BY <1>1, <2>1, <2>2, <2>3 DEF LinkAt
  <2> QED BY <1>2, <1>3, <2>4, Zenon
<1>9. Links'
  BY <1>2, <1>8, Zenon DEF Links
<1> QED BY <1>3, <1>5, <1>9, Zenon

-----------------------------------------------------------------------------
(* The chains of buffers.                                                  *)

\* The descriptors keep their kinds and requests.
SameDescriptors ==
  \A j \in Slots : ring'[j].kind = ring[j].kind /\ ring'[j].req = ring[j].req

LEMMA SameChained ==
  ASSUME Chained, SameDescriptors, FirstBusy' = FirstBusy, Used' = Used
  PROVE  Chained'
<1> SUFFICES ASSUME NEW j \in Slots, Dist(FirstBusy, j) < Used, ring'[NEXT(j)].kind = "sg"
             PROVE  ring'[j].kind \in {"rw", "sg"} /\ ring'[j].req = ring'[NEXT(j)].req
  BY Zenon DEF Chained
<1>1. NEXT(j) \in Slots
  BY Neighbours
<1> QED BY <1>1, Zenon DEF Chained, SameDescriptors

LEMMA ReleaseChained ==
  ASSUME Types, Links, Chained, Release
  PROVE  Chained'
<1>1. /\ req_head \in Slots /\ ri \in Slots /\ ring \in [Slots -> Descriptor]
      /\ Used \in 0..(RingSize - 1) /\ RingSize \in Nat
  BY Slotted
<1>2. FirstBusy = req_head /\ FirstBusy' = NEXT(req_head)
  BY DEF Release, FirstBusy
<1>3. Used' = Used - 1
  BY ReleaseLinks
<1>4. \A j \in Slots : j # req_head => ring'[j] = ring[j]
  BY <1>1 DEF Release
<1> SUFFICES ASSUME NEW j \in Slots, Dist(FirstBusy', j) < Used', ring'[NEXT(j)].kind = "sg"
             PROVE  ring'[j].kind \in {"rw", "sg"} /\ ring'[j].req = ring'[NEXT(j)].req
  BY Zenon DEF Chained
<1>5. NEXT(j) \in Slots
  BY Neighbours
<1>6. Dist(FirstBusy', j) = IF j = req_head THEN RingSize - 1 ELSE Dist(req_head, j) - 1
  BY <1>1, <1>2, Further
<1>7. Dist(req_head, j) \in 0..(RingSize - 1) /\ Dist(req_head, req_head) = 0
  BY <1>1, Distances
<1>8. j # req_head /\ Dist(req_head, j) < Used
  BY <1>1, <1>3, <1>6, <1>7
<1>9. NEXT(j) # req_head
  <2>1. Dist(req_head, NEXT(j)) = IF Dist(req_head, j) = RingSize - 1 THEN 0
                                  ELSE Dist(req_head, j) + 1
    BY <1>1, Further
  <2> QED BY <1>1, <1>7, <1>8, <2>1
<1>10. ring'[j] = ring[j] /\ ring'[NEXT(j)] = ring[NEXT(j)]
  BY <1>4, <1>5, <1>8, <1>9, Zenon
<1> QED BY <1>2, <1>8, <1>10, Zenon DEF Chained

LEMMA FilledChained ==
  ASSUME Types, Links, Chained, NEW d \in Descriptor, Filled(d),
         d.kind = "sg" => ring[ri].kind \in {"rw", "sg"} /\ ring[ri].req = d.req
  PROVE  Chained'
<1>1. /\ ri \in Slots /\ NEXT(ri) \in Slots /\ FirstBusy \in Slots
      /\ Used \in 0..(RingSize - 1) /\ RingSize \in Nat
  BY Slotted, Neighbours
<1>2. /\ Used' = Used + 1 /\ Dist(FirstBusy, NEXT(ri)) = Used + 1 /\ NEXT(ri) # ri
      /\ ring'[NEXT(ri)] = d /\ \A j \in Slots : j # NEXT(ri) => ring'[j] = ring[j]
  BY FilledLinks, Zenon
<1>3. FirstBusy' = FirstBusy
  BY DEF Filled
<1> SUFFICES ASSUME NEW j \in Slots, Dist(FirstBusy, j) < Used + 1, ring'[NEXT(j)].kind = "sg"
             PROVE  ring'[j].kind \in {"rw", "sg"} /\ ring'[j].req = ring'[NEXT(j)].req
  BY <1>2, <1>3, Zenon DEF Chained
<1>4. NEXT(j) \in Slots
  BY Neighbours
<1>5. CASE j = ri
  BY <1>2, <1>5
<1>6. CASE j # ri
  <2>1. Dist(FirstBusy, j) \in 0..(RingSize - 1) /\ Dist(FirstBusy, j) # Used
    BY <1>1, <1>6, Distances DEF Used
  <2>2. Dist(FirstBusy, j) < Used
    BY <1>1, <2>1
  <2>3. Dist(FirstBusy, NEXT(j)) = IF Dist(FirstBusy, j) = RingSize - 1 THEN 0
                                   ELSE Dist(FirstBusy, j) + 1
    BY <1>1, Further
  <2>4. j # NEXT(ri) /\ NEXT(j) # NEXT(ri)
    BY <1>1, <1>2, <2>1, <2>2, <2>3
  <2>5. ring'[j] = ring[j] /\ ring'[NEXT(j)] = ring[NEXT(j)]
    BY <1>2, <1>4, <2>4, Zenon
  <2> QED BY <2>2, <2>5, Zenon DEF Chained
<1> QED BY <1>5, <1>6

-----------------------------------------------------------------------------
(* Steps of the driver.                                                    *)

\* The driver leaves slots in use alone, but for their links.
Respects ==
  /\ UNCHANGED <<ipc, proceed, vec, header, req_head>>
  /\ \A j \in Slots : ring[j].kind # "none" =>
       /\ ring'[j].kind = ring[j].kind /\ ring'[j].req = ring[j].req
       /\ ring[j].proceed => ring'[j].proceed

\* Then what do_work knows of the ring stays right.
LEMMA RespectsKeeps ==
  ASSUME Types, Links, Sampled, Decoded, Collected, Respects
  PROVE  Sampled' /\ Decoded' /\ Collected'
<1>1. req_head \in Slots /\ FirstBusy \in Slots /\ NEXT(req_head) \in Slots /\ Used \in Nat
  BY Slotted, Neighbours
<1>2. UNCHANGED <<ipc, proceed, vec, header, req_head>> /\ FirstBusy' = FirstBusy
  BY DEF Respects, FirstBusy
<1>3. ring[FirstBusy].kind # "none"
  BY <1>1, Distances DEF Links, LinkAt
<1>4. ring'[FirstBusy].kind = ring[FirstBusy].kind /\ ring'[FirstBusy].req = ring[FirstBusy].req
      /\ (ring[FirstBusy].proceed => ring'[FirstBusy].proceed)
  BY <1>1, <1>3, Zenon DEF Respects
<1>5. ipc # "clear_proceed" => FirstBusy = req_head
  BY DEF FirstBusy
<1>6. Sampled'
  BY <1>2, <1>4, <1>5 DEF Sampled, Cur
<1>7. Decoded'
  BY <1>2, <1>4, <1>5 DEF Decoded, Cur
<1>8. Succ.kind = "sg" => Succ'.kind = "sg"
  BY <1>1, <1>2 DEF Succ, Respects
<1>9. Collected'
  BY <1>2, <1>4, <1>8 DEF Collected
<1> QED BY <1>6, <1>7, <1>9

\* A step of the driver that does not touch the ring.
LEMMA QuietGuest ==
  ASSUME Types, Links, Chained, ring' = ring, ri' = ri, UNCHANGED ioVars, req_head' = req_head,
         gpc' = "start" <=> gpc = "start"
  PROVE  Links' /\ Chained' /\ Respects
<1>1. UNCHANGED <<ipc, proceed, vec, header>>
  BY DEF ioVars
<1>2. FirstBusy' = FirstBusy
  BY <1>1 DEF FirstBusy
<1>3. Quiet
  BY <1>2 DEF Quiet
<1>4. Used' = Used
  BY <1>2 DEF Used
<1>5. SameDescriptors
  BY DEF SameDescriptors
<1>6. Respects
  BY <1>1 DEF Respects
<1> QED BY <1>2, <1>3, <1>4, <1>5, <1>6, QuietLinks, SameChained, Zenon

\* processRequest fills a free slot: the slots in use are not touched, and a
\* buffer follows what the driver has filled before for the same request.
LEMMA FillGuest ==
  ASSUME Types, Links, Chained, Partial, gpc = "process",
         NEW kind \in {"ctl", "rw", "sg", "nop"}, NEW irq \in BOOLEAN, NEW last \in BOOLEAN,
         Fill(kind, irq, last), kind = "sg" => req.sent > 0, ~last => kind \in {"rw", "sg"}
  PROVE  Links' /\ Chained' /\ Respects /\ Partial' /\ ring' \in [Slots -> Descriptor]
         /\ ri' \in Slots
<1> DEFINE d == [kind |-> kind, irq |-> irq, proceed |-> FALSE, req |-> req.id]
<1>1. req.id \in Requests /\ req \in [id : Nat, sent : Nat]
  BY DEF Types, QueueTyped, Begun, NoReq
<1>2. d \in Descriptor /\ d.kind = kind /\ ~d.proceed /\ d.req = req.id
  BY <1>1 DEF Descriptor
<1>3. /\ ri \in Slots /\ NEXT(ri) \in Slots /\ ring \in [Slots -> Descriptor]
      /\ FirstBusy \in Slots /\ req_head \in Slots
  BY Slotted, Neighbours
<1>4. /\ ring[NEXT(ri)].kind = "none" /\ ri' = NEXT(ri) /\ ring' = [ring EXCEPT ![NEXT(ri)] = d]
      /\ gpc' = "start" /\ req' = (IF last THEN NoReq ELSE [req EXCEPT !.sent = @ + 1])
      /\ reqQueue' = reqQueue /\ UNCHANGED <<ipc, proceed, vec, header, req_head>>
  BY DEF Fill, ioVars, engineVars
<1>5. FirstBusy' = FirstBusy
  BY <1>4 DEF FirstBusy
<1> HIDE DEF d
<1>6. Filled(d)
  BY <1>2, <1>4, <1>5 DEF Filled
<1>7. /\ Links' /\ ring'[NEXT(ri)] = d
      /\ \A j \in Slots : j # NEXT(ri) => ring'[j] = ring[j]
  BY <1>2, <1>6, FilledLinks, Zenon
<1>8. Chained'
  <2>1. d.kind = "sg" => ring[ri].kind \in {"rw", "sg"} /\ ring[ri].req = d.req
    BY <1>2 DEF Partial, Begun, Open
  <2> QED BY <1>2, <1>6, <2>1, FilledChained, Zenon
<1>9. Respects
  BY <1>4, <1>7 DEF Respects
<1>10. Partial'
  <2>1. \A i \in DOMAIN reqQueue : reqQueue[i].sent = 0
    BY DEF Partial, Begun
  <2>2. Open(req)'
    <3>1. CASE last
      BY <1>4, <3>1 DEF Open, NoReq
    <3>2. CASE ~last
      <4>1. req'.id = req.id
        BY <1>1, <1>4, <3>2
      <4> QED BY <1>2, <1>4, <1>7, <3>2, <4>1 DEF Open
    <3> QED BY <3>1, <3>2
  <2> QED BY <1>4, <2>1, <2>2 DEF Partial, Begun
<1>11. ring' \in [Slots -> Descriptor] /\ ri' \in Slots
  BY <1>2, <1>3, <1>4
<1> QED BY <1>7, <1>8, <1>9, <1>10, <1>11

\* START_REQUEST
LEMMA StartGuest ==
  ASSUME Types, Links, Chained, Partial, StartRequest
  PROVE  Links' /\ Chained' /\ Respects /\ Partial' /\ ring' \in [Slots -> Descriptor]
<1>1. /\ ri \in Slots /\ PREV(ri) \in Slots /\ ring \in [Slots -> Descriptor]
      /\ FirstBusy \in Slots /\ req_head \in Slots
  BY Slotted, Neighbours
<1>2. /\ gpc = "start" /\ gpc' \in {"kick", "process"} /\ ri' = ri
      /\ ring' = [ring EXCEPT ![PREV(ri)].proceed = TRUE]
      /\ UNCHANGED <<ipc, proceed, vec, header, req_head, req, reqQueue>>
  BY DEF StartRequest, ioVars, engineVars, driverVars
<1>3. FirstBusy' = FirstBusy
  BY <1>2 DEF FirstBusy
<1>4. Linked
  BY <1>2, <1>3 DEF Linked
<1>5. /\ Links' /\ Used' = Used
      /\ \A j \in Slots : ring'[j].kind = ring[j].kind /\ ring'[j].req = ring[j].req
                          /\ (ring[j].proceed => ring'[j].proceed)
  BY <1>4, LinkedLinks, Zenon
<1>6. SameDescriptors
  BY <1>5, Zenon DEF SameDescriptors
<1>7. Chained'
  BY <1>3, <1>5, <1>6, SameChained, Zenon
<1>8. Respects
  BY <1>2, <1>5 DEF Respects
<1>9. Partial'
  <2>1. Open(req) /\ \A i \in DOMAIN reqQueue : reqQueue[i].sent = 0
    BY <1>2 DEF Partial, Begun
  <2>2. Open(req)' /\ \A i \in DOMAIN reqQueue : Open(reqQueue[i])'
    BY <1>1, <1>2, <1>5, <2>1 DEF Open
  <2> QED BY <1>2, <2>1, <2>2 DEF Partial
<1>10. ring' \in [Slots -> Descriptor]
  BY <1>1, <1>2, Zenon DEF Descriptor
<1> QED BY <1>5, <1>7, <1>8, <1>9, <1>10

\* steps of the driver between two requests: osip_ablk_irq_ack, the completion
\* of requests, events and the end of processRequest
Ack == AckLow \/ AckKick \/ AckCount \/ AckActive \/ AckEvent \/ AckClear

LEMMA AckFrame ==
  ASSUME Ack \/ GetEvents \/ CompleteRequests \/ PostEvent \/ KickEngine
  PROVE  /\ UNCHANGED <<ring, ri, req_head, ipc, proceed, vec, header, req, reqQueue, size>>
         /\ UNCHANGED <<running, n_requests, reqCount, executed>>
         /\ gpc \notin Begun /\ gpc' \notin Begun
<1>1. CASE Ack
  BY <1>1 DEF Ack, AckLow, AckKick, AckCount, AckActive, AckEvent, AckClear, engineVars, ioVars,
     driverVars, history, Begun
<1>2. CASE GetEvents
  BY <1>2 DEF GetEvents, engineVars, ioVars, driverVars, history, Begun
<1>3. CASE CompleteRequests
  BY <1>3 DEF CompleteRequests, engineVars, ioVars, Begun
<1>4. CASE PostEvent
  BY <1>4 DEF PostEvent, engineVars, ioVars, guestVars, driverVars, history, Begun
<1>5. CASE KickEngine
  BY <1>5 DEF KickEngine, ioVars, history, Begun
<1> QED BY <1>1, <1>2, <1>3, <1>4, <1>5

LEMMA AckFlags ==
  ASSUME FlagsTyped, CountsTyped, Passes,
         Ack \/ GetEvents \/ CompleteRequests \/ PostEvent \/ KickEngine
  PROVE  FlagsTyped' /\ CountsTyped' /\ Passes'
<1>1. /\ UNCHANGED <<running, n_requests, reqCount, ipc, proceed>>
  BY AckFrame, Zenon
<1>2. /\ active' \in BOOLEAN /\ ctrl_pipe' \in 0..1
      /\ \/ UNCHANGED <<active, ctrl_pipe>>
         \/ active' = TRUE /\ ctrl_pipe' = IF active THEN ctrl_pipe ELSE 1
  <2>1. active \in BOOLEAN /\ ctrl_pipe \in 0..1 /\ (~active => ctrl_pipe = 0)
    BY DEF FlagsTyped, Passes, OnePass
  <2>2. CASE UNCHANGED <<active, ctrl_pipe>>
    BY <2>1, <2>2
  <2>3. CASE Kick
    <3>1. active' = TRUE /\ ctrl_pipe' = IF active THEN ctrl_pipe ELSE ctrl_pipe + 1
      BY <2>3 DEF Kick
    <3>2. CASE active
      BY <2>1, <3>1, <3>2
    <3>3. CASE ~active
      BY <2>1, <3>1, <3>3
    <3> QED BY <3>2, <3>3, Zenon
  <2>4. UNCHANGED <<active, ctrl_pipe>> \/ Kick
    BY DEF Ack, AckLow, AckKick, AckCount, AckActive, AckEvent, AckClear, GetEvents,
       CompleteRequests, PostEvent, KickEngine, engineVars
  <2> QED BY <2>2, <2>3, <2>4, Zenon
<1>3. line' \in BOOLEAN /\ event' \in BOOLEAN /\ events' \in BOOLEAN
  BY Zenon DEF FlagsTyped, Ack, AckLow, AckKick, AckCount, AckActive, AckEvent, AckClear, GetEvents,
     CompleteRequests, PostEvent, KickEngine, eventVars
<1>4. driverRunning' \in BOOLEAN
  BY Zenon DEF FlagsTyped, Ack, AckLow, AckKick, AckCount, AckActive, AckEvent, AckClear, GetEvents,
     CompleteRequests, PostEvent, KickEngine, driverVars, guestVars
<1>5. reply' \in [count : 0..(CountMod - 1), event : BOOLEAN]
  <2>1. 0 \in 0..(CountMod - 1)
    BY CountAssumption DEF CountAssumption
  <2>2. \/ reply' = reply \/ reply' = [reply EXCEPT !.count = n_requests]
        \/ reply' = [reply EXCEPT !.event = event] \/ reply' = [count |-> 0, event |-> FALSE]
    BY DEF Ack, AckLow, AckKick, AckCount, AckActive, AckEvent, AckClear, GetEvents,
       CompleteRequests, PostEvent, KickEngine, driverVars, guestVars
  <2>3. reply \in [count : 0..(CountMod - 1), event : BOOLEAN] /\ event \in BOOLEAN
        /\ n_requests \in 0..(CountMod - 1)
    BY DEF CountsTyped, FlagsTyped
  <2>4. CASE reply' = [reply EXCEPT !.count = n_requests]
    BY <2>3, <2>4
  <2>5. CASE reply' = [reply EXCEPT !.event = event]
    BY <2>3, <2>5, Zenon
  <2>6. CASE reply' = [count |-> 0, event |-> FALSE]
    BY <2>1, <2>6
  <2> QED BY <2>2, <2>3, <2>4, <2>5, <2>6, Zenon
<1>6. FlagsTyped'
  BY <1>1, <1>2, <1>3, <1>4 DEF FlagsTyped
<1>7. CountsTyped'
  BY <1>1, <1>5 DEF CountsTyped
<1>8. Passes'
  BY <1>1, <1>2 DEF Passes, OnePass, FlagsTyped
<1> QED BY <1>6, <1>7, <1>8

LEMMA AckStep ==
  ASSUME AInv, Ack \/ GetEvents \/ CompleteRequests \/ PostEvent \/ KickEngine
  PROVE  AInv'
<1>1. /\ UNCHANGED <<ring, ri, req_head, ipc, proceed, vec, header, req, reqQueue, size>>
      /\ gpc \notin Begun /\ gpc' \notin Begun
  BY AckFrame, Zenon
<1>2. FlagsTyped' /\ CountsTyped' /\ Passes'
  BY AckFlags, Zenon DEF AInv, Types
<1>3. Links' /\ Chained' /\ Respects
  <2>1. UNCHANGED ioVars /\ (gpc' = "start" <=> gpc = "start")
    BY <1>1 DEF ioVars, Begun
  <2> QED BY <1>1, <2>1, QuietGuest, Zenon DEF AInv
<1>4. Sampled' /\ Decoded' /\ Collected'
  BY <1>3, RespectsKeeps, Zenon DEF AInv
<1>5. RingTyped' /\ QueueTyped' /\ VecTyped'
  BY <1>1 DEF AInv, Types, RingTyped, QueueTyped, VecTyped
<1>6. Partial'
  BY <1>1 DEF AInv, Partial, Open
<1> QED BY <1>2, <1>3, <1>4, <1>5, <1>6, Zenon DEF AInv, Types

\* The engine's own state does not change in the driver's steps on its queue
\* and on the ring.
GuestOnly ==
  UNCHANGED <<req_head, running, active, ctrl_pipe, n_requests, line, event, events,
              driverRunning, reply, ipc, proceed, vec, header>>

LEMMA GuestOnlyTyped ==
  ASSUME FlagsTyped, CountsTyped, VecTyped, Passes, GuestOnly,
         reqCount' \in 0..(CountMod - 1)
  PROVE  FlagsTyped' /\ CountsTyped' /\ VecTyped' /\ Passes'
<1>1. FlagsTyped'
  BY DEF FlagsTyped, GuestOnly
<1>2. CountsTyped'
  BY DEF CountsTyped, GuestOnly
<1>3. VecTyped'
  BY DEF VecTyped, GuestOnly
<1>4. Passes'
  BY DEF Passes, OnePass, GuestOnly
<1> QED BY <1>1, <1>2, <1>3, <1>4

\* receiveCmd
LEMMA ReceiveStep ==
  ASSUME AInv, NEW k \in SgCounts, ReceiveCmd(k)
  PROVE  AInv'
<1>1. /\ UNCHANGED <<ring, ri, reqCount>> /\ GuestOnly /\ UNCHANGED ioVars
      /\ gpc = "idle" /\ gpc' \in {"idle", "process"}
  BY DEF ReceiveCmd, GuestOnly, engineVars, eventVars, ioVars
<1>2. FlagsTyped' /\ CountsTyped' /\ VecTyped' /\ Passes'
  <2>1. reqCount' \in 0..(CountMod - 1)
    BY <1>1 DEF AInv, Types, CountsTyped
  <2> QED BY <1>1, <2>1, GuestOnlyTyped, Zenon DEF AInv, Types
<1>3. Links' /\ Chained' /\ Respects
  <2>1. gpc' = "start" <=> gpc = "start"
    BY <1>1
  <2> QED BY <1>1, <2>1, QuietGuest, Zenon DEF AInv, GuestOnly
<1>4. Sampled' /\ Decoded' /\ Collected'
  BY <1>3, RespectsKeeps, Zenon DEF AInv
<1>5. RingTyped'
  BY <1>1 DEF AInv, Types, RingTyped, GuestOnly
<1> DEFINE new == [id |-> Len(size) + 1, sent |-> 0]
<1>6. reqQueue \in Seq(Request) /\ size \in Seq(Nat) /\ req \in [id : Nat, sent : Nat]
  BY DEF AInv, Types, QueueTyped
<1>7. new \in Request /\ new.sent = 0 /\ new.id \in Requests /\ new \in [id : Nat, sent : Nat]
  BY <1>6, BoundsAssumption DEF ReceiveCmd, Requests, Request, BoundsAssumption
<1>8. size' \in Seq(Nat)
  BY <1>6, BoundsAssumption DEF ReceiveCmd, BoundsAssumption
<1>9. \/ reqQueue = <<>> /\ req' = new /\ gpc' = "process" /\ reqQueue' = reqQueue
      \/ reqQueue # <<>> /\ reqQueue' = Append(reqQueue, new) /\ req' = req /\ gpc' = "idle"
  BY <1>1 DEF ReceiveCmd
<1>10. \A i \in DOMAIN reqQueue :
         IF i = 1 THEN Open(reqQueue[i]) ELSE reqQueue[i].sent = 0
  BY <1>1 DEF AInv, Partial, Begun
<1> HIDE DEF new
<1>12. CASE reqQueue = <<>> /\ req' = new /\ gpc' = "process" /\ reqQueue' = reqQueue
  <2>1. QueueTyped'
    BY <1>6, <1>7, <1>8, <1>12 DEF QueueTyped
  <2>2. Partial'
    BY <1>7, <1>12 DEF Partial, Open
  <2> QED BY <1>2, <1>3, <1>4, <1>5, <2>1, <2>2, Zenon DEF AInv, Types
<1>13. CASE reqQueue # <<>> /\ reqQueue' = Append(reqQueue, new) /\ req' = req /\ gpc' = "idle"
  <2>1. reqQueue' \in Seq(Request) /\ Len(reqQueue') = Len(reqQueue) + 1
    BY <1>6, <1>7, <1>13
  <2>2. QueueTyped'
    BY <1>6, <1>8, <1>13, <2>1 DEF QueueTyped, Begun
  <2>3. Partial'
    <3>1. ASSUME NEW i \in DOMAIN reqQueue'
          PROVE  IF i = 1 THEN Open(reqQueue[i])' ELSE reqQueue'[i].sent = 0
      <4>1. Len(reqQueue) \in Nat /\ Len(reqQueue) # 0 /\ DOMAIN reqQueue = 1..Len(reqQueue)
        BY <1>6, <1>13, EmptySeq
      <4>2. CASE i \in 1..Len(reqQueue)
        <5>1. reqQueue'[i] = reqQueue[i]
          BY <1>6, <1>7, <1>13, <4>2
        <5> QED BY <1>1, <1>10, <4>1, <4>2, <5>1 DEF Open
      <4>3. CASE i = Len(reqQueue) + 1
        <5>1. reqQueue'[i] = new
          BY <1>6, <1>7, <1>13, <4>3
        <5> QED BY <1>7, <4>1, <4>3, <5>1
      <4>4. DOMAIN reqQueue' = 1..(Len(reqQueue) + 1)
        BY <2>1
      <4> QED BY <4>1, <4>2, <4>3, <4>4
    <3> QED BY <1>13, <3>1 DEF Partial, Begun
  <2> QED BY <1>2, <1>3, <1>4, <1>5, <2>2, <2>3, Zenon DEF AInv, Types
<1> QED BY <1>9, <1>12, <1>13

\* The driver takes the first request of its queue, or puts the request in
\* hand back to the front.
LEMMA QueueStep ==
  ASSUME AInv, Dequeue \/ Saturated
  PROVE  AInv'
<1>1. /\ UNCHANGED <<ring, ri, reqCount, size>> /\ GuestOnly /\ UNCHANGED ioVars
      /\ gpc \in {"dequeue", "process"} /\ gpc' \in {"idle", "process", "kick"}
  BY DEF Dequeue, Saturated, GuestOnly, engineVars, eventVars, ioVars, history
<1>2. FlagsTyped' /\ CountsTyped' /\ VecTyped' /\ Passes'
  <2>1. reqCount' \in 0..(CountMod - 1)
    BY <1>1 DEF AInv, Types, CountsTyped
  <2> QED BY <1>1, <2>1, GuestOnlyTyped, Zenon DEF AInv, Types
<1>3. Links' /\ Chained' /\ Respects
  <2>1. gpc' = "start" <=> gpc = "start"
    BY <1>1
  <2> QED BY <1>1, <2>1, QuietGuest, Zenon DEF AInv, GuestOnly
<1>4. Sampled' /\ Decoded' /\ Collected'
  BY <1>3, RespectsKeeps, Zenon DEF AInv
<1>5. RingTyped'
  BY <1>1 DEF AInv, Types, RingTyped, GuestOnly
<1>6. /\ reqQueue \in Seq(Request) /\ size \in Seq(Nat) /\ req \in [id : Nat, sent : Nat]
      /\ gpc = "process" => req.id \in Requests
  BY DEF AInv, Types, QueueTyped, Begun, NoReq
<1>7. /\ Len(reqQueue) \in Nat /\ DOMAIN reqQueue = 1..Len(reqQueue)
      /\ \A i \in 1..Len(reqQueue) : reqQueue[i] \in Request
  BY <1>6, LenProperties, ElementOfSeq
<1>8. \A r \in Request : r \in [id : Nat, sent : Nat] /\ r.id \in Requests
  BY BoundsAssumption DEF Request, Requests, BoundsAssumption
<1>9. CASE Dequeue /\ reqQueue = <<>>
  <2>1. gpc = "dequeue" /\ gpc' = "idle" /\ UNCHANGED <<req, reqQueue>>
    BY <1>9 DEF Dequeue
  <2>2. QueueTyped'
    BY <1>1, <1>6, <2>1 DEF QueueTyped, Begun
  <2>3. Partial'
    BY <1>9, <2>1 DEF Partial, Begun
  <2> QED BY <1>2, <1>3, <1>4, <1>5, <2>2, <2>3, Zenon DEF AInv, Types
<1>10. CASE Dequeue /\ reqQueue # <<>>
  <2>1. /\ gpc = "dequeue" /\ gpc' = "process" /\ req' = reqQueue[1]
        /\ reqQueue' = Tail(reqQueue)
    BY <1>10 DEF Dequeue
  <2>2. 1 \in 1..Len(reqQueue)
    BY <1>6, <1>7, <1>10, EmptySeq
  <2>3. Open(reqQueue[1]) /\ \A i \in 2..Len(reqQueue) : reqQueue[i].sent = 0
    BY <1>7, <2>1, <2>2 DEF AInv, Partial, Begun
  <2>4. /\ reqQueue' \in Seq(Request) /\ DOMAIN reqQueue' = 1..(Len(reqQueue) - 1)
        /\ \A i \in 1..(Len(reqQueue) - 1) : reqQueue'[i] = reqQueue[i + 1]
    BY <1>6, <1>10, <2>1, HeadTailProperties
  <2>5. \A i \in DOMAIN reqQueue' : reqQueue'[i].sent = 0
    BY <1>7, <2>3, <2>4
  <2>6. QueueTyped'
    <3>1. req' \in Request
      BY <1>7, <2>1, <2>2
    <3> QED BY <1>1, <1>6, <1>8, <2>4, <3>1 DEF QueueTyped
  <2>7. Open(req)'
    BY <1>1, <2>1, <2>3 DEF Open
  <2>8. Partial'
    BY <2>1, <2>5, <2>7 DEF Partial, Begun
  <2> QED BY <1>2, <1>3, <1>4, <1>5, <2>6, <2>8, Zenon DEF AInv, Types
<1>11. CASE Saturated
  <2>1. gpc = "process" /\ gpc' = "kick" /\ req' = NoReq /\ reqQueue' = <<req>> \o reqQueue
    BY <1>11 DEF Saturated
  <2>2. Open(req) /\ \A i \in 1..Len(reqQueue) : reqQueue[i].sent = 0
    BY <1>7, <2>1 DEF AInv, Partial, Begun
  <2>3. req \in Request
    BY <1>6, <2>1 DEF Request
  <2>4. /\ reqQueue' \in Seq(Request) /\ DOMAIN reqQueue' = 1..(Len(reqQueue) + 1)
        /\ reqQueue'[1] = req
        /\ \A i \in 2..(Len(reqQueue) + 1) : reqQueue'[i] = reqQueue[i - 1]
    BY <1>6, <1>7, <2>1, <2>3
  <2>5. QueueTyped'
    BY <1>1, <1>6, <2>1, <2>4 DEF QueueTyped, NoReq, Begun
  <2>6. Open(reqQueue[1])'
    BY <1>1, <2>2, <2>4 DEF Open
  <2>7. \A i \in 2..(Len(reqQueue) + 1) : reqQueue'[i].sent = 0
    BY <1>7, <2>2, <2>4
  <2>8. Partial'
    BY <1>7, <2>1, <2>4, <2>6, <2>7 DEF Partial, Begun
  <2> QED BY <1>2, <1>3, <1>4, <1>5, <2>5, <2>8, Zenon DEF AInv, Types
<1> QED BY <1>9, <1>10, <1>11

\* processRequest: the descriptors of a request, and START_REQUEST
LEMMA FillStep ==
  ASSUME AInv, FillControl \/ FillHeader \/ FillBuffer \/ FillShort \/ StartRequest
  PROVE  AInv'
<1>1. GuestOnly
  BY DEF FillControl, FillHeader, FillBuffer, FillShort, StartRequest, Fill, GuestOnly,
     engineVars, eventVars, ioVars, driverVars
<1>2. reqCount' \in 0..(CountMod - 1)
  <2>1. reqCount' = reqCount \/ reqCount' = (reqCount + 1) % CountMod
    BY DEF FillControl, FillHeader, FillBuffer, FillShort, StartRequest, Fill, driverVars
  <2>2. reqCount \in 0..(CountMod - 1) /\ CountMod \in Nat \ {0}
    BY CountAssumption DEF AInv, Types, CountsTyped, CountAssumption
  <2> QED BY <2>1, <2>2
<1>3. FlagsTyped' /\ CountsTyped' /\ VecTyped' /\ Passes'
  BY <1>1, <1>2, GuestOnlyTyped, Zenon DEF AInv, Types
<1>4. size \in Seq(Nat) /\ req \in [id : Nat, sent : Nat]
      /\ reqQueue \in Seq(Request)
  BY DEF AInv, Types, QueueTyped
<1>5. /\ Links' /\ Chained' /\ Respects /\ Partial' /\ ring' \in [Slots -> Descriptor]
      /\ ri' \in Slots
  <2>1. CASE FillControl
    BY <2>1, FillGuest, Zenon DEF FillControl, AInv
  <2>2. CASE FillHeader
    BY <2>2, FillGuest, Zenon DEF FillHeader, AInv
  <2>3. CASE FillBuffer
    BY <2>3, FillGuest, Zenon DEF FillBuffer, AInv
  <2>4. CASE FillShort
    BY <2>4, FillGuest, Zenon DEF FillShort, AInv
  <2>5. CASE StartRequest
    <3>1. ri' = ri
      BY <2>5 DEF StartRequest, driverVars
    <3> QED BY <2>5, <3>1, StartGuest DEF AInv, Types, RingTyped
  <2> QED BY <2>1, <2>2, <2>3, <2>4, <2>5
<1>6. size' \in Seq(Nat)
  <2>1. CASE size' = size
    BY <1>4, <2>1
  <2>2. CASE FillShort
    <3>1. size' = [size EXCEPT ![req.id] = req.sent - 1] /\ req.sent - 1 \in Nat
      BY <1>4, <2>2 DEF FillShort
    <3>2. Len(size) \in Nat /\ size \in [1..Len(size) -> Nat]
      BY <1>4, LenProperties
    <3>3. size' \in [1..Len(size) -> Nat]
      BY <3>1, <3>2, Zenon
    <3> QED BY <3>2, <3>3, IsASeq
  <2> QED BY <2>1, <2>2, Zenon DEF FillControl, FillHeader, FillBuffer, StartRequest, history
<1>7. QueueTyped'
  <2>1. reqQueue' = reqQueue
    BY DEF FillControl, FillHeader, FillBuffer, FillShort, StartRequest, Fill, driverVars
  <2>2. CASE StartRequest
    <3>1. req' = req /\ gpc = "start" /\ gpc' = (IF req = NoReq THEN "kick" ELSE "process")
      BY <2>2 DEF StartRequest, driverVars
    <3>2. req = NoReq \/ req.id \in Requests
      BY <3>1 DEF AInv, Types, QueueTyped, Begun
    <3> QED BY <1>4, <1>6, <2>1, <3>1, <3>2 DEF QueueTyped, Begun
  <2>3. CASE ~StartRequest
    <3>1. /\ gpc = "process" /\ gpc' = "start"
          /\ req' = NoReq \/ req' = [req EXCEPT !.sent = @ + 1]
      BY <2>3 DEF FillControl, FillHeader, FillBuffer, FillShort, Fill
    <3>2. req.id \in Requests
      BY <3>1 DEF AInv, Types, QueueTyped, Begun, NoReq
    <3> QED BY <1>4, <1>6, <2>1, <3>1, <3>2 DEF QueueTyped, NoReq
  <2> QED BY <2>2, <2>3
<1>8. RingTyped'
  BY <1>1, <1>5 DEF AInv, Types, RingTyped, GuestOnly
<1>9. Sampled' /\ Decoded' /\ Collected'
  BY <1>5, RespectsKeeps, Zenon DEF AInv
<1> QED BY <1>3, <1>5, <1>7, <1>8, <1>9, Zenon DEF AInv, Types

-----------------------------------------------------------------------------
(* Steps of the i/o thread.                                                *)

\* The steps of ablk_post_event and of the interrupts of do_work, which change
\* neither the ring nor what was collected.
Signal == IoPost \/ IoPostFlag \/ IoPostIrq \/ IoCtlIrq \/ IoCount \/ IoExecIrq
          \/ IoStall \/ IoStallIrq

LEMMA IoFrame ==
  ASSUME IoThread \/ IoError
  PROVE  UNCHANGED <<ri, gpc, reqCount, driverRunning, req, reqQueue, reply, size>>
<1>1. UNCHANGED guestVars /\ UNCHANGED size
  BY DEF IoThread, IoError, IoRead, IoTop, IoExec, IoExecIrq, IoAdvance, IoClearProceed,
     IoFetch, IoPost, IoPostFlag, IoPostIrq, IoCtlIrq, IoCount, IoStall, IoStallIrq, history
<1> QED BY <1>1 DEF guestVars, driverVars

\* The engine's flags: it is active from the kick to the stall.
LEMMA IoFlags ==
  ASSUME RingTyped, FlagsTyped, Passes, IoThread \/ IoError
  PROVE  FlagsTyped' /\ Passes'
<1> DEFINE Out == {"idle", "stall_irq"}
<1>1. driverRunning' \in BOOLEAN
  BY IoFrame DEF FlagsTyped
<1>2. CASE IoRead
  <2>1. /\ ctrl_pipe = 1 /\ ctrl_pipe' = 0 /\ active /\ ipc' = "top"
        /\ UNCHANGED <<running, active, line, event, events, proceed>>
    BY <1>2 DEF IoRead, eventVars, FlagsTyped, Passes, OnePass
  <2> QED BY <1>1, <2>1 DEF FlagsTyped, Passes, OnePass
<1>3. CASE IoStall
  <2>1. /\ ipc = "stall" /\ ipc' = "stall_irq" /\ active' = FALSE /\ ctrl_pipe' = ctrl_pipe
        /\ UNCHANGED <<running, line, event, events, proceed>>
    BY <1>3 DEF IoStall, eventVars
  <2>2. ctrl_pipe = 0
    BY <2>1 DEF FlagsTyped, Passes
  <2> QED BY <1>1, <2>1, <2>2, Zenon DEF FlagsTyped, Passes, OnePass
<1>4. CASE IoStallIrq
  <2>1. /\ ipc = "stall_irq" /\ ipc' = "idle" /\ line' = TRUE
        /\ UNCHANGED <<running, active, ctrl_pipe, event, events, proceed>>
    BY <1>4 DEF IoStallIrq, eventVars, engineVars
  <2> QED BY <1>1, <2>1 DEF FlagsTyped, Passes, OnePass
<1>5. CASE ipc \notin Out /\ ipc' \notin Out /\ UNCHANGED <<active, ctrl_pipe>>
           /\ running' \in BOOLEAN /\ line' \in BOOLEAN /\ event' \in BOOLEAN
           /\ events' \in BOOLEAN /\ proceed' \in BOOLEAN
  BY <1>1, <1>5 DEF FlagsTyped, Passes, OnePass
<1>6. CASE IoExecIrq \/ IoPost \/ IoPostFlag \/ IoPostIrq \/ IoCtlIrq \/ IoCount
  <2>1. ipc \notin Out /\ ipc' \notin Out /\ UNCHANGED <<active, ctrl_pipe, running, proceed>>
    BY <1>6 DEF IoExecIrq, IoPost, IoPostFlag, IoPostIrq, IoCtlIrq, IoCount, engineVars
  <2>2. line' \in BOOLEAN /\ event' \in BOOLEAN /\ events' \in BOOLEAN
    BY <1>6, Zenon DEF IoExecIrq, IoPost, IoPostFlag, IoPostIrq, IoCtlIrq, IoCount, eventVars,
       FlagsTyped
  <2> QED BY <1>5, <2>1, <2>2 DEF FlagsTyped
<1>7. CASE IoExec \/ IoAdvance \/ IoClearProceed
  <2>1. ipc \notin Out /\ ipc' \notin Out /\ UNCHANGED <<active, ctrl_pipe, running, proceed>>
    BY <1>7 DEF IoExec, IoAdvance, IoClearProceed, engineVars
  <2>2. UNCHANGED <<line, event, events>>
    BY <1>7 DEF IoExec, IoAdvance, IoClearProceed, eventVars
  <2> QED BY <1>5, <2>1, <2>2 DEF FlagsTyped
<1>8. CASE IoFetch
  <2>1. ipc = "fetch" /\ ipc' \in {"top", "count", "ctl_irq", "post"}
        /\ UNCHANGED <<active, ctrl_pipe, running, proceed, line, event, events>>
    BY <1>8 DEF IoFetch, engineVars, eventVars
  <2> QED BY <1>5, <2>1 DEF FlagsTyped
<1>9. CASE IoError
  <2>1. ipc \in {"exec", "fetch"} /\ ipc' = "stall" /\ running' = FALSE /\ proceed' = FALSE
        /\ UNCHANGED <<active, ctrl_pipe, line, event, events>>
    BY <1>9 DEF IoError, eventVars
  <2> QED BY <1>5, <2>1, Zenon DEF FlagsTyped
<1>10. CASE IoTop
  <2>1. ipc = "top" /\ ipc' \in {"exec", "advance"} /\ proceed' = ring[req_head].proceed
        /\ UNCHANGED <<active, ctrl_pipe, running, line, event, events>>
    BY <1>10 DEF IoTop, Cur, engineVars, eventVars
  <2>2. proceed' \in BOOLEAN
    BY <2>1 DEF RingTyped, Descriptor
  <2> QED BY <1>5, <2>1, <2>2 DEF FlagsTyped
<1> QED BY <1>2, <1>3, <1>4, <1>6, <1>7, <1>8, <1>9, <1>10, Zenon DEF IoThread

\* A step of the i/o thread that changes neither the ring nor its head.
LEMMA QuietIo ==
  ASSUME Types, Links, Chained, Partial, IoThread \/ IoError, UNCHANGED <<ring, req_head>>,
         ipc # "clear_proceed", ipc' # "clear_proceed"
  PROVE  Links' /\ Chained' /\ Partial' /\ RingTyped' /\ QueueTyped' /\ FirstBusy' = FirstBusy
<1>1. UNCHANGED <<ri, gpc, req, reqQueue, size>>
  BY IoFrame, Zenon
<1>2. FirstBusy' = FirstBusy
  BY DEF FirstBusy
<1>3. Quiet /\ Used' = Used
  BY <1>1, <1>2 DEF Quiet, Used
<1>4. SameDescriptors
  BY DEF SameDescriptors
<1>5. Links' /\ Chained'
  BY <1>2, <1>3, <1>4, QuietLinks, SameChained, Zenon
<1>6. Partial'
  BY <1>1 DEF Partial, Open
<1>7. RingTyped' /\ QueueTyped'
  BY <1>1 DEF Types, RingTyped, QueueTyped
<1> QED BY <1>2, <1>5, <1>6, <1>7

\* do_work's interrupts and counts
LEMMA SignalStep ==
  ASSUME AInv, Signal
  PROVE  AInv'
<1>1. /\ UNCHANGED <<ring, req_head, proceed, vec, header>>
      /\ ipc # "clear_proceed" /\ ipc' # "clear_proceed"
      /\ ipc \in {"post", "post_flag", "post_irq", "ctl_irq", "count", "exec_irq", "stall",
                  "stall_irq"}
      /\ ipc' \in {"post_flag", "post_irq", "ctl_irq", "count", "top", "advance", "stall_irq",
                   "idle"}
      /\ ipc' = "advance" => ipc = "exec_irq"
  BY DEF Signal, IoPost, IoPostFlag, IoPostIrq, IoCtlIrq, IoCount, IoExecIrq, IoStall,
     IoStallIrq, engineVars
<1>2. IoThread
  BY DEF Signal, IoThread
<1>3. Links' /\ Chained' /\ Partial' /\ RingTyped' /\ QueueTyped'
  BY <1>1, <1>2, QuietIo, Zenon DEF AInv
<1>4. FlagsTyped' /\ Passes'
  BY <1>2, IoFlags, Zenon DEF AInv, Types
<1>5. CountsTyped'
  <2>1. UNCHANGED <<reqCount, reply>>
    BY <1>2, IoFrame, Zenon
  <2>2. n_requests' = n_requests \/ n_requests' = (n_requests + 1) % CountMod
    BY DEF Signal, IoPost, IoPostFlag, IoPostIrq, IoCtlIrq, IoCount, IoExecIrq, IoStall,
       IoStallIrq, engineVars
  <2>3. n_requests \in 0..(CountMod - 1) /\ CountMod \in Nat \ {0}
    BY CountAssumption DEF AInv, Types, CountsTyped, CountAssumption
  <2>4. n_requests' \in 0..(CountMod - 1)
    BY <2>2, <2>3
  <2> QED BY <2>1, <2>4 DEF AInv, Types, CountsTyped
<1>6. vec = <<>>
  BY <1>1 DEF AInv, Collected
<1>7. VecTyped'
  BY <1>1 DEF AInv, Types, VecTyped
<1>8. Sampled'
  BY <1>1 DEF AInv, Sampled, Cur
<1>9. Decoded'
  BY <1>1 DEF AInv, Decoded, Cur
<1>10. Collected'
  <2>1. Len(<<>>) < MAX_IOVEC
    BY BoundsAssumption DEF BoundsAssumption
  <2> QED BY <1>1, <1>6, <2>1 DEF Collected
<1> QED BY <1>3, <1>4, <1>5, <1>7, <1>8, <1>9, <1>10, Zenon DEF AInv, Types

\* io_thread reads the pipe, and do_work looks at the descriptor at its head.
LEMMA TopStep ==
  ASSUME AInv, IoRead \/ IoTop
  PROVE  AInv'
<1>1. /\ UNCHANGED <<ring, req_head, header, n_requests>>
      /\ ipc # "clear_proceed" /\ ipc' # "clear_proceed"
      /\ \/ ipc = "idle" /\ ipc' = "top" /\ vec' = <<>>
         \/ /\ ipc = "top" /\ vec' = vec /\ proceed' = Cur.proceed
            /\ ipc' = IF vec # <<>> /\ (~Cur.proceed \/ Len(vec) = MAX_IOVEC
                                        \/ Succ.kind # "sg")
                      THEN "exec" ELSE "advance"
  BY DEF IoRead, IoTop, engineVars
<1>2. IoThread
  BY DEF IoThread
<1>3. Links' /\ Chained' /\ Partial' /\ RingTyped' /\ QueueTyped'
  BY <1>1, <1>2, QuietIo, Zenon DEF AInv
<1>4. FlagsTyped' /\ Passes'
  BY <1>2, IoFlags, Zenon DEF AInv, Types
<1>5. CountsTyped'
  BY <1>1, <1>2, IoFrame DEF AInv, Types, CountsTyped
<1>6. MAX_IOVEC \in Nat \ {0} /\ vec \in Seq(Requests \cup {0}) /\ Len(vec) <= MAX_IOVEC
      /\ Len(vec) \in Nat /\ Len(<<>>) = 0 /\ <<>> \in Seq(Requests \cup {0})
  BY BoundsAssumption, LenProperties DEF BoundsAssumption, AInv, Types, VecTyped
<1>7. VecTyped'
  <2>1. vec' = vec \/ vec' = <<>>
    BY <1>1
  <2>2. CASE vec' = vec
    BY <1>6, <2>2 DEF VecTyped
  <2>3. CASE vec' = <<>>
    BY <1>6, <2>3 DEF VecTyped
  <2> QED BY <2>1, <2>2, <2>3
<1>8. Sampled'
  BY <1>1, Zenon DEF Sampled, Cur
<1>9. Decoded'
  <2>1. ipc \in {"idle", "top"} /\ ipc' \in {"top", "exec", "advance"}
    BY <1>1
  <2> QED BY <1>1, <2>1 DEF AInv, Decoded, Cur
<1>10. Collected'
  <2>1. \A i \in DOMAIN vec : vec[i] = header
    BY DEF AInv, Collected
  <2>2. CASE ipc = "idle" /\ ipc' = "top" /\ vec' = <<>>
    BY <2>2 DEF Collected
  <2>3. CASE ipc' = "exec" /\ vec' = vec
    BY <1>1, <2>1, <2>3 DEF Collected
  <2>4. CASE ipc' = "advance" /\ vec' = vec
    <3>1. vec # <<>> => proceed' = Cur.proceed /\ Cur.proceed /\ Len(vec) # MAX_IOVEC
                        /\ Succ.kind = "sg"
      BY <1>1, <2>4
    <3>2. Len(vec) < MAX_IOVEC
      BY <1>6, <3>1
    <3>3. Succ' = Succ
      BY <1>1 DEF Succ
    <3> QED BY <1>1, <2>1, <2>4, <3>1, <3>2, <3>3 DEF Collected
  <2> QED BY <1>1, <2>2, <2>3, <2>4
<1> QED BY <1>3, <1>4, <1>5, <1>7, <1>8, <1>9, <1>10, Zenon DEF AInv, Types

\* iofunc is called, or fails.
LEMMA ExecStep ==
  ASSUME AInv, IoExec \/ IoError
  PROVE  AInv'
<1>1. /\ UNCHANGED <<ring, req_head>> /\ vec' = <<>>
      /\ ipc # "clear_proceed" /\ ipc' \in {"exec_irq", "advance", "stall"}
      /\ \/ ipc = "exec" /\ ipc' # "stall" /\ proceed' = proceed /\ header' = header
         \/ /\ ipc \in {"exec", "fetch"} /\ ipc' = "stall"
            /\ ipc = "fetch" => Cur.kind \in {"sg", "rw"}
            /\ header' = IF ipc = "fetch" /\ Cur.kind = "rw" THEN Cur.req ELSE header
  BY DEF IoExec, IoError
<1>2. IoThread \/ IoError
  BY DEF IoThread
<1>3. Links' /\ Chained' /\ Partial' /\ RingTyped' /\ QueueTyped'
  <2>1. ipc' # "clear_proceed"
    BY <1>1
  <2> QED BY <1>1, <1>2, <2>1, QuietIo, Zenon DEF AInv
<1>4. FlagsTyped' /\ Passes'
  BY <1>2, IoFlags, Zenon DEF AInv, Types
<1>5. CountsTyped'
  <2>1. UNCHANGED <<reqCount, reply>>
    BY <1>2, IoFrame, Zenon
  <2>2. n_requests' = n_requests \/ n_requests' = (n_requests + Len(vec)) % CountMod
    BY DEF IoExec, IoError
  <2>3. n_requests \in 0..(CountMod - 1) /\ CountMod \in Nat \ {0} /\ Len(vec) \in Nat
    BY CountAssumption DEF AInv, Types, CountsTyped, VecTyped, CountAssumption
  <2>4. n_requests' \in 0..(CountMod - 1)
    BY <2>2, <2>3
  <2> QED BY <2>1, <2>4 DEF AInv, Types, CountsTyped
<1>6. MAX_IOVEC \in Nat \ {0} /\ Len(<<>>) = 0 /\ <<>> \in Seq(Requests \cup {0})
  BY BoundsAssumption DEF BoundsAssumption
<1>7. VecTyped'
  BY <1>1, <1>6 DEF VecTyped
<1>8. Sampled'
  BY <1>1, Zenon DEF AInv, Sampled, Cur
<1>9. Decoded'
  <2>1. Cur' = Cur /\ (ipc = "fetch" => ring[FirstBusy] = Cur)
    BY <1>1 DEF Cur, FirstBusy
  <2>2. ipc' \notin {"clear_proceed", "fetch"} /\ ipc \in {"exec", "fetch"}
    BY <1>1
  <2> QED BY <1>1, <2>1, <2>2 DEF AInv, Decoded
<1>10. Collected'
  BY <1>1, <1>6 DEF Collected
<1> QED BY <1>3, <1>4, <1>5, <1>7, <1>8, <1>9, <1>10, Zenon DEF AInv, Types

\* do_work decodes the descriptor at its new head.
LEMMA FetchStep ==
  ASSUME AInv, IoFetch
  PROVE  AInv'
<1>1. /\ UNCHANGED <<ring, req_head, n_requests, proceed>> /\ ipc = "fetch"
      /\ \/ Cur.kind = "sg" /\ vec' = Append(vec, Cur.req) /\ ipc' = "top" /\ header' = header
         \/ /\ Cur.kind # "sg" /\ header' = Cur.req /\ vec' = vec
            /\ ipc' \in {"count", "ctl_irq", "post"}
  BY DEF IoFetch, engineVars
<1>2. IoThread
  BY DEF IoThread
<1>3. Links' /\ Chained' /\ Partial' /\ RingTyped' /\ QueueTyped' /\ FirstBusy = req_head
  <2>1. ipc # "clear_proceed" /\ ipc' # "clear_proceed" /\ FirstBusy = req_head
    BY <1>1 DEF FirstBusy
  <2> QED BY <1>1, <1>2, <2>1, QuietIo, Zenon DEF AInv
<1>4. FlagsTyped' /\ Passes'
  BY <1>2, IoFlags, Zenon DEF AInv, Types
<1>5. CountsTyped'
  BY <1>1, <1>2, IoFrame DEF AInv, Types, CountsTyped
<1>6. /\ MAX_IOVEC \in Nat \ {0} /\ vec \in Seq(Requests \cup {0}) /\ Len(vec) < MAX_IOVEC
      /\ Len(vec) \in Nat /\ DOMAIN vec = 1..Len(vec) /\ \A i \in DOMAIN vec : vec[i] = header
      /\ vec # <<>> => Cur.kind = "sg"
  BY <1>1, <1>3, BoundsAssumption, LenProperties DEF BoundsAssumption, AInv, Types, VecTyped,
     Collected, Cur
<1>7. Cur.req \in Requests \cup {0}
  BY DEF AInv, Types, RingTyped, Descriptor, Cur
<1>8. Cur.kind = "sg" => header = Cur.req
  BY <1>1, <1>3 DEF AInv, Decoded, Cur
<1>9. CASE Cur.kind = "sg" /\ vec' = Append(vec, Cur.req) /\ ipc' = "top" /\ header' = header
  <2>1. /\ vec' \in Seq(Requests \cup {0}) /\ Len(vec') = Len(vec) + 1
        /\ \A i \in DOMAIN vec' : vec'[i] = header
    BY <1>6, <1>7, <1>8, <1>9, AppendProperties
  <2>2. VecTyped'
    <3>1. Len(vec) + 1 <= MAX_IOVEC
      BY <1>6
    <3> QED BY <2>1, <3>1 DEF VecTyped
  <2>3. Sampled'
    BY <1>9 DEF Sampled
  <2>4. Decoded'
    BY <1>1, <1>8, <1>9 DEF Decoded, Cur
  <2>5. Collected'
    BY <1>9, <2>1 DEF Collected
  <2> QED BY <1>3, <1>4, <1>5, <2>2, <2>3, <2>4, <2>5, Zenon DEF AInv, Types
<1>10. CASE /\ Cur.kind # "sg" /\ header' = Cur.req /\ vec' = vec
            /\ ipc' \in {"count", "ctl_irq", "post"}
  <2>1. vec = <<>>
    BY <1>6, <1>10
  <2>2. VecTyped'
    BY <1>10 DEF AInv, Types, VecTyped
  <2>3. Sampled'
    BY <1>10 DEF Sampled
  <2>4. Decoded'
    BY <1>1, <1>10 DEF Decoded, Cur
  <2>5. Collected'
    BY <1>10, <2>1 DEF Collected
  <2> QED BY <1>3, <1>4, <1>5, <2>2, <2>3, <2>4, <2>5, Zenon DEF AInv, Types
<1> QED BY <1>1, <1>9, <1>10

\* do_work stalls, or releases the descriptor at its head.
LEMMA AdvanceStep ==
  ASSUME AInv, IoAdvance
  PROVE  AInv'
<1>1. /\ UNCHANGED <<req_head, n_requests, proceed, vec, header>> /\ ipc = "advance"
      /\ \/ ~proceed /\ ipc' = "stall" /\ ring' = ring
         \/ /\ proceed /\ ipc' = "clear_proceed"
            /\ ring' = [ring EXCEPT ![req_head].kind = "none", ![req_head].irq = FALSE,
                                    ![req_head].req = 0]
  BY DEF IoAdvance, engineVars
<1>2. IoThread
  BY DEF IoThread
<1>3. FlagsTyped' /\ Passes'
  BY <1>2, IoFlags, Zenon DEF AInv, Types
<1>4. UNCHANGED <<ri, gpc, reqCount, req, reqQueue, reply, size>>
  BY <1>2, IoFrame, Zenon
<1>5. CountsTyped' /\ VecTyped' /\ QueueTyped'
  BY <1>1, <1>4 DEF AInv, Types, CountsTyped, VecTyped, QueueTyped
<1>6. Sampled'
  BY <1>1 DEF Sampled
<1>7. Len(vec) < MAX_IOVEC /\ (\A i \in DOMAIN vec : vec[i] = header)
      /\ (vec # <<>> => proceed /\ Succ.kind = "sg")
  BY <1>1 DEF AInv, Collected
<1>8. CASE ~proceed /\ ipc' = "stall" /\ ring' = ring
  <2>1. Links' /\ Chained' /\ Partial' /\ RingTyped'
    <3>1. ipc # "clear_proceed" /\ ipc' # "clear_proceed" /\ UNCHANGED <<ring, req_head>>
      BY <1>1, <1>8
    <3> QED BY <1>2, <3>1, QuietIo, Zenon DEF AInv
  <2>2. Decoded'
    BY <1>1, <1>8 DEF AInv, Decoded, Cur
  <2>3. Collected'
    BY <1>1, <1>7, <1>8 DEF Collected
  <2> QED BY <1>3, <1>5, <1>6, <2>1, <2>2, <2>3, Zenon DEF AInv, Types
<1>9. CASE /\ proceed /\ ipc' = "clear_proceed"
           /\ ring' = [ring EXCEPT ![req_head].kind = "none", ![req_head].irq = FALSE,
                                   ![req_head].req = 0]
  <2>1. /\ req_head \in Slots /\ ri \in Slots /\ ring \in [Slots -> Descriptor]
        /\ NEXT(req_head) \in Slots /\ NEXT(req_head) # req_head /\ Used \in Int
    BY Slotted, Neighbours DEF AInv
  <2>2. Release
    <3>1. Cur.proceed
      BY <1>1, <1>9 DEF AInv, Sampled
    <3>2. ring' = [ring EXCEPT ![req_head] = [kind |-> "none", irq |-> FALSE,
                                              proceed |-> ring[req_head].proceed, req |-> 0]]
      <4>1. \A j \in Slots : j # req_head => ring'[j] = ring[j]
        BY <1>9, <2>1, Zenon
      <4>2. ring'[req_head] = [kind |-> "none", irq |-> FALSE,
                               proceed |-> ring[req_head].proceed, req |-> 0]
        BY <1>9, <2>1, Zenon DEF Descriptor
      <4>3. ring' = [j \in Slots |-> ring'[j]]
        BY <1>9, <2>1, Zenon
      <4> QED BY <2>1, <4>1, <4>2, <4>3
    <3> QED BY <1>1, <1>4, <1>9, <3>1, <3>2, Zenon DEF Release
  <2>3. Links' /\ Used >= 1 /\ Chained'
    BY <2>2, ReleaseLinks, ReleaseChained, Zenon DEF AInv
  <2>4. FirstBusy = req_head /\ FirstBusy' = NEXT(req_head)
    BY <1>1, <1>9 DEF FirstBusy
  <2>5. \A j \in Slots : j # req_head => ring'[j] = ring[j]
    BY <1>9, <2>1
  <2>6. ri # req_head
    BY <2>1, <2>3, <2>4, Distances DEF Used
  <2>7. RingTyped'
    <3>1. [kind |-> "none", irq |-> FALSE, proceed |-> ring[req_head].proceed, req |-> 0]
            \in Descriptor
      BY <2>1 DEF Descriptor
    <3>2. ring' \in [Slots -> Descriptor]
      BY <2>1, <2>2, <3>1, Zenon DEF Release
    <3> QED BY <1>1, <1>4, <2>1, <3>2 DEF RingTyped
  <2>8. Partial'
    <3>1. ring'[ri] = ring[ri]
      BY <2>1, <2>5, <2>6, Zenon
    <3> QED BY <1>4, <3>1 DEF AInv, Partial, Open
  <2>9. ring'[NEXT(req_head)] = ring[NEXT(req_head)]
    BY <2>1, <2>5, Zenon
  <2>10. Decoded'
    <3>1. Dist(FirstBusy, req_head) < Used
      BY <2>1, <2>3, <2>4, Distances
    <3>2. ring[NEXT(req_head)].kind = "sg" =>
            Cur.kind \in {"rw", "sg"} /\ Cur.req = ring[NEXT(req_head)].req
      BY <2>1, <3>1, Zenon DEF AInv, Chained, Cur
    <3>3. Cur.kind \in {"rw", "sg"} => header = Cur.req
      BY <1>1 DEF AInv, Decoded
    <3> QED BY <1>1, <1>9, <2>4, <2>9, <3>2, <3>3 DEF Decoded
  <2>11. Collected'
    BY <1>1, <1>7, <1>9, <2>4, <2>9, Zenon DEF Collected, Succ
  <2> QED BY <1>3, <1>5, <1>6, <2>3, <2>7, <2>8, <2>10, <2>11, Zenon DEF AInv, Types
<1> QED BY <1>1, <1>8, <1>9

\* do_work moves on to the next descriptor.
LEMMA ClearStep ==
  ASSUME AInv, IoClearProceed
  PROVE  AInv'
<1>1. /\ UNCHANGED <<n_requests, proceed, vec, header>> /\ ipc = "clear_proceed"
      /\ ipc' = "fetch" /\ ring' = [ring EXCEPT ![req_head].proceed = FALSE]
      /\ req_head' = NEXT(req_head)
  BY DEF IoClearProceed
<1>2. IoThread
  BY DEF IoThread
<1>3. FlagsTyped' /\ Passes'
  BY <1>2, IoFlags, Zenon DEF AInv, Types
<1>4. UNCHANGED <<ri, gpc, reqCount, req, reqQueue, reply, size>>
  BY <1>2, IoFrame, Zenon
<1>5. CountsTyped' /\ VecTyped' /\ QueueTyped'
  BY <1>1, <1>4 DEF AInv, Types, CountsTyped, VecTyped, QueueTyped
<1>6. Clear
  BY <1>1, <1>4 DEF Clear
<1>7. /\ req_head \in Slots /\ ri \in Slots /\ ring \in [Slots -> Descriptor]
      /\ NEXT(req_head) \in Slots /\ FirstBusy \in Slots
  BY Slotted, Neighbours DEF AInv
<1>8. Links' /\ FirstBusy' = FirstBusy /\ Used' = Used
  BY <1>6, ClearLinks, Zenon DEF AInv
<1>9. SameDescriptors
  BY <1>1, <1>7 DEF SameDescriptors, Descriptor
<1>10. Chained'
  BY <1>8, <1>9, SameChained, Zenon DEF AInv
<1>11. RingTyped'
  <2>1. ring' \in [Slots -> Descriptor]
    BY <1>1, <1>7, Zenon DEF Descriptor
  <2> QED BY <1>1, <1>4, <1>7, <2>1 DEF RingTyped
<1>12. Partial'
  BY <1>4, <1>7, <1>9 DEF AInv, Partial, Open, SameDescriptors
<1>13. Sampled'
  BY <1>1 DEF Sampled
<1>14. ring'[FirstBusy'].kind = ring[FirstBusy].kind /\ ring'[FirstBusy'].req = ring[FirstBusy].req
  BY <1>7, <1>8, <1>9 DEF SameDescriptors
<1>15. Decoded'
  BY <1>1, <1>14 DEF AInv, Decoded
<1>16. Collected'
  BY <1>1, <1>14 DEF AInv, Collected
<1> QED BY <1>3, <1>5, <1>8, <1>10, <1>11, <1>12, <1>13, <1>15, <1>16, Zenon DEF AInv, Types

LEMMA StutterStep ==
  ASSUME AInv, UNCHANGED vars
  PROVE  AInv'
<1>1. /\ UNCHANGED <<ring, running, active, ctrl_pipe, req_head, n_requests, line, event, events>>
      /\ UNCHANGED <<ipc, proceed, vec, header, gpc, ri, reqCount, driverRunning, req, reqQueue>>
      /\ UNCHANGED <<reply, size>> /\ UNCHANGED ioVars
  BY DEF vars, engineVars, eventVars, ioVars, guestVars, driverVars, history
<1>2. Links' /\ Chained' /\ Respects
  BY <1>1, QuietGuest DEF AInv
<1>3. Sampled' /\ Decoded' /\ Collected'
  BY <1>2, RespectsKeeps, Zenon DEF AInv
<1>4. RingTyped' /\ FlagsTyped' /\ CountsTyped'
  BY <1>1 DEF AInv, Types, RingTyped, FlagsTyped, CountsTyped
<1>5. QueueTyped' /\ VecTyped'
  BY <1>1 DEF AInv, Types, QueueTyped, VecTyped
<1>6. Passes'
  BY <1>1 DEF AInv, Passes, OnePass
<1>7. Partial'
  BY <1>1 DEF AInv, Partial, Open
<1> QED BY <1>2, <1>3, <1>4, <1>5, <1>6, <1>7, Zenon DEF AInv, Types

LEMMA InitAInv ==
  ASSUME Init
  PROVE  AInv
<1>1. /\ 0 \in Slots /\ RingSize \in Nat /\ CountMod \in Nat \ {0} /\ FirstCount \in 0..(CountMod - 1)
      /\ MAX_IOVEC \in Nat \ {0}
  BY RingAssumption, BoundsAssumption, CountAssumption DEF RingAssumption, BoundsAssumption,
     CountAssumption, Slots
<1>2. /\ req_head = 0 /\ ri = 0 /\ ipc = "idle" /\ gpc = "idle" /\ FirstBusy = 0
      /\ proceed = FALSE /\ vec = <<>> /\ reqQueue = <<>> /\ size = <<>> /\ req = NoReq
  BY DEF Init, FirstBusy
<1>3. \A j \in Slots : ring[j] = IF j = 0 THEN [Free EXCEPT !.kind = "nop"] ELSE Free
  BY DEF Init
<1>4. /\ Free.kind = "none" /\ ~Free.proceed
      /\ [Free EXCEPT !.kind = "nop"].kind = "nop" /\ ~[Free EXCEPT !.kind = "nop"].proceed
  BY DEF Free
<1>5. RingTyped
  <2>1. Free \in Descriptor /\ [Free EXCEPT !.kind = "nop"] \in Descriptor
    BY Zenon DEF Descriptor, Free
  <2>2. ring = [i \in Slots |-> IF i = 0 THEN [Free EXCEPT !.kind = "nop"] ELSE Free]
    BY DEF Init
  <2>3. ring \in [Slots -> Descriptor]
    BY <2>1, <2>2
  <2> QED BY <1>1, <1>2, <2>3 DEF RingTyped
<1>6. FlagsTyped
  <2>1. ctrl_pipe \in 0..1
    BY DEF Init
  <2> QED BY <2>1, Zenon DEF Init, FlagsTyped
<1>7. CountsTyped
  BY <1>1 DEF Init, CountsTyped
<1>8. QueueTyped /\ VecTyped
  BY <1>1, <1>2 DEF QueueTyped, VecTyped, NoReq, Begun
<1>9. Used = 0 /\ \A j \in Slots : Dist(0, j) \in Nat /\ (Dist(0, j) = 0 <=> j = 0)
  BY <1>1, <1>2, Distances DEF Used
<1>10. Links
  <2>1. ASSUME NEW j \in Slots
        PROVE  LinkAt(ring[j], Dist(FirstBusy, j), Used, gpc = "start")
    <3>1. ~ring[j].proceed /\ (ring[j].kind # "none" <=> j = 0)
      BY <1>3, <1>4, Zenon
    <3>2. Dist(FirstBusy, j) \in Nat /\ (Dist(FirstBusy, j) = 0 <=> j = 0)
      BY <1>2, <1>9
    <3> QED BY <1>9, <3>1, <3>2 DEF LinkAt
  <2> QED BY <1>2, <2>1 DEF Links
<1>11. Passes
  BY DEF Init, Passes, OnePass
<1>12. Sampled /\ Chained
  BY <1>2, <1>9 DEF Sampled, Chained
<1>13. Decoded
  BY <1>1, <1>2, <1>3, <1>4, Zenon DEF Decoded, Cur
<1>14. Partial
  BY <1>2 DEF Partial, Begun
<1>15. Collected
  BY <1>2 DEF Collected
<1> QED BY <1>5, <1>6, <1>7, <1>8, <1>10, <1>11, <1>12, <1>13, <1>14, <1>15, Zenon DEF AInv,
   Types

\* Whatever the order of the stores of do_work (ablk.c 113-232) and of the
\* driver, the slots in use are those from the engine's head to _ri, linked,
\* and do_work has decoded the header its buffers belong to.
THEOREM Invariance == Spec => []AInv
<1>1. Init => AInv
  BY InitAInv
<1>2. AInv /\ [Next]_vars => AInv'
  <2> SUFFICES ASSUME AInv, [Next]_vars PROVE AInv'
    OBVIOUS
  <2>1. CASE IoThread
    <3>1. \/ Signal \/ IoRead \/ IoTop \/ IoExec \/ IoFetch \/ IoAdvance \/ IoClearProceed
      BY <2>1, Zenon DEF IoThread, Signal
    <3> QED BY <3>1, SignalStep, TopStep, ExecStep, FetchStep, AdvanceStep, ClearStep, Zenon
  <2>2. CASE IoError
    BY <2>2, ExecStep, Zenon
  <2>3. CASE Guest
    <3>1. \/ Ack \/ GetEvents \/ CompleteRequests \/ KickEngine
          \/ Dequeue \/ Saturated
          \/ FillControl \/ FillHeader \/ FillBuffer \/ StartRequest
      BY <2>3, Zenon DEF Guest, Ack
    <3> QED BY <3>1, AckStep, QueueStep, FillStep, Zenon
  <2>4. CASE FillShort
    BY <2>4, FillStep, Zenon
  <2>5. CASE PostEvent
    BY <2>5, AckStep, Zenon
  <2>6. CASE \E k \in SgCounts : ReceiveCmd(k)
    BY <2>6, ReceiveStep, Zenon
  <2>7. CASE UNCHANGED vars
    BY <2>7, StutterStep, Zenon
  <2> QED BY <2>1, <2>2, <2>3, <2>4, <2>5, <2>6, <2>7, Zenon DEF Next
<1> QED BY <1>1, <1>2, PTL DEF Spec

-----------------------------------------------------------------------------
(* What follows.                                                           *)

LEMMA RingIsLinked ==
  ASSUME AInv
  PROVE  RingLinked
<1>1. FirstBusy \in Slots /\ ri \in Slots /\ Used \in 0..(RingSize - 1) /\ RingSize \in Nat
  BY Slotted DEF AInv
<1>2. (ri - FirstBusy) % RingSize = Used
  BY <1>1, Distances DEF Used
<1> DEFINE slot(k) == ring[(FirstBusy + k) % RingSize]
<1>3. ASSUME NEW k \in 0..Used
      PROVE  LinkAt(slot(k), k, Used, gpc = "start")
  <2>1. k \in 0..(RingSize - 1)
    BY <1>1
  <2>2. (FirstBusy + k) % RingSize \in Slots /\ Dist(FirstBusy, (FirstBusy + k) % RingSize) = k
    BY <1>1, <2>1, SlotAt
  <2>3. \A j \in Slots : LinkAt(ring[j], Dist(FirstBusy, j), Used, gpc = "start")
    BY Zenon DEF AInv, Links
  <2> HIDE DEF LinkAt
  <2> QED BY <2>2, <2>3, Zenon
<1> HIDE DEF slot
<1>4. \A k \in 0..Used : slot(k).kind # "none"
  BY <1>1, <1>3 DEF LinkAt
<1>5. \A k \in 0..(Used - 1) : slot(k).proceed <=> ~(gpc = "start" /\ k = Used - 1)
  BY <1>1, <1>3 DEF LinkAt
<1>6. ~slot(Used).proceed
  BY <1>1, <1>3 DEF LinkAt
<1> QED BY <1>2, <1>4, <1>5, <1>6, Zenon DEF RingLinked, slot

\* The ring stays intact: every slot between the head of do_work and _ri is
\* in use and linked to the next, no store of one side undoes one of the
\* other, and at most one pass of do_work is in progress or queued (ablk.c
\* 113-232).
THEOREM RingStaysIntact == Spec => []RingIntact
<1>1. AInv => RingIntact
  <2> SUFFICES ASSUME AInv PROVE RingIntact
    OBVIOUS
  <2>1. TypeOK
    <3>1. RingTyped /\ FlagsTyped /\ CountsTyped /\ VecTyped
      BY Zenon DEF AInv, Types
    <3>2. {req_head, ri} \subseteq Slots /\ ring \in [Slots -> Descriptor]
      BY <3>1 DEF RingTyped
    <3>3. {n_requests, reqCount, reply.count} \subseteq 0..(CountMod - 1)
      BY <3>1 DEF CountsTyped
    <3>4. Len(vec) <= MAX_IOVEC
      BY <3>1 DEF VecTyped
    <3> QED BY <3>1, <3>2, <3>3, <3>4, Zenon DEF TypeOK, FlagsTyped, Descriptor
  <2>2. RingLinked /\ OnePass
    BY RingIsLinked, Zenon DEF AInv, Passes
  <2> QED BY <2>1, <2>2, Zenon DEF RingIntact
<1> QED BY <1>1, Invariance, PTL

\* iofunc transfers buffers of the request whose header it was told about,
\* also when a request was split at MAX_IOVEC or the engine stalled within it
\* (ablk.c 138-151).
THEOREM BuffersStayWithHeader == Spec => []BuffersFollowHeader
<1>1. AInv => BuffersFollowHeader
  BY DEF AInv, Collected, BuffersFollowHeader
<1> QED BY <1>1, Invariance, PTL

\* A driver that believes the engine is active need not kick it: the engine is
\* active, or an interrupt is under way whose acknowledgement restarts the
\* engine or tells the driver (ablk.c 260-286).
THEOREM KickStaysUnneeded == Spec => []KickNotNeeded
<1>1. Init => KickNotNeeded
  BY DEF Init, KickNotNeeded
<1>2. AInv /\ KickNotNeeded /\ [Next]_vars => KickNotNeeded'
  <2> SUFFICES ASSUME AInv, KickNotNeeded, [Next]_vars PROVE KickNotNeeded'
    OBVIOUS
  <2>1. active \in BOOLEAN /\ line \in BOOLEAN /\ running \in BOOLEAN
    BY Zenon DEF AInv, Types, FlagsTyped
  <2>2. CASE IoThread
    <3>1. driverRunning' = driverRunning /\ running' = running /\ gpc' = gpc
      BY <2>2 DEF IoThread, IoRead, IoTop, IoExec, IoExecIrq, IoAdvance, IoClearProceed,
         IoFetch, IoPost, IoPostFlag, IoPostIrq, IoCtlIrq, IoCount, IoStall, IoStallIrq,
         guestVars, driverVars, engineVars
    <3>2. CASE IoStall
      BY <3>2 DEF IoStall, KickNotNeeded
    <3>3. CASE IoStallIrq
      BY <3>3 DEF IoStallIrq, KickNotNeeded
    <3>4. CASE ~IoStall /\ ~IoStallIrq
      <4>1. active' = active /\ ipc # "stall_irq" /\ (line' = line \/ line' = TRUE)
        BY <2>2, <3>4 DEF IoThread, IoRead, IoTop, IoExec, IoExecIrq, IoAdvance, IoClearProceed,
           IoFetch, IoPost, IoPostFlag, IoPostIrq, IoCtlIrq, IoCount, engineVars
      <4> QED BY <3>1, <4>1 DEF KickNotNeeded
    <3> QED BY <3>2, <3>3, <3>4, Zenon
  <2>3. CASE IoError
    BY <2>3 DEF IoError, KickNotNeeded
  <2>4. CASE AckLow \/ AckKick \/ AckCount
    BY <2>4, Zenon DEF AckLow, AckKick, AckCount, KickNotNeeded
  <2>5. CASE AckActive
    BY <2>1, <2>5 DEF AckActive, KickNotNeeded, engineVars, ioVars
  <2>6. CASE AckEvent \/ AckClear \/ GetEvents \/ PostEvent \/ CompleteRequests \/ Dequeue
    <3>1. /\ UNCHANGED <<running, active, driverRunning, ipc>>
          /\ gpc \notin {"ack_kick", "ack_count", "ack_active"}
          /\ GetEvents \/ line' = line \/ line' = TRUE
      BY <2>6 DEF AckEvent, AckClear, GetEvents, PostEvent, CompleteRequests, Dequeue,
         engineVars, ioVars, guestVars, driverVars
    <3>2. running /\ line => line'
      BY <3>1, Zenon DEF GetEvents
    <3> QED BY <3>1, <3>2 DEF KickNotNeeded
  <2>7. CASE Saturated \/ FillControl \/ FillHeader \/ FillBuffer \/ FillShort \/ StartRequest
    <3>1. /\ UNCHANGED <<running, active, driverRunning, ipc, line>>
          /\ gpc \notin {"ack_kick", "ack_count", "ack_active"}
      BY <2>7 DEF Saturated, FillControl, FillHeader, FillBuffer, FillShort, Fill, StartRequest,
         engineVars, ioVars, driverVars
    <3> QED BY <3>1 DEF KickNotNeeded
  <2>8. CASE KickEngine
    BY <2>1, <2>8 DEF KickEngine, Kick, KickNotNeeded, ioVars
  <2>9. CASE \E k \in SgCounts : ReceiveCmd(k)
    <3>1. /\ UNCHANGED <<running, active, driverRunning, ipc, line>>
          /\ gpc \notin {"ack_kick", "ack_count", "ack_active"}
      BY <2>9 DEF ReceiveCmd, engineVars, ioVars
    <3> QED BY <3>1 DEF KickNotNeeded
  <2>10. CASE UNCHANGED vars
    BY <2>10, Zenon DEF vars, engineVars, ioVars, guestVars, driverVars, KickNotNeeded
  <2> QED BY <2>2, <2>3, <2>4, <2>5, <2>6, <2>7, <2>8, <2>9, <2>10, Zenon DEF Next, Guest
<1> QED BY <1>1, <1>2, Invariance, PTL DEF Spec
=============================================================================
