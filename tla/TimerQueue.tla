----------------------------- MODULE TimerQueue -----------------------------
(***************************************************************************)
(* The timer queue of main/timer.c and its hand-over to the kernel module  *)
(* (kmod/dec.S).  Active timers are a list ordered by the low word of      *)
(* their time; times are compared by the sign of a wrapping difference.    *)
(* A periodic overflow timer fires every TIMER_MAX ticks; timers due later *)
(* than it are flagged TF_OVERFLOW and kept behind it until it fires.      *)
(*                                                                         *)
(* Every function holds timer_lock_mutex from end to end, so a call is one *)
(* step; overflow_handler takes a step for every turn of its two loops,    *)
(* and rvec_timer gives the lock up around each handler.  The guest's own  *)
(* decrementer is left out: it only brings the exception forward.          *)
(***************************************************************************)
EXTENDS Integers, FiniteSets, Sequences, Functions

CONSTANTS
  Slots,         \* user slots (slots[] without the overflow timer's)
  OVERFLOW,      \* the slot of the overflow timer
  TIMER_MAX,     \* 0x7fffffff
  Delays,        \* ticks a one-shot timer may be set ahead
  Periods,       \* periods of set_ptimer, in ticks
  MaxIds,        \* bound: ids handed out
  MaxNow,        \* bound: time
  MaxLate,       \* bound: ticks a timer may wait for the main thread
  Freezes        \* lengths of a stop in the debugger

ASSUME TimerAssumption ==
  /\ TIMER_MAX \in Nat \ {0} /\ OVERFLOW \notin Slots
  /\ Delays \subseteq Nat /\ Periods \subseteq Nat \ {0}
  /\ MaxIds \in Nat \ {0} /\ MaxNow \in Nat
  /\ MaxLate \in 0..(TIMER_MAX - 1) /\ Freezes \subseteq 0..TIMER_MAX

VARIABLES
  now,           \* get_mticks_()
  head,          \* ts.head, active timers in list order
  inactive,      \* ts.inactive up to the entry of the overflow timer
  free,          \* ts.free, as a set; fields of a free slot are at rest
  mark,          \* slot -> tbu:tbl
  period, flags, gen,            \* slot -> its fields; gen counts ids
  stamp,         \* mregs->timer_stamp
  recalc,        \* __recalc_timer
  interrupt,     \* mregs->interrupt
  recalcDec,     \* fb_RecalcDecInt
  intStamp,      \* K_INT_STAMP: when the kernel takes the exception
  mpc, call,     \* main thread, and the id whose handler it runs
  chain, tp      \* locals of overflow_handler; tp as a position in the list

queue == <<head, inactive, free, mark, period, flags, gen>>
locals == <<chain, tp>>
vars == <<now, queue, stamp, recalc, interrupt, recalcDec, intStamp, mpc, call, locals>>

AllSlots == Slots \cup {OVERFLOW}
HALF == TIMER_MAX + 1
Threads == {"main", "other"}

\* (int)(a - b) for two low words
Diff(a, b) == ((a - b + HALF) % (2 * HALF)) - HALF

Id(t) == <<t, gen[t]>>
NoCall == <<OVERFLOW, 0>>
Ids == Slots \X (1..MaxIds)
Issued == {i \in Ids : i[2] <= gen[i[1]]}

Pos(h, t) == CHOOSE i \in DOMAIN h : h[i] = t

\* t->next = *tc; *tc = t, where tc is the link to the entry at position i
Link(h, i, t) ==
  [k \in 1..(Len(h) + 1) |-> IF k < i THEN h[k] ELSE IF k = i THEN t ELSE h[k - 1]]

\* *list = t->next, where list is the link to t, the entry at position i
Unlink(h, i) == [k \in 1..(Len(h) - 1) |-> IF k < i THEN h[k] ELSE h[k + 1]]

\* Low words compared as unsigned numbers.
InsertionPoint_Unsigned(h, m, t, i) ==
  LET low(u) == m[u] % (2 * HALF)
  IN /\ \A k \in 1..i - 1 : low(h[k]) < low(t)
     /\ i <= Len(h) => low(h[i]) >= low(t)

\* the loop of insert_timer stops at i: at the first timer not due earlier
InsertionPoint(h, m, t, i) ==
  /\ \A k \in 1..i - 1 : Diff(m[h[k]], m[t]) < 0
  /\ i <= Len(h) => Diff(m[h[i]], m[t]) >= 0

\* The main thread is not interrupted.
Tell_Later(who) ==
  IF who = "main"
  THEN recalcDec' = TRUE /\ UNCHANGED <<recalc, interrupt>>
  ELSE recalc' = TRUE /\ UNCHANGED <<interrupt, recalcDec>>

\* the kernel is to reload its stamp
Tell(who) ==
  IF who = "main"
  THEN recalcDec' = TRUE /\ UNCHANGED <<recalc, interrupt>>
  ELSE recalc' = TRUE /\ interrupt' = TRUE /\ UNCHANGED recalcDec

\* insert_timer of t into the list h; f and m are the flags and times
insert_timer(who, h, f, m, t) ==
  LET far == m[t] > m[OVERFLOW]
  IN /\ mark' = m
     /\ flags' = IF far THEN [f EXCEPT ![t] = @ \cup {"OVERFLOW"}] ELSE f
     /\ \E i \in 1..(Len(h) + 1) :
          /\ IF far THEN i = Pos(h, OVERFLOW) + 1 ELSE InsertionPoint(h, m, t, i)
          /\ head' = Link(h, i, t)
          /\ IF ~far /\ i = 1
             THEN stamp' = m[t] /\ Tell(who)
             ELSE UNCHANGED <<stamp, recalc, interrupt, recalcDec>>

-----------------------------------------------------------------------------
(* The interface.  The main thread calls it while it is not in the guest   *)
(* or inside rvec_timer; another thread may call it whenever the main      *)
(* thread does not hold the lock.                                          *)

CanCall(who) == /\ who = "main" => mpc \in {"user", "handler"}
                /\ mpc \notin {"collect", "sort"}
Local == UNCHANGED <<now, intStamp, mpc, call, locals>>

\* A slot that is reused under its old id.
NewId_Same(t) == [gen EXCEPT ![t] = IF @ = 0 THEN 1 ELSE @]

NewId(t) == [gen EXCEPT ![t] = @ + 1]

\* new_timer; without a free slot the callers return id 0 and do nothing
new_timer(t) ==
  /\ t \in free
  /\ gen[t] < MaxIds /\ Cardinality(Issued) < MaxIds      \* bound
  /\ free' = free \ {t} /\ gen' = NewId(t)

abs_timer(who, d) ==
  /\ CanCall(who)
  /\ \E t \in Slots :
       LET m == [mark EXCEPT ![t] = now + d]
       IN new_timer(t) /\ insert_timer(who, head, flags, m, t)
  /\ UNCHANGED <<inactive, period>> /\ Local

\* The entry stays where it is.
dequeue_timer_Kept(list, t) == list

dequeue_timer(list, t) == IF t \in Range(list) THEN Unlink(list, Pos(list, t)) ELSE list

\* Lists a timer can be taken from; ts.inactive runs on into the entry of
\* the overflow timer, which timer_init never takes off it (581-583).
OnHead(i) == i[1] \in Range(head) /\ Id(i[1]) = i
BehindOverflow(i) == OnHead(i) /\ Pos(head, i[1]) > Pos(head, OVERFLOW)
OnInactive(i) == \/ i[1] \in Range(inactive) /\ Id(i[1]) = i
                 \/ BehindOverflow(i)

\* new_timer clears the fields of a slot: here they are cleared when it is
\* freed, nothing reads them in between
AtRest(t) == /\ flags' = [flags EXCEPT ![t] = {}]
             /\ mark' = [mark EXCEPT ![t] = 0]
             /\ period' = [period EXCEPT ![t] = 0]

\* a call on an id that is on none of its lists prints a message
cancel_timer(who, i) ==
  /\ CanCall(who) /\ OnHead(i)
  /\ head' = dequeue_timer(head, i[1]) /\ free' = free \cup {i[1]}
  /\ AtRest(i[1])
  /\ UNCHANGED <<inactive, gen, stamp, recalc, interrupt, recalcDec>> /\ Local

new_ptimer(who, auto) ==
  /\ CanCall(who)
  /\ \E t \in Slots :
       /\ flags' = [flags EXCEPT ![t] = {"PERIODIC"} \cup auto]
       /\ new_timer(t)
       /\ inactive' = <<t>> \o inactive
  /\ UNCHANGED <<head, mark, period, stamp, recalc, interrupt, recalcDec>>
  /\ Local

\* the client of a periodic timer
Periodic(i) == "PERIODIC" \in flags[i[1]]

set_ptimer(who, i, p) ==
  /\ CanCall(who) /\ Periodic(i) /\ (OnInactive(i) \/ OnHead(i))
  /\ LET m == [mark EXCEPT ![i[1]] = now + p]
     IN insert_timer(who, dequeue_timer(head, i[1]), flags, m, i[1])
  /\ period' = [period EXCEPT ![i[1]] = p]
  /\ inactive' = dequeue_timer(inactive, i[1])
  /\ UNCHANGED <<free, gen>> /\ Local

\* recalc_ptimer: the first multiple of the period that lies ahead
NextTime(m, p) == IF now - m < 0 THEN m ELSE m + ((now - m) \div p + 1) * p

resume_ptimer(who, i) ==
  /\ CanCall(who) /\ Periodic(i) /\ OnInactive(i)
  /\ period[i[1]] # 0            \* the client has set it before
  /\ LET m == [mark EXCEPT ![i[1]] = NextTime(@, period[i[1]])]
     IN insert_timer(who, dequeue_timer(head, i[1]), flags, m, i[1])
  /\ inactive' = dequeue_timer(inactive, i[1])
  /\ UNCHANGED <<free, period, gen>> /\ Local

\* A paused timer keeps TF_OVERFLOW, and so does one that is set again:
\* only overflow_handler clears it, on the timers it finds on the list.
pause_ptimer(who, i) ==
  /\ CanCall(who) /\ Periodic(i) /\ OnHead(i)
  /\ head' = dequeue_timer(head, i[1]) /\ inactive' = <<i[1]>> \o inactive
  /\ UNCHANGED <<free, mark, period, flags, gen, stamp, recalc, interrupt,
                 recalcDec>> /\ Local

free_ptimer(who, i) ==
  /\ CanCall(who) /\ Periodic(i) /\ (OnHead(i) \/ OnInactive(i))
  /\ head' = dequeue_timer(head, i[1]) /\ inactive' = dequeue_timer(inactive, i[1])
  /\ free' = free \cup {i[1]} /\ AtRest(i[1])
  /\ UNCHANGED <<gen, stamp, recalc, interrupt, recalcDec>> /\ Local

\* retune_timers after a stop in the debugger.  timer_stamp is left alone; a
\* stop that takes it more than TIMER_MAX into the past is not modelled.
retune_timers(add) ==
  /\ mpc = "user" /\ now + add <= MaxNow
  /\ \A s \in {stamp, intStamp} : now + add - s <= TIMER_MAX
  /\ now' = now + add
  /\ mark' = [t \in AllSlots |->
                IF t \in Range(head) THEN mark[t] + add ELSE mark[t]]
  /\ UNCHANGED <<head, inactive, free, period, flags, gen, stamp, recalc,
                 interrupt, recalcDec, intStamp, mpc, call, locals>>

Interface(who) ==
  \/ \E d \in Delays : abs_timer(who, d)
  \/ \E a \in SUBSET {"AUTORESUME"} : new_ptimer(who, a)
  \/ \E i \in Issued : \/ cancel_timer(who, i)
                       \/ \E p \in Periods : set_ptimer(who, i, p)
                       \/ resume_ptimer(who, i)
                       \/ pause_ptimer(who, i)
                       \/ free_ptimer(who, i)

-----------------------------------------------------------------------------
(* The main thread: rvec_timer, the mainloop and the kernel module.        *)

\* the test of rvec_timer (371-374)
Due(t) == Diff(now, mark[t]) >= 0 /\ "OVERFLOW" \notin flags[t]

\* No timer starts again by itself.
Autoresumes_Never(t) == FALSE

Autoresumes(t) == "AUTORESUME" \in flags[t]

\* rvec_timer from LOCK to the call of a handler, or to its return
rvec_timer ==
  /\ mpc = "rvec"
  /\ LET t == head[1]
     IN IF Due(t)
        THEN /\ mpc' = "handler" /\ call' = Id(t)
             /\ CASE Autoresumes(t) ->
                       LET m == [mark EXCEPT ![t] = NextTime(@, period[t])]
                       IN /\ insert_timer("main", Tail(head), flags, m, t)
                          /\ UNCHANGED <<inactive, free, period>>
                  [] flags[t] = {"PERIODIC"} ->
                       /\ head' = Tail(head) /\ inactive' = <<t>> \o inactive
                       /\ UNCHANGED <<free, mark, period, flags, stamp, recalc,
                                      interrupt, recalcDec>>
                  [] OTHER ->
                       /\ head' = Tail(head) /\ free' = free \cup {t}
                       /\ AtRest(t)
                       /\ UNCHANGED <<inactive, stamp, recalc, interrupt, recalcDec>>
        ELSE /\ stamp' = mark[t] /\ recalc' = FALSE /\ recalcDec' = TRUE
             /\ mpc' = "user" /\ call' = NoCall
             /\ UNCHANGED <<head, inactive, free, mark, period, flags, interrupt>>
  /\ UNCHANGED <<now, gen, intStamp, locals>>

\* the handler of the overflow timer takes the lock ...
overflow_handler ==
  /\ mpc = "handler" /\ call[1] = OVERFLOW
  /\ mpc' = "collect" /\ tp' = 1
  /\ UNCHANGED <<now, queue, stamp, recalc, interrupt, recalcDec, intStamp, call, chain>>

\* ... takes the flagged timers off the list (459-467) ...
overflow_collect ==
  /\ mpc = "collect"
  /\ IF tp > Len(head)
     THEN mpc' = "sort" /\ tp' = 0 /\ UNCHANGED <<head, chain>>
     ELSE /\ UNCHANGED mpc
          /\ IF "OVERFLOW" \in flags[head[tp]]
             THEN /\ head' = Unlink(head, tp) /\ chain' = <<head[tp]>> \o chain
                  /\ UNCHANGED tp
             ELSE tp' = tp + 1 /\ UNCHANGED <<head, chain>>
  /\ UNCHANGED <<now, inactive, free, mark, period, flags, gen, stamp, recalc, interrupt,
                 recalcDec, intStamp, call>>

\* A flag that is left alone.
Unflagged_Kept(t) == flags

Unflagged(t) == [flags EXCEPT ![t] = @ \ {"OVERFLOW"}]

\* ... and inserts them again (468-472)
overflow_sort ==
  /\ mpc = "sort"
  /\ IF chain = <<>>
     THEN /\ mpc' = "rvec" /\ call' = NoCall
          /\ UNCHANGED <<head, mark, flags, stamp, recalc, interrupt, recalcDec, chain>>
     ELSE /\ insert_timer("main", head, Unflagged(chain[1]), mark, chain[1])
          /\ chain' = Tail(chain)
          /\ UNCHANGED <<mpc, call>>
  /\ UNCHANGED <<now, inactive, free, period, gen, intStamp, tp>>

\* any other handler; the calls it makes are steps of Interface("main")
HandlerReturn ==
  /\ mpc = "handler" /\ call[1] # OVERFLOW
  /\ mpc' = "rvec" /\ call' = NoCall
  /\ UNCHANGED <<now, queue, stamp, recalc, interrupt, recalcDec, intStamp, locals>>

\* mainloop_interrupt and the first half of recalc_mol_timer
mainloop_interrupt ==
  /\ mpc = "user" /\ interrupt
  /\ interrupt' = FALSE
  /\ recalcDec' = (recalcDec \/ recalc)
  /\ mpc' = IF recalc THEN "recalc" ELSE mpc
  /\ UNCHANGED <<now, queue, stamp, recalc, intStamp, call, locals>>

recalc_mol_timer ==
  /\ mpc = "recalc"
  /\ recalc' = FALSE /\ mpc' = "user"
  /\ UNCHANGED <<now, queue, stamp, interrupt, recalcDec, intStamp, call, locals>>

\* mac_entry: recalc_int_stamp if it is asked for
mac_entry ==
  /\ mpc = "user" /\ ~interrupt
  /\ intStamp' = IF recalcDec THEN stamp ELSE intStamp
  /\ recalcDec' = FALSE /\ mpc' = "guest"
  /\ UNCHANGED <<now, queue, stamp, recalc, interrupt, call, locals>>

\* the decrementer exception in the guest
Decrementer ==
  /\ mpc = "guest" /\ Diff(intStamp, now) < 0
  /\ IF Diff(stamp, now) < 0
     THEN recalcDec' = TRUE /\ mpc' = "rvec" /\ UNCHANGED intStamp
     ELSE recalcDec' = FALSE /\ intStamp' = stamp /\ UNCHANGED mpc
  /\ UNCHANGED <<now, queue, stamp, recalc, interrupt, call, locals>>

\* the guest leaves: an OSI call, a fault, or the IPI of interrupt_emulation
GuestExit ==
  /\ mpc = "guest"
  /\ mpc' = "user"
  /\ UNCHANGED <<now, queue, stamp, recalc, interrupt, recalcDec, intStamp, call, locals>>

\* the timers that are set; some are off the list within overflow_handler
Active == Range(head) \cup Range(chain)

\* Time passes; the main thread never leaves a timer that is due alone for
\* MaxLate ticks, nor a stamp that has passed for TIMER_MAX.
Tick ==
  /\ now < MaxNow
  /\ now - stamp < TIMER_MAX /\ now - intStamp < TIMER_MAX
  /\ \A t \in Active : now - mark[t] < MaxLate
  /\ now' = now + 1
  /\ UNCHANGED <<queue, stamp, recalc, interrupt, recalcDec, intStamp, mpc, call, locals>>

\* timer_init: the overflow timer is active, the rest is free
Init ==
  /\ now = 0
  /\ head = <<OVERFLOW>> /\ inactive = <<>> /\ free = Slots
  /\ mark = [t \in AllSlots |-> IF t = OVERFLOW THEN TIMER_MAX ELSE 0]
  /\ period = [t \in AllSlots |-> IF t = OVERFLOW THEN TIMER_MAX ELSE 0]
  /\ flags = [t \in AllSlots |->
                IF t = OVERFLOW THEN {"PERIODIC", "AUTORESUME"} ELSE {}]
  /\ gen = [t \in AllSlots |-> IF t = OVERFLOW THEN 1 ELSE 0]
  /\ stamp = TIMER_MAX /\ intStamp = TIMER_MAX
  /\ recalc = FALSE /\ interrupt = FALSE /\ recalcDec = TRUE
  /\ mpc = "user" /\ call = NoCall
  /\ chain = <<>> /\ tp = 0

Main == \/ rvec_timer \/ HandlerReturn
        \/ overflow_handler \/ overflow_collect \/ overflow_sort
        \/ mainloop_interrupt \/ recalc_mol_timer \/ mac_entry \/ Decrementer

Next == \/ Main \/ GuestExit \/ Tick
        \/ \E who \in Threads : Interface(who)
        \/ \E add \in Freezes : retune_timers(add)

Spec == Init /\ [][Next]_vars

\* The main thread and time go on, and the IPI gets through.  An exception
\* that is pending is taken before the guest can leave each time, and other
\* threads do not interrupt every attempt to enter the guest.
Fairness == /\ WF_vars(Main) /\ WF_vars(Tick)
            /\ WF_vars(GuestExit /\ interrupt)
            /\ SF_vars(mac_entry) /\ SF_vars(Decrementer)

FairSpec == Spec /\ Fairness

-----------------------------------------------------------------------------
(* Properties.                                                             *)

\* Every field has its type; in particular the paused timers and the free
\* slots are user timers, and a handler runs for an id that was handed out.
TypeOK ==
  /\ now \in 0..MaxNow /\ stamp \in Int /\ intStamp \in Int
  /\ head \in Seq(AllSlots) /\ inactive \in Seq(Slots) /\ free \in SUBSET Slots
  /\ mark \in [AllSlots -> Int] /\ period \in [AllSlots -> Nat]
  /\ flags \in [AllSlots -> SUBSET {"PERIODIC", "AUTORESUME", "OVERFLOW"}]
  /\ gen \in [AllSlots -> 0..MaxIds]
  /\ {recalc, interrupt, recalcDec} \subseteq BOOLEAN
  /\ mpc \in {"user", "guest", "rvec", "handler", "recalc", "collect", "sort"}
  /\ call \in Ids \cup {NoCall, <<OVERFLOW, 1>>}
  /\ chain \in Seq(Slots) /\ tp \in 0..(Len(head) + 1)

\* Every slot is on exactly one list, once, and the overflow timer is never
\* off the active one (rvec_timer and doze read ts.head without a check).
OneList ==
  /\ IsInjective(head) /\ IsInjective(inactive) /\ IsInjective(chain)
  /\ Range(head) \cap Range(inactive) = {} /\ Active \cap free = {}
  /\ Range(head) \cap Range(chain) = {} /\ Range(inactive) \cap (Range(chain) \cup free) = {}
  /\ Active \cup Range(inactive) \cup free = AllSlots
  /\ OVERFLOW \in Range(head)

OverflowPending == mpc \in {"handler", "collect"} /\ call[1] = OVERFLOW

\* Up to the overflow timer the list is ordered by time, although only low
\* words are compared; exactly the later timers are behind it, all of them
\* flagged.  While the overflow timer's handler is about to sort the flagged
\* timers, the others are still in order.  (A flagged timer may be in front:
\* one that was paused or set again while it was flagged.)
QueueOrdered ==
  \A i, j \in DOMAIN head :
    LET flagged(k) == "OVERFLOW" \in flags[head[k]]
    IN /\ (i < j /\ ~flagged(i) /\ ~flagged(j)) => mark[head[i]] <= mark[head[j]]
       /\ (head[j] = OVERFLOW /\ ~OverflowPending) =>
            /\ i > j <=> mark[head[i]] > mark[OVERFLOW]
            /\ i > j => flagged(i)
            /\ \A k \in i..j : mark[head[i]] <= mark[head[k]]

\* The kernel is never set to a later time than the first timer's, unless
\* it is about to be told: whoever inserts, wherever the main thread is.
StampCovers ==
  \/ recalcDec \/ mpc \in {"rvec", "handler", "collect", "sort"}
  \/ recalc /\ (interrupt \/ mpc = "recalc")
  \/ intStamp <= mark[head[1]] /\ Diff(intStamp, now) = intStamp - now

\* what a client knows: its set timers, the ids that are gone, the handler
Armed == [i \in {Id(t) : t \in Active \ {OVERFLOW}} |-> mark[i[1]]]
Gone == Issued \ {Id(t) : t \in Slots \ free}
Calling == {call} \cap Ids

\* The queue implements the interface: no timer fires early, twice or out of
\* order, whatever the wrap of the low word and the overflow timer do.
Interface_ == INSTANCE Timers WITH armed <- Armed, gone <- Gone, calling <- Calling
ImplementsTimers == Interface_!Spec

\* The first timer is flagged, so that rvec_timer leaves at once (373).  It is a
\* periodic one that was paused or set again while it was behind the overflow
\* timer, which now waits behind it and cannot clear the flag.
Blocked ==
  ~OverflowPending /\ {"PERIODIC", "OVERFLOW"} \subseteq flags[head[1]] /\ mark[head[1]] < now

\* A timer whose time has passed fires or is taken off the queue, unless the
\* queue is blocked again and again.
DueFires ==
  \A t \in Slots, m \in 0..MaxNow :
    (t \in Active /\ mark[t] = m /\ m < now) ~> (t \notin Active \/ mark[t] # m \/ Blocked)

\* The queue is intact: it has its type, a slot is on one list, and the active
\* timers are in the order in which rvec_timer has to call them (timer.c 370-374).
QueueIntact == TypeOK /\ OneList /\ QueueOrdered
=============================================================================
