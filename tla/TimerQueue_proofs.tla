--------------------------- MODULE TimerQueue_proofs ---------------------------
(***************************************************************************)
(* The timer queue of timer.c for every number of slots, every range of    *)
(* the clock and every set of delays and periods: the list stays ordered   *)
(* and the kernel's stamp covers it.  The queue implements Timers, the     *)
(* interface its clients rely on: every step that keeps the invariant is a *)
(* step of Timers, or is not seen by the clients.                          *)
(***************************************************************************)
EXTENDS TimerList_proofs

-----------------------------------------------------------------------------
(* The main thread.                                                        *)

\* The list is as before if nothing is moved, flagged or set.
LEMMA ListKept ==
  ASSUME QInv, UNCHANGED <<head, flags, mark>>, OverflowPending' <=> OverflowPending
  PROVE  /\ ListOk(head', Far', mark') /\ Marked' /\ (FarBehind => FarBehind')
<1>1. Late' = Late /\ Flagged' = Flagged
  BY Zenon DEF Late, Flagged
<1>2. Far' = Far
  <2>1. CASE OverflowPending
    BY <1>1, <2>1, Zenon DEF Far
  <2>2. CASE ~OverflowPending
    BY <1>1, <2>2, Zenon DEF Far
  <2> QED BY <2>1, <2>2
<1> QED BY <1>1, <1>2, Zenon DEF QInv, Marked, FarBehind

LEMMA QuietQueue ==
  ASSUME QInv, UNCHANGED <<now, queue, chain>>, OverflowPending' <=> OverflowPending
  PROVE  QInv' /\ (FarBehind => FarBehind')
<1>1. ListOk(head', Far', mark') /\ Marked' /\ (FarBehind => FarBehind')
  BY ListKept, Zenon DEF queue
<1> QED BY <1>1, Zenon DEF queue, QInv, Typed, Window, Fields, Active, OneList

LEMMA Control ==
  ASSUME TInv
  PROVE  /\ QInv /\ TIMER_MAX \in Nat /\ now \in Int /\ stamp \in Int /\ intStamp \in Int
         /\ recalc \in BOOLEAN /\ interrupt \in BOOLEAN /\ recalcDec \in BOOLEAN
         /\ mpc \notin {"handler", "collect"} \/ call[1] # OVERFLOW =>
              ~OverflowPending /\ Far = Late /\ FarOk(head, Far, mark)
<1>1. mpc \notin {"handler", "collect"} \/ call[1] # OVERFLOW => ~OverflowPending
  BY Zenon DEF OverflowPending
<1>2. ~OverflowPending => Far = Late /\ FarOk(head, Far, mark)
  <2> SUFFICES ASSUME ~OverflowPending PROVE Far = Late /\ FarOk(head, Far, mark)
    OBVIOUS
  <2> QED BY Zenon DEF TInv, FarBehind, Far
<1> QED BY <1>1, <1>2, Basics, Zenon DEF TInv, Stamps

\* The main thread goes on and leaves the queue alone.
LEMMA QuietControl ==
  ASSUME TInv, UNCHANGED <<now, queue, chain>>, mpc' \notin {"handler", "collect"},
         mpc \notin {"handler", "collect"} \/ call[1] # OVERFLOW
  PROVE  QInv' /\ FarBehind'
<1>1. ~OverflowPending /\ ~OverflowPending'
  BY Zenon DEF OverflowPending
<1> QED BY <1>1, QuietQueue, Zenon DEF TInv

LEMMA HandlerReturnStep ==
  ASSUME TInv, HandlerReturn
  PROVE  TInv'
BY Control, QuietControl, Zenon DEF HandlerReturn, locals, TInv, Handling, Stamps, Told

LEMMA OverflowHandlerStep ==
  ASSUME TInv, overflow_handler
  PROVE  TInv'
<1>1. /\ UNCHANGED <<now, queue, chain>> /\ mpc = "handler" /\ mpc' = "collect" /\ call[1] = OVERFLOW
      /\ tp' = 1 /\ UNCHANGED <<stamp, recalc, interrupt, recalcDec, intStamp, call>>
  BY DEF overflow_handler
<1>2. OverflowPending' <=> OverflowPending
  BY <1>1, Zenon DEF OverflowPending
<1>3. QInv' /\ FarBehind'
  BY <1>1, <1>2, QuietQueue, Zenon DEF TInv
<1> QED BY <1>1, <1>3, TimerAssumption DEF TInv, Handling, Ids, Stamps, Told

LEMMA MainloopInterruptStep ==
  ASSUME TInv, mainloop_interrupt
  PROVE  TInv'
BY Control, QuietControl, Zenon DEF mainloop_interrupt, locals, queue, TInv, Handling,
   Stamps, Told

LEMMA RecalcStep ==
  ASSUME TInv, recalc_mol_timer
  PROVE  TInv'
BY Control, QuietControl, Zenon DEF recalc_mol_timer, locals, queue, TInv, Handling,
   Stamps, Told

LEMMA MacEntryStep ==
  ASSUME TInv, mac_entry
  PROVE  TInv'
BY Control, QuietControl, Zenon DEF mac_entry, locals, queue, TInv, Handling, Stamps,
   Told

LEMMA DecrementerStep ==
  ASSUME TInv, Decrementer
  PROVE  TInv'
BY Control, QuietControl, Zenon DEF Decrementer, locals, queue, TInv, Handling, Stamps,
   Told

LEMMA GuestExitStep ==
  ASSUME TInv, GuestExit
  PROVE  TInv'
BY Control, QuietControl, Zenon DEF GuestExit, locals, queue, TInv, Handling, Stamps,
   Told

LEMMA StutterStep ==
  ASSUME TInv, UNCHANGED vars
  PROVE  TInv'
<1>1. QInv' /\ FarBehind'
  BY QuietQueue, Zenon DEF vars, locals, TInv, OverflowPending
<1> QED BY <1>1, Zenon DEF vars, locals, queue, TInv, Handling, Stamps, Told

-----------------------------------------------------------------------------
(* Time.                                                                   *)

LEMMA TickStep ==
  ASSUME TInv, Tick
  PROVE  TInv'
<1>1. /\ now < MaxNow /\ now - stamp < TIMER_MAX /\ now - intStamp < TIMER_MAX
      /\ now' = now + 1 /\ \A t \in Active : now - mark[t] < MaxLate
      /\ UNCHANGED <<head, inactive, free, mark, period, flags, gen, chain>>
      /\ UNCHANGED <<stamp, recalc, interrupt, recalcDec, intStamp, call, tp, mpc>>
  BY DEF Tick, queue, locals
<1>2. now' \in 0..MaxNow /\ MaxNow \in Nat
  BY <1>1, Basics DEF TInv, QInv, Typed
<1>3. Window'
  <2>1. Window /\ Active' = Active /\ Active \subseteq AllSlots
    BY <1>1, Basics, Zenon DEF TInv, QInv, Active
  <2>2. \A t \in Active : now' - mark'[t] <= MaxLate
    <3> SUFFICES ASSUME NEW t \in Active PROVE now' - mark'[t] <= MaxLate
      BY Zenon
    <3>1. /\ now \in Int /\ mark[t] \in Int /\ MaxLate \in Nat /\ now - mark[t] < MaxLate
          /\ now' = now + 1 /\ mark' = mark
      BY <1>1, <2>1, Control, Basics, Zenon
    <3> QED BY <3>1
  <2>3. mark'[OVERFLOW] <= now' + TIMER_MAX
    <3>1. /\ now \in Int /\ mark[OVERFLOW] \in Int /\ TIMER_MAX \in Nat
          /\ mark[OVERFLOW] - TIMER_MAX <= now /\ now' = now + 1 /\ mark' = mark
      BY <1>1, Control, Basics, Zenon
    <3> QED BY <3>1
  <2> QED BY <1>1, <2>1, <2>2, <2>3, Zenon DEF Window
<1>4. Stamps'
  BY <1>1, Control DEF TInv, Stamps
<1>5. ListOk(head', Far', mark') /\ Marked' /\ FarBehind'
  <2>1. (OverflowPending' <=> OverflowPending) /\ UNCHANGED <<head, flags, mark>>
    BY <1>1, Zenon DEF OverflowPending
  <2> QED BY <2>1, ListKept, Zenon DEF TInv
<1> QED BY <1>1, <1>2, <1>3, <1>4, <1>5, Zenon DEF TInv, QInv, OneList, Active, Typed, Fields,
   Handling, Told

\* A stop in the debugger shifts every time on the list by the same amount.
LEMMA ShiftedOrder ==
  ASSUME NEW h, NEW S, NEW m, NEW n \in [AllSlots -> Int], NEW c \in Int, ListOk(h, S, m),
         \A u \in Range(h) : n[u] = m[u] + c
  PROVE  ListOk(h, S, n) /\ (FarOk(h, S, m) => FarOk(h, S, n))
<1>1. h \in Seq(AllSlots) /\ m \in [AllSlots -> Int] /\ OVERFLOW \in Range(h)
      /\ OVERFLOW \in AllSlots /\ TIMER_MAX \in Nat
  BY TimerAssumption DEF ListOk, AllSlots
<1>2. \A u \in Range(h) : u \in AllSlots /\ m[u] \in Int /\ n[u] = m[u] + c
  BY <1>1, InRange
<1>3. ASSUME NEW a \in Range(h), NEW b \in Range(h), Before(S, m, a, b)
      PROVE  Before(S, n, a, b)
  <2>1. /\ m[a] \in Int /\ m[b] \in Int /\ n[a] = m[a] + c /\ n[b] = m[b] + c
    BY <1>2, Zenon
  <2>2. (m[a] <= m[b] => n[a] <= n[b]) /\ Diff(n[a], n[b]) = Diff(m[a], m[b])
    BY <2>1 DEF Diff
  <2> QED BY <1>3, <2>2, Zenon DEF Before
<1>4. \A u \in Range(h) : n[u] >= n[OVERFLOW] - TIMER_MAX
  BY <1>1, <1>2 DEF ListOk
<1>5. ListOk(h, S, n)
  <2>1. \A a, b \in Range(h) : <<a, b>> \in BeforeRel(S, m) => <<a, b>> \in BeforeRel(S, n)
    BY <1>2, <1>3, BeforeIs, Zenon
  <2>2. InOrder(h, BeforeRel(S, n))
    BY <1>1, <2>1, SameOrder, Zenon DEF ListOk
  <2> QED BY <1>4, <2>2, Zenon DEF ListOk
<1> QED BY <1>1, <1>2, <1>5 DEF FarOk

LEMMA RetuneStep ==
  ASSUME TInv, NEW add \in Freezes, retune_timers(add)
  PROVE  TInv'
<1>1. /\ mpc = "user" /\ now + add <= MaxNow /\ now' = now + add
      /\ now + add - stamp <= TIMER_MAX /\ now + add - intStamp <= TIMER_MAX
      /\ mark' = [t \in AllSlots |-> IF t \in Range(head) THEN mark[t] + add ELSE mark[t]]
      /\ UNCHANGED <<head, inactive, free, period, flags, gen, chain>>
      /\ UNCHANGED <<stamp, recalc, interrupt, recalcDec, intStamp, call, tp, mpc>>
  BY DEF retune_timers, locals
<1>2. add \in Nat
  BY TimerAssumption
<1>3. QInv /\ ListOk(head, Far, mark) /\ FarOk(head, Far, mark) /\ chain = <<>> /\ Far = Late
  BY <1>1, Control, Zenon DEF QInv, TInv, Handling
<1>4. mark' \in [AllSlots -> Int] /\ \A t \in Range(head) : mark'[t] = mark[t] + add
  <2>1. /\ add \in Nat /\ mark \in [AllSlots -> Int] /\ Range(head) \subseteq AllSlots
        /\ mark' = [t \in AllSlots |-> IF t \in Range(head) THEN mark[t] + add ELSE mark[t]]
    BY <1>1, <1>2, <1>3, Basics, Zenon
  <2> QED BY <2>1
<1>5. ListOk(head', Far', mark') /\ Marked' /\ FarBehind'
  <2>1. ListOk(head, Far, mark') /\ FarOk(head, Far, mark')
    BY <1>2, <1>3, <1>4, ShiftedOrder
  <2>2. ~OverflowPending' /\ Far' = Late'
    BY <1>1, Zenon DEF OverflowPending, Far
  <2>3. \A u \in Range(head) : u \in Late' <=> u \in Late
    <3> TAKE u \in Range(head)
    <3>1. /\ OVERFLOW \in Range(head) /\ OVERFLOW \in AllSlots /\ u \in AllSlots
          /\ mark[u] \in Int /\ mark[OVERFLOW] \in Int
      BY <1>3, Basics, Zenon DEF ListOk
    <3>2. mark'[u] > mark'[OVERFLOW] <=> mark[u] > mark[OVERFLOW]
      BY <1>2, <1>4, <3>1
    <3> QED BY <3>1, <3>2, Zenon DEF Late
  <2>4. ListOk(head, Far', mark') /\ FarOk(head, Far', mark')
    BY <1>3, <1>4, <2>1, <2>2, <2>3, ListOther, Zenon
  <2>5. Marked'
    BY <1>1, <1>3, <2>2, <2>3, Zenon DEF QInv, Marked, Flagged
  <2> QED BY <1>1, <2>4, <2>5, Zenon DEF FarBehind
<1>6. Typed' /\ Fields'
  BY <1>1, <1>2, <1>3 DEF QInv, Typed, Fields, Active
<1>7. OneList'
  BY <1>1, <1>3, Zenon DEF QInv, OneList, Active
<1>8. Window'
  <2>1. Range(chain) = {} /\ OVERFLOW \in Range(head)
    BY <1>3 DEF Range, ListOk
  <2>2. Active' = Range(head) /\ Active = Range(head)
    BY <1>1, <2>1, Zenon DEF Active
  <2>3. now \in Int /\ TIMER_MAX \in Int /\ mark[OVERFLOW] \in Int
        /\ mark'[OVERFLOW] = mark[OVERFLOW] + add /\ now' = now + add
    BY <1>1, <1>3, <2>1, Basics
  <2>4. ASSUME NEW t \in Range(head)
        PROVE  mark'[t] >= mark'[OVERFLOW] - TIMER_MAX /\ now' - mark'[t] <= MaxLate
    <3>1. /\ mark[t] >= mark[OVERFLOW] - TIMER_MAX /\ now - mark[t] <= MaxLate
          /\ mark'[t] = mark[t] + add /\ mark[t] \in Int /\ MaxLate \in Int
      BY <1>3, <1>4, <2>2, Basics DEF QInv, Window
    <3> QED BY <1>2, <2>3, <3>1
  <2> QED BY <1>2, <1>3, <2>2, <2>3, <2>4 DEF Window, QInv
<1>9. mark'[head'[1]] = mark[head[1]] + add /\ mark[head[1]] \in Int
  BY <1>1, <1>3, FirstIsNext, Basics, Zenon
<1>10. Stamps'
  BY <1>1, <1>2, <1>9, Control DEF TInv, Stamps
<1>11. Told'
  <2>1. intStamp <= mark[head[1]] => intStamp' <= mark'[head'[1]]
    BY <1>1, <1>2, <1>9, Control
  <2> QED BY <1>1, <2>1, Zenon DEF TInv, Told
<1> QED BY <1>1, <1>5, <1>6, <1>7, <1>8, <1>10, <1>11, Zenon DEF TInv, QInv, Handling

-----------------------------------------------------------------------------
(* overflow_handler.                                                       *)

\* The collection ends when no flagged timer is left on the list.
LEMMA CollectEnd ==
  ASSUME TInv, overflow_collect, tp > Len(head)
  PROVE  TInv'
<1>1. /\ mpc = "collect" /\ mpc' = "sort" /\ tp' = 0
      /\ UNCHANGED <<now, queue, chain>> /\ UNCHANGED <<head, flags, mark>>
      /\ UNCHANGED <<stamp, recalc, interrupt, recalcDec, intStamp, call>>
  BY DEF overflow_collect, queue
<1>2. QInv /\ ListOk(head, Far, mark) /\ head \in Seq(AllSlots) /\ mark \in [AllSlots -> Int]
  BY Control, Basics, Zenon DEF QInv
<1>3. ~OverflowPending' /\ Far' = Late' /\ Late' = Late /\ Far = Flagged
  <2>1. OverflowPending /\ ~OverflowPending'
    BY <1>1 DEF OverflowPending, TInv, Handling
  <2> QED BY <1>1, <2>1, Zenon DEF Far, Late
<1>4. ASSUME NEW u \in Range(head) PROVE u \notin Far /\ u \notin Far'
  <2>1. PICK i \in 1..Len(head) : head[i] = u
    BY <1>2, InRange
  <2>2. "OVERFLOW" \notin flags[u]
    BY <1>1, <1>2, <2>1 DEF TInv, Handling
  <2>3. u \notin Far
    BY <1>3, <2>2, Zenon DEF Flagged
  <2>4. mark[u] <= mark[OVERFLOW] /\ u \in AllSlots
    BY <1>2, <2>1, <2>3, NearIs, Zenon
  <2>5. ~(mark[u] > mark[OVERFLOW])
    BY <1>2, <2>4, Basics
  <2> QED BY <1>3, <2>3, <2>5, Zenon DEF Late
<1>5. ListOk(head, Far', mark)
  BY <1>2, <1>4, ListOther, Zenon
<1>6. Marked' /\ FarBehind'
  <2>1. \A i \in 1..Len(head) : head[i] \in Range(head) /\ head[i] \in AllSlots
    BY <1>2, InRange
  <2>2. FarOk(head, Far', mark)
    BY <1>4, <2>1, BeforeIs, Zenon DEF FarOk, InOrder
  <2> QED BY <1>1, <1>4, <2>2, Zenon DEF Marked, FarBehind
<1>7. QInv'
  BY <1>1, <1>2, <1>5, <1>6, Zenon DEF QInv, queue, Typed, Window, Fields, Active, OneList
<1> QED BY <1>1, <1>6, <1>7, Zenon DEF TInv, Handling, Stamps, Told

LEMMA CollectPass ==
  ASSUME TInv, overflow_collect, ~(tp > Len(head)), "OVERFLOW" \notin flags[head[tp]]
  PROVE  TInv'
<1>1. /\ mpc = "collect" /\ UNCHANGED mpc /\ tp' = tp + 1
      /\ UNCHANGED <<now, queue, chain>> /\ UNCHANGED <<head, flags, mark>>
      /\ UNCHANGED <<stamp, recalc, interrupt, recalcDec, intStamp, call>>
  BY Zenon DEF overflow_collect, queue
<1>2. QInv' /\ FarBehind' /\ head \in Seq(AllSlots)
  <2>1. OverflowPending' <=> OverflowPending
    BY <1>1, Zenon DEF OverflowPending
  <2> QED BY <1>1, <2>1, Control, Basics, QuietQueue, Zenon DEF TInv
<1> QED BY <1>1, <1>2 DEF TInv, Handling, Stamps, Told

LEMMA CollectTake ==
  ASSUME TInv, overflow_collect, ~(tp > Len(head)), "OVERFLOW" \in flags[head[tp]]
  PROVE  TInv'
<1> DEFINE t == head[tp]
<1>1. /\ mpc = "collect" /\ UNCHANGED mpc /\ UNCHANGED tp
      /\ head' = Unlink(head, tp) /\ chain' = <<t>> \o chain
      /\ UNCHANGED <<now, inactive, free, mark, period, flags, gen>>
      /\ UNCHANGED <<stamp, recalc, interrupt, recalcDec, intStamp, call>>
  BY DEF overflow_collect
<1>2. QInv /\ head \in Seq(AllSlots) /\ IsInjective(head) /\ Len(head) \in Nat
  BY Control, Basics
<1>3. tp \in 1..Len(head)
  BY <1>1 DEF TInv, Handling
<1>4. t \in Range(head) /\ t \in Slots /\ "OVERFLOW" \in flags[t] /\ t # OVERFLOW
  <2>1. t \in Range(head) /\ t \in AllSlots
    BY <1>2, <1>3, InRange, Zenon
  <2>2. "OVERFLOW" \notin flags[OVERFLOW]
    BY <1>2 DEF QInv, Fields
  <2> QED BY <2>1, <2>2, Zenon DEF AllSlots
<1>5. /\ head' \in Seq(AllSlots) /\ IsInjective(head') /\ Range(head') = Range(head) \ {t}
      /\ \A R : InOrder(head, R) => InOrder(head', R)
  BY <1>1, <1>2, <1>3, UnlinkKeeps, Zenon
<1> HIDE DEF t
<1>6. t \notin Range(chain) /\ t \notin Range(inactive) /\ t \notin free
  BY <1>2, <1>4, Parts, Basics, Zenon
<1>7. chain' \in Seq(Slots) /\ IsInjective(chain') /\ Range(chain') = Range(chain) \cup {t}
  BY <1>1, <1>2, <1>4, <1>6, Parts, PushKeeps, Zenon
<1>8. Active' = Active
  BY <1>4, <1>5, <1>7, Zenon DEF Active
<1>9. ListOk(head', Far', mark') /\ Marked'
  <2>1. OverflowPending /\ OverflowPending'
    BY <1>1 DEF OverflowPending, TInv, Handling
  <2>2. Far' = Flagged' /\ Far = Flagged /\ Flagged' = Flagged
    BY <1>1, <2>1, Zenon DEF Far, Flagged
  <2>3. ListOk(head', Far, mark)
    BY <1>2, <1>4, <1>5, Zenon DEF QInv, ListOk
  <2> QED BY <1>1, <2>2, <2>3, Zenon DEF Marked
<1>10. Typed' /\ Window' /\ Fields'
  BY <1>1, <1>2, <1>4, <1>7, <1>8, Zenon DEF QInv, Typed, Window, Fields
<1>11. OneList'
  BY <1>1, <1>2, <1>4, <1>5, <1>6, <1>7, <1>8, ZenonT(30) DEF QInv, OneList
<1>12. Handling'
  <2>1. /\ tp \in 1..(Len(head') + 1)
        /\ \A i \in 1..Len(head') : i < tp => i \in 1..Len(head) /\ head'[i] = head[i]
    BY <1>1, <1>2, <1>3 DEF Unlink
  <2>2. \A i \in 1..Len(head) : i < tp => "OVERFLOW" \notin flags[head[i]]
    BY <1>1, Zenon DEF TInv, Handling
  <2> QED BY <1>1, <2>1, <2>2, Zenon DEF TInv, Handling
<1>13. Stamps' /\ Told'
  BY <1>1, Zenon DEF TInv, Stamps, Told
<1>14. FarBehind'
  BY <1>1, <1>12 DEF FarBehind, OverflowPending, Handling
<1> QED BY <1>9, <1>10, <1>11, <1>12, <1>13, <1>14, Zenon DEF TInv, QInv

LEMMA CollectStep ==
  ASSUME TInv, overflow_collect
  PROVE  TInv'
BY CollectEnd, CollectPass, CollectTake

LEMMA SortEnd ==
  ASSUME TInv, overflow_sort, chain = <<>>
  PROVE  TInv'
BY Control, QuietControl, Zenon DEF overflow_sort, queue, TInv, Handling, Stamps, Told

\* A timer of the chain goes back with its flag cleared first, and is flagged
\* again if it is due after the next overflow as well.
LEMMA SortInserts ==
  ASSUME TInv, overflow_sort, chain # <<>>, NEW t, t = chain[1]
  PROVE  /\ t \in Slots /\ t \in Range(chain) /\ Range(head') = Range(head) \cup {t}
         /\ ListOk(head', Far', mark') /\ Marked' /\ FarBehind'
         /\ mark' = mark /\ flags' \in FlagSets
         /\ \A u \in AllSlots : u # t => flags'[u] = Unflagged(t)[u]
         /\ flags'[t] \in {Unflagged(t)[t], Unflagged(t)[t] \cup {"OVERFLOW"}}
         /\ UNCHANGED <<stamp, recalc, interrupt, recalcDec>> \/ (stamp' = mark[t] /\ Tell("main"))
<1> DEFINE f == Unflagged(t)
<1>1. mpc = "sort" /\ mpc' = "sort" /\ insert_timer("main", head, f, mark, t)
  BY DEF overflow_sort
<1>2. QInv /\ ListOk(head, Far, mark) /\ FarOk(head, Far, mark) /\ Far = Late
  BY <1>1, Control DEF QInv
<1>3. t \in Range(chain) /\ t \in Slots /\ t \in AllSlots /\ t \notin Range(head)
  BY <1>2, Parts, TailDequeues, Basics, Zenon
<1>4. f \in FlagSets /\ \A u \in AllSlots : u # t => f[u] = flags[u]
  BY <1>2, <1>3, Zenon DEF QInv, Typed, Unflagged, FlagSets
<1> HIDE DEF f
<1>5. /\ flags' \in FlagSets /\ mark' = mark
      /\ \A u \in AllSlots : u # t => flags'[u] = f[u]
      /\ flags'[t] = f[t] \/ flags'[t] = f[t] \cup {"OVERFLOW"}
      /\ mark[t] > mark[OVERFLOW] => "OVERFLOW" \in flags'[t]
  <2>1. /\ mark' = mark
        /\ flags' = IF mark[t] > mark[OVERFLOW] THEN [f EXCEPT ![t] = @ \cup {"OVERFLOW"}] ELSE f
    BY <1>1, Zenon DEF insert_timer
  <2> QED BY <1>3, <1>4, <2>1 DEF FlagSets
<1>6. ~OverflowPending' /\ Far' = Far
  <2>1. ~OverflowPending' /\ Late' = Late
    BY <1>1, <1>5, Zenon DEF OverflowPending, Late
  <2> QED BY <1>2, <2>1, Zenon DEF Far
<1>7. t \in Far <=> mark[t] > mark[OVERFLOW]
  BY <1>2, <1>3, Zenon DEF Late
<1>8. Inserted("main", head, Far, mark, t)
  <2>1. mark[t] >= mark[OVERFLOW] - TIMER_MAX /\ "main" \in Threads
    BY <1>2, <1>3, Zenon DEF Threads, QInv, Window, Active
  <2> QED BY <1>1, <1>2, <1>3, <1>7, <2>1, TimerInserted, Zenon
<1>9. /\ ListOk(head', Far', mark') /\ Range(head') = Range(head) \cup {t}
      /\ UNCHANGED <<stamp, recalc, interrupt, recalcDec>> \/ (stamp' = mark[t] /\ Tell("main"))
  BY <1>5, <1>6, <1>8, Zenon DEF Inserted
<1>10. FarBehind'
  <2>1. InOrder(head', NearRel(Far))
    BY <1>2, <1>7, <1>8, Zenon DEF Inserted, FarOk
  <2> QED BY <1>2, <1>5, <1>6, <1>7, <1>9, <2>1, Zenon DEF FarBehind, FarOk
<1>11. Marked'
  <2>1. \A u \in Range(head) : u \in Far => u \in Flagged'
    BY <1>2, <1>3, <1>4, <1>5, Basics, Zenon DEF QInv, Marked, Flagged
  <2>2. t \in Far => t \in Flagged'
    BY <1>3, <1>5, <1>7, Zenon DEF Flagged
  <2> QED BY <1>6, <1>9, <2>1, <2>2, Zenon DEF Marked
<1>12. flags'[t] \in {f[t], f[t] \cup {"OVERFLOW"}}
  BY <1>5, Zenon
<1> QED BY <1>3, <1>5, <1>9, <1>10, <1>11, <1>12, Zenon DEF f

LEMMA SortTake ==
  ASSUME TInv, overflow_sort, chain # <<>>
  PROVE  TInv'
<1> DEFINE t == chain[1]
           f == Unflagged(t)
<1>1. /\ mpc = "sort" /\ chain' = Tail(chain) /\ UNCHANGED <<mpc, call>>
      /\ UNCHANGED <<now, inactive, free, period, gen, intStamp, tp>>
  BY DEF overflow_sort
<1>2. /\ t \in Slots /\ t \in Range(chain) /\ Range(head') = Range(head) \cup {t}
      /\ ListOk(head', Far', mark') /\ Marked' /\ FarBehind'
      /\ mark' = mark /\ flags' \in FlagSets
      /\ \A u \in AllSlots : u # t => flags'[u] = f[u]
      /\ flags'[t] \in {f[t], f[t] \cup {"OVERFLOW"}}
      /\ UNCHANGED <<stamp, recalc, interrupt, recalcDec>> \/ (stamp' = mark[t] /\ Tell("main"))
  BY SortInserts
<1>3. QInv /\ t \in AllSlots /\ t # OVERFLOW
  BY <1>2, Control, Basics, Zenon
<1>4. flags'[t] = f[t] \/ flags'[t] = f[t] \cup {"OVERFLOW"}
  BY <1>2, Zenon
<1>5. /\ f[t] = flags[t] \ {"OVERFLOW"} /\ \A u \in AllSlots : u # t => f[u] = flags[u]
  BY <1>3 DEF Unflagged, QInv, Typed, FlagSets
<1>6. /\ chain' \in Seq(Slots) /\ IsInjective(chain') /\ Range(chain') = Range(chain) \ {t}
  <2>1. Tail(chain) = dequeue_timer(chain, t) /\ chain \in Seq(Slots) /\ IsInjective(chain)
    BY <1>3, Parts, TailDequeues, Zenon
  <2> HIDE DEF t
  <2>2. chain' = dequeue_timer(chain, t)
    BY <1>1, <2>1, Zenon
  <2> QED BY <2>1, <2>2, DequeueKeeps, Zenon
<1> HIDE DEF t, f
<1>7. Active' = Active
  BY <1>2, <1>6, Zenon DEF Active
<1>8. Typed' /\ Window'
  BY <1>1, <1>2, <1>3, <1>6, <1>7, Zenon DEF QInv, Typed, Window
<1>9. OneList'
  BY <1>1, <1>2, <1>3, <1>6, <1>7, ZenonT(30) DEF QInv, OneList, ListOk
<1>10. Fields'
  <2>1. Fields
    BY <1>3 DEF QInv
  <2>2. /\ t \notin Range(inactive) /\ t \notin free /\ Range(inactive) \subseteq AllSlots
        /\ free \subseteq AllSlots /\ OVERFLOW \in AllSlots /\ Range(chain) \subseteq AllSlots
        /\ Active \subseteq AllSlots
    BY <1>2, <1>3, Basics, Parts, Zenon DEF Active
  <2>3. \A u \in AllSlots : u # t => flags'[u] = flags[u]
    BY <1>2, <1>5, Zenon
  <2>4. /\ flags'[OVERFLOW] = {"PERIODIC", "AUTORESUME"}
        /\ period'[OVERFLOW] = TIMER_MAX /\ gen'[OVERFLOW] = 1
    BY <1>1, <1>3, <2>1, <2>2, <2>3, Zenon DEF Fields
  <2>5. /\ \A u \in Active' : "PERIODIC" \in flags'[u] => period'[u] # 0
        /\ \A u \in AllSlots : "AUTORESUME" \in flags'[u] => "PERIODIC" \in flags'[u]
    BY <1>1, <1>4, <1>5, <1>7, <2>1, <2>2, <2>3 DEF Fields
  <2> QED BY <1>1, <1>6, <2>1, <2>2, <2>3, <2>4, <2>5, Zenon DEF Fields
<1>11. Stamps'
  <2>1. mark[t] \in Int /\ now - mark[t] <= TIMER_MAX
    BY <1>2, <1>3, Basics DEF QInv, Window, Active
  <2> QED BY <1>1, <1>2, <2>1, Zenon DEF TInv, Stamps, Tell
<1> QED BY <1>1, <1>2, <1>8, <1>9, <1>10, <1>11, Zenon DEF TInv, QInv, Handling, Told

LEMMA SortStep ==
  ASSUME TInv, overflow_sort
  PROVE  TInv'
BY SortEnd, SortTake

-----------------------------------------------------------------------------
(* rvec_timer.                                                             *)

\* The first timer, when rvec_timer looks at it.
LEMMA FirstDue ==
  ASSUME TInv, mpc = "rvec", NEW t, t = head[1]
  PROVE  /\ QInv /\ FarOk(head, Far, mark) /\ t \in Range(head) /\ t \in AllSlots
         /\ chain = <<>> /\ Tail(head) = dequeue_timer(head, t)
         /\ mark[t] \in Int /\ mark[t] <= mark[OVERFLOW] /\ \A u \in Range(head) : mark[t] <= mark[u]
         /\ now - mark[t] <= MaxLate
         /\ Due(t) => mark[t] <= now
<1>1. QInv /\ FarOk(head, Far, mark) /\ chain = <<>> /\ ListOk(head, Far, mark)
  BY Control, Zenon DEF TInv, Handling, QInv
<1>2. /\ 1 \in 1..Len(head) /\ t \in Range(head)
      /\ mark[t] <= mark[OVERFLOW] /\ \A u \in Range(head) : mark[t] <= mark[u]
  BY <1>1, FirstIsNext, Zenon
<1>3. t \in AllSlots /\ mark[t] \in Int
  BY <1>1, <1>2, Basics, Zenon
<1>4. now - mark[t] <= MaxLate /\ mark[OVERFLOW] <= now + TIMER_MAX
  BY <1>1, <1>2, Zenon DEF QInv, Window, Active
<1>5. Due(t) => mark[t] <= now
  <2>1. now - mark[t] \in (-HALF)..TIMER_MAX /\ now \in Int
    <3>1. /\ now \in Int /\ mark[t] \in Int /\ mark[OVERFLOW] \in Int /\ TIMER_MAX \in Nat
          /\ MaxLate \in Nat /\ MaxLate < TIMER_MAX /\ mark[t] <= mark[OVERFLOW]
          /\ now - mark[t] <= MaxLate /\ mark[OVERFLOW] <= now + TIMER_MAX
      BY <1>1, <1>2, <1>3, <1>4, Basics, Zenon
    <3> QED BY <3>1 DEF HALF
  <2>2. Diff(now, mark[t]) = now - mark[t]
    BY <1>3, <2>1, DiffExact, Zenon
  <2> QED BY <1>3, <2>1, <2>2 DEF Due
<1> QED BY <1>1, <1>2, <1>4, <1>5, Basics, TailDequeues

\* A handler is called: what is left to show once the queue is done.
LEMMA CalledControl ==
  ASSUME TInv, mpc = "rvec", NEW t \in Range(head), QInv',
         mpc' = "handler", call' = Id(t), UNCHANGED <<now, gen, intStamp, locals>>,
         t # OVERFLOW => FarBehind',
         {recalc', interrupt', recalcDec'} \subseteq BOOLEAN,
         stamp' \in Int /\ now - stamp' <= TIMER_MAX
  PROVE  TInv'
<1>1. QInv /\ Fields /\ Typed
  BY DEF TInv, QInv
<1>2. call' \in Ids \cup {<<OVERFLOW, 1>>}
  <2>1. CASE t = OVERFLOW
    BY <1>1, <2>1, Zenon DEF Id, Fields
  <2>2. CASE t # OVERFLOW
    <3>1. t \in Slots /\ t \notin free /\ t \in AllSlots
      BY <1>1, <2>2, Basics, Parts, Zenon DEF AllSlots
    <3> QED BY <1>1, <3>1 DEF Ids, Id, Fields, Typed
  <2> QED BY <2>1, <2>2
<1> QED BY <1>2, Zenon DEF TInv, FarBehind, OverflowPending, Id, Handling, locals, Stamps, Told

LEMMA RvecIdle ==
  ASSUME TInv, rvec_timer, ~Due(head[1])
  PROVE  TInv'
<1> DEFINE t == head[1]
<1>1. /\ mpc = "rvec" /\ stamp' = mark[t] /\ recalc' = FALSE /\ recalcDec' = TRUE
      /\ mpc' = "user" /\ call' = NoCall
      /\ UNCHANGED <<now, queue, chain>> /\ UNCHANGED <<head, flags, mark>>
      /\ UNCHANGED <<interrupt, intStamp, chain, tp>>
  BY DEF rvec_timer, queue, locals
<1>2. mark[t] \in Int /\ now - mark[t] <= TIMER_MAX
  BY <1>1, FirstDue, Basics
<1>3. Stamps'
  <2>1. mark'[head'[1]] = mark[t] /\ now' - intStamp' <= TIMER_MAX
    BY <1>1 DEF TInv, Stamps
  <2>2. {recalc', interrupt', recalcDec'} \subseteq BOOLEAN /\ intStamp' \in Int
    BY <1>1, Control, Zenon
  <2> HIDE DEF t
  <2> QED BY <1>1, <1>2, <2>1, <2>2 DEF Stamps
<1>4. QInv' /\ FarBehind'
  BY <1>1, QuietControl, Zenon
<1> QED BY <1>1, <1>3, <1>4, Zenon DEF TInv, Handling, Told

\* rvec_timer on a timer that is due, by the kind of the timer
LEMMA RvecCases ==
  ASSUME TInv, rvec_timer, NEW t, t = head[1], Due(t)
  PROVE  /\ mpc = "rvec" /\ mpc' = "handler" /\ call' = Id(t)
         /\ UNCHANGED <<now, gen, intStamp, locals>>
         /\ \/ /\ Autoresumes(t)
               /\ insert_timer("main", Tail(head), flags,
                               [mark EXCEPT ![t] = NextTime(@, period[t])], t)
               /\ UNCHANGED <<inactive, free, period>>
            \/ /\ flags[t] = {"PERIODIC"} /\ t # OVERFLOW
               /\ head' = Tail(head) /\ inactive' = <<t>> \o inactive
               /\ UNCHANGED <<free, mark, period, flags>>
               /\ UNCHANGED <<stamp, recalc, interrupt, recalcDec>>
            \/ /\ ~Autoresumes(t) /\ flags[t] # {"PERIODIC"} /\ t # OVERFLOW
               /\ head' = Tail(head) /\ free' = free \cup {t} /\ AtRest(t)
               /\ UNCHANGED inactive /\ UNCHANGED <<stamp, recalc, interrupt, recalcDec>>
BY DEF rvec_timer, TInv, QInv, Fields, Autoresumes

LEMMA NotPast ==
  ASSUME NEW a \in Int, NEW b \in Int, a - b <= 0, NEW c \in Nat
  PROVE  a - b <= c
OBVIOUS

\* The handler of another timer is called: nothing is to be sorted.
LEMMA StillPending ==
  ASSUME mpc = "rvec", NEW t \in Slots, call' = Id(t)
  PROVE  OverflowPending' <=> OverflowPending
BY TimerAssumption DEF OverflowPending, Id

\* An autoresuming timer goes back on the list, one period or more later.
LEMMA RvecAgain ==
  ASSUME TInv, rvec_timer, NEW t \in Slots, t = head[1], Due(t), Autoresumes(t)
  PROVE  /\ TInv' /\ mark' = [mark EXCEPT ![t] = NextTime(mark[t], period[t])]
         /\ NextTime(mark[t], period[t]) \in Int /\ NextTime(mark[t], period[t]) > now
         /\ Range(head') = Range(head) /\ UNCHANGED <<now, free, gen, chain>>
         /\ call' = Id(t) /\ mpc = "rvec"
<1> DEFINE d == NextTime(mark[t], period[t])
<1>1. /\ mpc = "rvec" /\ mpc' = "handler" /\ call' = Id(t)
      /\ UNCHANGED <<now, gen, intStamp, locals>> /\ UNCHANGED <<inactive, free, period>>
      /\ insert_timer("main", Tail(head), flags,
                      [mark EXCEPT ![t] = NextTime(@, period[t])], t)
  <2>1. flags[t] # {"PERIODIC"}
    BY DEF Autoresumes
  <2> QED BY <2>1, RvecCases, Zenon
<1>2. /\ QInv /\ FarBehind /\ t \in Range(head) /\ t \in AllSlots
      /\ Tail(head) = dequeue_timer(head, t) /\ mark[t] \in Int
      /\ mark \in [AllSlots -> Int] /\ now \in Int /\ (OverflowPending' <=> OverflowPending)
  BY <1>1, FirstDue, StillPending, Basics, Zenon DEF TInv
<1>3. [mark EXCEPT ![t] = NextTime(@, period[t])] = [mark EXCEPT ![t] = d]
  OBVIOUS
<1>4. /\ period \in [AllSlots -> Nat] /\ period[t] \in Nat \ {0}
      /\ gen \in [AllSlots -> 0..MaxIds] /\ gen[t] # 0
  BY <1>2, Zenon DEF QInv, Fields, Autoresumes, Active, Typed
<1>5. d \in Int /\ d > now
  BY <1>2, <1>4, NextTimes, Zenon
<1> HIDE DEF d
<1>6. insert_timer("main", dequeue_timer(head, t), flags, [mark EXCEPT ![t] = d], t)
  BY <1>1, <1>2, <1>3, Zenon
<1>7. /\ mark' = [mark EXCEPT ![t] = d] /\ FarBehind' /\ Covered("main")
      /\ Range(head') = Range(head) \cup {t} /\ "main" \in Threads
  <2>1. d >= now /\ "main" \in Threads
    BY <1>2, <1>5 DEF Threads
  <2> QED BY <1>2, <1>5, <1>6, <2>1, ArmedList, Zenon
<1>8. /\ t \notin Range(inactive) /\ t \notin free /\ t \notin Range(chain)
      /\ inactive' = dequeue_timer(inactive, t) /\ free' = free \ {t}
      /\ UNCHANGED <<now, chain>> /\ Range(head') = Range(head)
  BY <1>1, <1>2, <1>7, Parts, Zenon DEF dequeue_timer, locals
<1>9. QInv'
  <2>1. d >= now
    BY <1>2, <1>5
  <2> QED BY <1>1, <1>2, <1>4, <1>5, <1>6, <1>7, <1>8, <2>1, ArmKeepsQueue, Zenon
<1>10. TInv'
  BY <1>1, <1>2, <1>7, <1>9, Control, NotPast, CalledControl, Zenon DEF TInv, Stamps, Tell,
     Covered
<1> QED BY <1>1, <1>5, <1>7, <1>8, <1>10, Zenon DEF d

\* A timer that is paused or freed when its handler is called.
LEMMA RvecOff ==
  ASSUME TInv, rvec_timer, NEW t \in Slots, t = head[1], Due(t), ~Autoresumes(t)
  PROVE  /\ TInv' /\ Range(head') = Range(head) \ {t} /\ UNCHANGED <<now, gen, chain>>
         /\ \A u \in AllSlots : u # t => mark'[u] = mark[u]
         /\ free' \in {free, free \cup {t}} /\ call' = Id(t) /\ mpc = "rvec"
<1>1. /\ QInv /\ FarBehind /\ t \in Range(head) /\ t \in AllSlots
      /\ Tail(head) = dequeue_timer(head, t) /\ mpc = "rvec"
      /\ OverflowPending' <=> OverflowPending
  BY RvecCases, FirstDue, StillPending, Zenon DEF TInv
<1>2. /\ mpc' = "handler" /\ call' = Id(t) /\ UNCHANGED <<now, gen, intStamp, locals>>
      /\ UNCHANGED <<stamp, recalc, interrupt, recalcDec>> /\ head' = Tail(head)
  BY RvecCases, Zenon
<1>3. t \notin Range(inactive) /\ t \notin Range(chain) /\ UNCHANGED chain
  BY <1>1, <1>2, Parts, Zenon DEF locals
<1>4. Range(head') = Range(head) \ {t}
  BY <1>1, <1>2, ListDequeued, Zenon DEF QInv
<1>5. CASE flags[t] = {"PERIODIC"}
  BY <1>1, <1>2, <1>3, <1>4, <1>5, RvecCases, PauseKeepsQueue, CalledControl, Zenon DEF TInv,
     Stamps
<1>6. CASE flags[t] # {"PERIODIC"}
  <2>1. free' = free \cup {t} /\ AtRest(t) /\ UNCHANGED inactive
    BY <1>6, RvecCases, Zenon
  <2>2. TInv'
    BY <1>1, <1>2, <1>3, <2>1, FreeKeepsQueue, CalledControl, Zenon DEF TInv, Stamps, dequeue_timer
  <2>3. \A u \in AllSlots : u # t => mark'[u] = mark[u]
    BY <1>1, <2>1, Basics, Zenon DEF AtRest
  <2>4. free' \in {free, free \cup {t}}
    BY <2>1, Zenon
  <2> QED BY <1>1, <1>2, <1>3, <1>4, <2>2, <2>3, <2>4, Zenon
<1> QED BY <1>5, <1>6, Zenon

\* When the overflow timer is first, everything behind it is kept for later.
LEMMA OverflowFirst ==
  ASSUME NEW h, NEW S, NEW m, ListOk(h, S, m), FarOk(h, S, m), h[1] = OVERFLOW
  PROVE  \A u \in Range(h) : u # OVERFLOW => u \in S /\ m[u] > m[OVERFLOW]
<1> SUFFICES ASSUME NEW u \in Range(h), u # OVERFLOW
             PROVE  u \in S /\ m[u] > m[OVERFLOW]
  OBVIOUS
<1>1. h \in Seq(AllSlots) /\ OVERFLOW \in AllSlots
  BY DEF ListOk, AllSlots
<1>2. PICK j \in 1..Len(h) : h[j] = u
  BY <1>1, InRange
<1>3. 1 \in 1..Len(h) /\ 1 < j /\ u \in AllSlots
  BY <1>1, <1>2
<1> QED BY <1>1, <1>2, <1>3, BeforeIs, Zenon DEF FarOk, Before, ListOk, InOrder

\* The overflow timer fires: the window moves on by TIMER_MAX.
LEMMA RvecOverflow ==
  ASSUME TInv, rvec_timer, head[1] = OVERFLOW, Due(OVERFLOW)
  PROVE  /\ TInv' /\ Range(head') = Range(head) /\ UNCHANGED <<now, gen, free, chain>>
         /\ \A u \in AllSlots : u # OVERFLOW => mark'[u] = mark[u]
         /\ call' = <<OVERFLOW, 1>> /\ mpc = "rvec"
<1> DEFINE o == mark[OVERFLOW]
           g == Tail(head)
           m == [mark EXCEPT ![OVERFLOW] = o + TIMER_MAX]
<1>1. /\ mpc = "rvec" /\ mpc' = "handler" /\ call' = Id(OVERFLOW)
      /\ UNCHANGED <<now, gen, intStamp, locals>> /\ UNCHANGED <<inactive, free, period>>
      /\ insert_timer("main", Tail(head), flags,
                      [mark EXCEPT ![OVERFLOW] = NextTime(@, period[OVERFLOW])], OVERFLOW)
  BY RvecCases, Zenon
<1>2. /\ QInv /\ FarOk(head, Far, mark) /\ ListOk(head, Far, mark) /\ OVERFLOW \in Range(head)
      /\ OVERFLOW \in AllSlots
      /\ g = dequeue_timer(head, OVERFLOW) /\ o \in Int
      /\ now - o <= MaxLate /\ o <= now
      /\ TIMER_MAX \in Nat /\ MaxLate \in Nat /\ MaxLate < TIMER_MAX /\ now \in Int
      /\ mark \in [AllSlots -> Int] /\ head \in Seq(AllSlots) /\ IsInjective(head)
      /\ Range(head) \subseteq AllSlots
  BY <1>1, FirstDue, Basics, Zenon DEF QInv
<1>3. /\ period[OVERFLOW] = TIMER_MAX /\ flags \in FlagSets /\ gen[OVERFLOW] = 1
      /\ flags[OVERFLOW] = {"PERIODIC", "AUTORESUME"}
  BY <1>2, Zenon DEF QInv, Fields, Typed
<1>4. NextTime(mark[OVERFLOW], TIMER_MAX) = o + TIMER_MAX /\ o + TIMER_MAX > now
  <2>1. now - o \in 0..(TIMER_MAX - 1) /\ TIMER_MAX \in Nat \ {0}
    BY <1>2
  <2> QED BY <1>2, <2>1, NextTimes, Zenon
<1>5. /\ m \in [AllSlots -> Int] /\ m[OVERFLOW] = o + TIMER_MAX
      /\ \A u \in AllSlots : u # OVERFLOW => m[u] = mark[u]
  BY <1>2
<1>6. [mark EXCEPT ![OVERFLOW] = NextTime(@, period[OVERFLOW])] = m
  BY <1>3, <1>4, Zenon
<1> HIDE DEF m, g
<1>7. /\ g \in Seq(AllSlots) /\ IsInjective(g) /\ Range(g) = Range(head) \ {OVERFLOW}
  BY <1>2, DequeueKeeps, Zenon
<1>8. \A u \in Range(head) : u # OVERFLOW => u \in Flagged /\ mark[u] > o
  <2>1. \A u \in Range(head) : u # OVERFLOW => u \in Far /\ mark[u] > o
    BY <1>2, OverflowFirst, Zenon
  <2> QED BY <1>2, <2>1, Zenon DEF QInv, Marked
<1>9. \A u \in Range(g) : u \in Flagged /\ m[u] >= m[OVERFLOW] - TIMER_MAX
  <2> TAKE u \in Range(g)
  <2> HIDE DEF o
  <2> QED BY <1>2, <1>5, <1>7, <1>8
<1>10. /\ ListOk(head', Far', mark') /\ Marked' /\ Range(head') = Range(g) \cup {OVERFLOW}
       /\ mark' = m /\ flags' = flags /\ (UNCHANGED stamp \/ stamp' = m[OVERFLOW])
  <2>1. OVERFLOW \notin Flagged /\ m \in [AllSlots -> Int] /\ Range(g) \subseteq Flagged
        /\ OVERFLOW \notin Range(g) /\ \A u \in Range(g) : m[u] >= m[OVERFLOW] - TIMER_MAX
    BY <1>3, <1>5, <1>7, <1>9 DEF Flagged
  <2>2. insert_timer("main", g, flags, m, OVERFLOW) /\ "main" \in Threads
    BY <1>1, <1>6, Zenon DEF g, Threads
  <2>3. /\ ListOk(head', Flagged, m) /\ Range(head') = Range(g) \cup {OVERFLOW}
        /\ mark' = m /\ flags' = flags /\ (UNCHANGED stamp \/ stamp' = m[OVERFLOW])
    BY <1>7, <2>1, <2>2, OverflowInserted, ZenonT(30)
  <2>4. OverflowPending'
    BY <1>1, Zenon DEF OverflowPending, Id
  <2>5. Far' = Flagged' /\ Flagged' = Flagged
    BY <2>3, <2>4, Zenon DEF Far, Flagged
  <2> QED BY <2>3, <2>5, Zenon DEF Marked
<1>11. Range(head') = Range(head) /\ UNCHANGED <<now, chain>>
  BY <1>1, <1>2, <1>7, <1>10, Zenon DEF locals
<1>12. QInv'
  <2>1. Active' = Active /\ Active \subseteq AllSlots
    BY <1>2, <1>11, Basics, Zenon DEF Active
  <2>2. Window'
    <3>1. \A u \in Active : u \in Range(head)
      BY <1>1 DEF Active, Range, TInv, Handling
    <3>2. mark'[OVERFLOW] = o + TIMER_MAX
      BY <1>5, <1>10, Zenon
    <3>3. ASSUME NEW u \in Active
          PROVE  mark'[u] >= mark'[OVERFLOW] - TIMER_MAX /\ now - mark'[u] <= MaxLate
      <4>1. CASE u = OVERFLOW
        BY <1>2, <3>2, <4>1
      <4>2. CASE u # OVERFLOW
        <5>1. mark'[u] = mark[u] /\ mark[u] \in Int /\ mark[u] > o
          BY <1>5, <1>8, <1>10, <2>1, <3>1, <4>2, Zenon
        <5>2. o \in Int /\ now \in Int /\ now - o <= MaxLate /\ {TIMER_MAX, MaxLate} \subseteq Nat
          BY <1>2, Zenon
        <5> HIDE DEF o
        <5> QED BY <3>2, <5>1, <5>2
      <4> QED BY <4>1, <4>2, Zenon
    <3>4. mark'[OVERFLOW] <= now + TIMER_MAX
      <4>1. o \in Int /\ now \in Int /\ o <= now /\ TIMER_MAX \in Nat
        BY <1>2, Zenon
      <4> HIDE DEF o
      <4> QED BY <3>2, <4>1
    <3> QED BY <1>11, <2>1, <3>3, <3>4, Zenon DEF Window
  <2> QED BY <1>1, <1>2, <1>10, <1>11, <2>1, <2>2, Zenon DEF QInv, Typed, OneList, ListOk,
     Fields
<1>13. stamp' \in Int /\ now - stamp' <= TIMER_MAX
  <2>1. CASE UNCHANGED stamp
    BY <2>1 DEF TInv, Stamps
  <2>2. CASE stamp' = m[OVERFLOW]
    BY <1>2, <1>5, <2>2
  <2> QED BY <1>10, <2>1, <2>2, Zenon
<1>14. TInv'
  BY <1>1, <1>2, <1>12, <1>13, Control, CalledControl, Zenon DEF insert_timer, Tell
<1> QED BY <1>1, <1>3, <1>5, <1>10, <1>11, <1>14, Zenon DEF Id

LEMMA RvecStep ==
  ASSUME TInv, rvec_timer
  PROVE  TInv'
BY FirstDue, RvecIdle, RvecOverflow, RvecAgain, RvecOff, Zenon DEF rvec_timer, AllSlots

-----------------------------------------------------------------------------
(* The theorems.                                                           *)

LEMMA InitTInv ==
  Init => TInv
<1> SUFFICES ASSUME Init PROVE TInv
  OBVIOUS
<1> DEFINE h == <<OVERFLOW>>
<1>1. /\ TIMER_MAX \in Nat /\ MaxLate \in Nat /\ MaxNow \in Nat /\ OVERFLOW \notin Slots
      /\ OVERFLOW \in AllSlots /\ Slots \subseteq AllSlots /\ 1 \in 0..MaxIds /\ 0 \in 0..MaxIds
      /\ TIMER_MAX # 0
  BY TimerAssumption DEF AllSlots
<1>2. /\ h \in Seq(AllSlots) /\ Len(h) = 1 /\ h[1] = OVERFLOW /\ DOMAIN h = {1}
      /\ IsInjective(h) /\ Range(h) = {OVERFLOW}
  BY <1>1 DEF IsInjective, Range
<1>3. IsInjective(<<>>) /\ Range(<<>>) = {} /\ <<>> \in Seq(Slots)
  BY DEF IsInjective, Range
<1>4. /\ now = 0 /\ head = h /\ inactive = <<>> /\ free = Slots
      /\ mark \in [AllSlots -> Int] /\ mark[OVERFLOW] = TIMER_MAX
      /\ period \in [AllSlots -> Nat] /\ period[OVERFLOW] = TIMER_MAX
      /\ flags \in FlagSets /\ flags[OVERFLOW] = {"PERIODIC", "AUTORESUME"}
      /\ \A t \in Slots : flags[t] = {}
  BY <1>1 DEF Init, FlagSets
<1>5. /\ gen[OVERFLOW] = 1 /\ gen \in [AllSlots -> 0..MaxIds]
  BY <1>1 DEF Init
<1>6. /\ stamp = TIMER_MAX /\ intStamp = TIMER_MAX
      /\ recalc = FALSE /\ interrupt = FALSE /\ recalcDec = TRUE
      /\ mpc = "user" /\ call = NoCall /\ chain = <<>> /\ tp = 0
  BY DEF Init
<1> HIDE DEF h
<1>7. Active = {OVERFLOW}
  BY <1>2, <1>3, <1>4, <1>6, Zenon DEF Active
<1>8. Typed
  BY <1>1, <1>4, <1>5, <1>6 DEF Typed
<1>9. OneList
  BY <1>1, <1>2, <1>3, <1>4, <1>6, <1>7, Zenon DEF OneList, AllSlots
<1>10. OVERFLOW \notin Far /\ InOrder(head, BeforeRel(Far, mark)) /\ InOrder(head, NearRel(Far))
  <2>1. \A i, j \in 1..Len(h) : ~(i < j)
    BY <1>2
  <2>2. ~OverflowPending /\ OVERFLOW \notin Late
    BY <1>1, <1>4, <1>6 DEF OverflowPending, Late
  <2> QED BY <1>4, <2>1, <2>2, Zenon DEF Far, InOrder
<1>11. ListOk(head, Far, mark) /\ Marked
  BY <1>1, <1>2, <1>4, <1>10 DEF ListOk, Marked
<1>12. Window
  BY <1>1, <1>4, <1>7 DEF Window
<1>13. Fields
  BY <1>1, <1>3, <1>4, <1>5, <1>6, <1>7, Zenon DEF AllSlots, Fields
<1>14. FarBehind
  BY <1>2, <1>4, <1>10, Zenon DEF FarBehind, FarOk
<1>15. Handling
  BY <1>6 DEF Handling
<1>16. Stamps /\ Told
  <2>1. {recalc, interrupt, recalcDec} \subseteq BOOLEAN
    BY <1>6, Zenon
  <2> QED BY <1>1, <1>2, <1>4, <1>6, <2>1 DEF Stamps, Told
<1> QED BY <1>8, <1>9, <1>11, <1>12, <1>13, <1>14, <1>15, <1>16, Zenon DEF TInv, QInv

LEMMA InterfaceStep ==
  ASSUME TInv, NEW who \in Threads, Interface(who)
  PROVE  TInv'
BY Zenon, AbsTimerStep, NewPtimerStep, CancelTimerStep, SetPtimerStep, ResumePtimerStep,
   PausePtimerStep, FreePtimerStep, Zenon DEF Interface

LEMMA NextTInv ==
  ASSUME TInv, [Next]_vars
  PROVE  TInv'
<1>1. CASE Main
  BY Zenon, <1>1, RvecStep, HandlerReturnStep, OverflowHandlerStep, CollectStep, SortStep,
     MainloopInterruptStep, RecalcStep, MacEntryStep, DecrementerStep DEF Main
<1>2. CASE GuestExit \/ Tick \/ UNCHANGED vars
  BY <1>2, GuestExitStep, TickStep, StutterStep, Zenon
<1>3. CASE \E who \in Threads : Interface(who)
  BY <1>3, InterfaceStep, Zenon
<1>4. CASE \E add \in Freezes : retune_timers(add)
  BY <1>4, RetuneStep
<1> QED BY <1>1, <1>2, <1>3, <1>4, Zenon DEF Next

\* The queue, what is flagged, where rvec_timer is and what the kernel has been
\* told fit together in every state, also when flagged timers are paused, set
\* again or resumed.
THEOREM Invariance ==
  Spec => []TInv
<1>1. TInv /\ [Next]_vars => TInv'
  BY NextTInv, Zenon
<1> QED BY <1>1, InitTInv, PTL DEF Spec

LEMMA TInvQueue ==
  ASSUME TInv
  PROVE  QueueIntact
<1>1. QInv /\ Handling /\ Stamps /\ FarBehind /\ Typed /\ ListOk(head, Far, mark)
  BY DEF TInv, QInv
<1>2. TypeOK
  <2>1. /\ now \in 0..MaxNow /\ stamp \in Int /\ intStamp \in Int
        /\ head \in Seq(AllSlots) /\ inactive \in Seq(Slots) /\ free \in SUBSET Slots
        /\ mark \in [AllSlots -> Int] /\ period \in [AllSlots -> Nat]
        /\ gen \in [AllSlots -> 0..MaxIds] /\ chain \in Seq(Slots)
        /\ {recalc, interrupt, recalcDec} \subseteq BOOLEAN
        /\ flags \in [AllSlots -> SUBSET {"PERIODIC", "AUTORESUME", "OVERFLOW"}]
    BY <1>1, Zenon DEF Typed, ListOk, Stamps, FlagSets
  <2> QED BY <1>1, <2>1 DEF TypeOK, Handling
<1>3. QueueOrdered
  <2> SUFFICES ASSUME NEW i \in DOMAIN head, NEW j \in DOMAIN head
               PROVE  LET flagged(k) == "OVERFLOW" \in flags[head[k]]
                      IN /\ (i < j /\ ~flagged(i) /\ ~flagged(j)) => mark[head[i]] <= mark[head[j]]
                         /\ (head[j] = OVERFLOW /\ ~OverflowPending) =>
                              /\ i > j <=> mark[head[i]] > mark[OVERFLOW]
                              /\ i > j => flagged(i)
                              /\ \A k \in i..j : mark[head[i]] <= mark[head[k]]
    BY Zenon DEF QueueOrdered
  <2>1. /\ i \in 1..Len(head) /\ j \in 1..Len(head) /\ mark \in [AllSlots -> Int]
        /\ \A k \in 1..Len(head) : head[k] \in AllSlots /\ head[k] \in Range(head)
        /\ OVERFLOW \in AllSlots /\ OVERFLOW \notin Far /\ OVERFLOW \in Range(head)
        /\ head \in Seq(AllSlots) /\ IsInjective(head)
    BY <1>1, InRange DEF ListOk, AllSlots
  <2>2. \A k \in 1..Len(head) : head[k] \in Far => "OVERFLOW" \in flags[head[k]]
    BY <1>1, <2>1, Zenon DEF QInv, Marked, Flagged
  <2>3. ASSUME NEW k \in 1..Len(head), NEW l \in 1..Len(head), k < l,
               head[k] \notin Far, head[l] \notin Far
        PROVE  mark[head[k]] <= mark[head[l]]
    <3>1. Before(Far, mark, head[k], head[l])
      BY <1>1, <2>1, <2>3, BeforeIs, Zenon DEF ListOk, InOrder
    <3> QED BY <2>3, <3>1, Zenon DEF Before
  <2>4. ASSUME i < j, "OVERFLOW" \notin flags[head[i]], "OVERFLOW" \notin flags[head[j]]
        PROVE  mark[head[i]] <= mark[head[j]]
    BY <2>1, <2>2, <2>3, <2>4, Zenon
  <2>5. ASSUME head[j] = OVERFLOW, ~OverflowPending
        PROVE  /\ i > j <=> mark[head[i]] > mark[OVERFLOW]
               /\ i > j => "OVERFLOW" \in flags[head[i]]
               /\ \A k \in i..j : mark[head[i]] <= mark[head[k]]
    <3>1. FarOk(head, Far, mark)
      BY <1>1, <2>5 DEF FarBehind
    <3>2. i > j => head[i] \in Far
      BY <1>1, <2>1, <2>5, BeforeIs, Zenon DEF ListOk, InOrder, Before
    <3>3. \A k \in 1..Len(head) : k < j => head[k] \notin Far
      BY <2>1, <2>5, <3>1, BeforeIs, Zenon DEF FarOk, InOrder
    <3>4. head[i] \notin Far => mark[head[i]] <= mark[OVERFLOW]
      BY <1>1, <2>1, NearIs
    <3>5. (i < j \/ i = j \/ i > j) /\ (i > j => ~(i < j) /\ i # j)
      BY <2>1
    <3>6. ~(mark[head[i]] <= mark[OVERFLOW] /\ mark[head[i]] > mark[OVERFLOW])
      BY <2>1
    <3>7. i > j <=> mark[head[i]] > mark[OVERFLOW]
      BY <2>1, <2>5, <3>1, <3>2, <3>3, <3>4, <3>5, <3>6, Zenon DEF FarOk
    <3>8. i > j => "OVERFLOW" \in flags[head[i]]
      BY <2>1, <2>2, <3>2, Zenon
    <3>9. ASSUME NEW k \in i..j PROVE mark[head[i]] <= mark[head[k]]
      <4>1. k \in 1..Len(head) /\ i <= k /\ k <= j
        BY <2>1
      <4>2. CASE k = i
        BY <2>1, <4>2
      <4>3. CASE i < k
        <5>1. i < j /\ (k < j \/ k = j)
          BY <2>1, <4>1, <4>3
        <5>2. head[i] \notin Far /\ head[k] \notin Far
          BY <2>1, <2>5, <3>3, <4>1, <5>1, Zenon
        <5> QED BY <2>1, <2>3, <4>1, <4>3, <5>2, Zenon
      <4> QED BY <2>1, <4>1, <4>2, <4>3
    <3> QED BY <3>7, <3>8, <3>9, Zenon
  <2> QED BY <2>4, <2>5, Zenon
<1> QED BY <1>1, <1>2, <1>3, Zenon DEF QueueIntact, QInv

\* Every slot is on one list, once, the overflow timer is on the active one, and
\* rvec_timer finds the active timers in the order of their times although
\* insert_timer compares low words only.
THEOREM QueueStaysIntact ==
  Spec => []QueueIntact
<1>1. TInv => QueueIntact
  BY TInvQueue
<1> QED BY <1>1, Invariance, PTL

LEMMA TInvStamp ==
  ASSUME TInv
  PROVE  StampCovers
<1>1. CASE mpc \in {"rvec", "handler", "collect", "sort"}
  BY <1>1 DEF StampCovers
<1>2. CASE mpc \in {"user", "guest", "recalc"}
  <2>1. CASE recalcDec = TRUE \/ (recalc = TRUE /\ (interrupt = TRUE \/ mpc = "recalc"))
    BY <2>1 DEF StampCovers
  <2>2. CASE intStamp <= mark[head[1]]
    <3>1. /\ mark[head[1]] \in Int /\ mark[head[1]] <= mark[OVERFLOW]
          /\ mark[OVERFLOW] \in Int /\ mark[OVERFLOW] - TIMER_MAX <= now
      BY <1>2, Control, FirstIsNext, Basics, Zenon DEF QInv
    <3>2. intStamp - now \in (-HALF)..TIMER_MAX /\ intStamp \in Int /\ now \in Int
      <4>1. /\ intStamp \in Int /\ now \in Int /\ TIMER_MAX \in Nat /\ now - intStamp <= TIMER_MAX
        BY Control, Zenon DEF TInv, Stamps
      <4> QED BY <2>2, <3>1, <4>1 DEF HALF
    <3> QED BY <2>2, <3>2, DiffExact, Zenon DEF StampCovers
  <2> QED BY <1>2, <2>1, <2>2, Zenon DEF TInv, Told
<1> QED BY <1>1, <1>2, Zenon DEF TInv, Handling

\* The kernel is never set to a later time than the first timer's without being
\* about to reload it, whichever thread inserts a timer, wherever the main thread
\* is between the mainloop and the guest.
THEOREM StampStaysCovered ==
  Spec => []StampCovers
<1>1. TInv => StampCovers
  BY TInvStamp
<1> QED BY <1>1, Invariance, PTL

-----------------------------------------------------------------------------
(* The table of set timers.                                                *)

\* what a client sees of the timers S: the time of each by its id
TimesOf(S, g, m) == [i \in {<<t, g[t]>> : t \in S} |-> m[i[1]]]

IsTimes(A, S, g, m) ==
  /\ DOMAIN A = {<<t, g[t]>> : t \in S} /\ A = [i \in DOMAIN A |-> A[i]]
  /\ \A t \in S : A[<<t, g[t]>>] = m[t]

LEMMA TimesAt ==
  ASSUME NEW S, NEW g, NEW m
  PROVE  IsTimes(TimesOf(S, g, m), S, g, m)
BY DEF TimesOf, IsTimes

\* two tables are equal when they have the same timers, ids and times
LEMMA TimesSame ==
  ASSUME NEW S, NEW g, NEW m, NEW k, NEW n, \A u \in S : k[u] = g[u] /\ n[u] = m[u]
  PROVE  TimesOf(S, k, n) = TimesOf(S, g, m)
<1> DEFINE A == TimesOf(S, g, m)
           B == TimesOf(S, k, n)
<1>1. IsTimes(A, S, g, m) /\ IsTimes(B, S, k, n)
  BY TimesAt
<1> HIDE DEF A, B
<1> QED BY <1>1 DEF A, B, IsTimes

\* the ids of the timers S and the times of all but t stay
SameBut(S, g, m, k, n, t) ==
  \A u \in S : k[u] = g[u] /\ (u # t => n[u] = m[u])

With(A, i, x) == [j \in DOMAIN A \cup {i} |-> IF j = i THEN x ELSE A[j]]
Without(A, i) == [j \in DOMAIN A \ {i} |-> A[j]]

LEMMA TimesMore ==
  ASSUME NEW S, NEW g, NEW m, NEW k, NEW n, NEW t, SameBut(S, g, m, k, n, t)
  PROVE  TimesOf(S \cup {t}, k, n) = With(TimesOf(S, g, m), <<t, k[t]>>, n[t])
<1> DEFINE T == S \cup {t}
           A == TimesOf(S, g, m)
           B == TimesOf(T, k, n)
           i == <<t, k[t]>>
           C == [j \in DOMAIN A \cup {i} |-> IF j = i THEN n[t] ELSE A[j]]
<1> USE DEF SameBut
<1>1. IsTimes(A, S, g, m) /\ IsTimes(B, T, k, n)
  BY TimesAt
<1> HIDE DEF A, B
<1>2. ASSUME NEW j \in DOMAIN B PROVE B[j] = IF j = i THEN n[t] ELSE A[j]
  BY <1>1 DEF IsTimes
<1>3. B = C
  BY <1>1 DEF IsTimes
<1> QED BY <1>3 DEF A, B, With

LEMMA TimesLess ==
  ASSUME NEW S, NEW g, NEW m, NEW k, NEW n, NEW t \in S,
         SameBut(S, g, m, k, n, t)
  PROVE  TimesOf(S \ {t}, k, n) = Without(TimesOf(S, g, m), <<t, g[t]>>)
<1> DEFINE T == S \ {t}
           A == TimesOf(S, g, m)
           B == TimesOf(T, k, n)
           i == <<t, g[t]>>
<1> USE DEF SameBut
<1>1. IsTimes(A, S, g, m) /\ IsTimes(B, T, k, n)
  BY TimesAt
<1> HIDE DEF A, B
<1>2. ASSUME NEW j \in DOMAIN B PROVE B[j] = A[j]
  BY <1>1 DEF IsTimes
<1>3. B = [j \in DOMAIN A \ {i} |-> A[j]]
  BY <1>1 DEF IsTimes
<1> QED BY <1>3 DEF A, B, Without

Moved(S, m, n, a) == \A u \in S : n[u] = m[u] + a
Later(A, a) == [j \in DOMAIN A |-> A[j] + a]

LEMMA TimesShift ==
  ASSUME NEW S, NEW g, NEW m, NEW n, NEW a, Moved(S, m, n, a)
  PROVE  TimesOf(S, g, n) = Later(TimesOf(S, g, m), a)
<1> DEFINE A == TimesOf(S, g, m)
           B == TimesOf(S, g, n)
<1>1. IsTimes(A, S, g, m) /\ IsTimes(B, S, g, n)
  BY TimesAt
<1> HIDE DEF A, B
<1>2. /\ \A u \in S : A[<<u, g[u]>>] = m[u] /\ B[<<u, g[u]>>] = n[u]
      /\ DOMAIN A = {<<u, g[u]>> : u \in S} /\ DOMAIN B = DOMAIN A
      /\ B = [j \in DOMAIN B |-> B[j]]
  BY <1>1, Zenon DEF IsTimes
<1>3. ASSUME NEW j \in DOMAIN A PROVE B[j] = A[j] + a
  BY <1>2 DEF Moved
<1> QED BY <1>2, <1>3, Zenon DEF A, B, Later

LEMMA ArmedIs ==
  /\ Armed = TimesOf(Active \ {OVERFLOW}, gen, mark)
  /\ Armed' = TimesOf(Active' \ {OVERFLOW}, gen', mark')
BY Zenon DEF Armed, TimesOf, Id

\* the table after a timer was set, and after one was stopped
LEMMA ArmedMore ==
  ASSUME NEW S, NEW t, SameBut(S, gen, mark, gen', mark', t), Armed = TimesOf(S, gen, mark),
         Armed' = TimesOf(S \cup {t}, gen', mark')
  PROVE  Armed' = With(Armed, <<t, gen'[t]>>, mark'[t])
BY TimesMore

LEMMA ArmedLess ==
  ASSUME NEW S, NEW t \in S, SameBut(S, gen, mark, gen', mark', t), Armed = TimesOf(S, gen, mark),
         Armed' = TimesOf(S \ {t}, gen', mark')
  PROVE  Armed' = Without(Armed, <<t, gen[t]>>)
BY TimesLess

\* The set timers are those that are neither paused nor free.
LEMMA ActiveIs ==
  ASSUME QInv
  PROVE  Active = AllSlots \ (Range(inactive) \cup free) /\ OVERFLOW \in Active
BY DEF QInv, OneList, Active

LEMMA ActiveNext ==
  ASSUME QInv'
  PROVE  Active' = AllSlots \ (Range(inactive') \cup free') /\ OVERFLOW \in Active'
BY DEF QInv, OneList, Active

\* the ids that are gone, for given counters and free slots
GoneOf(g, f) == {i \in Ids : i[2] <= g[i[1]]} \ {<<t, g[t]>> : t \in Slots \ f}

LEMMA GoneAre ==
  Gone = GoneOf(gen, free) /\ Gone' = GoneOf(gen', free')
BY Zenon DEF Gone, GoneOf, Issued, Id

\* An id is gone when a later one has been handed out, or its slot is free.
EndedId(g, f, i) == i[2] < g[i[1]] \/ (i[2] = g[i[1]] /\ i[1] \in f)

LEMMA GoneIs ==
  ASSUME NEW g \in [AllSlots -> 0..MaxIds], NEW f
  PROVE  GoneOf(g, f) = {i \in Ids : EndedId(g, f, i)}
BY DEF AllSlots, Ids, GoneOf, EndedId

LEMMA NoneGone ==
  ASSUME gen \in [AllSlots -> 0..MaxIds], \A t \in Slots : gen[t] = 0
  PROVE  Gone = {}
BY GoneAre, GoneIs DEF EndedId, Ids

\* Ids of slots that are not free are in use; freeing a slot ends its id.
LEMMA GoneSteps ==
  ASSUME QInv, NEW t \in Slots
  PROVE  /\ UNCHANGED <<gen, free>> => Gone' = Gone
         /\ t \notin free => Id(t) \in Ids /\ Id(t) \notin Gone
         /\ t \notin free /\ UNCHANGED gen /\ free' = free \cup {t} => Gone' = Gone \cup {Id(t)}
<1>1. /\ gen \in [AllSlots -> 0..MaxIds] /\ t \in AllSlots /\ MaxIds \in Nat
      /\ (t \notin free => gen[t] # 0) /\ Slots \subseteq AllSlots
  BY Basics, TimerAssumption, Zenon DEF QInv, Typed, TimerAssumption, Fields
<1>2. t \notin free => Id(t) \notin Gone
  BY <1>1, GoneAre, GoneIs DEF EndedId, Id
<1>3. ASSUME t \notin free, UNCHANGED gen, free' = free \cup {t}
      PROVE  Gone' = Gone \cup {Id(t)}
  <2>1. /\ Gone = {i \in Ids : EndedId(gen, free, i)}
        /\ Gone' = {i \in Ids : EndedId(gen, free \cup {t}, i)}
    BY <1>1, <1>3, GoneAre, GoneIs, Zenon
  <2> QED BY <1>1, <1>3, <2>1 DEF Ids, Id, EndedId
<1>4. UNCHANGED <<gen, free>> => Gone' = Gone
  BY GoneAre, Zenon
<1>5. t \notin free => Id(t) \in Ids
  <2>1. t \notin free => gen[t] \in 1..MaxIds
    BY <1>1
  <2> QED BY <2>1, Zenon DEF Id, Ids
<1> QED BY <1>2, <1>3, <1>4, <1>5, Zenon

\* new_timer gives a slot an id that was never used.
LEMMA GoneNew ==
  ASSUME QInv, NEW t, new_timer(t)
  PROVE  Gone' = Gone /\ <<t, gen'[t]>> \in Ids /\ <<t, gen'[t]>> \notin Gone
<1>1. /\ t \in free /\ t \in Slots /\ free' = free \ {t}
      /\ gen' \in [AllSlots -> 0..MaxIds] /\ gen'[t] = gen[t] + 1
      /\ \A u \in AllSlots : u # t => gen'[u] = gen[u]
  BY NewTimer
<1>2. /\ gen \in [AllSlots -> 0..MaxIds] /\ t \in AllSlots /\ MaxIds \in Nat
      /\ Slots \subseteq AllSlots
  BY <1>1, Basics, TimerAssumption, Zenon DEF QInv, Typed, TimerAssumption
<1>3. /\ Gone = {i \in Ids : EndedId(gen, free, i)}
      /\ Gone' = {i \in Ids : EndedId(gen', free', i)}
  BY <1>1, <1>2, GoneAre, GoneIs, Zenon
<1> QED BY <1>1, <1>2, <1>3 DEF Ids, EndedId

\* A timer is set: Arm of the interface.
LEMMA Arms ==
  ASSUME NEW t \in Slots, UNCHANGED <<now, call>>, Active' = Active \cup {t},
         \A u \in Active : u # t => gen'[u] = gen[u] /\ mark'[u] = mark[u],
         t \in Active => gen'[t] = gen[t], mark'[t] >= now,
         Gone' = Gone, <<t, gen'[t]>> \in Ids, <<t, gen'[t]>> \notin Gone
  PROVE  Interface_!Next
<1> DEFINE i == <<t, gen'[t]>>
           S == Active \ {OVERFLOW}
<1>1. SameBut(S, gen, mark, gen', mark', t)
  BY DEF SameBut
<1>2. Armed = TimesOf(S, gen, mark) /\ Armed' = TimesOf(S \cup {t}, gen', mark')
  BY TimerAssumption, ArmedIs, Zenon
<1> HIDE DEF S
<1>3. Armed' = [j \in DOMAIN Armed \cup {i} |-> IF j = i THEN mark'[t] ELSE Armed[j]]
  <2>1. Armed' = With(Armed, i, mark'[t])
    BY <1>1, <1>2, ArmedMore, Zenon
  <2> QED BY <2>1, Zenon DEF With
<1> HIDE DEF i
<1> QED BY <1>3, Zenon DEF Interface_!Next, i, Interface_!Arm, Calling

\* A timer is stopped: Disarm of the interface.
LEMMA Disarms ==
  ASSUME NEW t \in Active, t \in Slots, UNCHANGED <<now, call, gen>>, Active' = Active \ {t},
         \A u \in Active : u # t => mark'[u] = mark[u],
         Gone' = Gone \/ Gone' = Gone \cup {Id(t)}, Id(t) \in Ids
  PROVE  Interface_!Next
<1> DEFINE i == Id(t)
           S == Active \ {OVERFLOW}
<1>1. Active' \ {OVERFLOW} = S \ {t} /\ t \in S
  BY TimerAssumption
<1>2. Armed = TimesOf(S, gen, mark) /\ Armed' = TimesOf(S \ {t}, gen', mark')
  BY ArmedIs
<1> HIDE DEF S
<1>3. Armed' = [j \in DOMAIN Armed \ {<<t, gen[t]>>} |-> Armed[j]]
  <2>1. Armed' = Without(Armed, <<t, gen[t]>>)
    <3>1. SameBut(S, gen, mark, gen', mark', t)
      BY Zenon DEF SameBut, S
    <3> QED BY <1>1, <1>2, <3>1, ArmedLess, Zenon
  <2> QED BY <2>1, Zenon DEF Without
<1>4. i \in DOMAIN Armed
  <2>1. IsTimes(Armed, S, gen, mark)
    BY <1>2, TimesAt, Zenon
  <2> QED BY <1>1, <2>1, Zenon DEF IsTimes, Id
<1> HIDE DEF i
<1> QED BY <1>3, <1>4, Zenon DEF Interface_!Next, i, Interface_!Disarm, Interface_!MayGo,
   Calling, Id

\* The client sees nothing of a step.
LEMMA Stutters ==
  ASSUME UNCHANGED <<now, Gone, Calling>>, Active' = Active,
         \A u \in Active : u # OVERFLOW => gen'[u] = gen[u] /\ mark'[u] = mark[u]
  PROVE  UNCHANGED Interface_!vars
<1> QED BY ArmedIs, TimesSame DEF Interface_!vars

LEMMA NamedIds ==
  ASSUME QInv, NEW t \in Slots
  PROVE  /\ t \in AllSlots /\ t # OVERFLOW
         /\ \A u \in Active : u \in AllSlots
         /\ t \in Active <=> t \notin Range(inactive) /\ t \notin free
BY Basics, ActiveIs, Zenon

LEMMA AbsTimerArms ==
  ASSUME TInv, TInv', NEW who \in Threads, NEW d \in Delays, abs_timer(who, d)
  PROVE  Interface_!Next
<1>1. PICK t \in Slots :
        /\ new_timer(t)
        /\ insert_timer(who, head, flags, [mark EXCEPT ![t] = now + d], t)
  BY Zenon DEF abs_timer
<1>2. UNCHANGED <<now, call>> /\ UNCHANGED inactive
  BY DEF abs_timer, Local
<1>3. QInv /\ QInv'
  BY DEF TInv
<1>4. t \in free /\ free' = free \ {t} /\ \A u \in AllSlots : u # t => gen'[u] = gen[u]
  BY <1>1, <1>3, NewTimer, Zenon
<1>5. /\ t \in AllSlots /\ t # OVERFLOW /\ (\A u \in Active : u \in AllSlots)
      /\ t \notin Active /\ t \notin Range(inactive)
  BY <1>3, <1>4, NamedIds, Parts, Zenon
<1>6. Active' = Active \cup {t}
  BY <1>2, <1>3, <1>4, <1>5, ActiveIs, ActiveNext, Zenon
<1>7. mark'[t] >= now /\ \A u \in Active : u # t => gen'[u] = gen[u] /\ mark'[u] = mark[u]
  <2>1. mark' = [mark EXCEPT ![t] = now + d]
    BY <1>1, Zenon DEF insert_timer
  <2>2. now \in Int /\ mark \in [AllSlots -> Int] /\ t \in AllSlots
    BY <1>3, <1>5, Basics, Zenon
  <2>3. now + d >= now
    <3>1. d \in Nat
      BY TimerAssumption, Zenon
    <3> QED BY <2>2, <3>1
  <2> QED BY <1>4, <1>5, <2>1, <2>2, <2>3, Zenon
<1>8. Gone' = Gone /\ <<t, gen'[t]>> \in Ids /\ <<t, gen'[t]>> \notin Gone
  BY <1>1, <1>3, GoneNew, Zenon
<1> QED BY <1>2, <1>5, <1>6, <1>7, <1>8, Arms, Zenon

\* set_ptimer and resume_ptimer
LEMMA PtimerArms ==
  ASSUME TInv, TInv', NEW t \in Slots, t \notin free, inactive' = dequeue_timer(inactive, t),
         UNCHANGED <<now, call, free, gen>>, NEW d \in Int, d >= now,
         mark' = [mark EXCEPT ![t] = d]
  PROVE  Interface_!Next
<1>1. QInv /\ QInv'
  BY DEF TInv
<1>2. t \in AllSlots /\ t # OVERFLOW /\ \A u \in Active : u \in AllSlots
  BY <1>1, NamedIds, Zenon
<1>3. Active' = Active \cup {t}
  <2>1. Range(inactive') = Range(inactive) \ {t}
    BY <1>1, Parts, DequeueKeeps, Zenon
  <2>2. Active = AllSlots \ (Range(inactive) \cup free)
    BY <1>1, ActiveIs, Zenon
  <2>3. Active' = AllSlots \ (Range(inactive') \cup free)
    BY <1>1, ActiveNext, Zenon
  <2> QED BY <1>2, <2>1, <2>2, <2>3
<1> QED BY <1>1, <1>2, <1>3, Basics, GoneSteps, Arms, Zenon DEF Id

LEMMA SetPtimerArms ==
  ASSUME TInv, TInv', NEW who \in Threads, NEW i \in Issued, NEW p \in Periods,
         set_ptimer(who, i, p)
  PROVE  Interface_!Next
<1> DEFINE t == i[1]
<1>1. /\ OnHead(i) \/ OnInactive(i)
      /\ UNCHANGED <<now, call, free, gen>> /\ inactive' = dequeue_timer(inactive, t)
      /\ insert_timer(who, dequeue_timer(head, t), flags, [mark EXCEPT ![t] = now + p], t)
  BY Zenon DEF set_ptimer, Local
<1>2. t \in Slots /\ t \notin free
  BY <1>1, NamedSlot, Zenon DEF TInv
<1>3. now + p \in Int /\ now + p >= now
  BY Control, TimerAssumption
<1> HIDE DEF t
<1> QED BY <1>1, <1>2, <1>3, PtimerArms, Zenon DEF insert_timer

LEMMA ResumePtimerArms ==
  ASSUME TInv, TInv', NEW who \in Threads, NEW i \in Issued, resume_ptimer(who, i)
  PROVE  Interface_!Next
<1> DEFINE t == i[1]
           d == NextTime(mark[t], period[t])
<1>1. /\ OnInactive(i) /\ period[t] # 0
      /\ UNCHANGED <<now, call, free, gen>> /\ inactive' = dequeue_timer(inactive, t)
      /\ insert_timer(who, dequeue_timer(head, t), flags,
                      [mark EXCEPT ![t] = NextTime(@, period[t])], t)
  BY Zenon DEF resume_ptimer, Local
<1>2. t \in Slots /\ t \notin free /\ t \in AllSlots
  BY <1>1, NamedSlot, Zenon DEF TInv
<1>3. /\ mark \in [AllSlots -> Int] /\ mark[t] \in Int /\ period[t] \in Nat \ {0} /\ now \in Int
  BY <1>1, <1>2, Basics, Zenon DEF TInv, QInv, Typed
<1>4. d \in Int /\ d > now
  BY <1>3, NextTimes, Zenon
<1>5. mark' = [mark EXCEPT ![t] = d]
  BY <1>1, Zenon DEF insert_timer
<1> HIDE DEF t, d
<1>6. d >= now
  BY <1>3, <1>4
<1> QED BY <1>1, <1>2, <1>4, <1>5, <1>6, PtimerArms, Zenon

\* A slot is freed: Disarm if its timer was set, else Release.
LEMMA SlotFreed ==
  ASSUME TInv, TInv', NEW t \in Slots, t \notin free, free' = free \cup {t},
         Range(inactive') = Range(inactive) \ {t}, UNCHANGED <<now, call, gen>>,
         \A u \in AllSlots : u # t => mark'[u] = mark[u]
  PROVE  Interface_!Next
<1>1. QInv /\ QInv'
  BY DEF TInv
<1>2. t \in AllSlots /\ t # OVERFLOW /\ \A u \in Active : u \in AllSlots
  BY <1>1, NamedIds, Zenon
<1>3. Active' = Active \ {t}
  BY <1>1, ActiveIs, ActiveNext, Zenon
<1>4. Gone' = Gone \cup {Id(t)} /\ Id(t) \in Ids
  BY <1>1, GoneSteps, Zenon
<1>5. CASE t \in Active
  BY <1>2, <1>3, <1>4, <1>5, Disarms, Zenon
<1>6. CASE t \notin Active
  <2> DEFINE S == Active \ {OVERFLOW}
             i == Id(t)
  <2>1. \A u \in S : gen'[u] = gen[u] /\ mark'[u] = mark[u]
    BY <1>2, <1>6, Zenon
  <2>2. Armed = TimesOf(S, gen, mark) /\ Armed' = TimesOf(S, gen', mark')
    BY <1>3, <1>6, ArmedIs, Zenon
  <2>3. i \notin {<<u, gen[u]>> : u \in S}
    BY <1>6 DEF Id
  <2> HIDE DEF S
  <2>4. i \notin DOMAIN Armed
    <3>1. IsTimes(Armed, S, gen, mark)
      BY <2>2, TimesAt, Zenon
    <3> QED BY <2>3, <3>1, Zenon DEF IsTimes
  <2>5. Armed' = Armed
    BY <2>1, <2>2, TimesSame
  <2> QED BY <1>4, <2>4, <2>5, Zenon DEF Interface_!Next, Interface_!Release, Calling
<1> QED BY <1>5, <1>6, Zenon

LEMMA CancelTimerDisarms ==
  ASSUME TInv, TInv', NEW who \in Threads, NEW i \in Issued, cancel_timer(who, i)
  PROVE  Interface_!Next
<1> DEFINE t == i[1]
<1>1. /\ OnHead(i) /\ free' = free \cup {t} /\ AtRest(t) /\ UNCHANGED inactive
      /\ UNCHANGED <<now, call, gen>>
  BY DEF cancel_timer, Local
<1>2. t \in Slots /\ t \notin free /\ t \notin Range(inactive)
  BY <1>1, NamedSlot, Zenon DEF TInv
<1> HIDE DEF t
<1>3. Range(inactive') = Range(inactive) \ {t}
  BY <1>1, <1>2
<1>4. \A u \in AllSlots : u # t => mark'[u] = mark[u]
  BY <1>1, Control, Basics, Zenon DEF AtRest
<1> QED BY <1>1, <1>2, <1>3, <1>4, SlotFreed, Zenon

LEMMA FreePtimerDisarms ==
  ASSUME TInv, TInv', NEW who \in Threads, NEW i \in Issued, free_ptimer(who, i)
  PROVE  Interface_!Next
<1> DEFINE t == i[1]
<1>1. /\ (OnHead(i) \/ OnInactive(i)) /\ free' = free \cup {t} /\ AtRest(t)
      /\ inactive' = dequeue_timer(inactive, t)
      /\ UNCHANGED <<now, call, gen>>
  BY DEF free_ptimer, Local
<1>2. t \in Slots /\ t \notin free
  BY <1>1, NamedSlot, Zenon DEF TInv
<1> HIDE DEF t
<1> QED BY <1>1, <1>2, Basics, Parts, DequeueKeeps, SlotFreed, Zenon DEF AtRest, TInv

LEMMA PausePtimerDisarms ==
  ASSUME TInv, TInv', NEW who \in Threads, NEW i \in Issued, pause_ptimer(who, i)
  PROVE  Interface_!Next
<1> DEFINE t == i[1]
<1>1. /\ OnHead(i) /\ inactive' = <<t>> \o inactive /\ UNCHANGED <<mark, free>>
      /\ UNCHANGED <<now, call, gen>>
  BY DEF pause_ptimer, Local
<1>2. QInv /\ QInv'
  BY DEF TInv
<1>3. t \in Slots /\ t \notin free /\ t \notin Range(inactive)
  BY <1>1, <1>2, NamedSlot, Zenon
<1> HIDE DEF t
<1>4. Active' = Active \ {t}
  <2>1. Range(inactive') = Range(inactive) \cup {t}
    BY <1>1, <1>2, <1>3, Parts, PushInactive, Zenon
  <2> QED BY <1>1, <1>2, <2>1, ActiveIs, ActiveNext, Zenon
<1> QED BY <1>1, <1>2, <1>3, <1>4, NamedIds, GoneSteps, Disarms, Zenon

LEMMA NewPtimerStutters ==
  ASSUME TInv, TInv', NEW who \in Threads, NEW a \in SUBSET {"AUTORESUME"}, new_ptimer(who, a)
  PROVE  UNCHANGED Interface_!vars
<1>1. PICK t \in Slots : new_timer(t) /\ inactive' = <<t>> \o inactive
  BY Zenon DEF new_ptimer
<1>2. UNCHANGED <<now, mark, call>> /\ QInv /\ QInv'
  BY DEF new_ptimer, Local, TInv
<1>3. t \in free /\ free' = free \ {t} /\ \A u \in AllSlots : u # t => gen'[u] = gen[u]
  BY <1>1, <1>2, NewTimer, Zenon
<1>4. t \notin Active /\ t \notin Range(inactive) /\ \A u \in Active : u \in AllSlots
  BY <1>2, <1>3, NamedIds, Parts, Zenon
<1>5. Range(inactive') = Range(inactive) \cup {t}
  BY <1>1, <1>2, <1>4, Parts, PushInactive, Zenon
<1>6. Active' = Active
  BY <1>2, <1>3, <1>5, ActiveIs, ActiveNext, Zenon
<1> QED BY <1>1, <1>2, <1>3, <1>4, <1>6, GoneNew, Stutters, Zenon DEF Calling

-----------------------------------------------------------------------------
(* The steps of the main thread, as the clients see them.                  *)

LEMMA CallingIs ==
  ASSUME TInv
  PROVE  /\ mpc # "handler" => Calling = {}
         /\ call[1] = OVERFLOW => Calling = {}
         /\ mpc = "handler" /\ call[1] # OVERFLOW => Calling = {call}
BY TimerAssumption DEF Ids, TInv, Handling, NoCall, Calling

LEMMA CallingNext ==
  ASSUME TInv'
  PROVE  /\ mpc' # "handler" => Calling' = {}
         /\ call'[1] = OVERFLOW => Calling' = {}
         /\ mpc' = "handler" /\ call'[1] # OVERFLOW => Calling' = {call'}
BY TimerAssumption DEF TInv, Handling, NoCall, Ids, Calling

\* Steps that take no timer, and leave no handler, are not seen.
LEMMA QuietStep ==
  ASSUME TInv, TInv', UNCHANGED <<now, inactive, free, gen>>, UNCHANGED Calling,
         \A u \in AllSlots : u # OVERFLOW => mark'[u] = mark[u]
  PROVE  UNCHANGED Interface_!vars
BY ActiveIs, ActiveNext, GoneAre, Stutters, Zenon DEF TInv

LEMMA KernelStutters ==
  ASSUME TInv, TInv',
         mainloop_interrupt \/ recalc_mol_timer \/ mac_entry \/ Decrementer \/ GuestExit \/ UNCHANGED vars
  PROVE  UNCHANGED Interface_!vars
BY QuietStep, Zenon DEF mainloop_interrupt, recalc_mol_timer, mac_entry, Decrementer, GuestExit, vars,
   queue, Calling

LEMMA OverflowStutters ==
  ASSUME TInv, TInv', overflow_handler \/ overflow_collect \/ overflow_sort
  PROVE  UNCHANGED Interface_!vars
BY CallingIs, CallingNext, QuietStep, Zenon DEF overflow_handler, queue, overflow_collect,
   overflow_sort, insert_timer

LEMMA HandlerReturns ==
  ASSUME TInv, TInv', HandlerReturn
  PROVE  Interface_!Next
BY CallingIs, CallingNext, ArmedIs, GoneAre, Zenon DEF HandlerReturn, locals, queue, Active,
   Interface_!Return, Interface_!Next

LEMMA TimeTicks ==
  ASSUME TInv, TInv', Tick
  PROVE  Interface_!Next
BY ArmedIs, GoneAre, Zenon DEF Tick, locals, queue, Active, Calling, Interface_!Tick, Interface_!Next

LEMMA RetuneFreezes ==
  ASSUME TInv, TInv', NEW add \in Freezes, retune_timers(add)
  PROVE  Interface_!Next
<1> DEFINE S == Active \ {OVERFLOW}
           a == now' - now
<1>1. /\ mpc = "user" /\ now' = now + add /\ UNCHANGED <<head, free, gen, call, chain>>
      /\ mark' = [t \in AllSlots |-> IF t \in Range(head) THEN mark[t] + add ELSE mark[t]]
  BY DEF retune_timers, locals
<1>2. now \in Int /\ add \in Nat /\ a = add
  <2>1. now \in Int /\ add \in Nat
    BY Control, TimerAssumption
  <2> QED BY <1>1, <2>1
<1>3. Moved(S, mark, mark', a)
  <2>1. \A u \in Active : u \in Range(head)
    BY <1>1 DEF Active, Range, TInv, Handling
  <2>2. Range(head) \subseteq AllSlots
    BY Control, Basics, Zenon
  <2> HIDE DEF a
  <2> QED BY <1>1, <1>2, <2>1, <2>2, Zenon DEF Moved
<1>4. Armed = TimesOf(S, gen, mark) /\ Armed' = TimesOf(S, gen, mark')
  BY <1>1, ArmedIs, Zenon DEF Active
<1> HIDE DEF S, a
<1>5. Armed' = Later(Armed, a)
  BY <1>3, <1>4, TimesShift
<1>6. Gone' = Gone
  BY <1>1, GoneAre, Zenon
<1>7. Interface_!Freeze(a)
  BY <1>1, <1>2, <1>5, <1>6, Zenon DEF Interface_!Freeze, Calling, Later
<1> QED BY <1>7, Zenon DEF Interface_!Next, a

\* When the first timer is due, it is due before all others.
LEMMA FirstFires ==
  ASSUME TInv, TInv', rvec_timer, NEW t \in Slots, t = head[1], Due(t), call' = Id(t)
  PROVE  /\ Calling = {} /\ Calling' = {Id(t)} /\ Id(t) \in Ids /\ Id(t) \in DOMAIN Armed
         /\ Armed[Id(t)] <= now /\ \A j \in DOMAIN Armed : Armed[Id(t)] <= Armed[j]
<1>1. mpc = "rvec" /\ mpc' = "handler"
  BY RvecCases, Zenon
<1>2. /\ QInv /\ t \in Range(head) /\ chain = <<>> /\ mark[t] <= now
      /\ \A u \in Range(head) : mark[t] <= mark[u]
  BY <1>1, FirstDue, Zenon
<1>3. t # OVERFLOW /\ t \notin free /\ t \in AllSlots
  BY <1>2, Basics, Parts, Zenon
<1>4. Calling = {} /\ Calling' = {Id(t)}
  BY <1>1, <1>3, CallingIs, CallingNext, Zenon DEF Id
<1> DEFINE S == Active \ {OVERFLOW}
<1>5. t \in S /\ \A u \in S : u \in Range(head)
  BY <1>2, <1>3 DEF Active, Range
<1>6. IsTimes(Armed, S, gen, mark)
  BY ArmedIs, TimesAt, Zenon
<1> HIDE DEF S
<1>7. /\ DOMAIN Armed = {<<u, gen[u]>> : u \in S} /\ \A u \in S : Armed[<<u, gen[u]>>] = mark[u]
  BY <1>6, Zenon DEF IsTimes
<1>8. ASSUME NEW j \in DOMAIN Armed PROVE mark[t] <= Armed[j]
  BY <1>2, <1>5, <1>7, Zenon
<1> QED BY <1>2, <1>3, <1>4, <1>5, <1>7, GoneSteps, ZenonT(30) DEF Id

LEMMA AgainFires ==
  ASSUME TInv, rvec_timer, NEW t \in Slots, t = head[1], Due(t), Autoresumes(t)
  PROVE  Interface_!Next
<1> DEFINE i == Id(t)
           S == Active \ {OVERFLOW}
           d == NextTime(mark[t], period[t])
<1>1. /\ TInv' /\ mark' = [mark EXCEPT ![t] = d] /\ d > now
      /\ Range(head') = Range(head) /\ UNCHANGED <<now, free, gen, chain>>
      /\ call' = Id(t) /\ mpc = "rvec"
  BY RvecAgain, Zenon
<1>2. /\ Calling = {} /\ Calling' = {i} /\ i \in Ids /\ i \in DOMAIN Armed
      /\ Armed[i] <= now /\ \A j \in DOMAIN Armed : Armed[i] <= Armed[j]
  BY <1>1, FirstFires, Zenon
<1>3. Active' = Active /\ Gone' = Gone
  BY <1>1, GoneAre, Zenon DEF Active
<1>4. t \in S /\ t \in AllSlots /\ mark \in [AllSlots -> Int] /\ S \subseteq AllSlots
  BY <1>1, FirstDue, Basics, Zenon DEF Active
<1> HIDE DEF d
<1>5. mark'[t] = d /\ SameBut(S, gen, mark, gen', mark', t)
  BY <1>1, <1>4, Zenon DEF SameBut
<1>6. Armed = TimesOf(S, gen, mark) /\ Armed' = TimesOf(S \cup {t}, gen', mark')
  BY <1>3, <1>4, ArmedIs, Zenon
<1>7. i = <<t, gen'[t]>>
  BY <1>1, Zenon DEF Id
<1> HIDE DEF i, S
<1>8. Armed' = With(Armed, i, mark'[t])
  BY <1>5, <1>6, <1>7, ArmedMore, Zenon
<1>9. Armed' = [j \in DOMAIN Armed |-> IF j = i THEN d ELSE Armed[j]]
  BY <1>2, <1>5, <1>8, Zenon DEF With
<1> QED BY <1>1, <1>2, <1>3, <1>9, Zenon DEF Interface_!Next, Interface_!Fire

LEMMA OffFires ==
  ASSUME TInv, rvec_timer, NEW t \in Slots, t = head[1], Due(t), ~Autoresumes(t)
  PROVE  Interface_!Next
<1> DEFINE i == Id(t)
           S == Active \ {OVERFLOW}
<1>1. /\ TInv' /\ Range(head') = Range(head) \ {t} /\ UNCHANGED <<now, gen, chain>>
      /\ \A u \in AllSlots : u # t => mark'[u] = mark[u]
      /\ free' \in {free, free \cup {t}} /\ call' = Id(t) /\ mpc = "rvec"
  BY RvecOff, Zenon
<1>2. /\ Calling = {} /\ Calling' = {i} /\ i \in Ids /\ i \in DOMAIN Armed
      /\ Armed[i] <= now /\ \A j \in DOMAIN Armed : Armed[i] <= Armed[j]
  BY <1>1, FirstFires, Zenon
<1>3. QInv /\ t \in Range(head) /\ chain = <<>> /\ t \notin Range(chain) /\ t \notin free
  BY <1>1, FirstDue, Parts, Zenon
<1>4. Active' = Active \ {t} /\ t \in S /\ S \subseteq AllSlots
  BY <1>1, <1>3, Basics, ZenonT(30) DEF Active
<1>5. Gone' = Gone \/ Gone' = Gone \cup {i}
  BY <1>1, <1>3, GoneSteps, Zenon
<1>6. Armed = TimesOf(S, gen, mark) /\ Armed' = TimesOf(S \ {t}, gen', mark')
  BY <1>4, ArmedIs, Zenon
<1>7. i = <<t, gen[t]>>
  BY Zenon DEF Id
<1> HIDE DEF i, S
<1>8. Armed' = Without(Armed, i)
  <2>1. SameBut(S, gen, mark, gen', mark', t)
    BY <1>1, <1>4, Zenon DEF SameBut
  <2> QED BY <1>4, <1>6, <1>7, <2>1, ArmedLess, Zenon
<1> QED BY <1>1, <1>2, <1>5, <1>8, Zenon DEF Interface_!Next, Interface_!Fire, Without,
   Interface_!MayGo

LEMMA RvecImplements ==
  ASSUME TInv, TInv', rvec_timer
  PROVE  Interface_!Next \/ UNCHANGED Interface_!vars
<1>1. mpc = "rvec" /\ UNCHANGED <<now, gen>>
  BY Zenon DEF rvec_timer
<1>2. CASE head[1] \in Slots /\ Due(head[1])
  BY <1>2, AgainFires, OffFires, Zenon
<1>3. CASE ~Due(head[1])
  BY <1>3, CallingIs, CallingNext, QuietStep, Zenon DEF rvec_timer
<1>4. CASE head[1] = OVERFLOW /\ Due(OVERFLOW)
  <2>1. /\ Range(head') = Range(head) /\ UNCHANGED <<now, gen, free, chain>>
        /\ \A u \in AllSlots : u # OVERFLOW => mark'[u] = mark[u]
        /\ call' = <<OVERFLOW, 1>>
    BY <1>4, RvecOverflow, Zenon
  <2> QED BY <1>1, <2>1, CallingIs, CallingNext, Basics, GoneAre, Stutters, Zenon DEF TInv,
     Active
<1> QED BY <1>1, <1>2, <1>3, <1>4, FirstDue, Zenon DEF AllSlots

LEMMA InterfaceImplements ==
  ASSUME TInv, TInv', NEW who \in Threads, Interface(who)
  PROVE  Interface_!Next \/ UNCHANGED Interface_!vars
BY Zenon, AbsTimerArms, NewPtimerStutters, CancelTimerDisarms, SetPtimerArms, ResumePtimerArms,
   PausePtimerDisarms, FreePtimerDisarms DEF Interface

LEMMA NextImplements ==
  ASSUME TInv, TInv', [Next]_vars
  PROVE  Interface_!Next \/ UNCHANGED Interface_!vars
BY Zenon, RvecImplements, HandlerReturns, OverflowStutters, KernelStutters, TimeTicks,
   InterfaceImplements, RetuneFreezes DEF Main, Next

LEMMA InitImplements ==
  ASSUME Init
  PROVE  Interface_!Init
<1>1. TInv
  BY InitTInv
<1>2. mpc = "user" /\ now = 0 /\ free = Slots /\ inactive = <<>>
      /\ gen = [t \in AllSlots |-> IF t = OVERFLOW THEN 1 ELSE 0]
  BY DEF Init
<1>3. Active \ {OVERFLOW} = {}
  BY <1>1, <1>2, ActiveIs, Zenon DEF TInv, AllSlots
<1>4. Armed = [i \in {} |-> 0]
  <2>1. IsTimes(Armed, {}, gen, mark)
    BY <1>3, ArmedIs, TimesAt, Zenon
  <2> QED BY <2>1, Zenon DEF IsTimes
<1>5. Gone = {}
  <2>1. gen \in [AllSlots -> 0..MaxIds] /\ \A t \in Slots : gen[t] = 0
    BY <1>1, <1>2, Basics, Zenon DEF TInv, QInv, Typed
  <2> QED BY <2>1, NoneGone, Zenon
<1> QED BY <1>1, <1>2, <1>4, <1>5, CallingIs, Zenon DEF Interface_!Init

\* The queue of timer.c implements the interface of timer.h: a timer fires when
\* its time has come and never before, the timers fire in the order of their
\* times, and an id that is gone never fires or names another timer, whatever
\* the wrap of the low words and the overflow timer do in between.
THEOREM TimersImplemented ==
  Spec => ImplementsTimers
<1>1. Init => Interface_!Init
  BY InitImplements
<1>2. TInv /\ TInv' /\ [Next]_vars => [Interface_!Next]_(Interface_!vars)
  BY NextImplements
<1> QED BY <1>1, <1>2, Invariance, PTL DEF Spec, ImplementsTimers, Interface_!Spec
=============================================================================
