---------------------------- MODULE TimerList_proofs ----------------------------
(***************************************************************************)
(* What the operations of timer.c do to its list, for every number of      *)
(* slots and every range of the clock.  Only low words are compared, so    *)
(* the lemmas are about the window in which that is exact: the overflow    *)
(* timer keeps every time that is compared within TIMER_MAX of its own.    *)
(***************************************************************************)
EXTENDS TimerQueue, TLAPS

-----------------------------------------------------------------------------
(* Arithmetic of the low words.                                            *)

LEMMA DiffRange ==
  ASSUME NEW a \in Int, NEW b \in Int
  PROVE  Diff(a, b) \in Int /\ Diff(a, b) \in (-HALF)..TIMER_MAX
BY TimerAssumption DEF Diff, HALF

\* The comparison is exact for times that are not too far apart.
LEMMA DiffExact ==
  ASSUME NEW a \in Int, NEW b \in Int, a - b \in (-HALF)..TIMER_MAX
  PROVE  Diff(a, b) = a - b
BY TimerAssumption DEF Diff, HALF

\* An inexact difference still moves with the time it is taken to.
LEMMA DiffBack ==
  ASSUME NEW a \in Int, NEW b \in Int, NEW u \in Int,
         Diff(a, b) < 0, u <= b, u >= b - TIMER_MAX
  PROVE  Diff(a, u) = Diff(a, b) + (b - u) /\ Diff(a, b) \in Int
<1> DEFINE d == Diff(a, b)
           c == b - u
<1>1. d \in Int /\ d \in (-HALF)..TIMER_MAX /\ d < 0
  BY DiffRange
<1> HIDE DEF d
<1>2. c \in Int /\ d + c \in (-HALF)..TIMER_MAX /\ u = b - c
  BY <1>1, TimerAssumption DEF HALF
<1> HIDE DEF c
<1>3. Diff(a, b - c) = Diff(a, b) + c
  <2> DEFINE M == 2 * HALF
             x == a - b + HALF
  <2>1. M \in Nat \ {0} /\ x \in Int /\ HALF \in Nat /\ TIMER_MAX = HALF - 1
    BY TimerAssumption DEF HALF
  <2> HIDE DEF M, x
  <2> QED BY <1>2, <2>1 DEF d, Diff
<1> QED BY <1>1, <1>2, <1>3 DEF c, d

\* recalc_ptimer: the new time lies ahead, one period on if the timer is not
\* late by more than that.
LEMMA NextTimes ==
  ASSUME now \in Int, NEW m \in Int, NEW p \in Nat \ {0}
  PROVE  /\ NextTime(m, p) \in Int /\ NextTime(m, p) > now
         /\ now - m \in 0..(p - 1) => NextTime(m, p) = m + p
<1>1. CASE now - m < 0
  BY DEF NextTime
<1>2. CASE now - m >= 0
  <2> DEFINE d == now - m
             q == d \div p
  <2>1. d \in Nat /\ m + d = now /\ now - m = d
    BY <1>2
  <2>2. NextTime(m, p) = m + (q + 1) * p
    BY <1>2 DEF NextTime
  <2> HIDE DEF d
  <2>3. q \in Int /\ d = p * q + (d % p) /\ (d % p) \in 0..(p - 1)
    BY <2>1
  <2> HIDE DEF q
  <2> QED BY <2>1, <2>2, <2>3
<1> QED BY <1>1, <1>2

-----------------------------------------------------------------------------
(* Lists.                                                                  *)

\* Link gives a list that is one longer.
LEMMA LinkIs ==
  ASSUME NEW S, NEW s \in Seq(S), NEW e \in S, NEW i \in 1..(Len(s) + 1)
  PROVE  Link(s, i, e) \in Seq(S) /\ Len(Link(s, i, e)) = Len(s) + 1
BY DEF Link

\* An entry is where Pos finds it.
LEMMA PosIs ==
  ASSUME NEW S, NEW h \in Seq(S), NEW t \in Range(h)
  PROVE  Pos(h, t) \in 1..Len(h) /\ h[Pos(h, t)] = t
BY DEF Range, Pos

LEMMA InRange ==
  ASSUME NEW S, NEW h \in Seq(S)
  PROVE  /\ \A t : t \in Range(h) <=> \E i \in 1..Len(h) : h[i] = t
         /\ Range(h) \subseteq S
BY DEF Range

\* What insertion does to the entries.
LEMMA InsertRange ==
  ASSUME NEW S, NEW h \in Seq(S), NEW t \in S, NEW k \in 1..(Len(h) + 1),
         NEW g, g = Link(h, k, t)
  PROVE  /\ Range(g) = Range(h) \cup {t}
         /\ IsInjective(h) /\ t \notin Range(h) => IsInjective(g)
<1>1. /\ g \in Seq(S) /\ Len(g) = Len(h) + 1
      /\ \A i \in 1..(Len(h) + 1) : g[i] = IF i < k THEN h[i] ELSE IF i = k THEN t ELSE h[i - 1]
  BY DEF Link
<1>2. DOMAIN g = 1..(Len(h) + 1) /\ DOMAIN h = 1..Len(h) /\ Len(h) \in Nat
  BY <1>1
<1>3. \A i \in 1..Len(h) : i \in 1..(Len(h) + 1) /\ i + 1 \in 1..(Len(h) + 1)
                           /\ (i < k => g[i] = h[i]) /\ (i >= k => g[i + 1] = h[i])
  BY <1>1
<1>4. \A x : x \in Range(g) => x \in Range(h) \/ x = t
  <2> SUFFICES ASSUME NEW i \in 1..(Len(h) + 1) PROVE g[i] \in Range(h) \/ g[i] = t
    BY <1>2, Zenon DEF Range
  <2>1. CASE i < k
    <3>1. i \in 1..Len(h) /\ g[i] = h[i]
      BY <1>1, <1>2, <2>1
    <3> QED BY <1>2, <3>1, Zenon DEF Range
  <2>2. CASE i > k
    <3>1. i - 1 \in 1..Len(h) /\ g[i] = h[i - 1]
      BY <1>1, <1>2, <2>2
    <3> QED BY <1>2, <3>1, Zenon DEF Range
  <2> QED BY <1>1, <2>1, <2>2
<1>5. t \in Range(g)
  BY <1>1 DEF Range
<1>6. \A x \in Range(h) : x \in Range(g)
  BY <1>2, <1>3 DEF Range
<1>7. ASSUME IsInjective(h), t \notin Range(h) PROVE IsInjective(g)
  <2>1. \A i \in 1..Len(h) : h[i] # t
    BY <1>7 DEF Range
  <2>2. \A i, j \in 1..Len(h) : h[i] = h[j] => i = j
    BY <1>7 DEF IsInjective
  <2>3. ASSUME NEW i \in 1..(Len(h) + 1), NEW j \in 1..(Len(h) + 1), g[i] = g[j], i < j
        PROVE  FALSE
    <3>1. CASE j < k
      BY <1>1, <1>2, <2>2, <2>3, <3>1
    <3>2. CASE i < k /\ j = k
      BY <1>1, <1>2, <2>1, <2>3, <3>2
    <3>3. CASE i < k /\ j > k
      BY <1>1, <1>2, <2>2, <2>3, <3>3
    <3>4. CASE i = k
      BY <1>1, <1>2, <2>1, <2>3, <3>4
    <3>5. CASE i > k
      <4>1. /\ i - 1 \in 1..Len(h) /\ j - 1 \in 1..Len(h) /\ i - 1 # j - 1
            /\ g[i] = h[i - 1] /\ g[j] = h[j - 1]
        BY <1>1, <1>2, <2>3, <3>5
      <4> QED BY <2>2, <2>3, <4>1, Zenon
    <3> QED BY <2>3, <3>1, <3>2, <3>3, <3>4, <3>5
  <2>4. \A i, j \in 1..(Len(h) + 1) : g[i] = g[j] => i = j
    BY <1>2, <2>3
  <2> QED BY <1>2, <2>4 DEF IsInjective
<1> QED BY <1>4, <1>5, <1>6, <1>7

-----------------------------------------------------------------------------
(* The order of the active list.                                           *)

\* a may stand before b, where S are the timers that are kept for later: nothing
\* but these is behind the overflow timer, and none is due before one in front of
\* it.  One of them may be in front of others by a comparison of low words alone.
Before(S, m, a, b) ==
  /\ a = OVERFLOW => b \in S
  /\ b \notin S => m[a] <= m[b] \/ (a \in S /\ Diff(m[a], m[b]) < 0)

BeforeRel(S, m) == {p \in AllSlots \X AllSlots : Before(S, m, p[1], p[2])}

\* no timer that is kept for later is in front of the overflow timer
NearRel(S) == {p \in AllSlots \X AllSlots : p[2] = OVERFLOW => p[1] \notin S}

InOrder(h, R) == \A i, j \in 1..Len(h) : i < j => <<h[i], h[j]>> \in R

LEMMA BeforeIs ==
  ASSUME NEW S, NEW m, NEW a \in AllSlots, NEW b \in AllSlots
  PROVE  /\ <<a, b>> \in BeforeRel(S, m) <=> Before(S, m, a, b)
         /\ <<a, b>> \in NearRel(S) <=> (b = OVERFLOW => a \notin S)
BY DEF BeforeRel, NearRel

\* An entry that fits in where it is inserted keeps the order.
LEMMA InsertionOrder ==
  ASSUME NEW S, NEW h \in Seq(S), NEW t \in S, NEW R, InOrder(h, R), NEW k \in 1..(Len(h) + 1),
         \A i \in 1..(k - 1) : <<h[i], t>> \in R,
         \A i \in k..Len(h) : <<t, h[i]>> \in R
  PROVE  InOrder(Link(h, k, t), R)
<1> DEFINE g == Link(h, k, t)
<1>1. /\ Len(h) \in Nat /\ Len(g) = Len(h) + 1
      /\ \A i \in 1..(Len(h) + 1) : g[i] = IF i < k THEN h[i] ELSE IF i = k THEN t ELSE h[i - 1]
  BY DEF Link
<1> HIDE DEF g
<1> SUFFICES ASSUME NEW i \in 1..Len(g), NEW j \in 1..Len(g), i < j
             PROVE  <<g[i], g[j]>> \in R
  BY DEF InOrder, g
<1>2. CASE i = k
  BY <1>1, <1>2
<1>3. CASE j = k
  BY <1>1, <1>3
<1>4. CASE i # k /\ j # k
  <2> DEFINE a == IF i < k THEN i ELSE i - 1
             b == IF j < k THEN j ELSE j - 1
  <2>1. a \in 1..Len(h) /\ b \in 1..Len(h) /\ a < b /\ g[i] = h[a] /\ g[j] = h[b]
    BY <1>1, <1>4
  <2> HIDE DEF a, b
  <2> QED BY <2>1 DEF InOrder
<1> QED BY <1>2, <1>3, <1>4

\* The order only depends on the entries of the list.
LEMMA SameOrder ==
  ASSUME NEW S, NEW h \in Seq(S), NEW R, NEW Q, InOrder(h, R),
         \A a, b \in Range(h) : <<a, b>> \in R => <<a, b>> \in Q
  PROVE  InOrder(h, Q)
BY InRange, Zenon DEF InOrder

\* A list of insert_timer: the overflow timer is on it, it is ordered, and no
\* time on it is more than TIMER_MAX before the overflow timer's.
ListOk(h, S, m) ==
  /\ h \in Seq(AllSlots) /\ IsInjective(h) /\ OVERFLOW \in Range(h)
  /\ m \in [AllSlots -> Int] /\ OVERFLOW \notin S
  /\ InOrder(h, BeforeRel(S, m))
  /\ \A t \in Range(h) : m[t] >= m[OVERFLOW] - TIMER_MAX

\* The other timers are not behind the overflow timer, and due no later than it.
LEMMA NearIs ==
  ASSUME NEW h, NEW S, NEW m, ListOk(h, S, m), NEW k \in 1..Len(h), h[k] \notin S
  PROVE  /\ k <= Pos(h, OVERFLOW) /\ m[h[k]] <= m[OVERFLOW]
         /\ h[k] \in AllSlots /\ m[h[k]] >= m[OVERFLOW] - TIMER_MAX
<1> DEFINE p == Pos(h, OVERFLOW)
<1>1. h \in Seq(AllSlots) /\ OVERFLOW \in Range(h) /\ m \in [AllSlots -> Int]
  BY DEF ListOk
<1>2. p \in 1..Len(h) /\ h[p] = OVERFLOW
  BY <1>1, PosIs
<1>3. h[k] \in AllSlots /\ h[k] \in Range(h) /\ OVERFLOW \in AllSlots
  BY <1>1, InRange
<1> HIDE DEF p
<1>4. k <= p
  <2>1. ~(p < k)
    BY <1>2, <1>3, BeforeIs, Zenon DEF ListOk, InOrder, Before
  <2> QED BY <1>2, <2>1
<1>5. m[h[k]] <= m[OVERFLOW]
  <2>1. CASE k = p
    BY <1>1, <1>2, <2>1
  <2>2. CASE k < p
    BY <1>2, <1>3, <2>2, BeforeIs, Zenon DEF ListOk, InOrder, Before
  <2> QED BY <1>2, <1>4, <2>1, <2>2
<1> QED BY <1>3, <1>4, <1>5 DEF p, ListOk

FlagSets == [AllSlots -> SUBSET {"PERIODIC", "AUTORESUME", "OVERFLOW"}]

\* What insert_timer leaves: the list has t on it and is as it should be, and the
\* stamp is that of the first timer if that is a new one.
Inserted(who, h, S, m, t) ==
  /\ ListOk(head', S, m) /\ Range(head') = Range(h) \cup {t} /\ mark' = m
  /\ (InOrder(h, NearRel(S)) /\ (t \in S => m[t] > m[OVERFLOW])) => InOrder(head', NearRel(S))
  /\ \/ head'[1] = h[1] /\ UNCHANGED <<stamp, recalc, interrupt, recalcDec>>
     \/ head'[1] = t /\ stamp' = m[t] /\ Tell(who)

\* It flags the timer if that is due after the overflow timer.
LEMMA FlagsInserted ==
  ASSUME NEW who, NEW h, NEW f \in FlagSets, NEW m, NEW t \in AllSlots,
         insert_timer(who, h, f, m, t)
  PROVE  /\ flags' \in FlagSets /\ mark' = m
         /\ \A u \in AllSlots : u # t => flags'[u] = f[u]
         /\ flags'[t] = f[t] \/ flags'[t] = f[t] \cup {"OVERFLOW"}
         /\ m[t] > m[OVERFLOW] => "OVERFLOW" \in flags'[t]
<1>1. mark' = m /\ flags' = IF m[t] > m[OVERFLOW] THEN [f EXCEPT ![t] = @ \cup {"OVERFLOW"}] ELSE f
  BY Zenon DEF insert_timer
<1> QED BY <1>1 DEF FlagSets

\* insert_timer puts a timer that is due after the overflow timer behind it,
\* and finds the place of any other, whatever flagged timers are on the way.
LEMMA TimerInserted ==
  ASSUME NEW who \in Threads, NEW h, NEW f, NEW S, NEW m, NEW t \in Slots,
         ListOk(h, S, m), t \notin Range(h), m[t] > m[OVERFLOW] => t \in S,
         m[t] >= m[OVERFLOW] - TIMER_MAX, insert_timer(who, h, f, m, t)
  PROVE  Inserted(who, h, S, m, t)
<1> DEFINE o == m[OVERFLOW]
           p == Pos(h, OVERFLOW)
           far == m[t] > m[OVERFLOW]
<1>1. /\ h \in Seq(AllSlots) /\ OVERFLOW \in Range(h) /\ m \in [AllSlots -> Int]
      /\ t \in AllSlots /\ OVERFLOW \in AllSlots /\ t # OVERFLOW /\ IsInjective(h)
      /\ InOrder(h, BeforeRel(S, m)) /\ OVERFLOW \notin S
      /\ \A u \in Range(h) : m[u] >= m[OVERFLOW] - TIMER_MAX
  BY TimerAssumption DEF ListOk, AllSlots
<1>2. /\ Len(h) \in Nat /\ TIMER_MAX \in Nat /\ HALF = TIMER_MAX + 1
      /\ o \in Int /\ m[t] \in Int
      /\ \A i \in 1..Len(h) : h[i] \in AllSlots /\ m[h[i]] \in Int /\ h[i] \in Range(h)
  BY <1>1, InRange, TimerAssumption DEF HALF
<1>3. p \in 1..Len(h) /\ h[p] = OVERFLOW
  BY <1>1, PosIs
<1>4. PICK k \in 1..(Len(h) + 1) :
        /\ IF far THEN k = p + 1 ELSE InsertionPoint(h, m, t, k)
        /\ head' = Link(h, k, t)
        /\ IF ~far /\ k = 1 THEN stamp' = m[t] /\ Tell(who)
                            ELSE UNCHANGED <<stamp, recalc, interrupt, recalcDec>>
  BY Zenon DEF insert_timer
<1>5. mark' = m
  BY Zenon DEF insert_timer
<1>6. /\ \A i \in 1..(k - 1) : Before(S, m, h[i], t)
      /\ \A i \in k..Len(h) : Before(S, m, t, h[i]) /\ (h[i] = OVERFLOW => ~far)
  <2>1. CASE far
    <3>1. \A i \in 1..(k - 1) : Before(S, m, h[i], t)
      BY <2>1 DEF Before
    <3>2. ASSUME NEW i \in k..Len(h) PROVE h[i] \in S
      <4>1. i \in 1..Len(h) /\ p < i
        BY <1>3, <1>4, <2>1
      <4> QED BY <1>1, <1>2, <1>3, <4>1, BeforeIs, Zenon DEF Before, InOrder
    <3> QED BY <1>1, <3>1, <3>2, Zenon DEF Before
  <2>2. CASE ~far
    <3>1. /\ \A i \in 1..(k - 1) : Diff(m[h[i]], m[t]) < 0
          /\ k <= Len(h) => Diff(m[h[k]], m[t]) >= 0
      BY <1>4, <2>2 DEF InsertionPoint
    <3>2. Diff(o, m[t]) = o - m[t] /\ o - m[t] >= 0
      <4>1. o - m[t] \in (-HALF)..TIMER_MAX /\ o - m[t] >= 0
        <5>1. /\ o \in Int /\ m[t] \in Int /\ TIMER_MAX \in Nat /\ HALF = TIMER_MAX + 1
              /\ ~(m[t] > o) /\ m[t] >= o - TIMER_MAX
          BY <1>2, <2>2, Zenon
        <5> HIDE DEF o
        <5> QED BY <5>1
      <4> QED BY <1>2, <4>1, DiffExact, Zenon
    <3>3. \A i \in 1..Len(h) : h[i] \notin S => i <= p /\ m[h[i]] <= o /\ m[h[i]] >= o - TIMER_MAX
      BY NearIs
    <3>4. ASSUME NEW i \in 1..Len(h), h[i] \notin S
          PROVE  Diff(m[h[i]], m[t]) = m[h[i]] - m[t]
      <4> DEFINE a == m[h[i]]
                 b == m[t]
      <4>1. a \in Int /\ a <= o /\ a >= o - TIMER_MAX
        BY <1>2, <3>3, <3>4, Zenon
      <4>2. /\ o \in Int /\ b \in Int /\ b <= o /\ b >= o - TIMER_MAX
            /\ TIMER_MAX \in Nat /\ HALF = TIMER_MAX + 1
        BY <1>2, <2>2
      <4> HIDE DEF a, b, o
      <4>3. a - b \in (-HALF)..TIMER_MAX
        BY <4>1, <4>2
      <4>4. Diff(a, b) = a - b
        BY <4>1, <4>2, <4>3, DiffExact, Zenon
      <4> QED BY <4>4, Zenon DEF a, b
    <3> HIDE DEF p, far
    <3>5. k <= p
      <4>1. ~(p \in 1..(k - 1))
        <5> SUFFICES ASSUME p \in 1..(k - 1) PROVE FALSE
          OBVIOUS
        <5>1. Diff(o, m[t]) < 0
          BY <1>3, <3>1, Zenon
        <5> QED BY <1>2, <3>2, <5>1
      <4> QED BY <1>3, <4>1
    <3> HIDE DEF o
    <3>6. k \in 1..Len(h) /\ Diff(m[h[k]], m[t]) >= 0
      BY <1>3, <3>1, <3>5
    <3>7. ASSUME NEW i \in 1..(k - 1) PROVE Before(S, m, h[i], t)
      <4>1. i \in 1..Len(h) /\ i < p /\ Diff(m[h[i]], m[t]) < 0
        BY <1>3, <3>1, <3>5
      <4>2. h[i] # OVERFLOW
        BY <1>2, <3>2, <4>1 DEF o
      <4>3. h[i] \notin S => m[h[i]] <= m[t]
        BY <1>2, <3>4, <4>1
      <4> QED BY <4>1, <4>2, <4>3, Zenon DEF Before
    <3>8. ASSUME NEW i \in k..Len(h), h[i] \notin S PROVE m[t] <= m[h[i]]
      <4>1. i \in 1..Len(h) /\ i >= k
        BY <3>6
      <4>2. i > k => Before(S, m, h[k], h[i])
        BY <1>1, <1>2, <3>6, <4>1, BeforeIs, Zenon DEF InOrder
      <4>3. CASE h[k] \notin S
        <5>1. m[t] <= m[h[k]] /\ m[h[k]] \in Int
          BY <1>2, <3>4, <3>6, <4>3
        <5>2. i > k => m[h[k]] <= m[h[i]]
          BY <3>8, <4>2, <4>3, Zenon DEF Before
        <5> QED BY <1>2, <3>6, <4>1, <5>1, <5>2
      <4>4. CASE h[k] \in S
        <5> DEFINE x == m[h[k]]
                   u == m[h[i]]
        <5>1. /\ x \in Int /\ u \in Int /\ (x <= u \/ Diff(x, u) < 0)
              /\ x >= o - TIMER_MAX /\ Diff(x, m[t]) >= 0
          <6>1. i > k
            BY <3>8, <4>1, <4>4
          <6> QED BY <1>1, <1>2, <3>6, <3>8, <4>1, <4>2, <6>1, Zenon DEF Before, o
        <5>2. u <= o /\ u >= o - TIMER_MAX
          BY <1>2, <3>3, <3>8, <4>1, Zenon
        <5>3. /\ o \in Int /\ m[t] \in Int /\ m[t] <= o /\ m[t] >= o - TIMER_MAX
              /\ TIMER_MAX \in Nat /\ HALF = TIMER_MAX + 1
          BY <1>2, <3>2 DEF o
        <5>4. x <= o \/ Diff(x, o) < 0
          <6>1. k < p
            BY <1>1, <1>3, <3>5, <3>6, <4>4
          <6>2. Before(S, m, h[k], OVERFLOW)
            BY <1>1, <1>2, <1>3, <3>6, <6>1, BeforeIs, Zenon DEF InOrder
          <6> QED BY <1>1, <6>2, Zenon DEF Before, o
        <5> DEFINE b == m[t]
        <5> HIDE DEF x, u, o, b
        <5>5. CASE x <= o
          <6>1. x - b \in (-HALF)..TIMER_MAX
            BY <5>1, <5>3, <5>5 DEF b
          <6>2. Diff(x, b) = x - b
            BY <5>1, <5>3, <6>1, DiffExact, Zenon DEF b
          <6>3. b <= x
            BY <5>1, <5>3, <6>2 DEF b
          <6>4. x <= u
            <7>1. x - u \in (-HALF)..TIMER_MAX
              BY <5>1, <5>2, <5>3, <5>5
            <7>2. Diff(x, u) = x - u
              BY <5>1, <7>1, DiffExact, Zenon
            <7> QED BY <5>1, <7>2
          <6>5. b <= u
            BY <5>1, <5>3, <6>3, <6>4 DEF b
          <6> QED BY <6>5, Zenon DEF b, u
        <5>6. ASSUME ~(x <= o) PROVE m[t] <= m[h[i]]
          <6>1. Diff(x, u) < 0 /\ Diff(x, o) < 0 /\ Diff(x, o) \in Int
            <7>1. ~(x <= u)
              BY <5>1, <5>2, <5>3, <5>6
            <7> QED BY <5>1, <5>3, <5>4, <5>6, <7>1, DiffRange, Zenon
          <6>2. Diff(x, u) = Diff(x, o) + (o - u)
            BY <5>1, <5>2, <5>3, <6>1, DiffBack, Zenon
          <6>3. Diff(x, b) = Diff(x, o) + (o - b)
            BY <5>1, <5>3, <6>1, DiffBack, Zenon DEF b
          <6>4. Diff(x, b) >= 0
            BY <5>1, Zenon DEF b
          <6> DEFINE y == Diff(x, o)
          <6>5. /\ y \in Int /\ o \in Int /\ u \in Int /\ b \in Int
                /\ y + (o - u) < 0 /\ y + (o - b) >= 0
            BY <5>1, <5>3, <6>1, <6>2, <6>3, <6>4, Zenon DEF b
          <6> HIDE DEF y
          <6>6. b <= u
            BY <6>5
          <6> QED BY <6>6, Zenon DEF b, u
        <5> QED BY <5>5, <5>6
      <4> QED BY <4>3, <4>4
    <3>9. ASSUME NEW i \in k..Len(h) PROVE Before(S, m, t, h[i])
      BY <1>1, <3>8 DEF Before
    <3> QED BY <2>2, <3>7, <3>9, Zenon DEF far
  <2> QED BY <2>1, <2>2
<1> DEFINE g == Link(h, k, t)
<1>7. /\ \A i \in 1..(k - 1) : h[i] \in AllSlots
      /\ \A i \in k..Len(h) : h[i] \in AllSlots
  BY <1>2
<1>8. InOrder(g, BeforeRel(S, m))
  <2>1. \A i \in 1..(k - 1) : <<h[i], t>> \in BeforeRel(S, m)
    BY <1>1, <1>6, <1>7, BeforeIs, Zenon
  <2>2. ASSUME NEW i \in k..Len(h) PROVE <<t, h[i]>> \in BeforeRel(S, m)
    <3>1. t \in AllSlots /\ h[i] \in AllSlots /\ Before(S, m, t, h[i])
      BY <1>1, <1>6, <1>7
    <3> QED BY <3>1, BeforeIs, Zenon
  <2> QED BY <1>1, <2>1, <2>2, InsertionOrder, Zenon
<1>9. ASSUME InOrder(h, NearRel(S)), t \in S => far PROVE InOrder(g, NearRel(S))
  <2>1. \A i \in 1..(k - 1) : <<h[i], t>> \in NearRel(S)
    BY <1>1, <1>7, BeforeIs, Zenon
  <2>2. ASSUME NEW i \in k..Len(h) PROVE <<t, h[i]>> \in NearRel(S)
    <3>1. t \in AllSlots /\ h[i] \in AllSlots /\ (h[i] = OVERFLOW => t \notin S)
      BY <1>1, <1>6, <1>7, <1>9
    <3> QED BY <3>1, BeforeIs, Zenon
  <2> QED BY <1>1, <1>9, <2>1, <2>2, InsertionOrder, Zenon
<1>10. g \in Seq(AllSlots) /\ IsInjective(g) /\ Range(g) = Range(h) \cup {t}
  BY <1>1, LinkIs, InsertRange
<1>11. g[1] = IF k = 1 THEN t ELSE h[1]
  BY <1>1, <1>3 DEF Link
<1>12. far => k # 1
  BY <1>3, <1>4
<1> HIDE DEF g, p
<1>13. ListOk(g, S, m)
  BY <1>1, <1>2, <1>8, <1>10, Zenon DEF ListOk
<1> QED BY <1>4, <1>5, <1>9, <1>10, <1>11, <1>12, <1>13, Zenon DEF Inserted, g

\* The overflow timer goes back among timers that are all kept for later.
LEMMA OverflowInserted ==
  ASSUME NEW who \in Threads, NEW h \in Seq(AllSlots), IsInjective(h), OVERFLOW \notin Range(h),
         NEW f, NEW S, OVERFLOW \notin S, Range(h) \subseteq S,
         NEW m \in [AllSlots -> Int], \A u \in Range(h) : m[u] >= m[OVERFLOW] - TIMER_MAX,
         insert_timer(who, h, f, m, OVERFLOW)
  PROVE  /\ ListOk(head', S, m) /\ Range(head') = Range(h) \cup {OVERFLOW}
         /\ mark' = m /\ flags' = f
         /\ UNCHANGED stamp \/ stamp' = m[OVERFLOW]
<1>1. OVERFLOW \in AllSlots /\ m[OVERFLOW] \in Int /\ ~(m[OVERFLOW] > m[OVERFLOW])
      /\ TIMER_MAX \in Nat
  BY TimerAssumption DEF AllSlots
<1>2. PICK k \in 1..(Len(h) + 1) :
        /\ InsertionPoint(h, m, OVERFLOW, k) /\ head' = Link(h, k, OVERFLOW)
        /\ UNCHANGED stamp \/ stamp' = m[OVERFLOW]
  BY <1>1, Zenon DEF insert_timer
<1> DEFINE g == Link(h, k, OVERFLOW)
<1>3. head' = g /\ mark' = m /\ flags' = f /\ (UNCHANGED stamp \/ stamp' = m[OVERFLOW])
  BY <1>1, <1>2, Zenon DEF insert_timer
<1>4. k \in 1..(Len(h) + 1) /\ \A i \in 1..(k - 1) : Diff(m[h[i]], m[OVERFLOW]) < 0
  BY <1>2 DEF InsertionPoint
<1>5. \A i \in 1..Len(h) : h[i] \in AllSlots /\ h[i] \in Range(h) /\ h[i] \in S
  BY InRange
<1>6. ASSUME NEW i \in 1..(k - 1) PROVE <<h[i], OVERFLOW>> \in BeforeRel(S, m)
  <2>1. i \in 1..Len(h) /\ h[i] # OVERFLOW
    BY <1>4, <1>5
  <2> QED BY <1>1, <1>4, <1>5, <2>1, BeforeIs, Zenon DEF Before
<1>7. ASSUME NEW i \in k..Len(h) PROVE <<OVERFLOW, h[i]>> \in BeforeRel(S, m)
  <2>1. i \in 1..Len(h)
    BY <1>4
  <2> QED BY <1>1, <1>5, <2>1, BeforeIs, Zenon DEF Before
<1>8. InOrder(g, BeforeRel(S, m))
  <2>1. InOrder(h, BeforeRel(S, m))
    BY <1>5, BeforeIs, Zenon DEF InOrder, Before
  <2> QED BY <1>1, <1>4, <1>6, <1>7, <2>1, InsertionOrder, Zenon
<1>9. g \in Seq(AllSlots) /\ IsInjective(g) /\ Range(g) = Range(h) \cup {OVERFLOW}
  BY <1>1, <1>4, LinkIs, InsertRange
<1> HIDE DEF g
<1> QED BY <1>1, <1>3, <1>8, <1>9 DEF ListOk

\* Removing an entry takes it off the list and keeps the order of the others.
LEMMA UnlinkKeeps ==
  ASSUME NEW S, NEW h \in Seq(S), IsInjective(h), NEW k \in 1..Len(h)
  PROVE  /\ Unlink(h, k) \in Seq(S) /\ IsInjective(Unlink(h, k))
         /\ Range(Unlink(h, k)) = Range(h) \ {h[k]}
         /\ \A R : InOrder(h, R) => InOrder(Unlink(h, k), R)
<1> DEFINE g == Unlink(h, k)
           e(i) == IF i < k THEN i ELSE i + 1
<1>1. /\ g \in Seq(S) /\ Len(g) = Len(h) - 1 /\ Len(h) \in Nat
      /\ DOMAIN g = 1..(Len(h) - 1) /\ DOMAIN h = 1..Len(h)
      /\ \A i \in 1..(Len(h) - 1) : g[i] = h[e(i)]
  BY DEF Unlink
<1>2. \A i \in 1..(Len(h) - 1) : e(i) \in 1..Len(h) /\ e(i) # k
  OBVIOUS
<1>3. \A i, j \in 1..(Len(h) - 1) : (i < j => e(i) < e(j)) /\ (e(i) = e(j) => i = j)
  OBVIOUS
<1>4. \A j \in 1..Len(h) : j # k => \E i \in 1..(Len(h) - 1) : e(i) = j
  <2> TAKE j \in 1..Len(h)
  <2>1. CASE j < k
    BY <2>1
  <2>2. CASE j > k
    <3>1. j - 1 \in 1..(Len(h) - 1) /\ e(j - 1) = j
      BY <2>2
    <3> QED BY <3>1
  <2> QED BY <2>1, <2>2
<1> HIDE DEF e, g
<1>5. \A i, j \in 1..Len(h) : h[i] = h[j] => i = j
  BY DEF IsInjective
<1>6. IsInjective(g)
  <2>1. \A i, j \in 1..(Len(h) - 1) : g[i] = g[j] => i = j
    BY <1>1, <1>2, <1>3, <1>5, Zenon
  <2> QED BY <1>1, <2>1, Zenon DEF IsInjective
<1>7. Range(g) = Range(h) \ {h[k]}
  <2>1. /\ \A x : x \in Range(h) <=> \E i \in 1..Len(h) : h[i] = x
        /\ \A x : x \in Range(g) <=> \E i \in 1..(Len(h) - 1) : g[i] = x
    BY <1>1, InRange, Zenon
  <2>2. \A x \in Range(g) : x \in Range(h) /\ x # h[k]
    BY <1>1, <1>2, <1>5, <2>1
  <2>3. ASSUME NEW x \in Range(h), x # h[k] PROVE x \in Range(g)
    <3>1. PICK j \in 1..Len(h) : h[j] = x
      BY <2>1
    <3>2. PICK i \in 1..(Len(h) - 1) : e(i) = j
      BY <1>4, <2>3, <3>1
    <3> QED BY <1>1, <2>1, <3>1, <3>2, Zenon
  <2> QED BY <2>2, <2>3
<1>8. \A R : InOrder(h, R) => InOrder(g, R)
  BY <1>1, <1>2, <1>3, Zenon DEF InOrder
<1> QED BY <1>1, <1>6, <1>7, <1>8 DEF g

\* dequeue_timer, also of a timer that is not on the list
LEMMA DequeueKeeps ==
  ASSUME NEW S, NEW h \in Seq(S), IsInjective(h), NEW t
  PROVE  /\ dequeue_timer(h, t) \in Seq(S) /\ IsInjective(dequeue_timer(h, t))
         /\ Range(dequeue_timer(h, t)) = Range(h) \ {t}
         /\ \A R : InOrder(h, R) => InOrder(dequeue_timer(h, t), R)
         /\ t \notin Range(h) => dequeue_timer(h, t) = h
<1>1. CASE t \in Range(h)
  <2> DEFINE k == Pos(h, t)
             g == Unlink(h, k)
  <2>1. k \in 1..Len(h) /\ h[k] = t
    BY <1>1, PosIs
  <2>2. dequeue_timer(h, t) = g
    BY <1>1 DEF dequeue_timer
  <2> HIDE DEF k
  <2>3. /\ g \in Seq(S) /\ IsInjective(g) /\ Range(g) = Range(h) \ {h[k]}
        /\ \A R : InOrder(h, R) => InOrder(g, R)
    BY <2>1, UnlinkKeeps
  <2> HIDE DEF g
  <2> QED BY <1>1, <2>1, <2>2, <2>3, Zenon
<1>2. CASE t \notin Range(h)
  BY <1>2 DEF dequeue_timer
<1> QED BY <1>1, <1>2

\* rvec_timer takes the first timer off the list the way dequeue_timer does.
LEMMA TailDequeues ==
  ASSUME NEW S, NEW h \in Seq(S), IsInjective(h), h # <<>>
  PROVE  Tail(h) = dequeue_timer(h, h[1]) /\ h[1] \in Range(h)
<1> DEFINE a == Tail(h)
           b == Unlink(h, 1)
<1>1. a \in Seq(S) /\ b \in Seq(S) /\ Len(a) = Len(b) /\ \A k \in 1..Len(a) : a[k] = b[k]
  BY DEF Unlink
<1>2. 1 \in 1..Len(h)
  OBVIOUS
<1> HIDE DEF a, b
<1>3. a = b
  BY <1>1
<1> QED BY <1>2, <1>3, InRange, PosIs DEF a, b, IsInjective, dequeue_timer

LEMMA PushKeeps ==
  ASSUME NEW h \in Seq(Slots), IsInjective(h), NEW t \in Slots, t \notin Range(h),
         NEW p, p = <<t>> \o h
  PROVE  p \in Seq(Slots) /\ IsInjective(p) /\ Range(p) = Range(h) \cup {t}
<1>1. <<t>> \o h = Link(h, 1, t) /\ 1 \in 1..(Len(h) + 1)
  BY DEF Link
<1> DEFINE g == Link(h, 1, t)
<1>2. g \in Seq(Slots) /\ IsInjective(g) /\ Range(g) = Range(h) \cup {t}
  BY LinkIs, InsertRange
<1>3. p = g
  BY <1>1
<1> HIDE DEF g
<1> QED BY <1>2, <1>3, Zenon

LEMMA FirstIs ==
  ASSUME NEW S, NEW h \in Seq(S), NEW t \in Range(h)
  PROVE  h # <<>> /\ 1 \in 1..Len(h) /\ h[1] \in Range(h) /\ h[1] \in S
BY InRange

-----------------------------------------------------------------------------
(* The inductive invariant.                                                *)

\* The timers that are kept for later: those due after the overflow timer, and
\* while its handler runs the flagged ones.  A timer that is paused while it is
\* flagged and set again is flagged, but not necessarily due so late.
Late == {t \in AllSlots : mark[t] > mark[OVERFLOW]}
Flagged == {t \in AllSlots : "OVERFLOW" \in flags[t]}
Far == IF OverflowPending THEN Flagged ELSE Late

\* they are behind the overflow timer and due after it
FarOk(h, S, m) ==
  /\ InOrder(h, NearRel(S))
  /\ \A t \in Range(h) : t \in S => m[t] > m[OVERFLOW]

FarBehind == ~OverflowPending => FarOk(head, Far, mark)

\* ... and flagged
Marked == \A t \in Range(head) : t \in Far => t \in Flagged

\* The times the comparisons of low words meet: none is more than TIMER_MAX
\* before the overflow timer's, which is no more than that ahead.
Window ==
  /\ \A t \in Active : mark[t] >= mark[OVERFLOW] - TIMER_MAX /\ now - mark[t] <= MaxLate
  /\ mark[OVERFLOW] <= now + TIMER_MAX

Fields ==
  /\ flags[OVERFLOW] = {"PERIODIC", "AUTORESUME"}
  /\ period[OVERFLOW] = TIMER_MAX /\ gen[OVERFLOW] = 1
  /\ \A t \in Range(inactive) : "PERIODIC" \in flags[t]
  /\ \A t \in free : flags[t] = {}
  /\ \A t \in Active : "PERIODIC" \in flags[t] => period[t] # 0
  /\ \A t \in AllSlots : "AUTORESUME" \in flags[t] => "PERIODIC" \in flags[t]
  /\ \A t \in Range(chain) : "OVERFLOW" \in flags[t]
  /\ \A t \in Slots : t \notin free => gen[t] # 0

Typed ==
  /\ now \in 0..MaxNow /\ inactive \in Seq(Slots) /\ chain \in Seq(Slots)
  /\ free \in SUBSET Slots /\ period \in [AllSlots -> Nat] /\ flags \in FlagSets
  /\ gen \in [AllSlots -> 0..MaxIds]

QInv == Typed /\ OneList /\ ListOk(head, Far, mark) /\ Marked /\ Window /\ Fields

\* where the main thread is in rvec_timer and overflow_handler
Handling ==
  /\ mpc \in {"user", "guest", "rvec", "handler", "recalc", "collect", "sort"}
  /\ mpc = "handler" => call \in Ids \cup {<<OVERFLOW, 1>>}
  /\ mpc \in {"collect", "sort"} => call = <<OVERFLOW, 1>>
  /\ mpc \notin {"handler", "collect", "sort"} => call = NoCall
  /\ mpc \notin {"collect", "sort"} => chain = <<>>
  /\ mpc # "collect" => tp = 0
  /\ mpc = "collect" => tp \in 1..(Len(head) + 1)
                        /\ \A i \in 1..Len(head) : i < tp => "OVERFLOW" \notin flags[head[i]]

\* the stamp the kernel would load covers the first timer
Stamps ==
  /\ stamp \in Int /\ intStamp \in Int /\ {recalc, interrupt, recalcDec} \subseteq BOOLEAN
  /\ now - stamp <= TIMER_MAX /\ now - intStamp <= TIMER_MAX
  /\ mpc \in {"user", "guest", "recalc"} => stamp <= mark[head[1]]

\* ... and it has loaded it, or is about to
Told ==
  /\ mpc = "recalc" => recalcDec = TRUE
  /\ mpc \in {"user", "guest", "recalc"} =>
       \/ recalcDec = TRUE
       \/ recalc = TRUE /\ (interrupt = TRUE \/ mpc = "recalc")
       \/ intStamp <= mark[head[1]]

TInv == QInv /\ FarBehind /\ Handling /\ Stamps /\ Told

-----------------------------------------------------------------------------
(* Timers come to the list and go.                                         *)

\* Times and flags of timers that are not on the list are no part of its order.
LEMMA ListOther ==
  ASSUME NEW h, NEW S, NEW Q, NEW m, NEW n \in [AllSlots -> Int], ListOk(h, S, m),
         \A u \in Range(h) : n[u] = m[u] /\ (u \in Q <=> u \in S)
  PROVE  ListOk(h, Q, n) /\ (FarOk(h, S, m) => FarOk(h, Q, n))
<1>1. h \in Seq(AllSlots) /\ Range(h) \subseteq AllSlots /\ OVERFLOW \in Range(h)
  BY InRange, Zenon DEF ListOk
<1>2. \A a, b \in Range(h) : <<a, b>> \in BeforeRel(S, m) => <<a, b>> \in BeforeRel(Q, n)
  BY <1>1, BeforeIs, Zenon DEF Before
<1>3. \A a, b \in Range(h) : <<a, b>> \in NearRel(S) => <<a, b>> \in NearRel(Q)
  BY <1>1, BeforeIs, Zenon
<1>4. InOrder(h, BeforeRel(Q, n)) /\ (InOrder(h, NearRel(S)) => InOrder(h, NearRel(Q)))
  BY <1>1, <1>2, <1>3, SameOrder, Zenon DEF ListOk
<1> QED BY <1>1, <1>4, Zenon DEF FarOk, ListOk

\* The other timers are kept for later as before.
LEMMA FarOthers ==
  ASSUME QInv, NEW t \in Slots, OverflowPending' <=> OverflowPending,
         \A u \in AllSlots : u # t => flags'[u] = flags[u] /\ mark'[u] = mark[u]
  PROVE  \A u \in AllSlots : u # t => (u \in Far' <=> u \in Far)
<1>1. OVERFLOW \in AllSlots /\ OVERFLOW # t
  BY TimerAssumption DEF AllSlots
<1>2. \A u \in AllSlots : u # t => /\ u \in Late' <=> u \in Late
                                   /\ u \in Flagged' <=> u \in Flagged
  BY <1>1, Zenon DEF Late, Flagged
<1>3. CASE OverflowPending
  <2>1. Far = Flagged /\ Far' = Flagged'
    BY <1>3, Zenon DEF Far
  <2> QED BY <1>2, <2>1
<1>4. CASE ~OverflowPending
  <2>1. Far = Late /\ Far' = Late'
    BY <1>4, Zenon DEF Far
  <2> QED BY <1>2, <2>1
<1> QED BY <1>3, <1>4

LEMMA ListDequeued ==
  ASSUME NEW h, NEW S, NEW m, ListOk(h, S, m), NEW t \in Slots
  PROVE  /\ ListOk(dequeue_timer(h, t), S, m)
         /\ FarOk(h, S, m) => FarOk(dequeue_timer(h, t), S, m)
         /\ Range(dequeue_timer(h, t)) = Range(h) \ {t}
         /\ dequeue_timer(h, t)[1] \in Range(h) \ {t}
<1> DEFINE g == dequeue_timer(h, t)
<1>1. /\ g \in Seq(AllSlots) /\ IsInjective(g) /\ Range(g) = Range(h) \ {t}
      /\ \A R : InOrder(h, R) => InOrder(g, R)
  BY DequeueKeeps DEF ListOk
<1> HIDE DEF g
<1> QED BY <1>1, TimerAssumption, FirstIs, Zenon DEF g, ListOk, FarOk

\* The first timer of the list is the next one due.
LEMMA FirstIsNext ==
  ASSUME NEW h, NEW S, NEW m, ListOk(h, S, m), FarOk(h, S, m)
  PROVE  /\ 1 \in 1..Len(h) /\ h[1] \in Range(h) /\ h[1] \notin S
         /\ m[h[1]] <= m[OVERFLOW] /\ \A t \in Range(h) : m[h[1]] <= m[t]
<1>1. h \in Seq(AllSlots) /\ OVERFLOW \in Range(h) /\ m \in [AllSlots -> Int]
      /\ OVERFLOW \in AllSlots
  BY DEF ListOk, AllSlots
<1>2. 1 \in 1..Len(h) /\ h[1] \in Range(h) /\ h[1] \in AllSlots
  BY <1>1, FirstIs
<1>3. h[1] \notin S
  <2>1. PICK p \in 1..Len(h) : h[p] = OVERFLOW
    BY <1>1, InRange
  <2>2. CASE p = 1
    BY <2>1, <2>2 DEF ListOk
  <2>3. CASE p # 1
    <3>1. <<h[1], h[p]>> \in NearRel(S)
      BY <2>3 DEF FarOk, InOrder
    <3> QED BY <1>1, <1>2, <2>1, <3>1, BeforeIs, Zenon
  <2> QED BY <2>2, <2>3
<1>4. m[h[1]] <= m[OVERFLOW]
  BY <1>2, <1>3, NearIs
<1>5. ASSUME NEW t \in Range(h) PROVE m[h[1]] <= m[t]
  <2>1. PICK i \in 1..Len(h) : h[i] = t
    BY <1>1, InRange
  <2>2. t \in AllSlots /\ m[t] \in Int /\ m[h[1]] \in Int /\ m[OVERFLOW] \in Int
    BY <1>1, InRange
  <2>3. CASE t \in S
    BY <1>4, <2>2, <2>3 DEF FarOk
  <2>4. CASE t \notin S /\ i # 1
    <3>1. <<h[1], t>> \in BeforeRel(S, m)
      BY <2>1, <2>4 DEF ListOk, InOrder
    <3>2. Before(S, m, h[1], t)
      BY <1>2, <2>2, <3>1, BeforeIs, Zenon
    <3> QED BY <1>3, <2>4, <3>2, Zenon DEF Before
  <2>5. CASE i = 1
    BY <2>1, <2>2, <2>5
  <2> QED BY <2>3, <2>4, <2>5
<1> QED BY <1>2, <1>3, <1>4, <1>5

\* What a call leaves of the first timer: the same one or a later one, or a
\* new one, of which the kernel is told.
Covered(who) ==
  \/ /\ head'[1] \in Range(head) /\ mark'[head'[1]] = mark[head'[1]]
     /\ UNCHANGED <<stamp, recalc, interrupt, recalcDec>>
  \/ /\ stamp' = mark'[head'[1]] /\ stamp' \in Int /\ now - stamp' <= 0
     /\ Tell(who)

LEMMA Basics ==
  ASSUME QInv
  PROVE  /\ TIMER_MAX \in Nat /\ MaxLate \in Nat /\ MaxLate < TIMER_MAX /\ MaxNow \in Nat
         /\ now \in Int /\ mark \in [AllSlots -> Int] /\ OVERFLOW \in AllSlots
         /\ Slots \subseteq AllSlots /\ OVERFLOW \notin Slots /\ mark[OVERFLOW] \in Int
         /\ head \in Seq(AllSlots) /\ IsInjective(head) /\ Range(head) \subseteq AllSlots
         /\ Range(inactive) \subseteq Slots /\ Range(chain) \subseteq Slots
         /\ mark[OVERFLOW] - TIMER_MAX <= now /\ OVERFLOW \notin Far
BY TimerAssumption, InRange DEF AllSlots, QInv, Typed, ListOk, Window, Fields

\* A timer that is on no list, paused or active is set for a time that is not
\* past: abs_timer, set_ptimer and resume_ptimer.
LEMMA ArmedList ==
  ASSUME QInv, NEW who \in Threads, NEW t \in Slots, NEW d \in Int, d >= now,
         OverflowPending' <=> OverflowPending,
         insert_timer(who, dequeue_timer(head, t), flags, [mark EXCEPT ![t] = d], t)
  PROVE  /\ ListOk(head', Far', mark') /\ Marked' /\ Range(head') = Range(head) \cup {t}
         /\ mark' = [mark EXCEPT ![t] = d] /\ flags' \in FlagSets
         /\ \A u \in AllSlots : u # t => flags'[u] = flags[u]
         /\ flags'[t] = flags[t] \/ flags'[t] = flags[t] \cup {"OVERFLOW"}
         /\ FarBehind => FarBehind'
         /\ Covered(who)
<1> DEFINE h == dequeue_timer(head, t)
           m == [mark EXCEPT ![t] = d]
<1>1. /\ ListOk(h, Far, mark) /\ (FarOk(head, Far, mark) => FarOk(h, Far, mark))
      /\ Range(h) = Range(head) \ {t} /\ h[1] \in Range(head) \ {t}
  BY ListDequeued DEF QInv
<1>2. /\ m \in [AllSlots -> Int] /\ m[t] = d /\ m[OVERFLOW] = mark[OVERFLOW]
      /\ \A u \in AllSlots : u # t => m[u] = mark[u]
  BY Basics, Zenon
<1> HIDE DEF m, h
<1>3. /\ flags' \in FlagSets /\ mark' = m
      /\ \A u \in AllSlots : u # t => flags'[u] = flags[u]
      /\ flags'[t] = flags[t] \/ flags'[t] = flags[t] \cup {"OVERFLOW"}
      /\ m[t] > m[OVERFLOW] => "OVERFLOW" \in flags'[t]
  BY FlagsInserted, Basics, Zenon DEF h, m, QInv, Typed
<1>4. \A u \in AllSlots : u # t => (u \in Far' <=> u \in Far)
  BY <1>2, <1>3, FarOthers, Zenon
<1>5. /\ m[t] > m[OVERFLOW] => t \in Far' /\ t \in Flagged'
      /\ ~OverflowPending' /\ t \in Far' => m[t] > m[OVERFLOW]
  BY <1>3, Basics, Zenon DEF Far, Late, Flagged
<1>6. ListOk(h, Far', m) /\ (FarOk(head, Far, mark) => FarOk(h, Far', m))
  <2>1. \A u \in Range(h) : m[u] = mark[u] /\ (u \in Far' <=> u \in Far)
    BY <1>1, <1>2, <1>4, Basics, Zenon
  <2> QED BY <1>1, <1>2, <2>1, ListOther, Zenon
<1>7. m[t] >= m[OVERFLOW] - TIMER_MAX
  BY <1>2, Basics
<1>8. /\ ListOk(head', Far', m) /\ Range(head') = Range(h) \cup {t}
      /\ (InOrder(h, NearRel(Far')) /\ (t \in Far' => m[t] > m[OVERFLOW])) =>
           InOrder(head', NearRel(Far'))
      /\ \/ head'[1] = h[1] /\ UNCHANGED <<stamp, recalc, interrupt, recalcDec>>
         \/ head'[1] = t /\ stamp' = m[t] /\ Tell(who)
  <2>1. t \notin Range(h) /\ insert_timer(who, h, flags, m, t)
    BY <1>1, Zenon DEF h, m
  <2> QED BY <1>5, <1>6, <1>7, <2>1, TimerInserted, Zenon DEF Inserted
<1>9. Marked'
  <2>1. \A u \in Range(head) : u \in AllSlots /\ (u # t /\ u \in Far => u \in Flagged')
    BY <1>3, Basics, Zenon DEF QInv, Marked, Flagged
  <2>2. t \in Far' => t \in Flagged'
    BY <1>5, Zenon DEF Far
  <2> QED BY <1>1, <1>4, <1>8, <2>1, <2>2, Zenon DEF Marked
<1>10. ASSUME FarBehind PROVE FarBehind'
  <2> SUFFICES ASSUME ~OverflowPending' PROVE FarOk(head', Far', m)
    BY <1>3, Zenon DEF FarBehind
  <2>1. FarOk(h, Far', m)
    BY <1>6, <1>10, Zenon DEF FarBehind
  <2> QED BY <1>5, <1>8, <2>1, Zenon DEF FarOk
<1>11. Covered(who)
  <2>1. CASE head'[1] = h[1] /\ UNCHANGED <<stamp, recalc, interrupt, recalcDec>>
    BY <1>1, <1>2, <1>3, <2>1, Basics, Zenon DEF Covered
  <2>2. CASE head'[1] = t /\ stamp' = m[t] /\ Tell(who)
    <3>1. d \in Int /\ now - d <= 0
      <4>1. now \in Int
        BY Basics, Zenon
      <4> QED BY <4>1
    <3> QED BY <1>2, <1>3, <2>2, <3>1, Zenon DEF Covered
  <2> QED BY <1>8, <2>1, <2>2, Zenon
<1> QED BY <1>1, <1>3, <1>8, <1>9, <1>10, <1>11, Zenon DEF m

\* pause_ptimer and new_ptimer put a timer in front of the paused ones.
LEMMA PushInactive ==
  ASSUME NEW t \in Slots, inactive \in Seq(Slots), IsInjective(inactive), t \notin Range(inactive),
         inactive' = <<t>> \o inactive
  PROVE  /\ inactive' \in Seq(Slots) /\ IsInjective(inactive')
         /\ Range(inactive') = Range(inactive) \cup {t}
BY PushKeeps, Zenon

LEMMA Parts ==
  ASSUME QInv
  PROVE  /\ IsInjective(inactive) /\ IsInjective(chain)
         /\ inactive \in Seq(Slots) /\ chain \in Seq(Slots) /\ free \subseteq Slots
         /\ \A t \in AllSlots : /\ t \in Range(head) \/ t \in Range(inactive)
                                   \/ t \in Range(chain) \/ t \in free
                                /\ t \in Range(head) => t \notin Range(inactive)
                                   /\ t \notin Range(chain) /\ t \notin free
                                /\ t \in Range(inactive) => t \notin Range(chain) /\ t \notin free
                                /\ t \in Range(chain) => t \notin free
BY DEF QInv, OneList, Typed, Active

\* The lists and the free slots have no slot in common and leave none out.
Apart(H, I, C, F) ==
  /\ H \cap I = {} /\ (H \cup C) \cap F = {} /\ H \cap C = {} /\ I \cap (C \cup F) = {}
  /\ (H \cup C) \cup I \cup F = AllSlots

LEMMA ListsApart ==
  ASSUME QInv
  PROVE  /\ Apart(Range(head), Range(inactive), Range(chain), free)
         /\ IsInjective(chain) /\ OVERFLOW \in Range(head)
BY Zenon DEF QInv, OneList, Active, Apart

LEMMA ApartLists ==
  ASSUME IsInjective(head'), IsInjective(inactive'), IsInjective(chain'),
         OVERFLOW \in Range(head'), Apart(Range(head'), Range(inactive'), Range(chain'), free')
  PROVE  OneList'
BY Zenon DEF OneList, Active, Apart

\* A slot that is not collected goes to the active list, is freed, or is paused.
LEMMA MovesApart ==
  ASSUME QInv, NEW t \in AllSlots, t \notin Range(chain),
         \/ /\ Range(head') = Range(head) \cup {t} /\ Range(inactive') = Range(inactive) \ {t}
            /\ free' = free \ {t}
         \/ /\ Range(head') = Range(head) \ {t} /\ Range(inactive') = Range(inactive) \ {t}
            /\ free' = free \cup {t}
         \/ /\ t \in Range(head) /\ Range(head') = Range(head) \ {t}
            /\ Range(inactive') = Range(inactive) \cup {t} /\ free' = free
         \/ /\ t \in free /\ Range(head') = Range(head)
            /\ Range(inactive') = Range(inactive) \cup {t} /\ free' = free \ {t}
  PROVE  Apart(Range(head'), Range(inactive'), Range(chain), free')
<1>1. Apart(Range(head), Range(inactive), Range(chain), free)
  BY ListsApart, Zenon
<1> QED BY <1>1 DEF Apart

\* abs_timer, set_ptimer and resume_ptimer on the queue
LEMMA ArmKeepsQueue ==
  ASSUME QInv, NEW who \in Threads, NEW t \in Slots, t \notin Range(chain),
         NEW d \in Int, d >= now, OverflowPending' <=> OverflowPending,
         insert_timer(who, dequeue_timer(head, t), flags, [mark EXCEPT ![t] = d], t),
         UNCHANGED <<now, chain>>, inactive' = dequeue_timer(inactive, t), free' = free \ {t},
         period' \in [AllSlots -> Nat], "PERIODIC" \in flags[t] => period'[t] # 0,
         gen' \in [AllSlots -> 0..MaxIds], gen'[t] # 0,
         \A u \in AllSlots : u # t => period'[u] = period[u] /\ gen'[u] = gen[u]
  PROVE  QInv'
<1>1. /\ ListOk(head', Far', mark') /\ Marked' /\ Range(head') = Range(head) \cup {t}
      /\ mark' = [mark EXCEPT ![t] = d] /\ flags' \in FlagSets
      /\ \A u \in AllSlots : u # t => flags'[u] = flags[u]
      /\ flags'[t] = flags[t] \/ flags'[t] = flags[t] \cup {"OVERFLOW"}
  BY ArmedList
<1>2. /\ inactive' \in Seq(Slots) /\ IsInjective(inactive')
      /\ Range(inactive') = Range(inactive) \ {t}
  BY Parts, DequeueKeeps, Zenon
<1>3. OneList'
  <2>1. Apart(Range(head'), Range(inactive'), Range(chain), free')
    BY <1>1, <1>2, Basics, MovesApart, Zenon
  <2>2. IsInjective(head') /\ IsInjective(chain') /\ OVERFLOW \in Range(head')
    BY <1>1, ListsApart, Zenon DEF ListOk
  <2> QED BY <1>2, <2>1, <2>2, ApartLists, Zenon
<1>4. Window'
  <2>1. d >= mark[OVERFLOW] - TIMER_MAX /\ now - d <= MaxLate
    <3>1. /\ now \in Int /\ mark[OVERFLOW] \in Int /\ TIMER_MAX \in Nat /\ MaxLate \in Nat
          /\ mark[OVERFLOW] - TIMER_MAX <= now
      BY Basics, Zenon
    <3> QED BY <3>1
  <2> QED BY <1>1, <2>1, Basics, Zenon DEF Window, Active, QInv
<1>5. Fields'
  <2>1. Fields /\ FlagSets = [AllSlots -> SUBSET {"PERIODIC", "AUTORESUME", "OVERFLOW"}]
    BY Zenon DEF QInv, FlagSets
  <2>2. Range(head) \subseteq AllSlots /\ Range(inactive) \subseteq AllSlots
        /\ Range(chain) \subseteq AllSlots /\ free \subseteq AllSlots /\ OVERFLOW \in AllSlots
    BY Basics, Parts, Zenon
  <2>3. /\ flags'[OVERFLOW] = {"PERIODIC", "AUTORESUME"}
        /\ period'[OVERFLOW] = TIMER_MAX /\ gen'[OVERFLOW] = 1
    BY <1>1, <2>1, <2>2, Basics, Zenon DEF Fields
  <2>4. \A u \in Range(inactive') : "PERIODIC" \in flags'[u]
    BY <1>1, <1>2, <2>1, <2>2, Zenon DEF Fields
  <2>5. \A u \in free' : flags'[u] = {}
    BY <1>1, <2>1, <2>2, Zenon DEF Fields
  <2>6. \A u \in Active' : "PERIODIC" \in flags'[u] => period'[u] # 0
    BY <1>1, <2>1, <2>2, Zenon DEF Fields, Active
  <2>7. \A u \in AllSlots : "AUTORESUME" \in flags'[u] => "PERIODIC" \in flags'[u]
    BY <1>1, <2>1, Zenon DEF Fields
  <2>8. \A u \in Range(chain') : "OVERFLOW" \in flags'[u]
    BY <1>1, <2>1, <2>2, Zenon DEF Fields
  <2>9. \A u \in Slots : u \notin free' => gen'[u] # 0
    BY <2>1, Basics, Zenon DEF Fields
  <2> QED BY <2>3, <2>4, <2>5, <2>6, <2>7, <2>8, <2>9, Zenon DEF Fields
<1> QED BY <1>1, <1>2, <1>3, <1>4, <1>5, Zenon DEF QInv, Typed

\* A timer leaves the list.
LEMMA LeftList ==
  ASSUME QInv, NEW t \in Slots, head' = dequeue_timer(head, t), mark' \in [AllSlots -> Int],
         OverflowPending' <=> OverflowPending,
         \A u \in AllSlots : u # t => flags'[u] = flags[u] /\ mark'[u] = mark[u]
  PROVE  /\ ListOk(head', Far', mark') /\ Marked' /\ Range(head') = Range(head) \ {t}
         /\ FarBehind => FarBehind'
         /\ head'[1] \in Range(head) /\ mark'[head'[1]] = mark[head'[1]]
<1>1. /\ ListOk(head', Far, mark) /\ (FarOk(head, Far, mark) => FarOk(head', Far, mark))
      /\ Range(head') = Range(head) \ {t} /\ head'[1] \in Range(head) \ {t}
  BY ListDequeued DEF QInv
<1>2. \A u \in Range(head') : /\ mark'[u] = mark[u] /\ (u \in Far' <=> u \in Far)
                              /\ u \in Flagged' <=> u \in Flagged
  <2>1. \A u \in AllSlots : u # t => (u \in Far' <=> u \in Far)
    BY FarOthers, Zenon
  <2> QED BY <1>1, <2>1, Basics, Zenon DEF Flagged
<1>3. ListOk(head', Far', mark') /\ (FarOk(head', Far, mark) => FarOk(head', Far', mark'))
  BY <1>1, <1>2, ListOther, Zenon
<1>4. Marked'
  BY <1>1, <1>2, Zenon DEF Marked, QInv
<1>5. FarBehind => FarBehind'
  BY <1>1, <1>3, Zenon DEF FarBehind
<1> QED BY <1>1, <1>3, <1>4, <1>5, Basics, Zenon

\* cancel_timer, free_ptimer, and the one-shot timers of rvec_timer
LEMMA FreeKeepsQueue ==
  ASSUME QInv, NEW t \in Slots, t \notin Range(chain), head' = dequeue_timer(head, t),
         inactive' = dequeue_timer(inactive, t), free' = free \cup {t}, AtRest(t),
         UNCHANGED <<now, gen, chain>>, OverflowPending' <=> OverflowPending
  PROVE  /\ QInv' /\ (FarBehind => FarBehind')
         /\ head'[1] \in Range(head) /\ mark'[head'[1]] = mark[head'[1]]
<1>1. t \in AllSlots /\ t # OVERFLOW
  BY Basics
<1>2. /\ mark' \in [AllSlots -> Int] /\ flags' \in FlagSets /\ period' \in [AllSlots -> Nat]
      /\ flags'[t] = {}
      /\ \A u \in AllSlots : u # t => /\ flags'[u] = flags[u] /\ mark'[u] = mark[u]
                                      /\ period'[u] = period[u]
  <2>1. mark \in [AllSlots -> Int] /\ period \in [AllSlots -> Nat]
        /\ flags \in [AllSlots -> SUBSET {"PERIODIC", "AUTORESUME", "OVERFLOW"}]
    BY Basics, Zenon DEF QInv, Typed, FlagSets
  <2>2. /\ flags' = [flags EXCEPT ![t] = {}] /\ mark' = [mark EXCEPT ![t] = 0]
        /\ period' = [period EXCEPT ![t] = 0]
    BY Zenon DEF AtRest
  <2> QED BY <1>1, <2>1, <2>2 DEF FlagSets
<1>3. /\ ListOk(head', Far', mark') /\ Marked' /\ Range(head') = Range(head) \ {t}
      /\ FarBehind => FarBehind'
      /\ head'[1] \in Range(head) /\ mark'[head'[1]] = mark[head'[1]]
  BY <1>2, LeftList, Zenon
<1>4. /\ inactive' \in Seq(Slots) /\ IsInjective(inactive')
      /\ Range(inactive') = Range(inactive) \ {t}
  BY Parts, DequeueKeeps, Zenon
<1>5. OneList'
  <2>1. Apart(Range(head'), Range(inactive'), Range(chain), free')
    BY <1>1, <1>3, <1>4, MovesApart, Zenon
  <2>2. IsInjective(head') /\ IsInjective(chain') /\ OVERFLOW \in Range(head')
    BY <1>1, <1>3, ListsApart, Zenon DEF ListOk
  <2> QED BY <1>4, <2>1, <2>2, ApartLists, Zenon
<1>6. Fields'
  <2>1. Fields
    BY DEF QInv
  <2>2. Range(head) \subseteq AllSlots /\ Range(inactive) \subseteq AllSlots
        /\ Range(chain) \subseteq AllSlots /\ free \subseteq AllSlots /\ OVERFLOW \in AllSlots
    BY Basics, Parts, Zenon
  <2>3. /\ flags'[OVERFLOW] = {"PERIODIC", "AUTORESUME"}
        /\ period'[OVERFLOW] = TIMER_MAX /\ gen'[OVERFLOW] = 1
    BY <1>1, <1>2, <2>1, <2>2, Zenon DEF Fields
  <2>4. \A u \in Range(inactive') : "PERIODIC" \in flags'[u]
    BY <1>2, <1>4, <2>1, <2>2, Zenon DEF Fields
  <2>5. \A u \in free' : flags'[u] = {}
    BY <1>2, <2>1, <2>2, Zenon DEF Fields
  <2>6. \A u \in Active' : "PERIODIC" \in flags'[u] => period'[u] # 0
    BY <1>2, <1>3, <2>1, <2>2, Zenon DEF Fields, Active
  <2>7. \A u \in AllSlots : "AUTORESUME" \in flags'[u] => "PERIODIC" \in flags'[u]
    BY <1>2, <2>1, Zenon DEF Fields
  <2>8. \A u \in Range(chain') : "OVERFLOW" \in flags'[u]
    BY <1>2, <2>1, <2>2, Zenon DEF Fields
  <2> QED BY <2>1, <2>3, <2>4, <2>5, <2>6, <2>7, <2>8, Zenon DEF Fields
<1> QED BY <1>2, <1>3, <1>4, <1>5, <1>6, Basics, Zenon DEF QInv, Typed, Active, Window

\* pause_ptimer, and the periodic timers of rvec_timer that do not restart
LEMMA PauseKeepsQueue ==
  ASSUME QInv, NEW t \in Slots, t \in Range(head), "PERIODIC" \in flags[t],
         head' = dequeue_timer(head, t), inactive' = <<t>> \o inactive,
         UNCHANGED <<now, free, mark, period, flags, gen, chain>>,
         OverflowPending' <=> OverflowPending
  PROVE  /\ QInv' /\ (FarBehind => FarBehind')
         /\ head'[1] \in Range(head) /\ mark'[head'[1]] = mark[head'[1]]
<1>1. t \in AllSlots /\ t # OVERFLOW /\ mark' \in [AllSlots -> Int]
  BY Basics, Zenon
<1>2. /\ ListOk(head', Far', mark') /\ Marked' /\ Range(head') = Range(head) \ {t}
      /\ FarBehind => FarBehind'
      /\ head'[1] \in Range(head) /\ mark'[head'[1]] = mark[head'[1]]
  BY <1>1, LeftList, Zenon
<1>3. /\ inactive' \in Seq(Slots) /\ IsInjective(inactive')
      /\ Range(inactive') = Range(inactive) \cup {t}
  <2>1. inactive \in Seq(Slots) /\ IsInjective(inactive) /\ t \notin Range(inactive)
    BY <1>1, Parts, Zenon
  <2> QED BY <2>1, PushInactive, Zenon
<1>4. OneList'
  <2>1. t \notin Range(chain)
    BY <1>1, Parts, Zenon
  <2>2. Apart(Range(head'), Range(inactive'), Range(chain), free')
    BY <1>1, <1>2, <1>3, <2>1, MovesApart, Zenon
  <2>3. IsInjective(head') /\ IsInjective(chain') /\ OVERFLOW \in Range(head')
    BY <1>1, <1>2, ListsApart, Zenon DEF ListOk
  <2> QED BY <1>3, <2>2, <2>3, ApartLists, Zenon
<1> QED BY <1>2, <1>3, <1>4, Zenon DEF QInv, Typed, Window, Fields, Active

\* A slot is taken for a periodic timer that is not set yet.
LEMMA NewKeepsQueue ==
  ASSUME QInv, NEW t \in free, NEW a \in SUBSET {"AUTORESUME"},
         flags' = [flags EXCEPT ![t] = {"PERIODIC"} \cup a], inactive' = <<t>> \o inactive,
         free' = free \ {t}, gen' \in [AllSlots -> 0..MaxIds], gen'[t] # 0,
         \A u \in AllSlots : u # t => gen'[u] = gen[u],
         UNCHANGED <<now, head, mark, period, chain>>, OverflowPending' <=> OverflowPending
  PROVE  QInv' /\ (FarBehind => FarBehind')
<1>1. /\ t \in AllSlots /\ t # OVERFLOW /\ t \in Slots /\ mark' \in [AllSlots -> Int]
      /\ t \notin Range(head) /\ t \notin Range(inactive) /\ t \notin Range(chain)
  BY Basics, Parts, Zenon
<1>2. /\ flags' \in FlagSets /\ flags'[t] = {"PERIODIC"} \cup a
      /\ \A u \in AllSlots : u # t => flags'[u] = flags[u]
  BY <1>1, Zenon DEF QInv, Typed, FlagSets
<1>3. ListOk(head', Far', mark') /\ Marked' /\ (FarBehind => FarBehind')
  <2>1. head = dequeue_timer(head, t)
    BY <1>1, Zenon DEF dequeue_timer
  <2> QED BY <1>1, <1>2, <2>1, LeftList, Zenon
<1>4. /\ inactive' \in Seq(Slots) /\ IsInjective(inactive')
      /\ Range(inactive') = Range(inactive) \cup {t}
  <2>1. inactive \in Seq(Slots) /\ IsInjective(inactive)
    BY Parts, Zenon
  <2> QED BY <1>1, <2>1, PushInactive, Zenon
<1>5. OneList'
  <2>1. Apart(Range(head'), Range(inactive'), Range(chain), free')
    BY <1>1, <1>4, MovesApart, Zenon
  <2>2. IsInjective(head') /\ IsInjective(chain') /\ OVERFLOW \in Range(head')
    BY <1>3, ListsApart, Zenon DEF ListOk
  <2> QED BY <1>4, <2>1, <2>2, ApartLists, Zenon
<1>6. Fields'
  <2>1. Fields
    BY DEF QInv
  <2>2. Range(head) \subseteq AllSlots /\ Range(inactive) \subseteq AllSlots
        /\ Range(chain) \subseteq AllSlots /\ free \subseteq AllSlots /\ OVERFLOW \in AllSlots
    BY Basics, Parts, Zenon
  <2>3. /\ flags'[OVERFLOW] = {"PERIODIC", "AUTORESUME"}
        /\ period'[OVERFLOW] = TIMER_MAX /\ gen'[OVERFLOW] = 1
    BY <1>1, <1>2, <2>1, <2>2, Zenon DEF Fields
  <2>4. \A u \in Range(inactive') : "PERIODIC" \in flags'[u]
    <3>1. "PERIODIC" \in flags'[t]
      BY <1>2
    <3> QED BY <1>2, <1>4, <2>1, <2>2, <3>1, Zenon DEF Fields
  <2>5. \A u \in free' : flags'[u] = {}
    BY <2>1 DEF Fields
  <2>6. \A u \in Active' : "PERIODIC" \in flags'[u] => period'[u] # 0
    BY <1>1, <2>1 DEF Fields, Active
  <2>7. \A u \in AllSlots : "AUTORESUME" \in flags'[u] => "PERIODIC" \in flags'[u]
    BY <2>1 DEF Fields
  <2>8. \A u \in Range(chain') : "OVERFLOW" \in flags'[u]
    BY <2>1 DEF Fields
  <2>9. \A u \in Slots : u \notin free' => gen'[u] # 0
    BY <2>1, Basics, Zenon DEF Fields
  <2> QED BY <2>3, <2>4, <2>5, <2>6, <2>7, <2>8, <2>9, Zenon DEF Fields
<1> QED BY <1>2, <1>3, <1>5, <1>6 DEF QInv, Typed, Window, Active

-----------------------------------------------------------------------------
(* The calls of the interface.                                             *)

LEMMA CallPending ==
  ASSUME Local
  PROVE  OverflowPending' <=> OverflowPending
BY DEF Local, OverflowPending

\* Whatever a call does to the list, the stamp covers it afterwards.
LEMMA CallKeeps ==
  ASSUME TInv, NEW who \in Threads, CanCall(who), Local, QInv',
         FarBehind => FarBehind', Covered(who)
  PROVE  TInv'
<1>1. /\ UNCHANGED <<now, intStamp, mpc, call, chain, tp>> /\ mpc \notin {"collect", "sort"}
      /\ (mpc = "recalc" => who # "main")
  BY DEF Local, locals, CanCall
<1>2. FarBehind'
  BY DEF TInv
<1>3. Handling'
  BY <1>1 DEF TInv, Handling
<1>4. ASSUME mpc \in {"user", "guest", "recalc"}
      PROVE  FarOk(head, Far, mark) /\ mark[head[1]] \in Int
             /\ \A t \in Range(head) : mark[head[1]] <= mark[t] /\ mark[t] \in Int
  BY <1>4, FirstIsNext, Basics, Zenon DEF TInv, FarBehind, OverflowPending, QInv
<1>5. CASE /\ head'[1] \in Range(head) /\ mark'[head'[1]] = mark[head'[1]]
           /\ UNCHANGED <<stamp, recalc, interrupt, recalcDec>>
  BY <1>1, <1>2, <1>3, <1>4, <1>5 DEF TInv, Stamps, Told
<1>6. CASE /\ stamp' = mark'[head'[1]] /\ stamp' \in Int /\ now - stamp' <= 0
           /\ Tell(who)
  <2>1. /\ {recalc', interrupt', recalcDec'} \subseteq BOOLEAN
        /\ recalcDec' = TRUE \/ (recalc' = TRUE /\ interrupt' = TRUE /\ recalcDec' = recalcDec)
        /\ who # "main" => recalcDec' = recalcDec
    BY <1>6, Zenon DEF Tell, TInv, Stamps
  <2>2. Stamps'
    <3>1. QInv /\ Stamps
      BY DEF TInv
    <3>2. TIMER_MAX \in Nat /\ now \in Int /\ stamp' \in Int
      BY <1>6, <3>1, Basics, Zenon
    <3> QED BY <1>1, <1>6, <2>1, <3>1, <3>2 DEF Stamps
  <2> QED BY <1>1, <1>2, <1>3, <2>1, <2>2, Zenon DEF TInv, Told
<1> QED BY <1>5, <1>6 DEF Covered

LEMMA NewTimer ==
  ASSUME QInv, NEW t, new_timer(t)
  PROVE  /\ t \in free /\ t \in Slots /\ free' = free \ {t}
         /\ gen' \in [AllSlots -> 0..MaxIds] /\ gen'[t] # 0 /\ gen'[t] = gen[t] + 1
         /\ \A u \in AllSlots : u # t => gen'[u] = gen[u]
<1>1. t \in free /\ free' = free \ {t} /\ gen' = NewId(t) /\ gen[t] < MaxIds
  BY DEF new_timer
<1>2. t \in Slots /\ t \in AllSlots /\ gen \in [AllSlots -> 0..MaxIds] /\ MaxIds \in Nat
  BY <1>1, Basics, TimerAssumption, Zenon DEF QInv, Typed
<1> QED BY <1>1, <1>2 DEF NewId

LEMMA AbsTimerStep ==
  ASSUME TInv, NEW who \in Threads, NEW d \in Delays, abs_timer(who, d)
  PROVE  TInv'
<1>1. PICK t \in Slots :
        /\ new_timer(t)
        /\ insert_timer(who, head, flags, [mark EXCEPT ![t] = now + d], t)
  BY Zenon DEF abs_timer
<1>2. CanCall(who) /\ Local /\ UNCHANGED <<inactive, period>> /\ UNCHANGED <<now, chain>>
  BY DEF abs_timer, Local, locals
<1>3. QInv
  BY DEF TInv
<1>4. /\ t \in free /\ free' = free \ {t} /\ t \in AllSlots
      /\ gen' \in [AllSlots -> 0..MaxIds] /\ gen'[t] # 0
      /\ \A u \in AllSlots : u # t => gen'[u] = gen[u]
  BY <1>1, <1>3, NewTimer, Basics, Zenon
<1>5. t \notin Range(head) /\ t \notin Range(inactive) /\ t \notin Range(chain)
  BY <1>3, <1>4, Parts, Zenon
<1>6. head = dequeue_timer(head, t) /\ inactive = dequeue_timer(inactive, t)
  BY <1>5, Zenon DEF dequeue_timer
<1>7. now + d \in Int /\ now + d >= now
  BY <1>3, Basics, TimerAssumption
<1>8. flags[t] = {} /\ (OverflowPending' <=> OverflowPending)
  BY <1>2, <1>3, <1>4, CallPending, Zenon DEF QInv, Fields
<1>9. insert_timer(who, dequeue_timer(head, t), flags, [mark EXCEPT ![t] = now + d], t)
  BY <1>1, <1>6
<1>10. (FarBehind => FarBehind') /\ Covered(who)
  BY <1>3, <1>7, <1>8, <1>9, ArmedList, Zenon
<1>11. QInv'
  BY <1>2, <1>3, <1>4, <1>5, <1>6, <1>7, <1>8, <1>9, ArmKeepsQueue, Zenon DEF QInv, Typed
<1> QED BY <1>2, <1>10, <1>11, CallKeeps, Zenon

LEMMA NewPtimerStep ==
  ASSUME TInv, NEW who \in Threads, NEW a \in SUBSET {"AUTORESUME"}, new_ptimer(who, a)
  PROVE  TInv'
BY NewTimer, NewKeepsQueue, FirstIs, CallPending, CallKeeps, Zenon DEF new_ptimer, Local, locals, TInv, QInv,
   ListOk, Covered

LEMMA NamedSlot ==
  ASSUME QInv, NEW i \in Issued, OnHead(i) \/ OnInactive(i)
  PROVE  /\ i[1] \in Slots /\ i[1] \in AllSlots /\ i[1] \notin Range(chain)
         /\ i[1] \notin free /\ Id(i[1]) = i /\ gen[i[1]] # 0
         /\ OnHead(i) => i[1] \in Range(head) /\ i[1] \notin Range(inactive)
BY Basics, Parts, Zenon DEF Issued, Ids, OnHead, OnInactive, BehindOverflow, QInv, Fields

LEMMA CancelTimerStep ==
  ASSUME TInv, NEW who \in Threads, NEW i \in Issued, cancel_timer(who, i)
  PROVE  TInv'
<1> DEFINE t == i[1]
<1>1. /\ CanCall(who) /\ OnHead(i) /\ Local /\ head' = dequeue_timer(head, t)
      /\ free' = free \cup {t} /\ AtRest(t) /\ UNCHANGED inactive
      /\ UNCHANGED <<now, gen, chain>> /\ UNCHANGED <<stamp, recalc, interrupt, recalcDec>>
  BY DEF cancel_timer, Local, locals
<1>2. QInv
  BY DEF TInv
<1>3. t \in Slots /\ t \notin Range(chain) /\ t \notin Range(inactive)
  BY <1>1, <1>2, NamedSlot, Zenon
<1> HIDE DEF t
<1> QED BY <1>1, <1>2, <1>3, FreeKeepsQueue, CallPending, CallKeeps, Zenon DEF Covered, dequeue_timer

LEMMA FreePtimerStep ==
  ASSUME TInv, NEW who \in Threads, NEW i \in Issued, free_ptimer(who, i)
  PROVE  TInv'
<1> DEFINE t == i[1]
<1>1. /\ CanCall(who) /\ (OnHead(i) \/ OnInactive(i)) /\ Local
      /\ head' = dequeue_timer(head, t) /\ inactive' = dequeue_timer(inactive, t)
      /\ free' = free \cup {t} /\ AtRest(t)
      /\ UNCHANGED <<now, gen, chain>> /\ UNCHANGED <<stamp, recalc, interrupt, recalcDec>>
  BY DEF free_ptimer, Local, locals
<1>2. QInv
  BY DEF TInv
<1>3. t \in Slots /\ t \notin Range(chain)
  BY <1>1, <1>2, NamedSlot, Zenon
<1> HIDE DEF t
<1> QED BY <1>1, <1>2, <1>3, FreeKeepsQueue, CallPending, CallKeeps, Zenon DEF Covered

LEMMA PausePtimerStep ==
  ASSUME TInv, NEW who \in Threads, NEW i \in Issued, pause_ptimer(who, i)
  PROVE  TInv'
<1> DEFINE t == i[1]
<1>1. /\ CanCall(who) /\ OnHead(i) /\ Local /\ head' = dequeue_timer(head, t)
      /\ inactive' = <<t>> \o inactive /\ "PERIODIC" \in flags[t]
      /\ UNCHANGED <<now, free, mark, period, flags, gen, chain>>
      /\ UNCHANGED <<stamp, recalc, interrupt, recalcDec>>
  BY DEF pause_ptimer, Local, locals, Periodic
<1>2. QInv
  BY DEF TInv
<1>3. t \in Slots /\ t \in Range(head)
  BY <1>1, <1>2, NamedSlot, Zenon
<1> HIDE DEF t
<1> QED BY <1>1, <1>2, <1>3, PauseKeepsQueue, CallPending, CallKeeps, Zenon DEF Covered

LEMMA SetPtimerStep ==
  ASSUME TInv, NEW who \in Threads, NEW i \in Issued, NEW p \in Periods,
         set_ptimer(who, i, p)
  PROVE  TInv'
<1> DEFINE t == i[1]
<1>1. /\ CanCall(who) /\ (OnHead(i) \/ OnInactive(i)) /\ Local
      /\ insert_timer(who, dequeue_timer(head, t), flags, [mark EXCEPT ![t] = now + p], t)
      /\ inactive' = dequeue_timer(inactive, t)
      /\ period' = [period EXCEPT ![t] = p] /\ UNCHANGED <<free, gen>> /\ UNCHANGED <<now, chain>>
  BY DEF set_ptimer, Local, locals
<1>2. QInv
  BY DEF TInv
<1>3. t \in Slots /\ t \in AllSlots /\ t \notin Range(chain) /\ t \notin free /\ gen[t] # 0
  BY <1>1, <1>2, NamedSlot, Zenon
<1> HIDE DEF t
<1>4. p \in Nat /\ p # 0 /\ now + p \in Int /\ now + p >= now
  BY <1>2, Basics, TimerAssumption
<1>5. QInv'
  BY <1>1, <1>2, <1>3, <1>4, ArmKeepsQueue, CallPending, Zenon DEF QInv, Typed
<1> QED BY <1>1, <1>2, <1>3, <1>4, <1>5, ArmedList, CallPending, CallKeeps, Zenon

LEMMA ResumePtimerStep ==
  ASSUME TInv, NEW who \in Threads, NEW i \in Issued, resume_ptimer(who, i)
  PROVE  TInv'
<1> DEFINE t == i[1]
           d == NextTime(mark[t], period[t])
<1>1. /\ CanCall(who) /\ OnInactive(i) /\ Local
      /\ insert_timer(who, dequeue_timer(head, t), flags, [mark EXCEPT ![t] = d], t)
      /\ inactive' = dequeue_timer(inactive, t)
      /\ period[t] # 0 /\ UNCHANGED <<free, period, gen>> /\ UNCHANGED <<now, chain>>
  BY DEF resume_ptimer, Local, locals
<1>2. QInv
  BY DEF TInv
<1>3. t \in Slots /\ t \in AllSlots /\ t \notin Range(chain) /\ t \notin free /\ gen[t] # 0
  BY <1>1, <1>2, NamedSlot, Zenon
<1> HIDE DEF t
<1>4. d \in Int /\ d >= now
  <2>1. mark[t] \in Int /\ period[t] \in Nat \ {0} /\ now \in Int
    BY <1>1, <1>2, <1>3, Basics, Zenon DEF QInv, Typed
  <2> QED BY <2>1, NextTimes
<1> HIDE DEF d
<1>5. QInv'
  BY <1>1, <1>2, <1>3, <1>4, ArmKeepsQueue, CallPending, Zenon DEF QInv, Typed
<1> QED BY <1>1, <1>2, <1>3, <1>4, <1>5, ArmedList, CallPending, CallKeeps, Zenon
=============================================================================
