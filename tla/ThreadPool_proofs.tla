-------------------------- MODULE ThreadPool_proofs --------------------------
(***************************************************************************)
(* Proofs about ThreadPool for any number of callers, jobs and bytes of    *)
(* the cleanup: a worker that is told to take a record finds one, records  *)
(* are neither lost nor shared, and no job is started twice.               *)
(***************************************************************************)
EXTENDS ThreadPool, FiniteSetTheorems, SequenceTheorems, TLAPS

-----------------------------------------------------------------------------
(* Stacks and the pipe as sequences.                                       *)

Distinct(s) == \A i, j \in DOMAIN s : s[i] = s[j] => i = j

\* Pushing an element onto a stack adds it to the elements.
LEMMA Push ==
  ASSUME NEW S, NEW s \in Seq(S), NEW r \in S
  PROVE  /\ <<r>> \o s \in Seq(S) /\ Len(<<r>> \o s) = Len(s) + 1
         /\ Elems(<<r>> \o s) = Elems(s) \cup {r}
         /\ Distinct(s) /\ r \notin Elems(s) => Distinct(<<r>> \o s)
<1> DEFINE t == <<r>> \o s
<1>1. t \in Seq(S) /\ Len(t) = Len(s) + 1 /\ t[1] = r
      /\ \A i \in 1..Len(s) : t[i + 1] = s[i]
  OBVIOUS
<1>2. DOMAIN t = 1..(Len(s) + 1) /\ DOMAIN s = 1..Len(s) /\ Len(s) \in Nat
  BY <1>1
<1>3. \A i \in DOMAIN t : i = 1 \/ (i - 1 \in DOMAIN s /\ t[i] = s[i - 1])
  BY <1>1, <1>2
<1> HIDE DEF t
<1>4. Elems(t) = Elems(s) \cup {r}
  <2>1. ASSUME NEW x \in Elems(t) PROVE x \in Elems(s) \cup {r}
    BY <2>1, <1>1, <1>3 DEF Elems
  <2>2. ASSUME NEW x \in Elems(s) PROVE x \in Elems(t)
    <3>1. PICK i \in DOMAIN s : x = s[i]
      BY <2>2 DEF Elems
    <3>2. i + 1 \in DOMAIN t /\ t[i + 1] = x
      BY <3>1, <1>1, <1>2
    <3> QED BY <3>2 DEF Elems
  <2>3. r \in Elems(t)
    <3>1. 1 \in DOMAIN t
      BY <1>2
    <3> QED BY <3>1, <1>1 DEF Elems
  <2> QED BY <2>1, <2>2, <2>3
<1>5. ASSUME Distinct(s), r \notin Elems(s) PROVE Distinct(t)
  <2> SUFFICES ASSUME NEW i \in DOMAIN t, NEW j \in DOMAIN t, t[i] = t[j]
               PROVE  i = j
    BY DEF Distinct
  <2>1. \A k \in DOMAIN s : s[k] # r
    BY <1>5 DEF Elems
  <2>2. CASE i = 1 \/ j = 1
    BY <2>1, <2>2, <1>1, <1>3
  <2>3. CASE i # 1 /\ j # 1
    <3>1. i - 1 = j - 1
      BY <2>3, <1>3, <1>5 DEF Distinct
    <3> QED BY <3>1, <1>2
  <2> QED BY <2>2, <2>3
<1> QED BY <1>1, <1>4, <1>5 DEF t

\* Popping takes the top, and nothing else, off the stack.
LEMMA Pop ==
  ASSUME NEW S, NEW s \in Seq(S), s # <<>>
  PROVE  /\ Head(s) \in S /\ Tail(s) \in Seq(S) /\ Len(Tail(s)) = Len(s) - 1
         /\ Elems(s) = Elems(Tail(s)) \cup {Head(s)}
         /\ Distinct(s) => Distinct(Tail(s)) /\ Head(s) \notin Elems(Tail(s))
<1> DEFINE t == Tail(s)
<1>1. /\ Head(s) \in S /\ t \in Seq(S) /\ Len(t) = Len(s) - 1
      /\ \A i \in 1..Len(t) : t[i] = s[i + 1]
  BY HeadTailProperties
<1>2. /\ DOMAIN t = 1..(Len(s) - 1) /\ DOMAIN s = 1..Len(s) /\ Len(s) \in Nat
      /\ Len(s) >= 1 /\ Head(s) = s[1]
  BY <1>1, EmptySeq
<1> HIDE DEF t
<1>3. Elems(s) = Elems(t) \cup {Head(s)}
  <2>1. ASSUME NEW x \in Elems(s), x # Head(s) PROVE x \in Elems(t)
    <3>1. PICK i \in DOMAIN s : x = s[i]
      BY <2>1 DEF Elems
    <3>2. i - 1 \in DOMAIN t /\ t[i - 1] = x
      BY <2>1, <3>1, <1>1, <1>2
    <3> QED BY <3>2 DEF Elems
  <2>2. ASSUME NEW x \in Elems(t) PROVE x \in Elems(s)
    <3>1. PICK i \in DOMAIN t : x = t[i]
      BY <2>2 DEF Elems
    <3>2. i + 1 \in DOMAIN s /\ s[i + 1] = x
      BY <3>1, <1>1, <1>2
    <3> QED BY <3>2 DEF Elems
  <2>3. Head(s) \in Elems(s)
    <3>1. 1 \in DOMAIN s
      BY <1>2
    <3> QED BY <3>1, <1>2 DEF Elems
  <2> QED BY <2>1, <2>2, <2>3
<1>4. ASSUME Distinct(s) PROVE Distinct(t) /\ Head(s) \notin Elems(t)
  <2>1. \A i \in DOMAIN t : i + 1 \in DOMAIN s /\ t[i] = s[i + 1] /\ i + 1 # 1
    BY <1>1, <1>2
  <2>2. Distinct(t)
    BY <1>4, <2>1, <1>2 DEF Distinct
  <2>3. \A i \in DOMAIN t : t[i] # Head(s)
    BY <1>4, <2>1, <1>2 DEF Distinct
  <2> QED BY <2>2, <2>3 DEF Elems
<1> QED BY <1>1, <1>3, <1>4 DEF t

\* Appending adds the element at the end.
LEMMA Put ==
  ASSUME NEW S, NEW s \in Seq(S), NEW r \in S
  PROVE  /\ Append(s, r) \in Seq(S) /\ Len(Append(s, r)) = Len(s) + 1
         /\ Elems(Append(s, r)) = Elems(s) \cup {r}
         /\ Distinct(s) /\ r \notin Elems(s) => Distinct(Append(s, r))
<1> DEFINE t == Append(s, r)
<1>1. /\ t \in Seq(S) /\ Len(t) = Len(s) + 1 /\ t[Len(s) + 1] = r
      /\ \A i \in 1..Len(s) : t[i] = s[i]
  BY AppendProperties
<1>2. DOMAIN t = 1..(Len(s) + 1) /\ DOMAIN s = 1..Len(s) /\ Len(s) \in Nat
  BY <1>1
<1> HIDE DEF t
<1>3. /\ DOMAIN t = DOMAIN s \cup {Len(s) + 1}
      /\ \A i \in DOMAIN s : i # Len(s) + 1 /\ t[i] = s[i]
  BY <1>1, <1>2
<1>4. Elems(t) = Elems(s) \cup {r}
  BY <1>1, <1>3 DEF Elems
<1>5. ASSUME Distinct(s), r \notin Elems(s) PROVE Distinct(t)
  BY <1>1, <1>3, <1>5 DEF Distinct, Elems
<1> QED BY <1>1, <1>4, <1>5 DEF t

\* The bytes in the pipe that tell a worker to take a record.
Ones(s) == {i \in DOMAIN s : s[i] = 1}

LEMMA OnesFinite ==
  ASSUME NEW s \in Seq({0, 1})
  PROVE  IsFiniteSet(Ones(s)) /\ Cardinality(Ones(s)) \in Nat
<1>1. IsFiniteSet(1..Len(s))
  BY FS_Interval
<1>2. Ones(s) \in SUBSET (1..Len(s))
  BY DEF Ones
<1> QED BY <1>1, <1>2, FS_Subset, FS_CardinalityType

LEMMA OnesPut ==
  ASSUME NEW s \in Seq({0, 1}), NEW b \in {0, 1}
  PROVE  Cardinality(Ones(Append(s, b))) = Cardinality(Ones(s)) + b
<1> DEFINE t == Append(s, b)
<1>1. /\ t \in Seq({0, 1}) /\ Len(t) = Len(s) + 1 /\ t[Len(s) + 1] = b
      /\ \A i \in 1..Len(s) : t[i] = s[i]
  BY AppendProperties
<1>2. DOMAIN t = 1..(Len(s) + 1) /\ DOMAIN s = 1..Len(s) /\ Len(s) \in Nat
  BY <1>1
<1> HIDE DEF t
<1>3. CASE b = 0
  <2>1. Ones(t) = Ones(s)
    BY <1>1, <1>2, <1>3 DEF Ones
  <2> QED BY <2>1, <1>3, OnesFinite DEF t
<1>4. CASE b = 1
  <2>1. Ones(t) = Ones(s) \cup {Len(s) + 1} /\ Len(s) + 1 \notin Ones(s)
    BY <1>1, <1>2, <1>4 DEF Ones
  <2> QED BY <2>1, <1>4, OnesFinite, FS_AddElement, Zenon DEF t
<1> QED BY <1>3, <1>4

LEMMA OnesPop ==
  ASSUME NEW s \in Seq({0, 1}), s # <<>>
  PROVE  Cardinality(Ones(s)) = Cardinality(Ones(Tail(s))) + Head(s)
<1> DEFINE t == Tail(s)
           U == Ones(s) \ {1}
           f == [i \in Ones(t) |-> i + 1]
<1>1. /\ Head(s) \in {0, 1} /\ t \in Seq({0, 1}) /\ Len(t) = Len(s) - 1
      /\ \A i \in 1..Len(t) : t[i] = s[i + 1]
  BY HeadTailProperties
<1>2. /\ DOMAIN t = 1..(Len(s) - 1) /\ DOMAIN s = 1..Len(s) /\ Len(s) \in Nat
      /\ Len(s) >= 1 /\ Head(s) = s[1]
  BY <1>1, EmptySeq
<1> HIDE DEF t
<1>3. \A i \in Ones(t) : i \in Int /\ i + 1 \in U
  BY <1>1, <1>2 DEF Ones
<1>4. \A j \in U : j \in Int /\ j - 1 \in Ones(t)
  BY <1>1, <1>2 DEF Ones
<1>5. f \in Bijection(Ones(t), U)
  <2>1. f \in [Ones(t) -> U]
    BY <1>3
  <2>2. \A i, j \in Ones(t) : f[i] = f[j] => i = j
    BY <1>3
  <2>3. \A j \in U : \E i \in Ones(t) : f[i] = j
    <3> TAKE j \in U
    <3>1. j - 1 \in Ones(t) /\ f[j - 1] = j
      BY <1>4
    <3> QED BY <3>1
  <2> HIDE DEF f
  <2> QED BY <2>1, <2>2, <2>3 DEF Bijection, Injection, Surjection, IsInjective
<1>6. Cardinality(U) = Cardinality(Ones(t))
  <2>1. ExistsBijection(Ones(t), U)
    BY <1>5, Zenon DEF ExistsBijection
  <2> QED BY <2>1, <1>1, OnesFinite, FS_Bijection
<1>7. Cardinality(U) = IF 1 \in Ones(s) THEN Cardinality(Ones(s)) - 1
                                        ELSE Cardinality(Ones(s))
  BY OnesFinite, FS_RemoveElement, Zenon
<1>8. 1 \in Ones(s) <=> Head(s) = 1
  BY <1>2 DEF Ones
<1> QED BY <1>1, <1>6, <1>7, <1>8, OnesFinite DEF t

-----------------------------------------------------------------------------
(* The inductive invariant.                                                *)

Taking  == {t \in Ids : wpc[t] = "take"}
Running == {t \in Ids : wpc[t] = "run"}
Writing == {c \in Callers : cpc[c] = "write"}

\* Each record on tm.start has its byte still to be written, in the pipe, or
\* read by a worker that has not taken the record.
BytesCounted ==
  Cardinality(Taking) + Cardinality(Ones(startpipe)) + Cardinality(Writing)
    = Len(start)

\* No record is on a stack twice, on both, or held by two workers; a worker
\* with a job has a record.
PlacesDistinct ==
  /\ Distinct(start) /\ Distinct(free) /\ Elems(start) \cap Elems(free) = {}
  /\ \A t \in Running : th[t] \in Ids \ (Elems(start) \cup Elems(free))
  /\ \A t, u \in Running : th[t] = th[u] => t = u

\* Workers come with records, and records with jobs.
Hired == all <= njobs /\ \A t \in Ids : t > all => wpc[t] = "none"

\* The jobs of the records on tm.start were created, are different and have
\* not been started; the jobs that have been were, once.
JobsFresh ==
  /\ ran \in Seq(Ids) /\ Distinct(ran)
  /\ \A i \in DOMAIN ran : ran[i] <= njobs
  /\ \A r \in Elems(start) : job[r] \in (1..njobs) \ Elems(ran)
  /\ \A r, q \in Elems(start) : job[r] = job[q] => r = q

PInv ==
  TypeOK /\ BytesCounted /\ RecordsPartitioned /\ PlacesDistinct /\ Hired /\ JobsFresh

\* Sets of workers and of callers are finite.
LEMMA FiniteSets ==
  /\ \A S \in SUBSET Ids : IsFiniteSet(S) /\ Cardinality(S) \in Nat
  /\ \A S \in SUBSET Callers : IsFiniteSet(S) /\ Cardinality(S) \in Nat
<1>1. IsFiniteSet(Ids)
  BY JobsAssumption, FS_Interval DEF Ids
<1> QED BY <1>1, JobsAssumption, FS_Subset, FS_CardinalityType

LEMMA InitPInv == Init => PInv
<1> SUFFICES ASSUME Init PROVE PInv
  OBVIOUS
<1>1. TypeOK
  BY JobsAssumption DEF Init, TypeOK, Ids
<1>2. Taking = {} /\ Running = {} /\ Writing = {} /\ Ones(startpipe) = {}
  BY DEF Init, Taking, Running, Writing, Ones
<1>3. Elems(start) = {} /\ Elems(free) = {} /\ Elems(ran) = {} /\ Held = {}
  BY DEF Init, Elems, Held
<1>4. BytesCounted /\ RecordsPartitioned
  <2>1. Len(start) = 0 /\ Len(free) = 0 /\ 1..all = {} /\ all = 0
    BY DEF Init
  <2>2. /\ Cardinality(Taking) = 0 /\ Cardinality(Running) = 0
        /\ Cardinality(Writing) = 0 /\ Cardinality(Ones(startpipe)) = 0
    BY <1>2, FS_EmptySet
  <2>3. BytesCounted
    BY <2>1, <2>2 DEF BytesCounted
  <2>4. Len(start) + Len(free) + Cardinality(Running) = all
    BY <2>1, <2>2
  <2>5. Elems(start) \cup Elems(free) \cup Held = 1..all
    BY <2>1, <1>3
  <2> QED BY <2>3, <2>4, <2>5 DEF RecordsPartitioned, Running
<1>5. PlacesDistinct
  BY <1>2, <1>3 DEF Init, PlacesDistinct, Distinct
<1>6. Hired /\ JobsFresh
  BY <1>3 DEF Init, Hired, JobsFresh, Distinct
<1> QED BY <1>1, <1>4, <1>5, <1>6 DEF PInv

\* create_thread: the record it uses, new or from tm.free, is nowhere else.
LEMMA CreateKeeps ==
  ASSUME PInv, NEW c \in Callers, Create(c)
  PROVE  PInv'
<1> DEFINE r == IF free = <<>> THEN all + 1 ELSE Head(free)
<1>1. /\ all \in Nat /\ njobs \in Nat /\ MaxJobs \in Nat /\ all <= njobs
      /\ njobs < MaxJobs /\ njobs' = njobs + 1 /\ Ids = 1..MaxJobs
      /\ start \in Seq(Ids) /\ free \in Seq(Ids) /\ Len(start) \in Nat
      /\ Len(free) \in Nat /\ Cardinality(Running) \in Nat
      /\ Len(start) + Len(free) + Cardinality(Running) = all
      /\ Elems(start) \cup Elems(free) \cup Held = 1..all
  <2>1. Cardinality(Running) \in Nat
    BY FiniteSets DEF Running
  <2>2. /\ Len(start) + Len(free) + Cardinality(Running) = all
        /\ Elems(start) \cup Elems(free) \cup Held = 1..all
    BY DEF PInv, RecordsPartitioned, Running
  <2>3. start \in Seq(Ids) /\ free \in Seq(Ids)
    BY DEF PInv, TypeOK
  <2>4. njobs < MaxJobs /\ njobs' = njobs + 1
    BY DEF Create
  <2>5. /\ all \in Nat /\ njobs \in Nat /\ MaxJobs \in Nat /\ all <= njobs
        /\ Ids = 1..MaxJobs
    BY JobsAssumption DEF PInv, TypeOK, Hired, Ids
  <2> QED BY <2>1, <2>2, <2>3, <2>4, <2>5
<1>2. /\ start' = <<r>> \o start /\ job' = [job EXCEPT ![r] = njobs + 1]
      /\ UNCHANGED <<startpipe, th, ran>>
      /\ cpc[c] = "idle" /\ cpc' = [cpc EXCEPT ![c] = "write"]
  BY DEF Create
<1>3. /\ r \in Ids \ (Elems(start) \cup Elems(free'))
      /\ \A t \in Running : th[t] # r
      /\ free' \in Seq(Ids) /\ Len(free') \in Nat /\ Distinct(free')
      /\ Elems(free') \subseteq Elems(free)
      /\ Elems(start) \cup {r} \cup Elems(free') \cup Held = 1..all'
      /\ Len(start) + 1 + Len(free') + Cardinality(Running) = all'
      /\ all' \in 0..MaxJobs /\ all' <= njobs'
      /\ wpc' \in [Ids -> {"none", "read", "take", "run", "exit"}]
      /\ Running' = Running /\ Taking' = Taking
      /\ \A t \in Ids : t > all' => wpc'[t] = "none"
  <2>1. CASE free = <<>>
    <3>1. /\ r = all + 1 /\ r \in Ids /\ all' = all + 1 /\ free' = free
          /\ wpc' = [wpc EXCEPT ![r] = "read"] /\ wpc[r] = "none"
      BY <1>1, <2>1 DEF Create, PInv, Hired
    <3>2. Running' = Running /\ Taking' = Taking
          /\ wpc' \in [Ids -> {"none", "read", "take", "run", "exit"}]
      BY <3>1, Zenon DEF PInv, TypeOK, Running, Taking
    <3>3. r \notin Elems(start) \cup Elems(free) \cup Held
      BY <3>1, <1>1
    <3>4. \A t \in Running : th[t] # r
      BY <3>3 DEF Held, Running
    <3>5. 1..(all + 1) = (1..all) \cup {all + 1}
      BY <1>1
    <3>6. Elems(start) \cup {r} \cup Elems(free') \cup Held = 1..all'
      BY <3>1, <3>5, <1>1
    <3>7. /\ Len(start) + 1 + Len(free') + Cardinality(Running) = all'
          /\ all' \in 0..MaxJobs /\ all' <= njobs'
      BY <3>1, <1>1
    <3>8. \A t \in Ids : t > all' => wpc'[t] = "none"
      <4> SUFFICES ASSUME NEW t \in Ids, t > all' PROVE wpc'[t] = "none"
        OBVIOUS
      <4>1. t > all /\ t # r
        BY <3>1, <1>1
      <4>2. wpc'[t] = wpc[t]
        BY <3>1, <4>1
      <4> QED BY <4>1, <4>2 DEF PInv, Hired
    <3>9. Distinct(free)
      BY DEF PInv, PlacesDistinct
    <3> HIDE DEF r
    <3> QED BY <3>1, <3>2, <3>3, <3>4, <3>6, <3>7, <3>8, <3>9, <1>1
  <2>2. CASE free # <<>>
    <3>1. r = Head(free) /\ all' = all /\ free' = Tail(free) /\ wpc' = wpc
      BY <2>2 DEF Create
    <3>2. /\ r \in Ids /\ free' \in Seq(Ids) /\ Len(free') = Len(free) - 1
          /\ Elems(free) = Elems(free') \cup {r}
          /\ Distinct(free') /\ r \notin Elems(free')
      BY <2>2, <3>1, <1>1, Pop DEF PInv, PlacesDistinct
    <3>3. r \notin Elems(start) /\ \A t \in Running : th[t] # r
      BY <3>2 DEF PInv, PlacesDistinct
    <3>4. Elems(start) \cup {r} \cup Elems(free') \cup Held = 1..all'
      BY <3>1, <3>2, <1>1
    <3>5. /\ Len(start) + 1 + Len(free') + Cardinality(Running) = all'
          /\ all' \in 0..MaxJobs /\ all' <= njobs' /\ Len(free') \in Nat
      BY <3>1, <3>2, <1>1
    <3>6. /\ wpc' \in [Ids -> {"none", "read", "take", "run", "exit"}]
          /\ Running' = Running /\ Taking' = Taking
          /\ \A t \in Ids : t > all' => wpc'[t] = "none"
      BY <3>1 DEF PInv, TypeOK, Running, Taking, Hired
    <3> HIDE DEF r
    <3> QED BY <3>2, <3>3, <3>4, <3>5, <3>6
  <2> QED BY <2>1, <2>2
<1> HIDE DEF r
<1>4. /\ start' \in Seq(Ids) /\ Len(start') = Len(start) + 1
      /\ Elems(start') = Elems(start) \cup {r} /\ Distinct(start')
  <2>1. r \in Ids /\ r \notin Elems(start) /\ start' = <<r>> \o start
    BY <1>2, <1>3
  <2>2. Distinct(start) /\ start \in Seq(Ids)
    BY DEF PInv, PlacesDistinct, TypeOK
  <2> QED BY <2>1, <2>2, Push
<1>5. TypeOK'
  <2>1. /\ all' \in 0..MaxJobs /\ free' \in Seq(Ids) /\ r \in Ids
        /\ wpc' \in [Ids -> {"none", "read", "take", "run", "exit"}]
    BY <1>3
  <2>2. njobs' \in 0..MaxJobs /\ njobs + 1 \in 0..MaxJobs
    BY <1>1
  <2>3. UNCHANGED <<id, active, startpipe, th, cleanup, zeros, joined>>
    BY DEF Create, cleanupVars
  <2> QED BY <2>1, <2>2, <2>3, <1>2, <1>4, Zenon DEF PInv, TypeOK
<1>6. BytesCounted'
  <2>1. Writing' = Writing \cup {c} /\ c \notin Writing
    BY <1>2 DEF PInv, TypeOK, Writing
  <2>2. Cardinality(Writing') = Cardinality(Writing) + 1
    BY <2>1, FiniteSets, FS_AddElement DEF Writing
  <2>3. Cardinality(Taking) \in Nat /\ Cardinality(Writing) \in Nat
        /\ Cardinality(Ones(startpipe)) \in Nat
    BY FiniteSets, OnesFinite DEF Taking, Writing, PInv, TypeOK
  <2>4. Taking' = Taking /\ startpipe' = startpipe /\ Len(start) \in Nat
    BY <1>1, <1>2, <1>3
  <2>5. Cardinality(Taking) + Cardinality(Ones(startpipe)) + Cardinality(Writing)
          = Len(start)
    BY DEF PInv, BytesCounted
  <2>6. Cardinality(Taking') + Cardinality(Ones(startpipe')) + Cardinality(Writing')
          = Len(start')
    BY <2>2, <2>3, <2>4, <2>5, <1>4
  <2> QED BY <2>6 DEF BytesCounted
<1>7. RecordsPartitioned'
  <2>1. Held' = Held
    BY <1>2, <1>3 DEF Held, Running
  <2>2. Elems(start') \cup Elems(free') \cup Held' = 1..all'
    BY <2>1, <1>3, <1>4
  <2>3. Len(start') + Len(free') + Cardinality(Running') = all'
    BY <1>3, <1>4
  <2> QED BY <2>2, <2>3 DEF RecordsPartitioned, Running
<1>8. PlacesDistinct'
  <2>1. /\ r \notin Elems(free') /\ Elems(free') \subseteq Elems(free)
        /\ Running' = Running /\ th' = th /\ Distinct(free')
        /\ \A t \in Running : th[t] # r
    BY <1>2, <1>3
  <2>2. Elems(start') = Elems(start) \cup {r} /\ Distinct(start')
    BY <1>4
  <2> QED BY <2>1, <2>2 DEF PInv, PlacesDistinct
<1>9. Hired'
  BY <1>3 DEF Hired
<1>10. JobsFresh'
  <2>1. /\ \A q \in Elems(start) : q # r /\ q \in Ids /\ job'[q] = job[q]
        /\ job'[r] = njobs + 1
    <3>1. \A q \in Elems(start) : q \in Ids
      BY <1>1 DEF Elems
    <3>2. r \in Ids /\ r \notin Elems(start)
      BY <1>3
    <3> QED BY <3>1, <3>2, <1>2 DEF PInv, TypeOK
  <2>2. \A q \in Elems(start) : job[q] \in 1..njobs /\ job[q] \notin Elems(ran)
    BY DEF PInv, JobsFresh
  <2>3. /\ ran' \in Seq(Ids) /\ Distinct(ran')
        /\ \A i \in DOMAIN ran' : ran'[i] \in 1..njobs
    <3>1. ran' = ran /\ ran \in Seq(Ids) /\ Distinct(ran) /\ Ids = 1..MaxJobs
          /\ \A i \in DOMAIN ran : ran[i] <= njobs
      BY <1>1, <1>2 DEF PInv, JobsFresh
    <3>2. \A i \in DOMAIN ran : ran[i] \in Ids
      <4>1. ran \in Seq(Ids)
        BY <3>1
      <4> HIDE DEF Ids
      <4> QED BY <4>1, ElementOfSeq, LenProperties
    <3>3. \A i \in DOMAIN ran : ran[i] \in 1..njobs
      BY <3>1, <3>2, <1>1
    <3> QED BY <3>1, <3>3
  <2>4. \A x \in Elems(ran') : x \in 1..njobs
    BY <2>3 DEF Elems
  <2>5. \A q \in Elems(start') : job'[q] \in (1..njobs') \ Elems(ran')
    <3>1. /\ Elems(start') = Elems(start) \cup {r} /\ ran' = ran
          /\ njobs' = njobs + 1 /\ njobs \in Nat
      BY <1>1, <1>2, <1>4, Zenon
    <3> QED BY <2>1, <2>2, <2>4, <3>1
  <2>6. \A p, q \in Elems(start') : job'[p] = job'[q] => p = q
    <3>1. Elems(start') = Elems(start) \cup {r} /\ njobs \in Nat
      BY <1>1, <1>4
    <3>2. \A q \in Elems(start) : job'[q] # job'[r]
      BY <2>1, <2>2, <3>1
    <3> QED BY <2>1, <3>1, <3>2 DEF PInv, JobsFresh
  <2>7. \A i \in DOMAIN ran' : ran'[i] <= njobs'
    BY <2>3, <1>1
  <2> QED BY <2>3, <2>5, <2>6, <2>7 DEF JobsFresh
<1> QED BY <1>5, <1>6, <1>7, <1>8, <1>9, <1>10 DEF PInv

\* The caller's byte: written into the pipe, nothing else changes.
LEMMA WriteKeeps ==
  ASSUME PInv, NEW c \in Callers, WriteByte(c)
  PROVE  PInv'
<1>1. /\ startpipe' = Append(startpipe, 1) /\ cpc[c] = "write"
      /\ cpc' = [cpc EXCEPT ![c] = "idle"]
      /\ UNCHANGED <<all, start, free, job, id, active, wpc, th, njobs, ran,
                     cleanup, zeros, joined>>
  BY DEF WriteByte, recVars, cleanupVars
<1>2. startpipe \in Seq({0, 1}) /\ start \in Seq(Ids)
  BY DEF PInv, TypeOK
<1>3. TypeOK'
  <2>1. startpipe' \in Seq({0, 1})
    BY <1>1, <1>2, AppendProperties
  <2> QED BY <1>1, <2>1 DEF PInv, TypeOK
<1>4. BytesCounted'
  <2>1. Writing' = Writing \ {c} /\ c \in Writing /\ Taking' = Taking
    BY <1>1 DEF PInv, TypeOK, Writing, Taking
  <2>2. Cardinality(Writing') = Cardinality(Writing) - 1
    BY <2>1, FiniteSets, FS_RemoveElement, Zenon DEF Writing
  <2>3. Cardinality(Taking) \in Nat /\ Cardinality(Writing) \in Nat
        /\ Cardinality(Ones(startpipe)) \in Nat
    BY <1>2, FiniteSets, OnesFinite DEF Taking, Writing
  <2>4. Cardinality(Ones(startpipe')) = Cardinality(Ones(startpipe)) + 1
    BY <1>1, <1>2, OnesPut
  <2>5. Cardinality(Taking') + Cardinality(Ones(startpipe')) + Cardinality(Writing')
          = Cardinality(Taking) + Cardinality(Ones(startpipe)) + Cardinality(Writing)
    BY <2>1, <2>2, <2>3, <2>4
  <2> QED BY <2>5, <1>1 DEF PInv, BytesCounted
<1>5. RecordsPartitioned'
  BY <1>1 DEF PInv, RecordsPartitioned, Held
<1>6. PlacesDistinct'
  BY <1>1 DEF PInv, PlacesDistinct, Running
<1>7. Hired' /\ JobsFresh'
  BY <1>1 DEF PInv, Hired, JobsFresh
<1> QED BY <1>3, <1>4, <1>5, <1>6, <1>7 DEF PInv

\* A worker reads a byte: the order to take a record passes to it.
LEMMA ReadKeeps ==
  ASSUME PInv, NEW t \in Ids, ReadByte(t)
  PROVE  PInv'
<1> DEFINE to == IF Head(startpipe) = 1 THEN "take" ELSE "exit"
<1>1. /\ startpipe # <<>> /\ startpipe' = Tail(startpipe) /\ wpc[t] = "read"
      /\ wpc' = [wpc EXCEPT ![t] = to]
      /\ UNCHANGED <<all, start, free, job, id, active, th, cpc, njobs, ran,
                     cleanup, zeros, joined>>
  BY DEF ReadByte, recVars, cleanupVars
<1>2. /\ startpipe \in Seq({0, 1})
      /\ wpc \in [Ids -> {"none", "read", "take", "run", "exit"}]
  BY DEF PInv, TypeOK
<1>3. Head(startpipe) \in {0, 1} /\ startpipe' \in Seq({0, 1})
  BY <1>1, <1>2, HeadTailProperties
<1>4. TypeOK'
  BY <1>1, <1>3 DEF PInv, TypeOK
<1>5. Running' = Running /\ Writing' = Writing
  BY <1>1, <1>2 DEF Running, Writing
<1>6. BytesCounted'
  <2>1. Cardinality(Taking') = Cardinality(Taking) + Head(startpipe)
    <3>1. CASE Head(startpipe) = 1
      <4>1. Taking' = Taking \cup {t} /\ t \notin Taking
        BY <3>1, <1>1, <1>2 DEF Taking
      <4> QED BY <3>1, <4>1, FiniteSets, FS_AddElement, Zenon DEF Taking
    <3>2. CASE Head(startpipe) = 0
      <4>1. Taking' = Taking
        BY <3>2, <1>1, <1>2 DEF Taking
      <4>2. Cardinality(Taking) \in Nat
        BY FiniteSets DEF Taking
      <4> QED BY <3>2, <4>1, <4>2
    <3> QED BY <3>1, <3>2, <1>3
  <2>2. Cardinality(Ones(startpipe)) = Cardinality(Ones(startpipe')) + Head(startpipe)
    BY <1>1, <1>2, OnesPop
  <2>3. Cardinality(Taking) \in Nat /\ Cardinality(Writing) \in Nat
        /\ Cardinality(Ones(startpipe')) \in Nat
    BY <1>3, FiniteSets, OnesFinite DEF Taking, Writing
  <2>4. Cardinality(Taking') + Cardinality(Ones(startpipe')) + Cardinality(Writing')
          = Cardinality(Taking) + Cardinality(Ones(startpipe)) + Cardinality(Writing)
    BY <2>1, <2>2, <2>3, <1>3, <1>5
  <2> QED BY <2>4, <1>1 DEF PInv, BytesCounted
<1>7. Held' = Held
  BY <1>1, <1>5 DEF Held, Running
<1>8. RecordsPartitioned'
  BY <1>1, <1>5, <1>7, Zenon DEF PInv, RecordsPartitioned, Running
<1>9. PlacesDistinct'
  BY <1>1, <1>5 DEF PInv, PlacesDistinct
<1>10. Hired' /\ JobsFresh'
  BY <1>1, <1>2 DEF PInv, Hired, JobsFresh
<1> QED BY <1>4, <1>6, <1>8, <1>9, <1>10 DEF PInv

\* thread_entry takes the record at the top of tm.start, which is there.
LEMMA TakeKeeps ==
  ASSUME PInv, NEW t \in Ids, Take(t)
  PROVE  PInv'
<1> DEFINE r == Head(start)
<1>1. /\ th' = [th EXCEPT ![t] = r] /\ id' = [id EXCEPT ![r] = t]
      /\ active' = [active EXCEPT ![r] = TRUE] /\ ran' = Append(ran, job[r])
      /\ start' = Tail(start) /\ wpc[t] = "take"
      /\ wpc' = [wpc EXCEPT ![t] = "run"]
      /\ UNCHANGED <<all, free, startpipe, job, cpc, njobs, cleanup, zeros, joined>>
  BY DEF Take, cleanupVars
<1>2. /\ start \in Seq(Ids) /\ free \in Seq(Ids) /\ th \in [Ids -> 0..MaxJobs]
      /\ wpc \in [Ids -> {"none", "read", "take", "run", "exit"}]
      /\ Ids = 1..MaxJobs /\ MaxJobs \in Nat
  BY JobsAssumption DEF PInv, TypeOK, Ids
<1>3. /\ Cardinality(Taking) \in Nat /\ Cardinality(Running) \in Nat
      /\ Cardinality(Writing) \in Nat /\ Cardinality(Ones(startpipe)) \in Nat
  BY FiniteSets, OnesFinite DEF Taking, Running, Writing, PInv, TypeOK
<1>4. /\ t \in Taking /\ Taking' = Taking \ {t}
      /\ t \notin Running /\ Running' = Running \cup {t}
  BY <1>1, <1>2, Zenon DEF Taking, Running
<1>5. /\ Cardinality(Taking') = Cardinality(Taking) - 1
      /\ Cardinality(Running') = Cardinality(Running) + 1
  <2>1. IsFiniteSet(Taking) /\ IsFiniteSet(Running)
    BY FiniteSets DEF Taking, Running
  <2>2. Cardinality(Taking') = Cardinality(Taking) - 1
    BY <2>1, <1>4, FS_RemoveElement, Zenon
  <2>3. Cardinality(Running') = Cardinality(Running) + 1
    BY <2>1, <1>4, FS_AddElement, Zenon
  <2> QED BY <2>2, <2>3
<1>6. start # <<>>
  <2>1. Cardinality(Taking) # 0
    BY <1>4, FiniteSets, FS_EmptySet DEF Taking
  <2>2. Len(start) # 0
    BY <2>1, <1>3 DEF PInv, BytesCounted
  <2> QED BY <2>2
<1>7. /\ r \in Ids /\ start' \in Seq(Ids) /\ Len(start') = Len(start) - 1
      /\ Elems(start) = Elems(start') \cup {r}
      /\ Distinct(start') /\ r \notin Elems(start')
  BY <1>1, <1>2, <1>6, Pop, Zenon DEF PInv, PlacesDistinct
<1> HIDE DEF r
<1>8. job[r] \in (1..njobs) \ Elems(ran) /\ job[r] \in Ids
  <2>1. job[r] \in (1..njobs) \ Elems(ran) /\ njobs \in 0..MaxJobs
    BY <1>7 DEF PInv, JobsFresh, TypeOK
  <2> QED BY <2>1, <1>2
<1>9. TypeOK'
  <2>1. r \in Ids /\ r \in 0..MaxJobs /\ t \in 0..MaxJobs /\ start' \in Seq(Ids)
    BY <1>2, <1>7
  <2> QED BY <2>1, <1>1, Zenon DEF PInv, TypeOK
<1>10. BytesCounted'
  <2>1. Writing' = Writing /\ startpipe' = startpipe /\ Len(start) \in Nat
    BY <1>1, <1>2 DEF Writing
  <2>2. Cardinality(Taking) + Cardinality(Ones(startpipe)) + Cardinality(Writing)
          = Len(start)
    BY DEF PInv, BytesCounted
  <2>3. Cardinality(Taking') + Cardinality(Ones(startpipe')) + Cardinality(Writing')
          = Len(start')
    <3>1. /\ Len(start') = Len(start) - 1
          /\ Cardinality(Taking') = Cardinality(Taking) - 1
      BY <1>5, <1>7
    <3> QED BY <2>1, <2>2, <3>1, <1>3
  <2> QED BY <2>3 DEF BytesCounted
<1>11. /\ \A u \in Running : u # t /\ th'[u] = th[u]
       /\ th'[t] = r
  BY <1>1, <1>2, <1>4 DEF Running
<1>12. RecordsPartitioned'
  <2>1. Held' = Held \cup {r}
    BY <1>4, <1>11 DEF Held, Running
  <2>2. Elems(start') \cup Elems(free') \cup Held' = 1..all'
    BY <2>1, <1>1, <1>7 DEF PInv, RecordsPartitioned
  <2>3. Len(start) + Len(free) + Cardinality(Running) = all
    BY DEF PInv, RecordsPartitioned, Running
  <2>4. Len(start') + Len(free') + Cardinality(Running') = all'
    <3>1. Len(start) \in Nat /\ Len(free) \in Nat
      BY <1>2, LenProperties
    <3>2. free' = free /\ all' = all
      BY <1>1
    <3> QED BY <2>3, <3>1, <3>2, <1>3, <1>5, <1>7
  <2> QED BY <2>2, <2>4 DEF RecordsPartitioned, Running
<1>13. PlacesDistinct'
  <2>1. /\ Distinct(free') /\ Distinct(start') /\ free' = free
        /\ Elems(start') \cap Elems(free') = {} /\ r \notin Elems(free)
    BY <1>1, <1>7 DEF PInv, PlacesDistinct
  <2>2. \A u \in Running : th[u] # r
    BY <1>7 DEF PInv, PlacesDistinct
  <2>3. \A u \in Running' : th'[u] \in Ids \ (Elems(start') \cup Elems(free'))
    BY <2>1, <1>4, <1>7, <1>11 DEF PInv, PlacesDistinct
  <2>4. \A u, v \in Running' : th'[u] = th'[v] => u = v
    <3>1. \A u, v \in Running : th[u] = th[v] => u = v
      BY DEF PInv, PlacesDistinct
    <3> QED BY <2>2, <3>1, <1>4, <1>11
  <2> QED BY <2>1, <2>3, <2>4 DEF PlacesDistinct
<1>14. Hired'
  BY <1>1, <1>2 DEF PInv, Hired
<1>15. JobsFresh'
  <2>1. /\ ran' \in Seq(Ids) /\ Distinct(ran') /\ Elems(ran') = Elems(ran) \cup {job[r]}
    <3>1. ran \in Seq(Ids) /\ Distinct(ran)
      BY DEF PInv, JobsFresh
    <3>2. ran' = Append(ran, job[r])
      BY <1>1
    <3>3. job[r] \in Ids /\ job[r] \notin Elems(ran)
      BY <1>8
    <3> QED BY <3>1, <3>2, <3>3, Put
  <2>2. \A x \in Elems(ran) : x <= njobs
    BY DEF PInv, JobsFresh, Elems
  <2>3. \A x \in Elems(ran') : x <= njobs
    BY <2>1, <2>2, <1>8
  <2>4. \A i \in DOMAIN ran' : ran'[i] <= njobs'
    BY <2>3, <1>1 DEF Elems
  <2>5. \A q \in Elems(start') : q \in Elems(start) /\ q # r
    BY <1>7
  <2>6. \A q \in Elems(start') : job[q] # job[r]
    BY <2>5, <1>7 DEF PInv, JobsFresh
  <2>7. \A q \in Elems(start') : job'[q] \in (1..njobs') \ Elems(ran')
    BY <2>1, <2>5, <2>6, <1>1 DEF PInv, JobsFresh
  <2>8. \A p, q \in Elems(start') : job'[p] = job'[q] => p = q
    BY <2>5, <1>1 DEF PInv, JobsFresh
  <2> QED BY <2>1, <2>4, <2>7, <2>8 DEF JobsFresh
<1> QED BY <1>9, <1>10, <1>12, <1>13, <1>14, <1>15 DEF PInv

\* A job returns: its record goes to tm.free and the worker reads again.
LEMMA FinishKeeps ==
  ASSUME PInv, NEW t \in Ids, Finish(t)
  PROVE  PInv'
<1> DEFINE r == th[t]
<1>1. /\ active' = [active EXCEPT ![r] = FALSE] /\ free' = <<r>> \o free
      /\ th' = [th EXCEPT ![t] = 0] /\ wpc[t] = "run"
      /\ wpc' = [wpc EXCEPT ![t] = "read"]
      /\ UNCHANGED <<all, start, startpipe, job, id, cpc, njobs, ran, cleanup,
                     zeros, joined>>
  BY DEF Finish, cleanupVars
<1>2. /\ start \in Seq(Ids) /\ free \in Seq(Ids) /\ th \in [Ids -> 0..MaxJobs]
      /\ wpc \in [Ids -> {"none", "read", "take", "run", "exit"}]
      /\ MaxJobs \in Nat
  BY JobsAssumption DEF PInv, TypeOK
<1>3. /\ Taking' = Taking /\ Writing' = Writing
      /\ t \in Running /\ Running' = Running \ {t}
  BY <1>1, <1>2 DEF Taking, Writing, Running
<1>4. /\ r \in Ids /\ r \notin Elems(start) /\ r \notin Elems(free)
      /\ \A u \in Running' : th'[u] = th[u] /\ th[u] # r
  BY <1>1, <1>2, <1>3 DEF PInv, PlacesDistinct, Running
<1> HIDE DEF r
<1>5. /\ free' \in Seq(Ids) /\ Len(free') = Len(free) + 1
      /\ Elems(free') = Elems(free) \cup {r} /\ Distinct(free')
  <2>1. Distinct(free)
    BY DEF PInv, PlacesDistinct
  <2>2. free \in Seq(Ids) /\ free' = <<r>> \o free
    BY <1>1, <1>2
  <2>3. r \in Ids /\ r \notin Elems(free)
    BY <1>4
  <2> QED BY <2>1, <2>2, <2>3, Push
<1>6. TypeOK'
  <2>1. 0 \in 0..MaxJobs
    BY <1>2
  <2> QED BY <2>1, <1>1, <1>4, <1>5, Zenon DEF PInv, TypeOK
<1>7. BytesCounted'
  BY <1>1, <1>3 DEF PInv, BytesCounted
<1>8. RecordsPartitioned'
  <2>1. Held = Held' \cup {r}
    BY <1>3, <1>4 DEF Held, Running, r
  <2>2. Elems(start') \cup Elems(free') \cup Held' = 1..all'
    BY <2>1, <1>1, <1>5, Zenon DEF PInv, RecordsPartitioned
  <2>3. Len(start) + Len(free) + Cardinality(Running) = all
    BY DEF PInv, RecordsPartitioned, Running
  <2>4. Cardinality(Running') = Cardinality(Running) - 1 /\ Cardinality(Running) \in Nat
    BY <1>3, FiniteSets, FS_RemoveElement, Zenon DEF Running
  <2>5. Len(start) \in Nat /\ Len(free) \in Nat /\ start' = start /\ all' = all
    BY <1>1, <1>2
  <2>6. Len(start') + Len(free') + Cardinality(Running') = all'
    BY <2>3, <2>4, <2>5, <1>5
  <2> QED BY <2>2, <2>6 DEF RecordsPartitioned, Running
<1>9. PlacesDistinct'
  <2>1. \A u \in Running' : u \in Running
    BY <1>3
  <2> QED BY <2>1, <1>1, <1>4, <1>5 DEF PInv, PlacesDistinct
<1>10. Hired'
  BY <1>1, <1>2 DEF PInv, Hired
<1>11. JobsFresh'
  BY <1>1 DEF PInv, JobsFresh
<1> QED BY <1>6, <1>7, <1>8, <1>9, <1>10, <1>11 DEF PInv

\* The bytes of the cleanup tell nobody to take a record.
LEMMA ZeroKeeps ==
  ASSUME PInv, CleanupZero
  PROVE  PInv'
<1>1. /\ startpipe' = Append(startpipe, 0) /\ zeros < ZeroBytes
      /\ zeros' = zeros + 1 /\ cleanup' = "zeros"
      /\ UNCHANGED <<all, start, free, job, id, active, wpc, th, cpc, njobs, ran,
                     joined>>
  BY DEF CleanupZero, recVars
<1>2. startpipe \in Seq({0, 1}) /\ zeros \in 0..ZeroBytes /\ ZeroBytes \in Nat
  BY JobsAssumption DEF PInv, TypeOK
<1>3. TypeOK'
  <2>1. startpipe' \in Seq({0, 1})
    BY <1>1, <1>2, AppendProperties
  <2>2. zeros' \in 0..ZeroBytes
    BY <1>1, <1>2
  <2> QED BY <1>1, <2>1, <2>2, Zenon DEF PInv, TypeOK
<1>4. BytesCounted'
  <2>1. Cardinality(Ones(startpipe')) = Cardinality(Ones(startpipe))
    BY <1>1, <1>2, OnesPut, OnesFinite
  <2> QED BY <2>1, <1>1 DEF PInv, BytesCounted, Taking, Writing
<1>5. RecordsPartitioned'
  BY <1>1 DEF PInv, RecordsPartitioned, Held
<1>6. PlacesDistinct'
  BY <1>1 DEF PInv, PlacesDistinct, Running
<1>7. Hired' /\ JobsFresh'
  BY <1>1 DEF PInv, Hired, JobsFresh
<1> QED BY <1>3, <1>4, <1>5, <1>6, <1>7 DEF PInv

\* The rest of the cleanup looks at the records and changes none.
LEMMA JoinKeeps ==
  ASSUME PInv, CleanupRecord \/ CleanupDone
  PROVE  PInv'
<1>1. UNCHANGED <<all, start, free, startpipe, job, id, active, wpc, th, cpc,
                  njobs, ran, zeros>>
  BY DEF CleanupRecord, CleanupDone, recVars
<1>2. cleanup' \in {"killed", "join", "done"} /\ joined' \in 0..MaxJobs
  <2>1. all \in 0..MaxJobs /\ joined \in 0..MaxJobs
    BY DEF PInv, TypeOK
  <2>2. CASE CleanupRecord
    <3>1. joined < all
      BY <2>2 DEF CleanupRecord
    <3>2. joined + 1 \in 0..MaxJobs
      BY <2>1, <3>1, JobsAssumption
    <3>3. \/ cleanup' = "killed" /\ joined' = joined
          \/ cleanup' = "join" /\ joined' = joined + 1
      BY <2>2 DEF CleanupRecord
    <3> QED BY <2>1, <3>2, <3>3
  <2>3. CASE CleanupDone
    BY <2>1, <2>3 DEF CleanupDone
  <2> QED BY <2>2, <2>3
<1>3. TypeOK'
  BY <1>1, <1>2 DEF PInv, TypeOK
<1>4. (BytesCounted /\ RecordsPartitioned)'
  BY <1>1 DEF PInv, BytesCounted, RecordsPartitioned, Held, Taking, Writing
<1>5. (PlacesDistinct /\ Hired /\ JobsFresh)'
  BY <1>1 DEF PInv, PlacesDistinct, Hired, JobsFresh, Running
<1> QED BY <1>3, <1>4, <1>5 DEF PInv

\* PInv is an invariant of the pool, however workers, callers and the cleanup
\* interleave.
THEOREM Invariance == Spec => []PInv
<1>1. PInv /\ [Next]_vars => PInv'
  <2> SUFFICES ASSUME PInv, [Next]_vars PROVE PInv'
    OBVIOUS
  <2>1. ASSUME NEW c \in Callers, Create(c) PROVE PInv'
    BY <2>1, CreateKeeps
  <2>2. ASSUME NEW c \in Callers, WriteByte(c) PROVE PInv'
    BY <2>2, WriteKeeps
  <2>3. ASSUME NEW t \in Ids, ReadByte(t) PROVE PInv'
    BY <2>3, ReadKeeps
  <2>4. ASSUME NEW t \in Ids, Take(t) PROVE PInv'
    BY <2>4, TakeKeeps
  <2>5. ASSUME NEW t \in Ids, Finish(t) PROVE PInv'
    BY <2>5, FinishKeeps
  <2>6. CASE CleanupZero
    BY <2>6, ZeroKeeps
  <2>7. CASE CleanupRecord \/ CleanupDone
    BY <2>7, JoinKeeps
  <2>8. CASE UNCHANGED vars
    <3>1. UNCHANGED <<all, start, free, startpipe, job, id, active, wpc, th, cpc,
                      njobs, ran, cleanup, zeros, joined>>
      BY <2>8 DEF vars, recVars, cleanupVars
    <3>2. TypeOK'
      BY <3>1 DEF PInv, TypeOK
    <3>3. (BytesCounted /\ RecordsPartitioned)'
      BY <3>1 DEF PInv, BytesCounted, RecordsPartitioned, Held, Taking, Writing
    <3>4. (PlacesDistinct /\ Hired /\ JobsFresh)'
      BY <3>1 DEF PInv, PlacesDistinct, Hired, JobsFresh, Running
    <3> QED BY <3>2, <3>3, <3>4 DEF PInv
  <2> QED BY <2>1, <2>2, <2>3, <2>4, <2>5, <2>6, <2>7, <2>8 DEF Next, Worker
<1> QED BY <1>1, InitPInv, PTL DEF Spec

\* The pool is intact: a worker that reads the byte of create_thread finds a
\* record on tm.start, which thread_entry does not test (thread.c 94-96), and
\* every record is in one place.
THEOREM PoolStaysIntact == Spec => []PoolIntact
<1>1. PInv => PoolIntact
  <2> SUFFICES ASSUME PInv PROVE StartCovered
    BY DEF PInv, PoolIntact
  <2>1. Cardinality(Taking) \in Nat /\ Cardinality(Writing) \in Nat
        /\ Cardinality(Ones(startpipe)) \in Nat
    BY FiniteSets, OnesFinite DEF Taking, Writing, PInv, TypeOK
  <2>2. Cardinality(Taking) + Cardinality(Ones(startpipe)) <= Len(start)
    BY <2>1 DEF PInv, BytesCounted
  <2> QED BY <2>2 DEF StartCovered, Taking, Ones
<1> QED BY <1>1, Invariance, PTL

\* No job is started twice, although any worker may take any record and
\* records are used again (thread.c 94-110, 119-143).
THEOREM JobsRunOnce == Spec => []RanOnce
<1>1. PInv => RanOnce
  <2> SUFFICES ASSUME PInv PROVE RanOnce
    OBVIOUS
  <2>1. ran \in Seq(Ids) /\ Distinct(ran)
    BY DEF PInv, JobsFresh
  <2>2. DOMAIN ran = 1..Len(ran) /\ Len(ran) \in Nat
    BY <2>1
  <2>3. IsFiniteSet(DOMAIN ran) /\ Cardinality(DOMAIN ran) = Len(ran)
    <3> 1 \in Int /\ Len(ran) \in Int
      BY <2>2
    <3>1. /\ IsFiniteSet(1..Len(ran))
          /\ Cardinality(1..Len(ran)) = IF 1 > Len(ran) THEN 0 ELSE Len(ran) - 1 + 1
      BY FS_Interval, Zenon
    <3> QED BY <2>2, <3>1
  <2>4. ran \in Bijection(DOMAIN ran, Elems(ran))
    <3>1. ran \in [DOMAIN ran -> Elems(ran)]
      BY <2>1 DEF Elems
    <3>2. \A x \in Elems(ran) : \E i \in DOMAIN ran : ran[i] = x
      BY DEF Elems
    <3> QED BY <3>1, <3>2, <2>1 DEF Bijection, Injection, Surjection, IsInjective, Distinct
  <2>5. ExistsBijection(DOMAIN ran, Elems(ran))
    BY <2>4 DEF ExistsBijection
  <2> QED BY <2>3, <2>5, FS_Bijection DEF RanOnce
<1> QED BY <1>1, Invariance, PTL
=============================================================================
