-------------------------- MODULE SlitherGateProofs --------------------------
(***************************************************************************)
(* Theorems about SlitherGate, for any number of requests, pool threads,   *)
(* versions and permits.  The permits and the threads inside the semaphore *)
(* always add up to SLITHER_MAX; with one permit that leaves one scan      *)
(* inside, and then nobody else can change the selected version.           *)
(***************************************************************************)
EXTENDS SlitherGate, FiniteSetTheorems, TLAPS

GateInv == TypeOK /\ SemaphoreCounts /\ Queued /\ OneInside

LEMMA GateFinite == IsFiniteSet(InGate) /\ Cardinality(InGate) \in Nat
  BY FS_Subset, FS_CardinalityType, ScansAssumption DEF InGate

LEMMA Entering ==
  ASSUME TypeOK, NEW r \in Scans, pc[r] = "started", GoTo(r, "install")
  PROVE  InGate' = InGate \cup {r} /\ Cardinality(InGate') = Cardinality(InGate) + 1
  <1>1. InGate' = InGate \cup {r}
    BY DEF TypeOK, InGate, GoTo, Requests
  <1>2. r \notin InGate
    BY DEF InGate
  <1> QED
    BY <1>1, <1>2, GateFinite, FS_AddElement

LEMMA Leaving ==
  ASSUME TypeOK, NEW r \in InGate, GoTo(r, "report")
  PROVE  /\ InGate' = InGate \ {r}
         /\ Cardinality(InGate') = Cardinality(InGate) - 1
         /\ Cardinality(InGate) > 0
  <1>1. InGate' = InGate \ {r}
    BY DEF TypeOK, InGate, GoTo, Requests
  <1>2. Cardinality(InGate') = Cardinality(InGate) - 1
    BY <1>1, GateFinite, FS_RemoveElement
  <1>3. Cardinality(InGate) # 0
    BY GateFinite, FS_EmptySet
  <1> QED
    BY <1>1, <1>2, <1>3, GateFinite

\* A step of a request between two places on the same side of the semaphore.
LEMMA Staying ==
  ASSUME TypeOK, NEW r \in Requests, NEW step, GoTo(r, step),
         r \in InGate <=> r \in Scans /\ step \in {"install", "use", "slither"}
  PROVE  InGate' = InGate
  BY DEF TypeOK, InGate, GoTo, Requests

LEMMA InitGate == Init => GateInv
  <1> SUFFICES ASSUME Init PROVE GateInv
    OBVIOUS
  <1> USE DEF Init
  <1>1. TypeOK
    BY ConfigAssumption, VersionsAssumption DEF TypeOK, Requests
  <1>2. InGate = {}
    BY DEF InGate, Requests
  <1>3. SemaphoreCounts
    BY <1>2, FS_EmptySet, ConfigAssumption DEF SemaphoreCounts
  <1>4. OneInside
    BY <1>2 DEF OneInside
  <1>5. Queued
    BY DEF Queued
  <1> QED
    BY <1>1, <1>3, <1>4, <1>5 DEF GateInv

\* The permits of a set of the same size, and of the same scans, are the same.
LEMMA SameGate ==
  ASSUME GateInv, InGate' = InGate, value' = value
  PROVE  SemaphoreCounts' /\ OneInside'
  BY DEF GateInv, SemaphoreCounts, OneInside

\* Only the request that moves may leave its place in the queue.
LEMMA SameQueue ==
  ASSUME GateInv, NEW r \in Requests, NEW step,
         pc[r] # "queued", GoTo(r, step), queue' = queue
  PROVE  Queued'
  <1>1. \A i \in 1..Len(queue) : queue[i] \in Requests /\ queue[i] # r
    BY DEF GateInv, TypeOK, Queued
  <1> QED
    BY <1>1 DEF GateInv, TypeOK, Queued, GoTo

LEMMA NextGate == GateInv /\ [Next]_vars => GateInv'
  <1> SUFFICES ASSUME GateInv, [Next]_vars PROVE GateInv'
    OBVIOUS
  <1> USE DEF GateInv
  <1>c. value \in Nat /\ SLITHER_MAX \in Nat
    BY ConfigAssumption DEF TypeOK
  <1>1. ASSUME NEW r \in Requests, Arrive(r) PROVE GateInv'
    <2>1. TypeOK'
      BY <1>1 DEF Arrive, GoTo, TypeOK
    <2>2. InGate' = InGate
      BY <1>1, Staying DEF Arrive, InGate
    <2>3. Queued'
      <3>1. /\ pc' = [pc EXCEPT ![r] = "queued"] /\ pc[r] = "away"
            /\ queue' = Append(queue, r)
        BY <1>1 DEF Arrive, GoTo
      <3>2. \A i \in 1..Len(queue) : queue[i] \in Requests /\ queue[i] # r
        BY <3>1 DEF TypeOK, Queued
      <3>3. /\ Len(queue') = Len(queue) + 1 /\ Len(queue) \in Nat
            /\ queue'[Len(queue) + 1] = r
            /\ \A i \in 1..Len(queue) : queue'[i] = queue[i]
        BY <3>1 DEF TypeOK
      <3>4. pc \in [Requests -> {"away", "queued", "started", "install", "use", "slither", "report"}]
        BY DEF TypeOK
      <3>5. \A i \in 1..Len(queue') :
              \/ i = Len(queue) + 1 /\ queue'[i] = r
              \/ i \in 1..Len(queue) /\ queue'[i] = queue[i]
        BY <3>3
      <3>6. \A i \in 1..Len(queue') : pc'[queue'[i]] = "queued"
        BY <3>1, <3>2, <3>4, <3>5 DEF Queued
      <3>7. \A i, j \in 1..Len(queue') : queue'[i] = queue'[j] => i = j
        BY <3>2, <3>5 DEF Queued
      <3> QED
        BY <3>6, <3>7 DEF Queued
    <2> QED
      BY <1>1, <2>1, <2>2, <2>3, SameGate DEF Arrive
  <1>2. ASSUME NEW r \in Requests, Answer(r) PROVE GateInv'
    <2>1. TypeOK'
      BY <1>2 DEF Answer, GoTo, TypeOK
    <2>2. r \notin InGate
      BY <1>2 DEF Answer, InGate
    <2>3. InGate' = InGate
      BY <1>2, <2>2, Staying DEF Answer
    <2>4. Queued'
      BY <1>2, SameQueue DEF Answer
    <2> QED
      BY <1>2, <2>1, <2>3, <2>4, SameGate DEF Answer
  <1>3. ASSUME NEW r \in Scans, Acquire(r) PROVE GateInv'
    <2>1. InGate' = InGate \cup {r} /\ Cardinality(InGate') = Cardinality(InGate) + 1
      BY <1>3, Entering DEF Acquire
    <2>2. value > 0 /\ value' = value - 1
      BY <1>3 DEF Acquire
    <2>3. TypeOK'
      <3>1. value' \in 0..SLITHER_MAX
        BY <1>c, <2>2 DEF TypeOK
      <3> QED
        BY <1>3, <3>1 DEF Acquire, GoTo, TypeOK
    <2>4. SemaphoreCounts'
      BY <2>1, <2>2, <1>c, GateFinite DEF SemaphoreCounts
    <2>5. ASSUME SLITHER_MAX = 1 PROVE InGate = {}
      <3>1. Cardinality(InGate) = 0
        BY <2>2, <2>5, <1>c, GateFinite DEF SemaphoreCounts
      <3> QED
        BY <3>1, GateFinite, FS_EmptySet
    <2>6. OneInside'
      BY <2>1, <2>5 DEF OneInside
    <2>7. Queued'
      BY <1>3, SameQueue DEF Acquire, Requests
    <2> QED
      BY <2>3, <2>4, <2>6, <2>7
  <1>4. ASSUME NEW r \in Scans, Install(r) PROVE GateInv'
    <2>1. TypeOK'
      BY <1>4 DEF Install, GoTo, TypeOK
    <2>2. r \in InGate
      BY <1>4 DEF Install, InGate
    <2>3. InGate' = InGate
      BY <1>4, <2>2, Staying DEF Install, Requests
    <2>4. Queued'
      BY <1>4, SameQueue DEF Install, Requests
    <2> QED
      BY <1>4, <2>1, <2>3, <2>4, SameGate DEF Install
  <1>5. ASSUME NEW r \in Scans, Use(r) PROVE GateInv'
    <2>1. TypeOK'
      BY <1>5 DEF Use, GoTo, TypeOK
    <2>2. r \in InGate
      BY <1>5 DEF Use, InGate
    <2>3. InGate' = InGate
      BY <1>5, <2>2, Staying DEF Use, Requests
    <2>4. Queued'
      BY <1>5, SameQueue DEF Use, Requests
    <2> QED
      BY <1>5, <2>1, <2>3, <2>4, SameGate DEF Use
  <1>6. ASSUME NEW r \in InGate, Release(r),
               UNCHANGED <<queue, version, installed, selected>>
        PROVE  GateInv'
    <2>1. /\ InGate' = InGate \ {r}
          /\ Cardinality(InGate') = Cardinality(InGate) - 1
          /\ Cardinality(InGate) > 0
      BY <1>6, Leaving DEF Release
    <2>2. value' = value + 1
      BY <1>6 DEF Release
    <2>3. SemaphoreCounts'
      BY <2>1, <2>2, <1>c, GateFinite DEF SemaphoreCounts
    <2>4. value' \in 0..SLITHER_MAX
      BY <2>1, <2>2, <1>c, GateFinite DEF SemaphoreCounts
    <2>5. TypeOK'
      BY <1>6, <2>4 DEF Release, GoTo, TypeOK
    <2>6. OneInside'
      BY <2>1 DEF OneInside
    <2>7. Queued'
      BY <1>6, SameQueue DEF Release, InGate, Requests
    <2> QED
      BY <2>3, <2>5, <2>6, <2>7
  <1>7. ASSUME NEW r \in Scans, Leave(r) PROVE GateInv'
    BY <1>6, <1>7 DEF Leave, TypeOK
  <1>8. ASSUME NEW r \in Scans, Timeout(r) PROVE GateInv'
    BY <1>6, <1>8 DEF Timeout, InGate
  <1>9. CASE Start
    <2> DEFINE r == Head(queue)
    <2>1. /\ queue # << >> /\ queue \in Seq(Requests) /\ r = queue[1]
          /\ Len(queue) \in Nat /\ 1 \in 1..Len(queue)
      BY <1>9 DEF Start, TypeOK
    <2>2. r \in Requests /\ Tail(queue) \in Seq(Requests) /\ pc[r] = "queued"
      BY <2>1 DEF Queued
    <2>3. GoTo(r, "started") /\ queue' = Tail(queue)
      BY <1>9 DEF Start
    <2>4. TypeOK'
      BY <1>9, <2>2, <2>3 DEF Start, GoTo, TypeOK
    <2>5. InGate' = InGate
      BY <2>2, <2>3, Staying DEF InGate
    <2>6. Queued'
      <3>1. Len(queue') = Len(queue) - 1
        BY <2>1, <2>3
      <3>2. ASSUME NEW i \in 1..Len(queue')
            PROVE  /\ queue'[i] = queue[i + 1] /\ i + 1 \in 1..Len(queue)
                   /\ queue[i + 1] \in Requests /\ queue[i + 1] # r
        <4>1. i + 1 \in 1..Len(queue) /\ i + 1 # 1
          BY <2>1, <3>1
        <4>2. queue'[i] = queue[i + 1] /\ queue[i + 1] \in Requests
          BY <2>1, <2>3, <4>1
        <4>3. queue[i + 1] # queue[1]
          BY <2>1, <4>1 DEF Queued
        <4> QED
          BY <2>1, <4>1, <4>2, <4>3
      <3>3. pc' = [pc EXCEPT ![r] = "started"]
        BY <2>3 DEF GoTo
      <3>4. \A i \in 1..Len(queue') : pc'[queue'[i]] = "queued"
        BY <3>2, <3>3 DEF Queued, TypeOK
      <3>5. \A i, j \in 1..Len(queue') : queue'[i] = queue'[j] => i = j
        <4> SUFFICES ASSUME NEW i \in 1..Len(queue'), NEW j \in 1..Len(queue'),
                            queue'[i] = queue'[j]
                     PROVE  i = j
          OBVIOUS
        <4>1. i + 1 = j + 1
          BY <3>2 DEF Queued
        <4> QED
          BY <4>1
      <3> QED
        BY <3>4, <3>5 DEF Queued
    <2> QED
      BY <1>9, <2>4, <2>5, <2>6, SameGate DEF Start
  <1>10. CASE UNCHANGED vars
    <2>1. TypeOK' /\ InGate' = InGate /\ Queued'
      BY <1>10 DEF vars, TypeOK, InGate, Queued
    <2> QED
      BY <1>10, <2>1, SameGate DEF vars
  <1> QED
    BY <1>1, <1>2, <1>3, <1>4, <1>5, <1>7, <1>8, <1>9, <1>10 DEF Next

(***************************************************************************)
(* Only Use selects a version, and who calls it is inside the semaphore.   *)
(* With one permit no other scan is.                                       *)
(***************************************************************************)
LEMMA OnlyUseSelects ==
  ASSUME Next, selected' # selected
  PROVE  \E s \in InGate : pc[s] = "use" /\ selected' = version[s]
  <1>1. PICK s \in Scans : Use(s)
    BY DEF Next, Arrive, Answer, Acquire, Install, Leave, Timeout, Start
  <1>2. pc[s] = "use" /\ s \in InGate
    BY <1>1 DEF Use, InGate
  <1> QED
    BY <1>1, <1>2 DEF Use

LEMMA NextUndisturbed ==
  ASSUME OneInside, [Next]_vars, SLITHER_MAX = 1, NEW r \in InGate,
         selected' # selected
  PROVE  pc[r] = "use" /\ selected' = version[r]
  <1>1. PICK s \in InGate : pc[s] = "use" /\ selected' = version[s]
    BY OnlyUseSelects DEF vars
  <1>2. s = r
    BY DEF OneInside
  <1> QED
    BY <1>1, <1>2

----------------------------------------------------------------------------
\* The variables keep their types; in particular the semaphore never counts
\* above the number of its permits.
THEOREM GateTypeCorrect == Spec => []TypeOK
  BY InitGate, NextGate, PTL DEF Spec, GateInv

\* Whichever way a scan leaves the semaphore, normally, by the timeout or by
\* an error, it gives back exactly the permit that it took.
THEOREM SemaphoreCountsHolds == Spec => []SemaphoreCounts
  BY InitGate, NextGate, PTL DEF Spec, GateInv

\* With one permit, the selected compiler is left alone by everybody else for as
\* long as a scan is inside the semaphore, for any number of requests and threads
\* and whichever calls of solc-select fail: a running Slither never sees it change.
THEOREM CompilerUndisturbedHolds == Spec => CompilerUndisturbed
  <1>1. Spec => []GateInv
    BY InitGate, NextGate, PTL DEF Spec
  <1>2. GateInv /\ [Next]_vars =>
          [SLITHER_MAX = 1 =>
             \A r \in InGate :
               selected' # selected => pc[r] = "use" /\ selected' = version[r]]_vars
    BY NextUndisturbed DEF GateInv
  <1> QED
    BY <1>1, <1>2, PTL DEF Spec, CompilerUndisturbed
=============================================================================
