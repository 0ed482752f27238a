-------------------------- MODULE RateLimiterProofs --------------------------
(***************************************************************************)
(* Proofs about the sliding window, for any number of threads and clients, *)
(* any limits, any window and any number of calls.                         *)
(***************************************************************************)
EXTENDS RateLimiter, FiniteSetTheorems, TLAPS

IInv == TypeOK /\ LogInv /\ IdInv /\ WindowHolds

\* A later cutoff keeps fewer hits.
LEMMA AfterShrinks ==
    ASSUME NEW S \in SUBSET Hits, NEW early \in Int, NEW late \in Int, early <= late
    PROVE  After(S, late) \subseteq After(S, early)
BY DEF After, Hits

\* What a thread in check() looks like.
LEMMA CallType ==
    ASSUME TypeOK, NEW t \in Threads, InCheck(t)
    PROVE  /\ call[t] \in CallsOfCheck
           /\ call[t].key \in Keys /\ call[t].stamp \in 0..MaxNow
           /\ call[t].id \in 1..MaxCalls
           /\ NewHit(call[t]) \in Hits
BY DEF TypeOK, InCheck, CallsOfCheck, NewHit, Hits

\* A thread that decides late still counts every hit that is in the window now.
LEMMA RecentCoversWindow ==
    ASSUME TypeOK, LogInv, NEW t \in Threads, InCheck(t)
    PROVE  LET c == call[t] IN
           /\ Recent(c) \subseteq Recorded(hits, c.key)
           /\ Recent(c) \subseteq After(log[c.key], c.stamp - Window)
           /\ After(log[c.key], now - Window) \subseteq Recent(c)
           /\ IsFiniteSet(Recent(c)) /\ Cardinality(Recent(c)) \in Nat
<1> DEFINE c == call[t]
<1>1. /\ c.key \in Keys /\ c.stamp \in 0..MaxNow /\ c.stamp <= now
      /\ now \in 0..MaxNow /\ Window \in Nat
      /\ log[c.key] \in SUBSET Hits /\ IsFiniteSet(log[c.key])
      /\ Recorded(hits, c.key) \subseteq log[c.key]
      /\ After(log[c.key], now - Window) \subseteq Recorded(hits, c.key)
  BY CallType, WindowAssumption, BoundsAssumption DEF TypeOK, LogInv
<1>2. /\ Recent(c) \subseteq Recorded(hits, c.key)
      /\ Recent(c) \subseteq After(log[c.key], c.stamp - Window)
  BY <1>1 DEF Recent, After
<1>3. After(log[c.key], now - Window) \subseteq Recent(c)
  BY <1>1 DEF Recent, After, Hits
<1>4. Recent(c) \subseteq log[c.key]
  BY <1>1, <1>2
<1>5. IsFiniteSet(Recent(c))
  BY <1>1, <1>4, FS_Subset
<1> HIDE DEF c
<1> QED
  BY <1>2, <1>3, <1>5, FS_CardinalityType DEF c

\* After a check() the dict holds what was stored for its key, and the rest as before.
LEMMA RecordedAfterStore ==
    ASSUME NEW k, NEW S, hits' = Store(k, S)
    PROVE  /\ DOMAIN hits' = DOMAIN hits \cup {k}
           /\ Recorded(hits', k) = S
           /\ \A j : j # k => Recorded(hits', j) = Recorded(hits, j)
BY DEF Store, Recorded

(***************************************************************************)
(* The invariant                                                           *)
(***************************************************************************)

\* The limiter starts out empty, with no thread in check().
LEMMA InitIInv == Init => IInv
<1> SUFFICES ASSUME Init PROVE IInv
  OBVIOUS
<1> USE DEF Init
<1>1. DOMAIN hits = {} /\ \A t \in Threads : ~InCheck(t)
  BY DEF InCheck
<1>2. TypeOK
  BY <1>1, LimitsAssumption, BoundsAssumption DEF TypeOK
<1>3. \A k \in Keys : log[k] = {} /\ Recorded(hits, k) = {} /\ After(log[k], now - Window) = {}
  BY <1>1 DEF Recorded, After
<1>4. LogInv /\ IdInv
  BY <1>1, <1>3, FS_EmptySet, LimitsAssumption DEF LogInv, IdInv
<1>5. WindowHolds
  <2>1. peak \in Nat
    BY LimitsAssumption
  <2>2. \A k \in Keys : Cardinality(After(log[k], now - Window)) = 0
    BY <1>3, FS_EmptySet
  <2> HIDE DEF Init
  <2> QED
    BY <2>1, <2>2 DEF WindowHolds
<1> QED
  BY <1>2, <1>4, <1>5 DEF IInv

\* A thread reads the clock and draws a fresh id.
LEMMA EnterIInv == ASSUME IInv, NEW t \in Threads, Enter(t) PROVE IInv'
<1>1. PICK k \in Keys : call' = [call EXCEPT ![t] = [key |-> k, stamp |-> now, id |-> calls + 1]]
  BY DEF Enter
<1> DEFINE new == [key |-> k, stamp |-> now, id |-> calls + 1]
<1>2. /\ UNCHANGED <<now, max_hits, hits, log, peak>>
      /\ calls' = calls + 1 /\ calls < MaxCalls /\ ~InCheck(t)
  BY DEF Enter
<1>3. /\ new \in CallsOfCheck /\ calls \in Nat
      /\ call'[t] = new /\ \A u \in Threads \ {t} : call'[u] = call[u]
  BY <1>1, <1>2, BoundsAssumption DEF IInv, TypeOK, CallsOfCheck
<1>4. TypeOK'
  BY <1>1, <1>2, <1>3, BoundsAssumption DEF IInv, TypeOK
<1>5. LogInv' /\ WindowHolds'
  BY <1>2, <1>3 DEF IInv, TypeOK, LogInv, WindowHolds, InCheck, Recorded, After
<1>6. IdInv'
  <2>1. \A u \in Threads \ {t} : call'[u].id <= calls /\ call'[u].id # calls + 1
    BY <1>3 DEF IInv, TypeOK, IdInv, InCheck, CallsOfCheck, Idle
  <2>2. \A j \in Keys : \A h \in log'[j] : h.id <= calls /\ h.id # calls + 1
    BY <1>2, <1>3 DEF IInv, TypeOK, IdInv, Hits
  <2>3. \A u \in Threads \ {t} : InCheck(u)' => InCheck(u)
    BY <1>3 DEF InCheck
  <2>4. ASSUME NEW u \in Threads \ {t}, InCheck(u)'
        PROVE  /\ call'[u].id <= calls'
               /\ \A v \in Threads \ {u} : call'[v].id # call'[u].id
               /\ \A j \in Keys : \A h \in log'[j] : h.id # call'[u].id
    <3>1. InCheck(u) /\ call'[u] = call[u] /\ call'[u].id \in 1..calls
      BY <1>3, <2>3, <2>4, CallType, BoundsAssumption DEF IInv, IdInv
    <3>2. \A v \in Threads \ {u} : call'[v].id # call'[u].id
      <4>1. \A v \in Threads \ {u} : call[v].id # call[u].id
        BY <3>1 DEF IInv, IdInv
      <4>2. call'[t].id # call'[u].id
        BY <1>3, <2>1
      <4> QED
        BY <1>3, <3>1, <4>1, <4>2
    <3>3. \A j \in Keys : \A h \in log'[j] : h.id # call'[u].id
      BY <1>2, <3>1 DEF IInv, IdInv
    <3> QED
      BY <1>2, <1>3, <3>1, <3>2, <3>3
  <2>5. /\ call'[t].id <= calls'
        /\ \A v \in Threads \ {t} : call'[v].id # call'[t].id
        /\ \A j \in Keys : \A h \in log'[j] : h.id # call'[t].id
    BY <1>2, <1>3, <2>1, <2>2
  <2>6. \A j \in Keys : \A h \in log'[j] : h.id <= calls'
    BY <1>2, <1>3, <2>2 DEF IInv, TypeOK, Hits
  <2> QED
    BY <2>4, <2>5, <2>6 DEF IdInv
<1> QED
  BY <1>4, <1>5, <1>6 DEF IInv

\* A thread that leaves check() leaves the ids of the others alone.
LEMMA LeaveIdInv ==
    ASSUME IInv, NEW t \in Threads, Return(t), calls' = calls,
           \A k \in Keys : \A h \in log'[k] :
               h \in log[k] \/ (InCheck(t) /\ h.id = call[t].id)
    PROVE  IdInv'
<1>1. call'[t] = Idle /\ \A u \in Threads \ {t} : call'[u] = call[u]
  BY DEF Return, IInv, TypeOK
<1>2. \A u \in Threads : InCheck(u)' => u # t /\ InCheck(u)
  BY <1>1 DEF InCheck
<1>3. \A u \in Threads : InCheck(u) => call[u].id \in Nat \ {0}
  BY CallType, BoundsAssumption DEF IInv
<1>4. \A u \in Threads : InCheck(u)' => call'[u].id <= calls'
  BY <1>1, <1>2 DEF IInv, IdInv
<1>5. \A u \in Threads : InCheck(u)' => \A v \in Threads \ {u} : call'[v].id # call'[u].id
  BY <1>1, <1>2, <1>3 DEF IInv, IdInv, Idle
<1>6. \A u \in Threads : InCheck(u)' => \A k \in Keys : \A h \in log'[k] : h.id # call'[u].id
  BY <1>1, <1>2 DEF IInv, IdInv
<1>7. \A k \in Keys : \A h \in log'[k] : h.id <= calls'
  BY DEF IInv, IdInv
<1> QED
  BY <1>4, <1>5, <1>6, <1>7 DEF IdInv

\* A hit is let through: the window has room for it, whatever the thread's stamp.
LEMMA AllowIInv == ASSUME IInv, NEW t \in Threads, Allow(t) PROVE IInv'
<1> DEFINE c == call[t]
           new == NewHit(c)
           k == c.key
<1>1. /\ InCheck(t) /\ HasRoom(c)
      /\ hits' = Store(k, Recent(c) \cup {new})
      /\ log' = [log EXCEPT ![k] = @ \cup {new}]
      /\ Return(t)
      /\ UNCHANGED <<now, max_hits, peak, calls>>
  BY DEF Allow
<1>2. TypeOK /\ LogInv /\ IdInv /\ WindowHolds
  BY DEF IInv
<1>3. k \in Keys /\ new \in Hits /\ new.id = c.id
  BY <1>1, <1>2, CallType DEF NewHit
<1>4. /\ Recent(c) \subseteq Recorded(hits, k)
      /\ After(log[k], now - Window) \subseteq Recent(c)
      /\ IsFiniteSet(Recent(c)) /\ Cardinality(Recent(c)) \in Nat
  BY <1>1, <1>2, RecentCoversWindow
<1>5. /\ log'[k] = log[k] \cup {new} /\ \A j \in Keys \ {k} : log'[j] = log[j]
      /\ DOMAIN hits' = DOMAIN hits \cup {k}
      /\ Recorded(hits', k) = Recent(c) \cup {new}
      /\ \A j \in Keys \ {k} : Recorded(hits', j) = Recorded(hits, j)
  BY <1>1, <1>2, <1>3, RecordedAfterStore DEF TypeOK
<1>6. /\ Recorded(hits, k) \subseteq log[k] /\ log[k] \in SUBSET Hits
      /\ IsFiniteSet(log[k]) /\ max_hits \in Nat /\ peak \in Nat /\ max_hits <= peak
  BY <1>2, <1>3, LimitsAssumption DEF TypeOK, LogInv
<1> HIDE DEF new, k
<1>7. TypeOK'
  <2>1. \A j \in DOMAIN hits' : j \in Keys /\ hits'[j] \subseteq Hits
    <3>1. \A j \in DOMAIN hits' : hits'[j] = Recorded(hits', j)
      BY DEF Recorded
    <3>2. \A j \in DOMAIN hits : j \in Keys /\ Recorded(hits, j) \subseteq Hits
      BY <1>2 DEF TypeOK, Recorded
    <3> QED
      BY <3>1, <3>2, <1>3, <1>4, <1>5, <1>6
  <2>2. log' \in [Keys -> SUBSET Hits]
    BY <1>1, <1>2, <1>3, <1>6 DEF TypeOK
  <2>3. call' \in [Threads -> CallsOfCheck \cup {Idle}]
    BY <1>1, <1>2 DEF TypeOK, Return
  <2> QED
    BY <1>1, <1>2, <2>1, <2>2, <2>3 DEF TypeOK
<1>8. After(log'[k], now - Window) \subseteq Recent(c) \cup {new}
  BY <1>4, <1>5 DEF After
<1>9. LogInv'
  <2>1. IsFiniteSet(log[k] \cup {new})
    BY <1>6, FS_AddElement
  <2>2. \A u \in Threads : InCheck(u)' => InCheck(u) /\ call'[u] = call[u]
    BY <1>1, <1>2 DEF Return, InCheck, TypeOK
  <2>3. \A j \in Keys \ {k} : /\ IsFiniteSet(log[j])
                              /\ Recorded(hits, j) \subseteq log[j]
                              /\ After(log[j], now - Window) \subseteq Recorded(hits, j)
    BY <1>2 DEF LogInv
  <2>4. \A j \in Keys : /\ IsFiniteSet(log'[j])
                        /\ Recorded(hits', j) \subseteq log'[j]
                        /\ After(log'[j], now - Window) \subseteq Recorded(hits', j)
    BY <1>4, <1>5, <1>6, <1>8, <2>1, <2>3
  <2> QED
    BY <1>1, <1>2, <1>6, <2>2, <2>4 DEF LogInv, After
<1>10. IdInv'
  <2>1. \A j \in Keys : \A h \in log'[j] : h \in log[j] \/ (InCheck(t) /\ h.id = call[t].id)
    BY <1>1, <1>3, <1>5
  <2> QED
    BY <1>1, <2>1, LeaveIdInv
<1>11. WindowHolds'
  <2>1. /\ IsFiniteSet(Recent(c) \cup {new})
        /\ Cardinality(Recent(c) \cup {new}) <= Cardinality(Recent(c)) + 1
    <3> DEFINE R == Recent(c)
    <3>1. IsFiniteSet(R) /\ Cardinality(R) \in Nat
      BY <1>4
    <3> HIDE DEF R
    <3>2. /\ IsFiniteSet(R \cup {new})
          /\ Cardinality(R \cup {new}) =
               IF new \in R THEN Cardinality(R) ELSE Cardinality(R) + 1
      BY <3>1, FS_AddElement
    <3>3. Cardinality(R \cup {new}) <= Cardinality(R) + 1
      BY <3>1, <3>2
    <3> QED
      BY <3>2, <3>3 DEF R
  <2>2. Cardinality(After(log'[k], now - Window)) <= Cardinality(Recent(c) \cup {new})
    BY <1>8, <2>1, FS_Subset
  <2>3. IsFiniteSet(After(log'[k], now - Window))
    BY <1>8, <2>1, FS_Subset
  <2>4. Cardinality(Recent(c)) < max_hits
    BY <1>1 DEF HasRoom
  <2>5. Cardinality(After(log'[k], now - Window)) <= peak
    BY <1>4, <1>6, <2>1, <2>2, <2>3, <2>4, FS_CardinalityType
  <2> QED
    BY <1>1, <1>2, <1>5, <2>5 DEF WindowHolds, After
<1> QED
  BY <1>7, <1>9, <1>10, <1>11 DEF IInv

\* A hit is refused: what is dropped from the record has left the window.
LEMMA RefuseIInv == ASSUME IInv, NEW t \in Threads, Refuse(t) PROVE IInv'
<1> DEFINE c == call[t]
           k == c.key
<1>1. /\ InCheck(t)
      /\ hits' = Store(k, Recent(c))
      /\ Return(t)
      /\ UNCHANGED <<now, max_hits, log, peak, calls>>
  BY DEF Refuse
<1>2. TypeOK /\ LogInv /\ IdInv /\ WindowHolds
  BY DEF IInv
<1>3. /\ k \in Keys
      /\ Recent(c) \subseteq Recorded(hits, k)
      /\ After(log[k], now - Window) \subseteq Recent(c)
  BY <1>1, <1>2, CallType, RecentCoversWindow
<1>4. /\ DOMAIN hits' = DOMAIN hits \cup {k}
      /\ Recorded(hits', k) = Recent(c)
      /\ \A j \in Keys \ {k} : Recorded(hits', j) = Recorded(hits, j)
  BY <1>1, RecordedAfterStore
<1>5. \A j \in Keys : Recorded(hits, j) \subseteq log[j] /\ log[j] \in SUBSET Hits
  BY <1>2 DEF TypeOK, LogInv
<1> HIDE DEF k
<1>6. TypeOK'
  <2>1. \A j \in DOMAIN hits' : j \in Keys /\ hits'[j] \subseteq Hits
    <3>1. \A j \in DOMAIN hits' : j \in Keys /\ hits'[j] = Recorded(hits', j)
      BY <1>2, <1>3, <1>4 DEF Recorded, TypeOK
    <3> QED
      BY <3>1, <1>3, <1>4, <1>5
  <2>2. call' \in [Threads -> CallsOfCheck \cup {Idle}]
    BY <1>1, <1>2 DEF TypeOK, Return
  <2> QED
    BY <1>1, <1>2, <2>1, <2>2 DEF TypeOK
<1>7. LogInv'
  <2>1. \A u \in Threads : InCheck(u)' => InCheck(u) /\ call'[u] = call[u]
    BY <1>1, <1>2 DEF Return, InCheck, TypeOK
  <2>2. \A j \in Keys : /\ IsFiniteSet(log[j])
                        /\ Recorded(hits', j) \subseteq log[j]
                        /\ After(log[j], now - Window) \subseteq Recorded(hits', j)
    BY <1>2, <1>3, <1>4, <1>5 DEF LogInv
  <2> QED
    BY <1>1, <1>2, <2>1, <2>2 DEF LogInv, After
<1>8. IdInv'
  <2>1. \A j \in Keys : \A h \in log'[j] : h \in log[j] \/ (InCheck(t) /\ h.id = call[t].id)
    BY <1>1
  <2>2. Return(t) /\ calls' = calls
    BY <1>1
  <2> QED
    BY <2>1, <2>2, LeaveIdInv
<1>9. WindowHolds'
  BY <1>1, <1>2 DEF WindowHolds, After
<1> QED
  BY <1>6, <1>7, <1>8, <1>9 DEF IInv

\* reset() forgets everything; a check() under way goes on.
LEMMA ResetIInv == ASSUME IInv, Reset PROVE IInv'
<1>1. /\ DOMAIN hits' = {} /\ \A k \in Keys : log'[k] = {}
      /\ log' \in [Keys -> SUBSET Hits]
      /\ peak' = max_hits /\ UNCHANGED <<now, max_hits, call, calls>>
  BY DEF Reset
<1>2. \A k \in Keys : Recorded(hits', k) = {} /\ After(log'[k], now - Window) = {}
  BY <1>1 DEF Recorded, After
<1>3. TypeOK'
  BY <1>1 DEF IInv, TypeOK
<1>4. LogInv'
  <2>1. max_hits' <= peak'
    BY <1>1, LimitsAssumption DEF IInv, TypeOK
  <2>2. \A t \in Threads : InCheck(t)' => call'[t].stamp <= now'
    BY <1>1 DEF IInv, LogInv, InCheck
  <2>3. \A k \in Keys : /\ IsFiniteSet(log'[k])
                        /\ Recorded(hits', k) \subseteq log'[k]
                        /\ After(log'[k], now' - Window) \subseteq Recorded(hits', k)
    BY <1>1, <1>2, FS_EmptySet
  <2> QED
    BY <2>1, <2>2, <2>3 DEF LogInv, After
<1>5. IdInv'
  BY <1>1 DEF IInv, IdInv, InCheck
<1>6. WindowHolds'
  <2>1. peak' \in Nat
    BY <1>1, LimitsAssumption DEF IInv, TypeOK
  <2>2. \A k \in Keys : Cardinality(After(log'[k], now - Window)) = 0
    BY <1>2, FS_EmptySet
  <2>3. \A k \in Keys : Cardinality(After(log'[k], now' - Window)) <= peak'
    BY <1>1, <2>1, <2>2
  <2> QED
    BY <2>3 DEF WindowHolds, After
<1> QED
  BY <1>3, <1>4, <1>5, <1>6 DEF IInv

\* The setter raises the peak when it raises the limit.
LEMMA SetMaxHitsIInv == ASSUME IInv, NEW value \in Limits, SetMaxHits(value) PROVE IInv'
<1>1. /\ max_hits' = value /\ peak' \in Limits /\ value <= peak' /\ peak <= peak'
      /\ UNCHANGED <<now, hits, call, log, calls>>
  BY LimitsAssumption DEF SetMaxHits, IInv, TypeOK
<1>2. TypeOK'
  BY <1>1 DEF IInv, TypeOK
<1>3. LogInv' /\ IdInv'
  BY <1>1 DEF IInv, LogInv, IdInv, InCheck, Recorded, After
<1>4. WindowHolds'
  <2>1. \A k \in Keys : Cardinality(After(log[k], now - Window)) \in Nat
    <3>1. \A k \in Keys : IsFiniteSet(log[k]) /\ After(log[k], now - Window) \subseteq log[k]
      BY DEF IInv, LogInv, After
    <3> QED
      BY <3>1, FS_Subset, FS_CardinalityType
  <2> QED
    BY <1>1, <2>1, LimitsAssumption DEF IInv, TypeOK, WindowHolds, After
<1> QED
  BY <1>2, <1>3, <1>4 DEF IInv

\* Time passes: hits leave the window, and stamps stay behind the clock.
LEMMA TickIInv == ASSUME IInv, Tick PROVE IInv'
<1>1. /\ now' = now + 1 /\ now \in 0..MaxNow /\ now' \in 0..MaxNow
      /\ UNCHANGED <<max_hits, hits, call, log, peak, calls>>
  BY BoundsAssumption DEF Tick, IInv, TypeOK
<1>2. TypeOK'
  BY <1>1 DEF IInv, TypeOK
<1>3. \A k \in Keys : After(log[k], now' - Window) \subseteq After(log[k], now - Window)
  <2> SUFFICES ASSUME NEW k \in Keys
               PROVE  After(log[k], now' - Window) \subseteq After(log[k], now - Window)
    OBVIOUS
  <2>1. log[k] \in SUBSET Hits /\ now - Window \in Int /\ now' - Window \in Int
    BY <1>1, WindowAssumption, BoundsAssumption DEF IInv, TypeOK
  <2>2. now - Window <= now' - Window
    BY <1>1, WindowAssumption, BoundsAssumption
  <2> QED
    BY <2>1, <2>2, AfterShrinks
<1>4. LogInv'
  <2>1. \A t \in Threads : InCheck(t)' => call'[t].stamp <= now'
    BY <1>1, CallType, BoundsAssumption DEF IInv, LogInv, InCheck
  <2>2. \A k \in Keys : /\ IsFiniteSet(log[k])
                        /\ Recorded(hits, k) \subseteq log[k]
                        /\ After(log[k], now' - Window) \subseteq Recorded(hits, k)
    BY <1>3 DEF IInv, LogInv
  <2> QED
    BY <1>1, <2>1, <2>2 DEF IInv, LogInv, Recorded, After
<1>5. IdInv'
  BY <1>1 DEF IInv, IdInv, InCheck
<1>6. WindowHolds'
  <2> SUFFICES ASSUME NEW k \in Keys
               PROVE  Cardinality(After(log[k], now' - Window)) <= peak
    BY <1>1 DEF WindowHolds, After
  <2>1. IsFiniteSet(After(log[k], now - Window))
    <3>1. IsFiniteSet(log[k]) /\ After(log[k], now - Window) \subseteq log[k]
      BY DEF IInv, LogInv, After
    <3> QED
      BY <3>1, FS_Subset
  <2>2. /\ IsFiniteSet(After(log[k], now' - Window))
        /\ Cardinality(After(log[k], now' - Window)) <= Cardinality(After(log[k], now - Window))
    BY <1>3, <2>1, FS_Subset
  <2>3. Cardinality(After(log[k], now - Window)) <= peak
    BY DEF IInv, WindowHolds
  <2> QED
    BY <2>1, <2>2, <2>3, FS_CardinalityType, LimitsAssumption DEF IInv, TypeOK
<1> QED
  BY <1>2, <1>4, <1>5, <1>6 DEF IInv

\* Every step keeps the invariant.
LEMMA NextIInv == IInv /\ [Next]_vars => IInv'
<1> SUFFICES ASSUME IInv, [Next]_vars PROVE IInv'
  OBVIOUS
<1>1. CASE UNCHANGED vars
  BY <1>1 DEF vars, IInv, TypeOK, LogInv, IdInv, WindowHolds, InCheck, Recorded, After
<1> QED
  BY <1>1, EnterIInv, AllowIInv, RefuseIInv, ResetIInv, SetMaxHitsIInv, TickIInv DEF Next

\* The invariant holds in every reachable state, for every value of the constants.
THEOREM InductiveInvariant == Spec => []IInv
BY InitIInv, NextIInv, PTL DEF Spec

\* Type correctness.
THEOREM TypeCorrect == Spec => []TypeOK
<1>1. IInv => TypeOK
  BY DEF IInv
<1> QED
  BY <1>1, InductiveInvariant, PTL

\* No caller exceeds the limit in the window that ends now, however late the
\* threads that decide (check, app/state.py).
THEOREM WindowHoldsAlways == Spec => []WindowHolds
<1>1. IInv => WindowHolds
  BY DEF IInv
<1> QED
  BY <1>1, InductiveInvariant, PTL

\* A refusal is owed to hits that were let through (check, app/state.py).
THEOREM RefusalsJustifiedHolds == Spec => RefusalsJustified
<1> DEFINE A == \A t \in Threads : Refused(t) =>
        Cardinality(After(log[call[t].key], call[t].stamp - Window)) >= max_hits
<1>1. IInv /\ [Next]_vars => [A]_vars
  <2> SUFFICES ASSUME IInv, Next, NEW t \in Threads, Refused(t)
               PROVE  Cardinality(After(log[call[t].key], call[t].stamp - Window)) >= max_hits
    OBVIOUS
  <2>1. InCheck(t) /\ ~InCheck(t)' /\ log' = log
    BY DEF Refused
  <2>2. Refuse(t) \/ Allow(t)
    <3>1. \A u \in Threads : Enter(u) => InCheck(u)'
      BY DEF Enter, InCheck, IInv, TypeOK, Idle, CallsOfCheck
    <3>2. \A u \in Threads : (Enter(u) \/ Allow(u) \/ Refuse(u)) /\ u # t => call'[t] = call[t]
      BY DEF Enter, Allow, Refuse, Return, IInv, TypeOK
    <3>3. ~(UNCHANGED call)
      BY <2>1 DEF InCheck
    <3>4. ~Reset /\ ~Tick /\ \A value \in Limits : ~SetMaxHits(value)
      BY <3>3 DEF Reset, Tick, SetMaxHits
    <3> QED
      BY <2>1, <3>1, <3>2, <3>4 DEF Next, InCheck
  <2>3. ~Allow(t)
    <3>1. ASSUME Allow(t) PROVE FALSE
      <4>1. call[t].key \in Keys /\ NewHit(call[t]).id = call[t].id
        BY <2>1, CallType DEF IInv, NewHit
      <4>2. NewHit(call[t]) \in log'[call[t].key]
        BY <3>1, <4>1 DEF Allow, IInv, TypeOK
      <4> QED
        BY <2>1, <4>1, <4>2 DEF IInv, IdInv
    <3> QED
      BY <3>1
  <2>4. Refuse(t)
    BY <2>2, <2>3
  <2>5. Cardinality(Recent(call[t])) >= max_hits
    <3>1. ~(Cardinality(Recent(call[t])) < max_hits)
      BY <2>4 DEF Refuse, HasRoom
    <3> QED
      BY <3>1, <2>1, RecentCoversWindow, LimitsAssumption DEF IInv, TypeOK
  <2>6. /\ Recent(call[t]) \subseteq After(log[call[t].key], call[t].stamp - Window)
        /\ Cardinality(Recent(call[t])) \in Nat
    BY <2>1, RecentCoversWindow DEF IInv
  <2>7. IsFiniteSet(After(log[call[t].key], call[t].stamp - Window))
    <3>1. /\ IsFiniteSet(log[call[t].key])
          /\ After(log[call[t].key], call[t].stamp - Window) \subseteq log[call[t].key]
      BY <2>1, CallType DEF IInv, LogInv, After
    <3> QED
      BY <3>1, FS_Subset
  <2>8. /\ Cardinality(After(log[call[t].key], call[t].stamp - Window)) \in Nat
        /\ Cardinality(Recent(call[t]))
             <= Cardinality(After(log[call[t].key], call[t].stamp - Window))
    BY <2>6, <2>7, FS_Subset, FS_CardinalityType
  <2> QED
    BY <2>5, <2>6, <2>8, LimitsAssumption DEF IInv, TypeOK
<1> QED
  BY <1>1, InductiveInvariant, PTL DEF Spec, RefusalsJustified
==============================================================================
