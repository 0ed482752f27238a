------------------------- MODULE SpendBudgetProofs -------------------------
(***************************************************************************)
(* Proofs about the daily spending ceiling, for any number of request      *)
(* threads, any ceilings and any calendar.                                 *)
(***************************************************************************)
EXTENDS SpendBudget, FiniteSetTheorems, TLAPS

(***************************************************************************)
(* Counting the units held                                                 *)
(***************************************************************************)

\* The sets counted by Used and LagBounded have a cardinality.
LEMMA HoldersFinite ==
    /\ IsFiniteSet(Callers)
    /\ Cardinality(Callers) \in Nat
    /\ \A d : IsFiniteSet(Holders(d)) /\ Cardinality(Holders(d)) \in Nat
    /\ IsFiniteSet(Carried) /\ Cardinality(Carried) \in Nat
<1>1. IsFiniteSet(Callers)
  BY CallersAssumption
<1>2. \A d : Holders(d) \subseteq Callers
  BY DEF Holders
<1>3. Carried \subseteq Callers
  BY DEF Carried
<1> QED
  BY <1>1, <1>2, <1>3, FS_Subset, FS_CardinalityType

\* reserve() adds one unit to the day it is charged to and to no other.
LEMMA HoldersAfterReserve ==
    ASSUME TypeOK, NEW c \in Callers, holds[c] = NoDay, NEW d \in Days,
           holds' = [holds EXCEPT ![c] = d]
    PROVE  /\ Cardinality(Holders(d)') = Cardinality(Holders(d)) + 1
           /\ \A e \in Days \ {d} : Holders(e)' = Holders(e)
<1>1. holds \in [Callers -> 0..MaxDay] /\ d # NoDay
  BY MaxDayAssumption DEF TypeOK, Days, NoDay
<1>2. c \notin Holders(d) /\ Holders(d)' = Holders(d) \cup {c}
  BY <1>1 DEF Holders
<1>3. \A e \in Days \ {d} : Holders(e)' = Holders(e)
  BY <1>1 DEF Holders, Days, NoDay
<1> QED
  BY <1>2, <1>3, HoldersFinite, FS_AddElement

\* A request that lets go of its unit frees it on the day it was charged to.
LEMMA HoldersAfterRelease ==
    ASSUME TypeOK, NEW c \in Callers, holds[c] # NoDay,
           holds' = [holds EXCEPT ![c] = NoDay]
    PROVE  /\ holds[c] \in Days
           /\ Cardinality(Holders(holds[c])) \in Nat \ {0}
           /\ Cardinality({b \in Callers : holds'[b] = holds[c]})
                = Cardinality(Holders(holds[c])) - 1
           /\ \A e \in Days \ {holds[c]} : Holders(e)' = Holders(e)
<1> DEFINE d == holds[c]
<1>1. holds \in [Callers -> 0..MaxDay] /\ d \in Days
  BY MaxDayAssumption DEF TypeOK, Days, NoDay
<1>2. c \in Holders(d)
        /\ {b \in Callers : holds'[b] = d} = Holders(d) \ {c}
  BY <1>1 DEF Holders, Days, NoDay
<1>3. \A e \in Days \ {d} : Holders(e)' = Holders(e)
  BY <1>1 DEF Holders, Days, NoDay
<1>4. Cardinality(Holders(d) \ {c}) = Cardinality(Holders(d)) - 1
  BY <1>2, HoldersFinite, FS_RemoveElement
<1>5. Cardinality(Holders(d)) # 0
  BY <1>2, HoldersFinite, FS_EmptySet
<1> QED
  BY <1>1, <1>2, <1>3, <1>4, <1>5, HoldersFinite

\* A set of threads that leaves one out is smaller than the pool.
LEMMA OneThreadLeftOut ==
    ASSUME NEW S \in SUBSET Callers, NEW c \in Callers, c \notin S
    PROVE  /\ Cardinality(S) \in Nat
           /\ Cardinality(S) <= Cardinality(Callers) - 1
<1>1. /\ IsFiniteSet(Callers \ {c})
      /\ Cardinality(Callers \ {c}) = Cardinality(Callers) - 1
  BY HoldersFinite, FS_RemoveElement
<1> QED
  BY <1>1, FS_Subset, FS_CardinalityType

\* Letting go of an older unit takes its thread out of Carried.
LEMMA CarriedAfterRelease ==
    ASSUME TypeOK, NEW c \in Callers, holds[c] # NoDay, holds[c] <= day,
           holds' = [holds EXCEPT ![c] = NoDay], day' = day
    PROVE  Cardinality(Carried')
             = Cardinality(Carried) - (IF holds[c] = day THEN 0 ELSE 1)
<1>1. holds \in [Callers -> 0..MaxDay] /\ day \in 0..MaxDay /\ MaxDay \in Nat
  BY MaxDayAssumption DEF TypeOK
<1>2. CASE holds[c] = day
  <2>1. Carried' = Carried
    BY <1>1, <1>2 DEF Carried, NoDay
  <2> QED
    BY <1>2, <2>1, HoldersFinite
<1>3. CASE holds[c] # day
  <2>1. c \in Carried /\ Carried' = Carried \ {c}
    BY <1>1, <1>3 DEF Carried, NoDay
  <2> QED
    BY <1>3, <2>1, HoldersFinite, FS_RemoveElement
<1> QED
  BY <1>2, <1>3

(***************************************************************************)
(* The invariant                                                           *)
(***************************************************************************)

\* The counter starts out unset, with nothing held and nothing paid.
LEMMA InitIInv == Init => IInv
<1> SUFFICES ASSUME Init PROVE IInv
  OBVIOUS
<1>1. TypeOK /\ CalendarInv
  BY CeilingsAssumption, MaxDayAssumption
  DEF Init, TypeOK, CalendarInv, Days, NoDay
<1>2. NoPhantomCharge /\ LagBounded
  BY MaxDayAssumption DEF Init, NoPhantomCharge, LagBounded, Days, NoDay
<1> QED
  BY <1>1, <1>2 DEF IInv

\* Every step keeps the types and the calendar order.
LEMMA NextTypeCalendar == IInv /\ [Next]_vars => TypeOK' /\ CalendarInv'
<1> SUFFICES ASSUME IInv, [Next]_vars PROVE TypeOK' /\ CalendarInv'
  OBVIOUS
<1> USE CeilingsAssumption, MaxDayAssumption
    DEF IInv, TypeOK, CalendarInv, Days, NoDay
<1>1. ASSUME NEW c \in Callers, ReserveGranted(c) PROVE TypeOK' /\ CalendarInv'
  BY <1>1 DEF ReserveGranted, reserve, RolledCount
<1>2. ASSUME NEW c \in Callers, ReserveRefused(c) PROVE TypeOK' /\ CalendarInv'
  BY <1>2 DEF ReserveRefused, reserve, RolledCount
<1>3. ASSUME NEW c \in Callers, Refund(c) PROVE TypeOK' /\ CalendarInv'
  BY <1>3 DEF Refund, refund, RefundApplies
<1>4. ASSUME NEW c \in Callers, Keep(c) PROVE TypeOK' /\ CalendarInv'
  BY <1>4 DEF Keep
<1>5. ASSUME NEW value \in Ceilings, SetDailyMax(value) PROVE TypeOK' /\ CalendarInv'
  BY <1>5 DEF SetDailyMax
<1>6. CASE Midnight
  BY <1>6 DEF Midnight
<1>7. CASE UNCHANGED vars
  BY <1>7 DEF vars
<1> QED
  BY <1>1, <1>2, <1>3, <1>4, <1>5, <1>6, <1>7 DEF Next

\* When reserve() rolls the counter over, the new day has no use yet.
LEMMA FreshDay ==
    ASSUME IInv, day # today
    PROVE  /\ Holders(today) = {}
           /\ Used(today) = 0
<1>1. today \in Days /\ today > day
  BY DEF IInv, TypeOK, CalendarInv, Days
<1>2. Holders(today) = {}
  BY <1>1 DEF IInv, TypeOK, CalendarInv, Days, Holders
<1>3. paid[today] = 0
  BY <1>1 DEF IInv, CalendarInv
<1> QED
  BY <1>2, <1>3, FS_EmptySet DEF Used

\* What a granted reservation does to the use of each day.
LEMMA UsedAfterGrant ==
    ASSUME IInv, NEW c \in Callers, ReserveGranted(c)
    PROVE  /\ Used(today)' = Used(today) + 1
           /\ \A d \in Days \ {today} : Used(d)' = Used(d)
<1>1. TypeOK /\ today \in Days /\ today' = today /\ paid' = paid
  BY DEF IInv, TypeOK, ReserveGranted, reserve
<1>2. /\ Cardinality(Holders(today)') = Cardinality(Holders(today)) + 1
      /\ \A e \in Days \ {today} : Holders(e)' = Holders(e)
  BY <1>1, HoldersAfterReserve DEF ReserveGranted, reserve
<1>3. Used(today)' = Used(today) + 1
  BY <1>1, <1>2, HoldersFinite DEF Used, TypeOK
<1>4. \A d \in Days \ {today} : Used(d)' = Used(d)
  BY <1>1, <1>2 DEF Used
<1> QED
  BY <1>3, <1>4

\* A refund frees its unit on the day it was charged to and on no other.
LEMMA UsedAfterRefund ==
    ASSUME IInv, NEW c \in Callers, Refund(c)
    PROVE  /\ holds[c] \in Days
           /\ Used(holds[c]) > 0
           /\ \A d \in Days : Used(d)' = Used(d) - (IF d = holds[c] THEN 1 ELSE 0)
<1>1. TypeOK /\ paid' = paid
  BY DEF IInv, Refund, refund
<1>2. /\ holds[c] \in Days
      /\ Cardinality(Holders(holds[c])) \in Nat \ {0}
      /\ Cardinality({b \in Callers : holds'[b] = holds[c]})
           = Cardinality(Holders(holds[c])) - 1
      /\ \A e \in Days \ {holds[c]} : Holders(e)' = Holders(e)
  BY <1>1, HoldersAfterRelease DEF Refund, refund
<1>3. \A d \in Days : paid[d] \in Nat
  BY <1>1 DEF TypeOK
<1>4. Used(holds[c]) > 0
  BY <1>2, <1>3 DEF Used
<1>5. ASSUME NEW d \in Days, d = holds[c] PROVE Used(d)' = Used(d) - 1
  BY <1>1, <1>2, <1>3, <1>5 DEF Used, Holders
<1>6. ASSUME NEW d \in Days, d # holds[c] PROVE Used(d)' = Used(d)
  BY <1>1, <1>2, <1>6 DEF Used
<1>7. \A d \in Days : Used(d) \in Nat
  BY <1>3, HoldersFinite DEF Used
<1> QED
  BY <1>2, <1>4, <1>5, <1>6, <1>7

\* A model call that goes through turns a unit held into a unit paid.
LEMMA UsedAfterKeep ==
    ASSUME IInv, NEW c \in Callers, Keep(c)
    PROVE  \A d \in Days : Used(d)' = Used(d)
<1>1. TypeOK
  BY DEF IInv
<1>2. /\ holds[c] \in Days
      /\ Cardinality(Holders(holds[c])) \in Nat \ {0}
      /\ Cardinality({b \in Callers : holds'[b] = holds[c]})
           = Cardinality(Holders(holds[c])) - 1
      /\ \A e \in Days \ {holds[c]} : Holders(e)' = Holders(e)
  BY <1>1, HoldersAfterRelease DEF Keep
<1>3. /\ paid \in [Days -> Nat]
      /\ paid' = [paid EXCEPT ![holds[c]] = @ + 1]
  BY <1>1 DEF TypeOK, Keep
<1>4. ASSUME NEW d \in Days, d = holds[c] PROVE Used(d)' = Used(d)
  BY <1>2, <1>3, <1>4 DEF Used, Holders
<1>5. ASSUME NEW d \in Days, d # holds[c] PROVE Used(d)' = Used(d)
  BY <1>2, <1>3, <1>5 DEF Used
<1> QED
  BY <1>4, <1>5

\* Use of a day is a number.
LEMMA UsedType ==
    ASSUME TypeOK, NEW d \in Days
    PROVE  Used(d) \in Nat
BY HoldersFinite DEF TypeOK, Used

\* No step makes the counter exceed what is in use on the current day.
LEMMA NextNoPhantom == IInv /\ [Next]_vars => NoPhantomCharge'
<1> SUFFICES ASSUME IInv, [Next]_vars PROVE NoPhantomCharge'
  OBVIOUS
<1>0. /\ TypeOK /\ CalendarInv /\ NoPhantomCharge
      /\ today \in Days /\ count \in Nat /\ Days \subseteq Nat
      /\ day <= today
  BY DEF IInv, TypeOK, CalendarInv, Days
<1>u. \A d \in Days : Used(d) \in Nat
  BY <1>0, UsedType
<1>1. ASSUME NEW c \in Callers, ReserveGranted(c) PROVE NoPhantomCharge'
  <2>1. day' = today /\ today' = today /\ Used(today)' = Used(today) + 1
    BY <1>1, UsedAfterGrant DEF ReserveGranted, reserve
  <2>2. count' = RolledCount + 1 /\ RolledCount <= Used(today)
    BY <1>0, <1>1, <1>u DEF ReserveGranted, reserve, RolledCount, NoPhantomCharge
  <2>3. Used(day)' = Used(today)'
    BY <2>1
  <2> QED
    BY <1>0, <1>u, <2>1, <2>2, <2>3 DEF NoPhantomCharge, RolledCount
<1>2. ASSUME NEW c \in Callers, ReserveRefused(c) PROVE NoPhantomCharge'
  <2>1. day' = today /\ Used(day)' = Used(today)
    BY <1>2 DEF ReserveRefused, reserve, Used, Holders
  <2>2. count' = RolledCount /\ RolledCount <= Used(today)
    BY <1>0, <1>2, <1>u DEF ReserveRefused, reserve, RolledCount, NoPhantomCharge
  <2> QED
    BY <2>1, <2>2 DEF NoPhantomCharge
<1>3. ASSUME NEW c \in Callers, Refund(c), day = today PROVE NoPhantomCharge'
  <2>1. day' = day /\ today' = today /\ day \in Days
    BY <1>0, <1>3 DEF Refund, refund
  <2>2. /\ \A d \in Days : Used(d)' = Used(d) - (IF d = holds[c] THEN 1 ELSE 0)
        /\ Used(holds[c]) > 0
    BY <1>3, UsedAfterRefund
  <2>3. Used(day)' = Used(day) - (IF day = holds[c] THEN 1 ELSE 0)
    BY <2>1, <2>2
  <2>4. count' = IF count > 0 THEN count - 1 ELSE count
    BY <1>3 DEF Refund, refund, RefundApplies
  <2>5. count <= Used(day) /\ Used(day) \in Nat
    BY <1>0, <1>3, <1>u DEF NoPhantomCharge
  <2>6. Used(day)' >= 0 /\ count' <= Used(day)'
    BY <1>0, <2>2, <2>3, <2>4, <2>5
  <2> QED
    BY <2>6 DEF NoPhantomCharge
<1>4. ASSUME NEW c \in Callers, Keep(c) PROVE NoPhantomCharge'
  <2>1. day' = day /\ today' = today /\ count' = count
    BY <1>4 DEF Keep
  <2>2. day = today => Used(day)' = Used(day)
    BY <1>0, <1>4, <2>1, UsedAfterKeep
  <2> QED
    BY <1>0, <2>1, <2>2 DEF NoPhantomCharge
<1>5. ASSUME NEW value \in Ceilings, SetDailyMax(value) PROVE NoPhantomCharge'
  BY <1>0, <1>5 DEF SetDailyMax, NoPhantomCharge, Used, Holders
<1>6. CASE Midnight
  BY <1>0, <1>6 DEF Midnight, NoPhantomCharge, TypeOK
<1>7. CASE UNCHANGED vars
  BY <1>0, <1>7 DEF vars, NoPhantomCharge, Used, Holders
<1>8. ASSUME NEW c \in Callers, Refund(c), day # today PROVE NoPhantomCharge'
  BY <1>8 DEF Refund, refund, NoPhantomCharge
<1> QED
  BY <1>1, <1>2, <1>3, <1>4, <1>5, <1>6, <1>7, <1>8 DEF Next

\* reserve() finds its own thread carrying nothing, whatever day it moves to.
LEMMA LagAfterReserve ==
    ASSUME IInv, NEW c \in Callers, holds[c] = NoDay, day' = today,
           \/ ReserveGranted(c) \/ ReserveRefused(c)
    PROVE  /\ Cardinality(Carried') \in Nat
           /\ Cardinality(Carried') <= Cardinality(Callers) - 1
           /\ day = today => Carried' = Carried
<1>1. TypeOK /\ today \in Days /\ holds \in [Callers -> 0..MaxDay] /\ MaxDay \in Nat
  BY MaxDayAssumption DEF IInv, TypeOK
<1>2. holds' = holds \/ holds' = [holds EXCEPT ![c] = today]
  BY DEF ReserveGranted, reserve, ReserveRefused
<1>3. c \notin Carried' /\ Carried' \in SUBSET Callers
  BY <1>1, <1>2 DEF Carried, NoDay, Days
<1>4. day = today => Carried' = Carried
  BY <1>1, <1>2 DEF Carried, NoDay, Days
<1> QED
  BY <1>3, <1>4, OneThreadLeftOut

\* No step makes the counter lag by more than the carried units account for.
LEMMA NextLag == IInv /\ [Next]_vars => LagBounded'
<1> SUFFICES ASSUME IInv, [Next]_vars PROVE LagBounded'
  OBVIOUS
<1>0. /\ TypeOK /\ CalendarInv /\ LagBounded
      /\ today \in Days /\ count \in Nat /\ Days \subseteq Nat
      /\ day <= today /\ day \in 0..MaxDay /\ MaxDay \in Nat
      /\ \A d \in Days : Used(d) \in Nat
      /\ Cardinality(Callers) \in Nat /\ Cardinality(Carried) \in Nat
  BY UsedType, HoldersFinite, MaxDayAssumption
  DEF IInv, TypeOK, CalendarInv, Days
<1>d. day # NoDay <=> day \in Days
  BY <1>0 DEF Days, NoDay
<1>1. ASSUME NEW c \in Callers, ReserveGranted(c) PROVE LagBounded'
  <2>1. /\ day' = today /\ today' = today /\ count' = RolledCount + 1
        /\ Used(today)' = Used(today) + 1 /\ holds[c] = NoDay
    BY <1>1, UsedAfterGrant DEF ReserveGranted, reserve
  <2>2. Used(day)' = Used(today) + 1
    BY <2>1
  <2>3. /\ Cardinality(Carried') \in Nat
        /\ Cardinality(Carried') <= Cardinality(Callers) - 1
        /\ day = today => Carried' = Carried
    BY <1>1, <2>1, LagAfterReserve
  <2>4. CASE day = today
    BY <1>0, <1>d, <2>1, <2>2, <2>3, <2>4 DEF LagBounded, RolledCount
  <2>5. CASE day # today
    <3>1. Used(today) = 0 /\ RolledCount = 0
      BY <2>5, FreshDay DEF RolledCount
    <3> QED
      BY <1>0, <2>1, <2>2, <2>3, <3>1 DEF LagBounded
  <2> QED
    BY <2>4, <2>5
<1>2. ASSUME NEW c \in Callers, ReserveRefused(c) PROVE LagBounded'
  <2>1. /\ day' = today /\ Used(day)' = Used(today) /\ count' = RolledCount
        /\ holds[c] = NoDay
    BY <1>2 DEF ReserveRefused, reserve, Used, Holders
  <2>2. /\ Cardinality(Carried') \in Nat
        /\ Cardinality(Carried') <= Cardinality(Callers) - 1
        /\ day = today => Carried' = Carried
    BY <1>2, <2>1, LagAfterReserve
  <2>3. CASE day = today
    BY <1>0, <1>d, <2>1, <2>2, <2>3 DEF LagBounded, RolledCount
  <2>4. CASE day # today
    <3>1. Used(today) = 0 /\ RolledCount = 0
      BY <2>4, FreshDay DEF RolledCount
    <3> QED
      BY <1>0, <2>1, <2>2, <3>1 DEF LagBounded
  <2> QED
    BY <2>3, <2>4
<1>3. ASSUME NEW c \in Callers, Refund(c), day # NoDay PROVE LagBounded'
  <2>1. day' = day /\ holds[c] # NoDay /\ holds' = [holds EXCEPT ![c] = NoDay]
    BY <1>3 DEF Refund, refund
  <2>2. /\ holds[c] \in Days
        /\ \A d \in Days : Used(d)' = Used(d) - (IF d = holds[c] THEN 1 ELSE 0)
    BY <1>3, UsedAfterRefund
  <2>3. Used(day)' = Used(day) - (IF day = holds[c] THEN 1 ELSE 0)
    BY <1>3, <1>d, <2>1, <2>2
  <2>4. holds[c] <= day
    BY <1>0 DEF CalendarInv
  <2>5. Cardinality(Carried') = Cardinality(Carried) - (IF holds[c] = day THEN 0 ELSE 1)
    BY <1>0, <2>1, <2>4, CarriedAfterRelease
  <2>6. count' \in {count, count - 1}
    BY <1>3 DEF Refund, refund
  <2> QED
    BY <1>0, <1>3, <1>d, <2>1, <2>3, <2>5, <2>6 DEF LagBounded
<1>4. ASSUME NEW c \in Callers, Keep(c), day # NoDay PROVE LagBounded'
  <2>1. /\ day' = day /\ count' = count
        /\ holds[c] # NoDay /\ holds' = [holds EXCEPT ![c] = NoDay]
    BY <1>4 DEF Keep
  <2>2. Used(day)' = Used(day)
    BY <1>4, <1>d, <2>1, UsedAfterKeep
  <2>3. Cardinality(Carried') = Cardinality(Carried) - (IF holds[c] = day THEN 0 ELSE 1)
    BY <1>0, <2>1, CarriedAfterRelease DEF CalendarInv
  <2> QED
    BY <1>0, <1>4, <1>d, <2>1, <2>2, <2>3 DEF LagBounded
<1>5. ASSUME NEW c \in Callers, Refund(c) \/ Keep(c), day = NoDay PROVE LagBounded'
  BY <1>5 DEF Refund, refund, Keep, LagBounded
<1>6. ASSUME NEW value \in Ceilings, SetDailyMax(value) PROVE LagBounded'
  BY <1>0, <1>6 DEF SetDailyMax, LagBounded, Used, Holders, Carried
<1>7. CASE Midnight
  BY <1>0, <1>7 DEF Midnight, LagBounded, Used, Holders, Carried
<1>8. CASE UNCHANGED vars
  BY <1>0, <1>8 DEF vars, LagBounded, Used, Holders, Carried
<1> QED
  BY <1>1, <1>2, <1>3, <1>4, <1>5, <1>6, <1>7, <1>8 DEF Next

(***************************************************************************)
(* The theorems                                                            *)
(***************************************************************************)

\* Every step keeps the inductive invariant.
LEMMA NextIInv == IInv /\ [Next]_vars => IInv'
BY NextTypeCalendar, NextNoPhantom, NextLag DEF IInv

\* The inductive invariant holds in every reachable state.
THEOREM InductiveInvariant == Spec => []IInv
BY InitIInv, NextIInv, PTL DEF Spec

\* The counter, its day and the ledger keep their types: in particular the
\* counter never goes below zero, whatever refunds arrive.
THEOREM TypeCorrect == Spec => []TypeOK
<1>1. IInv => TypeOK
  BY DEF IInv
<1> QED
  BY InductiveInvariant, <1>1, PTL

\* Failed requests do not burn the allowance of the current day.
THEOREM NoPhantomChargeHolds == Spec => []NoPhantomCharge
<1>1. IInv => NoPhantomCharge
  BY DEF IInv
<1> QED
  BY InductiveInvariant, <1>1, PTL

\* The counter lags behind the real use of its day by less than the number of
\* request threads.
THEOREM LagBoundedHolds == Spec => []LagBounded
<1>1. IInv => LagBounded
  BY DEF IInv
<1> QED
  BY InductiveInvariant, <1>1, PTL

\* A grant finds the use of today below the quota.
LEMMA GrantBelowQuota ==
    ASSUME IInv, NEW c \in Callers, ReserveGranted(c)
    PROVE  Used(today) \in Nat /\ Used(today) < EffectiveQuota
<1>0. /\ TypeOK /\ LagBounded /\ today \in Days /\ dailyMax \in Nat /\ count \in Nat
      /\ Used(today) \in Nat
      /\ Cardinality(Callers) \in Nat /\ Cardinality(Carried) \in Nat
  BY UsedType, HoldersFinite, CeilingsAssumption DEF IInv, TypeOK
<1>1. Cardinality(Callers) >= 1
  BY <1>0, HoldersFinite, FS_EmptySet
<1>2. CASE day = today
  <2>1. Used(today) + Cardinality(Carried) <= count + Cardinality(Callers) - 1
    BY <1>0, <1>2 DEF LagBounded, Days, NoDay
  <2>2. count < dailyMax
    BY <1>2 DEF ReserveGranted, reserve, RolledCount
  <2> QED
    BY <1>0, <2>1, <2>2 DEF EffectiveQuota
<1>3. CASE day # today
  <2>1. Used(today) = 0 /\ 0 < dailyMax
    BY <1>3, FreshDay DEF ReserveGranted, reserve, RolledCount
  <2> QED
    BY <1>0, <1>1, <2>1 DEF EffectiveQuota
<1> QED
  BY <1>2, <1>3

\* Every reservation granted leaves the day's use within the quota.
THEOREM GrantWithinQuotaHolds == Spec => GrantWithinQuota
<1> DEFINE Grants == \A c \in Callers :
             holds[c] = NoDay /\ holds'[c] # NoDay => Used(today)' <= EffectiveQuota
<1>1. IInv /\ [Next]_vars => [Grants]_vars
  <2> SUFFICES ASSUME IInv, Next, NEW c \in Callers,
                      holds[c] = NoDay, holds'[c] # NoDay
               PROVE  Used(today)' <= EffectiveQuota
    OBVIOUS
  <2>1. PICK b \in Callers : ReserveGranted(b)
    BY DEF Next, ReserveGranted, reserve, ReserveRefused, Refund, refund, Keep, SetDailyMax,
           Midnight, IInv, TypeOK
  <2>2. Used(today)' = Used(today) + 1
    BY <2>1, UsedAfterGrant
  <2>3. Used(today) \in Nat /\ Used(today) < EffectiveQuota
    BY <2>1, GrantBelowQuota
  <2>4. EffectiveQuota \in Int
    BY HoldersFinite, CeilingsAssumption DEF EffectiveQuota, IInv, TypeOK
  <2> QED
    BY <2>2, <2>3, <2>4
<1> QED
  BY InductiveInvariant, <1>1, PTL DEF Spec, GrantWithinQuota

(***************************************************************************)
(* A ceiling that stays as it is, as in the service                        *)
(***************************************************************************)

\* No day's allowance is used beyond the quota, the days gone by included.
WithinQuota == \A d \in Days : Used(d) <= EffectiveQuota

\* Nothing is used at the start.
LEMMA InitWithinQuota == Init => WithinQuota
<1> SUFFICES ASSUME Init, NEW d \in Days PROVE Used(d) <= EffectiveQuota
  BY DEF WithinQuota
<1>1. Holders(d) = {} /\ paid[d] = 0
  BY DEF Init, Holders, Days, NoDay
<1>2. Used(d) = 0
  BY <1>1, FS_EmptySet DEF Used
<1>3. dailyMax \in Nat /\ Cardinality(Callers) \in Nat /\ Cardinality(Callers) # 0
  BY CallersAssumption, CeilingsAssumption, HoldersFinite, FS_EmptySet DEF Init
<1> QED
  BY <1>2, <1>3 DEF EffectiveQuota

\* A grant finds room; a refund makes some; nothing else changes what is in use.
LEMMA NextWithinQuota ==
    ASSUME IInv, WithinQuota, [Next]_vars, dailyMax' = dailyMax
    PROVE  WithinQuota'
<1>0. /\ TypeOK /\ EffectiveQuota' = EffectiveQuota /\ EffectiveQuota \in Int
      /\ \A d \in Days : Used(d) \in Nat /\ Used(d) <= EffectiveQuota
  BY HoldersFinite, CeilingsAssumption, UsedType
  DEF IInv, TypeOK, WithinQuota, EffectiveQuota
<1>1. ASSUME NEW c \in Callers, ReserveGranted(c) PROVE WithinQuota'
  <2>1. Used(today)' = Used(today) + 1 /\ \A d \in Days \ {today} : Used(d)' = Used(d)
    BY <1>1, UsedAfterGrant
  <2>2. Used(today) < EffectiveQuota /\ today' = today /\ today \in Days
    BY <1>0, <1>1, GrantBelowQuota DEF ReserveGranted, TypeOK
  <2>3. Used(today)' <= EffectiveQuota
    BY <1>0, <2>1, <2>2
  <2>4. \A d \in Days : Used(d)' <= EffectiveQuota
    BY <1>0, <2>1, <2>2, <2>3
  <2> QED
    BY <1>0, <2>4 DEF WithinQuota, Days
<1>2. ASSUME NEW c \in Callers, Refund(c) PROVE WithinQuota'
  <2>1. \A d \in Days : Used(d)' = Used(d) - (IF d = holds[c] THEN 1 ELSE 0)
    BY <1>2, UsedAfterRefund
  <2>2. \A d \in Days : Used(d)' <= EffectiveQuota
    BY <1>0, <2>1
  <2> QED
    BY <1>0, <2>2 DEF WithinQuota, Days
<1>3. ASSUME NEW c \in Callers, Keep(c) PROVE WithinQuota'
  BY <1>0, <1>3, UsedAfterKeep DEF WithinQuota, Days
<1>4. CASE UNCHANGED <<holds, paid>>
  BY <1>0, <1>4 DEF WithinQuota, Used, Holders, Days
<1> QED
  BY <1>1, <1>2, <1>3, <1>4 DEF Next, ReserveRefused, SetDailyMax, Midnight, vars

(***************************************************************************)
(* Refinement                                                              *)
(***************************************************************************)

\* The counter starts as an empty quota.
LEMMA RefineInit == Init => Quota!Init
<1> SUFFICES ASSUME Init PROVE Quota!Init
  OBVIOUS
<1>1. \A d \in Days : Used(d) = 0
  <2> SUFFICES ASSUME NEW d \in Days PROVE Used(d) = 0
    OBVIOUS
  <2>1. Holders(d) = {} /\ paid[d] = 0
    BY DEF Init, Holders, Days, NoDay
  <2> QED
    BY <2>1, FS_EmptySet DEF Used
<1> QED
  BY <1>1 DEF Init, Quota!Init, EffectiveQuota

\* Every step of the counter is a step of the quota or changes nothing in it.
LEMMA RefineNext == IInv /\ [Next]_vars => [Quota!Next]_(Quota!vars)
<1> SUFFICES ASSUME IInv, [Next]_vars PROVE [Quota!Next]_(Quota!vars)
  OBVIOUS
<1> DEFINE charged == [d \in Days |-> Used(d)]
<1>0. /\ TypeOK /\ today \in Days /\ Days \subseteq Nat
      /\ \A d \in Days : Used(d) \in Nat
  BY UsedType DEF IInv, TypeOK, Days
<1>1. ASSUME NEW c \in Callers, ReserveGranted(c) PROVE Quota!Claim
  <2>1. /\ Used(today)' = Used(today) + 1 /\ today' = today
        /\ \A d \in Days \ {today} : Used(d)' = Used(d)
    BY <1>1, UsedAfterGrant DEF ReserveGranted, reserve
  <2>2. charged' = [charged EXCEPT ![today] = @ + 1]
    BY <1>0, <2>1
  <2>3. Used(today) < EffectiveQuota
    BY <1>1, GrantBelowQuota
  <2>4. EffectiveQuota' = EffectiveQuota
    BY <1>1 DEF ReserveGranted, reserve, EffectiveQuota
  <2> QED
    BY <1>0, <2>1, <2>2, <2>3, <2>4 DEF Quota!Claim
<1>2. ASSUME NEW c \in Callers, ReserveRefused(c) PROVE UNCHANGED Quota!vars
  BY <1>2 DEF ReserveRefused, reserve, Quota!vars, EffectiveQuota, Used, Holders
<1>3. ASSUME NEW c \in Callers, Refund(c) PROVE Quota!GiveBack(holds[c])
  <2>1. /\ holds[c] \in Days /\ Used(holds[c]) > 0
        /\ \A d \in Days : Used(d)' = Used(d) - (IF d = holds[c] THEN 1 ELSE 0)
    BY <1>3, UsedAfterRefund
  <2>2. charged' = [charged EXCEPT ![holds[c]] = @ - 1]
    <3>1. charged' = [d \in Days |-> Used(d) - (IF d = holds[c] THEN 1 ELSE 0)]
      BY <2>1
    <3>2. \A d \in Days : Used(d) - (IF d = holds[c] THEN 1 ELSE 0)
            = [charged EXCEPT ![holds[c]] = @ - 1][d]
      BY <1>0, <2>1
    <3>3. charged' = [d \in Days |-> [charged EXCEPT ![holds[c]] = @ - 1][d]]
      BY <3>1, <3>2
    <3> QED
      BY <3>3
  <2>3. EffectiveQuota' = EffectiveQuota /\ today' = today
    BY <1>3 DEF Refund, refund, EffectiveQuota
  <2> QED
    BY <2>1, <2>2, <2>3 DEF Quota!GiveBack
<1>4. ASSUME NEW c \in Callers, Keep(c) PROVE UNCHANGED Quota!vars
  <2>1. charged' = charged
    BY <1>4, UsedAfterKeep
  <2> QED
    BY <1>4, <2>1 DEF Keep, Quota!vars, EffectiveQuota
<1>5. ASSUME NEW value \in Ceilings, SetDailyMax(value) PROVE Quota!SetQuota
  BY <1>5 DEF SetDailyMax, Quota!SetQuota, EffectiveQuota, Used, Holders
<1>6. ASSUME Midnight PROVE Quota!NextDay
  <2>1. today' \in Days /\ today' > today
    BY <1>0, <1>6, MaxDayAssumption DEF Midnight, Days
  <2> QED
    BY <1>6, <2>1 DEF Midnight, Quota!NextDay, EffectiveQuota, Used, Holders
<1>7. CASE UNCHANGED vars
  BY <1>7 DEF vars, Quota!vars, EffectiveQuota, Used, Holders
<1>8. ASSUME NEW c \in Callers, Refund(c) PROVE Quota!Next
  BY <1>3, <1>8, UsedAfterRefund DEF Quota!Next
<1> QED
  BY <1>1, <1>2, <1>4, <1>5, <1>6, <1>7, <1>8 DEF Next, Quota!Next

\* DailySpendBudget implements the daily quota.
THEOREM RefinesQuota == Spec => ImplementsQuota
<1> QED
  BY InductiveInvariant, RefineInit, RefineNext, PTL
  DEF Spec, ImplementsQuota, Quota!Spec
=============================================================================
