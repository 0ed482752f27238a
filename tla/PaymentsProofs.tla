--------------------------- MODULE PaymentsProofs ---------------------------
(***************************************************************************)
(* Theorems about Payments, for any requests, purchases, ids (shared ids   *)
(* too), messages and deaths of the process: a purchase pays for one       *)
(* report, an error costs no purchase, and a message's replay is bounded.  *)
(***************************************************************************)
EXTENDS Payments, TLAPS

PaymentInv == TypeOK /\ TransactionInv /\ SpentInv /\ NothingLost

\* A message is let through only at times at which it is fresh.
FreshTimes(m) == {t \in 0..MaxNow : t - Issued[m] <= PASS_MAX_AGE
                                    /\ t - Issued[m] >= -PASS_MAX_AGE}

ReplayInv ==
    /\ \A m \in Messages : shown[m] \subseteq FreshTimes(m)
    /\ \A w \in Workers :
          pc[w] = "active_pass" => readAt[w] \in FreshTimes(req[w].message)

LEMMA KeyOfScan ==
  ASSUME NEW r \in ScanProofs
  PROVE  /\ Key(r) \in Keys
         /\ Key(r)[1] = PaymentId[r.purchase]
         /\ r.purchase \in Purchases
         /\ Matches(r) => Key(r) = <<PaymentId[r.purchase], "usual">>
  BY DEF ScanProofs, Key, Keys, Matches

LEMMA InitPayments == Init => PaymentInv /\ ReplayInv
  <1> SUFFICES ASSUME Init PROVE PaymentInv /\ ReplayInv
    OBVIOUS
  <1> USE DEF Init
  <1>1. TypeOK
    BY BoundsAssumption DEF TypeOK, Steps
  <1>2. TransactionInv
    BY DEF TransactionInv
  <1>3. SpentInv
    BY DEF SpentInv
  <1>4. NothingLost
    BY DEF NothingLost
  <1>5. ReplayInv
    BY DEF ReplayInv
  <1> QED
    BY <1>1, <1>2, <1>3, <1>4, <1>5 DEF PaymentInv

LEMMA TypeStep == PaymentInv /\ [Next]_vars => TypeOK'
  <1> SUFFICES ASSUME PaymentInv, [Next]_vars PROVE TypeOK'
    OBVIOUS
  <1> USE DEF PaymentInv
  <1>1. ASSUME NEW w \in Workers, Arrive(w) PROVE TypeOK'
    BY <1>1 DEF Arrive, TypeOK, Steps, ghosts
  <1>2. ASSUME NEW w \in Workers, FindPayment(w) PROVE TypeOK'
    BY <1>2, BoundsAssumption DEF FindPayment, TypeOK, Steps, ghosts, GoTo, Leave
  <1>3. ASSUME NEW w \in Workers, Lock(w) PROVE TypeOK'
    BY <1>3 DEF Lock, TypeOK, Steps, ghosts, GoTo
  <1>4. ASSUME NEW w \in Workers, Insert(w) PROVE TypeOK'
    <2>1. Key(req[w]) \in Keys
      BY <1>4, KeyOfScan DEF TransactionInv, Insert, IsScan
    <2> QED
      BY <1>4, <2>1 DEF Insert, TypeOK, Steps, ghosts, GoTo
  <1>5. ASSUME NEW w \in Workers, AlreadyUsed(w) \/ DatabaseFails(w) PROVE TypeOK'
    BY <1>5, BoundsAssumption DEF AlreadyUsed, DatabaseFails, TypeOK, Steps, ghosts, Leave
  <1>6. ASSUME NEW w \in Workers, Commit(w) PROVE TypeOK'
    BY <1>6 DEF Commit, TypeOK, Steps, ghosts, GoTo
  <1>7. ASSUME NEW w \in Workers, Accept(w) PROVE TypeOK'
    <2>1. req[w].purchase \in Purchases
      BY <1>7, KeyOfScan DEF TransactionInv, Accept, IsScan
    <2>2. accepted' \in [Purchases -> Nat]
      BY <1>7, <2>1 DEF Accept, TypeOK
    <2> QED
      BY <1>7, <2>2, BoundsAssumption DEF Accept, TypeOK, Steps, Leave
  <1>8. ASSUME NEW w \in Workers, Freshness(w) PROVE TypeOK'
    BY <1>8, BoundsAssumption DEF Freshness, TypeOK, Steps, ghosts, GoTo, Leave
  <1>9. ASSUME NEW w \in Workers, ActivePass(w) PROVE TypeOK'
    <2>1. req[w].message \in Messages
      BY <1>9 DEF TransactionInv, ActivePass, PassProofs
    <2>2. shown' \in [Messages -> SUBSET (0..MaxNow)]
      BY <1>9, <2>1 DEF ActivePass, TypeOK
    <2> QED
      BY <1>9, <2>2, BoundsAssumption DEF ActivePass, TypeOK, Steps, Leave
  <1>10. CASE Tick
    BY <1>10, BoundsAssumption DEF Tick, TypeOK, ghosts
  <1>11. ASSUME Die PROVE cut' \subseteq Keys
    <2>1. \A v \in Workers : pc[v] = "consumed" => Key(req[v]) \in Keys
      BY KeyOfScan DEF TransactionInv, IsScan
    <2> QED
      BY <1>11, <2>1 DEF Die, TypeOK
  <1>12. CASE Restart
    BY <1>12, <1>11, BoundsAssumption DEF Restart, Die, TypeOK, Steps
  <1>13. CASE Redeploy
    BY <1>13, <1>11, BoundsAssumption DEF Redeploy, Die, TypeOK, Steps
  <1>14. CASE UNCHANGED vars
    BY <1>14 DEF vars, ghosts, TypeOK
  <1> QED
    BY <1>1, <1>2, <1>3, <1>4, <1>5, <1>6, <1>7, <1>8, <1>9, <1>10, <1>12, <1>13, <1>14
    DEF Next, Handle

LEMMA TransactionStep == PaymentInv /\ [Next]_vars => TransactionInv'
  <1> SUFFICES ASSUME PaymentInv, [Next]_vars PROVE TransactionInv'
    OBVIOUS
  <1> USE DEF PaymentInv
  <1>1. ASSUME NEW w \in Workers, Arrive(w) PROVE TransactionInv'
    BY <1>1 DEF Arrive, TransactionInv, TypeOK, IsScan, ghosts
  <1>2. ASSUME NEW w \in Workers, FindPayment(w) PROVE TransactionInv'
    BY <1>2 DEF FindPayment, TransactionInv, TypeOK, GoTo, Leave, ghosts
  <1>3. ASSUME NEW w \in Workers, Lock(w) PROVE TransactionInv'
    BY <1>3, NobodyAssumption DEF Lock, TransactionInv, TypeOK, GoTo, ghosts
  <1>4. ASSUME NEW w \in Workers, Insert(w) PROVE TransactionInv'
    BY <1>4 DEF Insert, TransactionInv, TypeOK, GoTo, ghosts
  <1>5. ASSUME NEW w \in Workers, AlreadyUsed(w) \/ DatabaseFails(w) PROVE TransactionInv'
    BY <1>5 DEF AlreadyUsed, DatabaseFails, TransactionInv, TypeOK, Leave, ghosts
  <1>6. ASSUME NEW w \in Workers, Commit(w) PROVE TransactionInv'
    BY <1>6 DEF Commit, TransactionInv, TypeOK, GoTo, ghosts
  <1>7. ASSUME NEW w \in Workers, Accept(w) \/ ActivePass(w) PROVE TransactionInv'
    BY <1>7 DEF Accept, ActivePass, TransactionInv, TypeOK, Leave
  <1>8. ASSUME NEW w \in Workers, Freshness(w) PROVE TransactionInv'
    BY <1>8 DEF Freshness, TransactionInv, TypeOK, GoTo, Leave, ghosts
  <1>9. CASE Tick \/ UNCHANGED vars
    BY <1>9 DEF Tick, vars, TransactionInv, ghosts
  <1>10. CASE Restart \/ Redeploy
    BY <1>10 DEF Restart, Redeploy, Die, TransactionInv
  <1> QED
    BY <1>1, <1>2, <1>3, <1>4, <1>5, <1>6, <1>7, <1>8, <1>9, <1>10 DEF Next, Handle

\* What SpentInv and NothingLost speak of.
spent == <<used, accepted, cut, redeploys>>

\* A step that leaves it alone, and in which nobody comes to or leaves "consumed".
LEMMA NothingSpent ==
  ASSUME PaymentInv, UNCHANGED spent,
         \A v \in Workers : /\ pc'[v] = "consumed" <=> pc[v] = "consumed"
                            /\ pc[v] = "consumed" => req'[v] = req[v]
  PROVE  SpentInv' /\ NothingLost'
  <1>1. SpentInv'
    BY DEF PaymentInv, SpentInv, spent
  <1>2. NothingLost'
    BY DEF PaymentInv, NothingLost, spent, Key
  <1> QED
    BY <1>1, <1>2

LEMMA SpentStep == PaymentInv /\ [Next]_vars => SpentInv' /\ NothingLost'
  <1> SUFFICES ASSUME PaymentInv, [Next]_vars PROVE SpentInv' /\ NothingLost'
    OBVIOUS
  <1> USE DEF PaymentInv
  <1>1. ASSUME NEW w \in Workers, Arrive(w) PROVE SpentInv' /\ NothingLost'
    BY <1>1, NothingSpent DEF Arrive, TypeOK, ghosts, spent
  <1>2. ASSUME NEW w \in Workers,
               FindPayment(w) \/ Lock(w) \/ Insert(w) \/ AlreadyUsed(w) \/ DatabaseFails(w)
               \/ Freshness(w) \/ ActivePass(w)
        PROVE  SpentInv' /\ NothingLost'
    <2>1. UNCHANGED spent
      BY <1>2 DEF FindPayment, Lock, Insert, AlreadyUsed, DatabaseFails, Freshness, ActivePass,
                  ghosts, spent
    <2>2. /\ pc[w] # "consumed" /\ pc'[w] # "consumed"
          /\ \A v \in Workers \ {w} : pc'[v] = pc[v] /\ req'[v] = req[v]
      BY <1>2 DEF FindPayment, Lock, Insert, AlreadyUsed, DatabaseFails, Freshness, ActivePass,
                  GoTo, Leave, TypeOK
    <2> QED
      BY <2>1, <2>2, NothingSpent
  <1>3. ASSUME NEW w \in Workers, Commit(w) PROVE SpentInv' /\ NothingLost'
    <2> DEFINE id == PaymentId[req[w].purchase]
               key == <<id, "usual">>
    <2>1. req[w] \in ScanProofs /\ Key(req[w]) = key /\ key[1] = id
      BY <1>3, KeyOfScan DEF Commit, TransactionInv, IsScan
    <2>2. key \notin used /\ used' = used \cup {key}
      BY <1>3, <2>1 DEF Commit, TransactionInv
    <2>3. /\ pc' = [pc EXCEPT ![w] = "consumed"] /\ UNCHANGED <<req, accepted, redeploys, cut>>
      BY <1>3 DEF Commit, GoTo, ghosts
    <2>4. ASSUME NEW v \in Workers, pc[v] = "consumed" PROVE PaymentId[req[v].purchase] # id
      <3>1. req[v].purchase \in Purchases
        BY <2>4, KeyOfScan DEF TransactionInv, IsScan
      <3> QED
        BY <2>2, <2>4, <3>1 DEF SpentInv
    <2>5. SpentInv'
      <3> SUFFICES ASSUME NEW p \in Purchases
                   PROVE  /\ accepted[p] <= redeploys + 1
                          /\ <<PaymentId[p], "usual">> \notin used' => accepted[p] <= redeploys
                          /\ \A v \in Workers :
                              pc'[v] = "consumed" /\ PaymentId[req[v].purchase] = PaymentId[p] =>
                                /\ <<PaymentId[p], "usual">> \in used'
                                /\ accepted[p] <= redeploys
                                /\ \A u \in Workers : pc'[u] = "consumed"
                                     /\ PaymentId[req[u].purchase] = PaymentId[p] => u = v
        BY <2>3 DEF SpentInv
      <3>1. CASE PaymentId[p] = id
        BY <3>1, <2>2, <2>3, <2>4 DEF SpentInv, TypeOK
      <3>2. CASE PaymentId[p] # id
        BY <3>2, <2>2, <2>3 DEF SpentInv, TypeOK
      <3> QED
        BY <3>1, <3>2
    <2>6. NothingLost'
      <3>1. pc'[w] = "consumed" /\ Key(req'[w]) = key
        BY <2>1, <2>3 DEF TypeOK
      <3>2. \A v \in Workers : pc[v] = "consumed" => pc'[v] = "consumed" /\ Key(req'[v]) = Key(req[v])
        BY <2>3 DEF TypeOK
      <3> QED
        BY <2>2, <2>3, <3>1, <3>2 DEF NothingLost
    <2> QED
      BY <2>5, <2>6
  <1>4. ASSUME NEW w \in Workers, Accept(w) PROVE SpentInv' /\ NothingLost'
    <2> DEFINE paid == req[w].purchase
    <2>1. /\ paid \in Purchases /\ Key(req[w])[1] = PaymentId[paid]
          /\ pc[w] = "consumed"
      BY <1>4, KeyOfScan DEF Accept, TransactionInv, IsScan
    <2>2. /\ <<PaymentId[paid], "usual">> \in used
          /\ accepted[paid] <= redeploys
          /\ \A v \in Workers : pc[v] = "consumed"
                /\ PaymentId[req[v].purchase] = PaymentId[paid] => v = w
      BY <2>1 DEF SpentInv
    <2>3. /\ accepted' = [accepted EXCEPT ![paid] = @ + 1]
          /\ pc' = [pc EXCEPT ![w] = "idle"]
          /\ \A v \in Workers \ {w} : req'[v] = req[v]
          /\ UNCHANGED <<used, redeploys, cut>>
      BY <1>4 DEF Accept, Leave, TypeOK
    <2>4. \A v \in Workers : pc'[v] = "consumed" => v # w /\ pc[v] = "consumed"
      BY <2>3 DEF TypeOK
    <2>5. SpentInv'
      <3> SUFFICES ASSUME NEW p \in Purchases
                   PROVE  /\ accepted'[p] <= redeploys + 1
                          /\ <<PaymentId[p], "usual">> \notin used => accepted'[p] <= redeploys
                          /\ \A v \in Workers :
                              pc'[v] = "consumed" /\ PaymentId[req'[v].purchase] = PaymentId[p] =>
                                /\ <<PaymentId[p], "usual">> \in used
                                /\ accepted'[p] <= redeploys
                                /\ \A u \in Workers : pc'[u] = "consumed"
                                     /\ PaymentId[req'[u].purchase] = PaymentId[p] => u = v
        BY <2>3 DEF SpentInv
      <3>1. CASE p = paid
        <4>1. accepted'[p] = accepted[p] + 1
          BY <3>1, <2>1, <2>3 DEF TypeOK
        <4>2. \A v \in Workers : ~ (pc'[v] = "consumed" /\ PaymentId[req'[v].purchase] = PaymentId[p])
          BY <3>1, <2>2, <2>3, <2>4
        <4>3. accepted[p] \in Nat /\ redeploys \in Nat
          BY BoundsAssumption DEF TypeOK
        <4>4. accepted'[p] <= redeploys + 1
          BY <3>1, <4>1, <4>3, <2>2
        <4> QED
          BY <3>1, <4>2, <4>4, <2>2
      <3>2. CASE p # paid
        <4>1. accepted'[p] = accepted[p]
          BY <3>2, <2>3 DEF TypeOK
        <4> QED
          BY <4>1, <2>3, <2>4 DEF SpentInv
      <3> QED
        BY <3>1, <3>2
    <2>6. NothingLost'
      <3>1. accepted'[paid] > 0
        BY <2>1, <2>3 DEF TypeOK
      <3>2. \A p \in Purchases : accepted[p] > 0 => accepted'[p] > 0
        BY <2>3 DEF TypeOK
      <3> SUFFICES ASSUME NEW k \in used
                   PROVE  \/ k \in cut
                          \/ \E p \in Purchases : PaymentId[p] = k[1] /\ accepted'[p] > 0
                          \/ \E v \in Workers : pc'[v] = "consumed" /\ Key(req'[v]) = k
        BY <2>3 DEF NothingLost
      <3>3. ASSUME NEW v \in Workers, pc[v] = "consumed", Key(req[v]) = k, v # w
            PROVE  pc'[v] = "consumed" /\ Key(req'[v]) = k
        BY <3>3, <2>3 DEF TypeOK
      <3> QED
        BY <2>1, <3>1, <3>2, <3>3 DEF NothingLost
    <2> QED
      BY <2>5, <2>6
  <1>5. CASE Tick \/ UNCHANGED vars
    BY <1>5, NothingSpent DEF Tick, vars, ghosts, spent
  <1>6. CASE Restart
    <2>1. /\ UNCHANGED <<used, accepted, redeploys>>
          /\ \A v \in Workers : pc'[v] = "idle"
          /\ cut \subseteq cut'
          /\ \A v \in Workers : pc[v] = "consumed" => Key(req[v]) \in cut'
      BY <1>6 DEF Restart, Die
    <2>2. SpentInv'
      BY <2>1 DEF SpentInv
    <2>3. NothingLost'
      BY <2>1 DEF NothingLost
    <2> QED
      BY <2>2, <2>3
  <1>7. CASE Redeploy
    <2>1. /\ UNCHANGED accepted
          /\ used' = {} /\ redeploys' = redeploys + 1
          /\ \A v \in Workers : pc'[v] = "idle"
      BY <1>7 DEF Redeploy, Die
    <2>2. \A p \in Purchases : accepted[p] <= redeploys + 1
      BY DEF SpentInv
    <2>3. \A p \in Purchases : accepted'[p] <= redeploys'
      BY <2>1, <2>2
    <2>4. \A p \in Purchases : accepted'[p] <= redeploys' + 1
      <3>1. redeploys' \in Nat /\ accepted' \in [Purchases -> Nat]
        BY <2>1, BoundsAssumption DEF TypeOK
      <3> QED
        BY <2>3, <3>1
    <2>5. SpentInv'
      BY <2>1, <2>3, <2>4 DEF SpentInv
    <2>6. NothingLost'
      BY <2>1 DEF NothingLost
    <2> QED
      BY <2>5, <2>6
  <1> QED
    BY <1>1, <1>2, <1>3, <1>4, <1>5, <1>6, <1>7 DEF Next, Handle

LEMMA ReplayStep == PaymentInv /\ ReplayInv /\ [Next]_vars => ReplayInv'
  <1> SUFFICES ASSUME PaymentInv, ReplayInv, [Next]_vars PROVE ReplayInv'
    OBVIOUS
  <1> USE DEF PaymentInv
  <1>1. ASSUME NEW w \in Workers, Arrive(w) PROVE ReplayInv'
    BY <1>1 DEF Arrive, ReplayInv, TypeOK, ghosts
  <1>2. ASSUME NEW w \in Workers,
               FindPayment(w) \/ Lock(w) \/ Insert(w) \/ AlreadyUsed(w) \/ DatabaseFails(w)
               \/ Commit(w) \/ Accept(w)
        PROVE  ReplayInv'
    <2>1. UNCHANGED shown
      BY <1>2 DEF FindPayment, Lock, Insert, AlreadyUsed, DatabaseFails, Commit, Accept, ghosts
    <2>2. /\ pc'[w] # "active_pass"
          /\ \A v \in Workers \ {w} : pc'[v] = pc[v] /\ req'[v] = req[v] /\ readAt'[v] = readAt[v]
      BY <1>2 DEF FindPayment, Lock, Insert, AlreadyUsed, DatabaseFails, Commit, Accept,
                  GoTo, Leave, TypeOK
    <2> QED
      BY <2>1, <2>2 DEF ReplayInv
  <1>3. ASSUME NEW w \in Workers, Freshness(w) PROVE ReplayInv'
    BY <1>3 DEF Freshness, Fresh, FreshTimes, ReplayInv, TypeOK, GoTo, Leave, ghosts
  <1>4. ASSUME NEW w \in Workers, ActivePass(w) PROVE ReplayInv'
    <2>1. req[w].message \in Messages /\ readAt[w] \in FreshTimes(req[w].message)
      BY <1>4 DEF ActivePass, TransactionInv, PassProofs, ReplayInv
    <2>2. \A m \in Messages : shown'[m] \subseteq FreshTimes(m)
      BY <1>4, <2>1 DEF ActivePass, ReplayInv, TypeOK
    <2>3. /\ pc'[w] # "active_pass"
          /\ \A v \in Workers \ {w} : pc'[v] = pc[v] /\ req'[v] = req[v] /\ readAt'[v] = readAt[v]
      BY <1>4 DEF ActivePass, Leave, TypeOK
    <2> QED
      BY <2>2, <2>3 DEF ReplayInv
  <1>5. CASE Tick \/ UNCHANGED vars
    BY <1>5 DEF Tick, vars, ghosts, ReplayInv
  <1>6. CASE Restart \/ Redeploy
    BY <1>6 DEF Restart, Redeploy, Die, ReplayInv
  <1> QED
    BY <1>1, <1>2, <1>3, <1>4, <1>5, <1>6 DEF Next, Handle

LEMMA PaymentInvHolds == Spec => [](PaymentInv /\ ReplayInv)
  <1>1. PaymentInv /\ ReplayInv /\ [Next]_vars => (PaymentInv /\ ReplayInv)'
    BY TypeStep, TransactionStep, SpentStep, ReplayStep DEF PaymentInv
  <1> QED
    BY InitPayments, <1>1, PTL DEF Spec

\* Every state of verify_and_consume and verify_pass has the declared types.
THEOREM PaymentsTypeCorrect == Spec => []TypeOK
  <1>1. PaymentInv => TypeOK
    BY DEF PaymentInv
  <1> QED
    BY PaymentInvHolds, <1>1, PTL

(***************************************************************************)
(* verify_and_consume lets a purchase through once in the life of a disk,  *)
(* for any number of threads, spellings, purchases that share an id, and   *)
(* deaths of the process.                                                  *)
(***************************************************************************)
THEOREM PurchaseOnceHolds == Spec => []PurchaseOnce
  <1>1. PaymentInv => PurchaseOnce
    BY DEF PaymentInv, SpentInv, PurchaseOnce
  <1> QED
    BY PaymentInvHolds, <1>1, PTL

\* An id in used_payments was spent on a report, or its request died after the commit.
THEOREM NothingLostHolds == Spec => []NothingLost
  <1>1. PaymentInv => NothingLost
    BY DEF PaymentInv
  <1> QED
    BY PaymentInvHolds, <1>1, PTL

\* verify_pass: a message's uses lie within twice _PASS_MAX_AGE.
THEOREM ReplayWindowHolds == Spec => []ReplayWindow
  <1>1. ReplayInv => ReplayWindow
    <2> SUFFICES ASSUME ReplayInv, NEW m \in Messages, NEW s \in shown[m], NEW t \in shown[m]
                 PROVE  t - s <= 2 * PASS_MAX_AGE
      BY DEF ReplayWindow
    <2>1. s \in FreshTimes(m) /\ t \in FreshTimes(m)
      BY DEF ReplayInv
    <2> QED
      BY <2>1, MessagesAssumption, BoundsAssumption DEF FreshTimes
  <1> QED
    BY PaymentInvHolds, <1>1, PTL
=============================================================================
