------------------------- MODULE ScanServiceProofs -------------------------
(***************************************************************************)
(* Proofs about the request pipeline, for any number of threads, contracts *)
(* and payments, any configuration and any bound on the clock, the proxy   *)
(* upgrades and the restarts.                                              *)
(***************************************************************************)
EXTENDS ScanService, FiniteSetTheorems, TLAPS

\* The invariant of the control flow: what a thread has and holds where it is.
ControlInv == TypeOK /\ RequestInv /\ HoldsWhileFunded

(***************************************************************************)
(* Days                                                                    *)
(***************************************************************************)

\* The clock stays within the calendar, and a tick moves it by one day at most.
LEMMA DayType ==
    ASSUME NEW n \in 0..MaxNow
    PROVE  n \div DayLength + 1 \in 1..LastDay
<1>1. n \in Nat /\ DayLength \in Nat /\ DayLength >= 1 /\ MaxNow \in Nat /\ n <= MaxNow
  BY BoundsAssumption
<1>2. n \div DayLength \in Nat /\ n \div DayLength <= MaxNow \div DayLength
  BY <1>1
<1> QED
  BY <1>1, <1>2 DEF LastDay

\* There is at least one day.
LEMMA CalendarLength == LastDay \in Nat \ {0}
<1>1. 0 \in 0..MaxNow
  BY BoundsAssumption
<1> QED
  BY <1>1, DayType, BoundsAssumption DEF LastDay

\* From one tick to the next the day changes by one at most.
LEMMA DayStep ==
    ASSUME NEW n \in Nat
    PROVE  (n + 1) \div DayLength \in {n \div DayLength, n \div DayLength + 1}
<1>1. DayLength \in Nat /\ DayLength >= 1
  BY BoundsAssumption
<1> QED
  BY <1>1

(***************************************************************************)
(* Stores                                                                  *)
(***************************************************************************)

\* A key is its contract.
LEMMA KeyOf == \A c \in Contracts : CacheKey(c) = c
BY ContractsAssumption DEF CacheKey

\* get() leaves a subset of the entries.
LEMMA StoreAfterGet ==
    ASSUME NEW cache, Store(cache), NEW key
    PROVE  Store(AfterGet(cache, key))
BY DEF Store, AfterGet

\* put() adds an entry of the right shape.
LEMMA StoreAfterPut ==
    ASSUME now \in 0..MaxNow, NEW cache, Store(cache),
           NEW c \in Contracts, NEW value \in Scans
    PROVE  Store(AfterPut(cache, CacheKey(c), value))
BY DEF Store, AfterPut

\* A scan just resolved is a scan, of the contract asked for.
LEMMA ResolutionType ==
    ASSUME now \in 0..MaxNow, code \in [Contracts -> Versions],
           NEW c \in Contracts, NEW s \in Resolutions(c)
    PROVE  s \in Scans /\ s.target = c
<1>1. Clean(c) \in Scans /\ Clean(c).target = c
  BY DEF Clean, Scans
<1>2. Unread(c) \in Scans /\ Unread(c).target = c
  BY <1>1 DEF Clean, Unread, Scans
<1>3. \A seen \in BOOLEAN : ShellOnly(c, seen) \in Scans /\ ShellOnly(c, seen).target = c
  BY <1>1 DEF Clean, ShellOnly, Scans
<1>4. s \in {Clean(c), Unread(c)} \/ \E seen \in BOOLEAN : s = ShellOnly(c, seen)
  BY DEF Resolutions
<1> QED
  BY <1>1, <1>2, <1>3, <1>4

(***************************************************************************)
(* The control invariant                                                   *)
(***************************************************************************)

\* Initially every thread is idle, every store empty and nothing is used.
LEMMA InitControl == Init => ControlInv
<1> SUFFICES ASSUME Init PROVE ControlInv
  OBVIOUS
<1>1. /\ 0 \in 0..MaxNow /\ 1 \in Versions /\ Never \in 0..Never /\ LastDay \in Nat
      /\ 0 \in 0..MaxRestarts
  BY BoundsAssumption, CalendarLength DEF Versions, Never
<1>2. Store(<< >>)
  BY DEF Store
<1>3. FlowTypeOK
  BY <1>1 DEF Init, FlowTypeOK
<1>4. BudgetTypeOK /\ PaymentTypeOK
  BY <1>1 DEF Init, BudgetTypeOK, PaymentTypeOK, Budget!NoDay
<1>5. RequestInv
  BY DEF Init, RequestInv, NoRequest
<1>6. HoldsWhileFunded
  BY DEF Init, HoldsWhileFunded, NoRequest, Budget!NoDay
<1>7. Store(scan_cache) /\ Store(report_cache)
  BY <1>2 DEF Init
<1> QED
  BY <1>3, <1>4, <1>5, <1>6, <1>7 DEF ControlInv, TypeOK

\* A thread that answers is idle, has no request and holds no unit.
LEMMA AfterAnswer ==
    ASSUME ControlInv, NEW w \in Workers, Answer(w),
           holds' \in {holds, [holds EXCEPT ![w] = Budget!NoDay]},
           holds'[w] = Budget!NoDay
    PROVE  FlowTypeOK' /\ RequestInv' /\ HoldsWhileFunded'
<1>1. FlowTypeOK /\ BudgetTypeOK /\ RequestInv /\ HoldsWhileFunded
  BY DEF ControlInv, TypeOK
<1>2. FlowTypeOK'
  BY <1>1 DEF FlowTypeOK, Answer
<1>3. RequestInv'
  BY <1>1 DEF FlowTypeOK, Answer, RequestInv, NoRequest
<1>4. HoldsWhileFunded'
  BY <1>1, CalendarLength
  DEF FlowTypeOK, BudgetTypeOK, Answer, HoldsWhileFunded, NoRequest, Funded, Budget!NoDay
<1> QED
  BY <1>2, <1>3, <1>4

\* What a thread needs to be about to make a call.
Ready(w, call, s) ==
    /\ call \in {"find_payment", "consume"} => req[w].proof \in PaymentIds
    /\ call \in {"find_payment", "consume", "verify_pass", "reserve",
                 "triage", "put_report"} => req[w].kind = "report"
    /\ call \in {"analyze", "settle", "triage", "put_report", "put_scan"} =>
          s \in Scans /\ s.target = req[w].contract
    /\ call \in {"triage", "put_report", "put_scan"} => ~s.degraded

\* A thread that moves on to a call it is ready for.
LEMMA AfterGoTo ==
    ASSUME ControlInv, NEW w \in Workers, NEW call \in Calls, GoTo(w, call),
           pc[w] # "idle",
           NEW s \in Scans \cup {NoScan}, scan' = [scan EXCEPT ![w] = s],
           Ready(w, call, s),
           NEW d \in 0..LastDay, holds' = [holds EXCEPT ![w] = d],
           d # Budget!NoDay <=> req[w].kind = "report" /\ call \in Funded
    PROVE  FlowTypeOK' /\ RequestInv' /\ HoldsWhileFunded'
<1>1. FlowTypeOK /\ BudgetTypeOK /\ RequestInv /\ HoldsWhileFunded
  BY DEF ControlInv, TypeOK
<1>2. FlowTypeOK'
  BY <1>1 DEF FlowTypeOK, GoTo
<1>3. RequestInv'
  <2>1. call # "idle" /\ req' = req /\ req[w] # NoRequest
    BY <1>1 DEF GoTo, Calls, RequestInv
  <2>2. ASSUME NEW v \in Workers, v # w
        PROVE  pc'[v] = pc[v] /\ scan'[v] = scan[v]
    BY <1>1, <2>2 DEF FlowTypeOK, GoTo
  <2>3. pc'[w] = call /\ scan'[w] = s
    BY <1>1 DEF FlowTypeOK, GoTo
  <2> QED
    BY <1>1, <2>1, <2>2, <2>3 DEF RequestInv, Ready
<1>4. HoldsWhileFunded'
  BY <1>1 DEF FlowTypeOK, BudgetTypeOK, GoTo, HoldsWhileFunded
<1> QED
  BY <1>2, <1>3, <1>4

\* The same for a step that touches neither the scan nor the unit held.
LEMMA AfterPlainGoTo ==
    ASSUME ControlInv, NEW w \in Workers, NEW call \in Calls, GoTo(w, call),
           pc[w] # "idle", UNCHANGED <<scan, holds>>, Ready(w, call, scan[w]),
           req[w].kind = "report" => (pc[w] \in Funded <=> call \in Funded)
    PROVE  FlowTypeOK' /\ RequestInv' /\ HoldsWhileFunded'
<1>1. FlowTypeOK /\ BudgetTypeOK /\ HoldsWhileFunded
  BY DEF ControlInv, TypeOK
<1>2. scan[w] \in Scans \cup {NoScan} /\ scan' = [scan EXCEPT ![w] = scan[w]]
  BY <1>1 DEF FlowTypeOK
<1>3. holds[w] \in 0..LastDay /\ holds' = [holds EXCEPT ![w] = holds[w]]
  BY <1>1 DEF BudgetTypeOK
<1>4. holds[w] # Budget!NoDay <=> req[w].kind = "report" /\ call \in Funded
  BY <1>1 DEF HoldsWhileFunded
<1> QED
  BY <1>2, <1>3, <1>4, AfterGoTo

\* A refund leaves the budget well typed and the thread with nothing.
LEMMA AfterRefund ==
    ASSUME ControlInv, NEW w \in Workers, RefundIfReport(w)
    PROVE  /\ day' \in 0..LastDay /\ count' \in Nat
           /\ holds' \in [Workers -> 0..LastDay]
           /\ holds' \in {holds, [holds EXCEPT ![w] = Budget!NoDay]}
           /\ holds'[w] = Budget!NoDay
<1>1. BudgetTypeOK /\ HoldsWhileFunded
  BY DEF ControlInv, TypeOK
<1>2. CASE req[w].kind = "report"
  BY <1>1, <1>2, CalendarLength
  DEF RefundIfReport, BudgetTypeOK, Budget!refund, Budget!RefundApplies, Budget!NoDay
<1>3. CASE req[w].kind # "report"
  BY <1>1, <1>3 DEF RefundIfReport, BudgetTypeOK, HoldsWhileFunded
<1> QED
  BY <1>2, <1>3

\* A thread that serves a request has one, and it is well formed.
LEMMA Serving ==
    ASSUME ControlInv, NEW w \in Workers, pc[w] # "idle"
    PROVE  /\ req[w] \in Requests /\ req[w].contract \in Contracts
           /\ req[w].kind \in {"scan", "report"}
           /\ holds[w] \in 0..LastDay
           /\ scan[w] \in Scans \cup {NoScan}
BY DEF ControlInv, TypeOK, FlowTypeOK, BudgetTypeOK, RequestInv, Requests

\* The rest of the invariant, for a step that leaves caches and budget alone.
LEMMA OnlyFlow ==
    ASSUME ControlInv, UNCHANGED <<memory, used, holds, paid, authorized>>,
           delivered' \subseteq PaymentIds
    PROVE  Store(scan_cache)' /\ Store(report_cache)' /\ BudgetTypeOK' /\ PaymentTypeOK'
BY DEF ControlInv, TypeOK, memory, BudgetTypeOK, PaymentTypeOK, Store

\* An answer adds at most the request's payment to those delivered.
LEMMA AfterDeliver ==
    ASSUME ControlInv, NEW w \in Workers, Deliver(w) \/ Error(w)
    PROVE  Answer(w) /\ delivered' \subseteq PaymentIds
BY DEF ControlInv, TypeOK, PaymentTypeOK, Deliver, Error

\* Each handler step keeps the control invariant.
LEMMA HandleControl ==
    ASSUME ControlInv, NEW w \in Workers, Handle(w)
    PROVE  ControlInv'
<1> USE DEF ControlInv, TypeOK
<1>a. pc[w] = "idle" => FALSE
  BY DEF Handle, Work, FindPayment, Consume, VerifyPass, GetScan, GetReport, Reserve,
         Resolve, Analyze, CoreFails, SettleScan, SettleReport, Triage,
         TriageFails, PutReport, PutScan
<1>s. /\ req[w] \in Requests /\ req[w].contract \in Contracts
      /\ req[w].kind \in {"scan", "report"}
      /\ holds[w] \in 0..LastDay /\ scan[w] \in Scans \cup {NoScan}
  BY <1>a, Serving
<1>1. CASE FindPayment(w)
  <2>1. CASE GoTo(w, "consume") /\ UNCHANGED <<scan, delivered>>
    BY <1>1, <1>s, <2>1, AfterPlainGoTo, OnlyFlow
    DEF FindPayment, RequestInv, Funded, Calls, Ready, PaymentTypeOK
  <2>2. CASE Error(w)
    BY <1>1, <2>2, AfterDeliver, AfterAnswer, OnlyFlow
    DEF FindPayment, HoldsWhileFunded, Funded
  <2> QED
    BY <1>1, <2>1, <2>2 DEF FindPayment
<1>2. CASE Consume(w)
  <2>1. req[w].proof \in PaymentIds /\ req[w].kind = "report"
    BY <1>2 DEF Consume, RequestInv
  <2>2. CASE req[w].proof \notin used
    <3>1. /\ GoTo(w, "get")
          /\ UNCHANGED <<scan, delivered, memory, holds, paid>>
          /\ used' = used \cup {req[w].proof}
          /\ authorized' = [authorized EXCEPT ![req[w].proof] = @ + 1]
      BY <1>2, <2>2 DEF Consume
    <3>2. FlowTypeOK' /\ RequestInv' /\ HoldsWhileFunded'
      BY <1>2, <3>1, AfterPlainGoTo DEF Consume, Funded, Calls, Ready
    <3>3. PaymentTypeOK' /\ BudgetTypeOK' /\ Store(scan_cache)' /\ Store(report_cache)'
      BY <2>1, <3>1 DEF PaymentTypeOK, BudgetTypeOK, memory, Store
    <3> QED
      BY <3>2, <3>3
  <2>3. CASE req[w].proof \in used
    <3>1. Error(w) /\ UNCHANGED <<memory, used, holds, paid, authorized>>
      BY <1>2, <2>3 DEF Consume
    <3> QED
      BY <1>2, <3>1, AfterDeliver, AfterAnswer, OnlyFlow
      DEF Consume, HoldsWhileFunded, Funded
  <2> QED
    BY <2>2, <2>3
<1>3. CASE VerifyPass(w)
  <2>1. CASE GoTo(w, "get") /\ UNCHANGED <<scan, delivered>>
    BY <1>3, <1>s, <2>1, AfterPlainGoTo, OnlyFlow
    DEF VerifyPass, RequestInv, Funded, Calls, Ready, PaymentTypeOK
  <2>2. CASE Error(w)
    BY <1>3, <2>2, AfterDeliver, AfterAnswer, OnlyFlow
    DEF VerifyPass, HoldsWhileFunded, Funded
  <2> QED
    BY <1>3, <2>1, <2>2 DEF VerifyPass
<1>4. CASE GetScan(w)
  <2>1. /\ Store(scan_cache)' /\ Store(report_cache)' /\ BudgetTypeOK'
        /\ delivered' \subseteq PaymentIds => PaymentTypeOK'
    BY <1>4, StoreAfterGet DEF GetScan, Store, BudgetTypeOK, PaymentTypeOK
  <2>2. CASE Deliver(w)
    BY <1>4, <2>1, <2>2, AfterDeliver, AfterAnswer
    DEF GetScan, HoldsWhileFunded, Funded
  <2>3. CASE GoTo(w, "resolve") /\ UNCHANGED <<scan, delivered>>
    BY <1>4, <1>s, <2>1, <2>3, AfterPlainGoTo
    DEF GetScan, Funded, Calls, Ready, PaymentTypeOK
  <2> QED
    BY <1>4, <2>2, <2>3 DEF GetScan
<1>5. CASE GetReport(w)
  <2>1. /\ Store(report_cache)' /\ Store(scan_cache)' /\ BudgetTypeOK'
        /\ delivered' \subseteq PaymentIds => PaymentTypeOK'
    BY <1>5, StoreAfterGet DEF GetReport, Store, BudgetTypeOK, PaymentTypeOK
  <2>2. CASE Deliver(w)
    BY <1>5, <2>1, <2>2, AfterDeliver, AfterAnswer
    DEF GetReport, HoldsWhileFunded, Funded
  <2>3. CASE GoTo(w, "reserve") /\ UNCHANGED <<scan, delivered>>
    BY <1>5, <1>s, <2>1, <2>3, AfterPlainGoTo
    DEF GetReport, Funded, Calls, Ready, PaymentTypeOK
  <2> QED
    BY <1>5, <2>2, <2>3 DEF GetReport
<1>6. CASE Reserve(w)
  <2>1. Today \in 1..LastDay
    BY DayType DEF FlowTypeOK, Today
  <2>2. /\ day' = Today /\ count' \in Nat
    BY <1>6 DEF Reserve, Budget!reserve, Budget!RolledCount, BudgetTypeOK
  <2>3. Store(scan_cache)' /\ Store(report_cache)' /\ delivered' = delivered /\ PaymentTypeOK'
    BY <1>6 DEF Reserve, Error, Store, PaymentTypeOK
  <2>4. CASE /\ holds' = [holds EXCEPT ![w] = Today]
             /\ GoTo(w, "resolve") /\ UNCHANGED scan
    <3>1. scan' = [scan EXCEPT ![w] = scan[w]]
      BY <2>4 DEF FlowTypeOK
    <3>2. req[w].kind = "report" /\ Today # Budget!NoDay /\ Today \in 0..LastDay
      BY <1>6, <2>1, CalendarLength DEF Reserve, RequestInv, Budget!NoDay
    <3>3. Ready(w, "resolve", scan[w]) /\ "resolve" \in Calls /\ "resolve" \in Funded
      BY DEF Ready, Calls, Funded
    <3>4. FlowTypeOK' /\ RequestInv' /\ HoldsWhileFunded'
      BY <1>a, <1>s, <2>4, <3>1, <3>2, <3>3, AfterGoTo
    <3>5. BudgetTypeOK'
      BY <1>6, <2>1, <2>2, <2>4, CalendarLength DEF Reserve, BudgetTypeOK
    <3> QED
      BY <2>3, <3>4, <3>5
  <2>5. CASE Error(w) /\ UNCHANGED holds
    <3>1. holds[w] = Budget!NoDay
      BY <1>6 DEF Reserve, HoldsWhileFunded, Funded
    <3>2. BudgetTypeOK'
      BY <1>6, <2>1, <2>2, <2>5, CalendarLength DEF Reserve, BudgetTypeOK
    <3> QED
      BY <2>3, <2>5, <3>1, <3>2, AfterDeliver, AfterAnswer
  <2> QED
    BY <1>6, <2>4, <2>5 DEF Reserve
<1>7. CASE Resolve(w)
  <2>1. PICK s \in Resolutions(req[w].contract) :
          /\ scan' = [scan EXCEPT ![w] = s]
          /\ GoTo(w, IF s.degraded THEN "settle" ELSE "analyze")
    BY <1>7 DEF Resolve
  <2>2. s \in Scans /\ s.target = req[w].contract
    BY <1>s, ResolutionType DEF FlowTypeOK
  <2> DEFINE call == IF s.degraded THEN "settle" ELSE "analyze"
  <2>3. call \in Calls /\ call \in Funded /\ Ready(w, call, s)
    BY <2>2 DEF Calls, Funded, Ready
  <2>4. holds' = [holds EXCEPT ![w] = holds[w]]
    BY <1>7 DEF Resolve, BudgetTypeOK
  <2>5. holds[w] # Budget!NoDay <=> req[w].kind = "report" /\ call \in Funded
    BY <1>7, <2>3 DEF Resolve, HoldsWhileFunded, Funded
  <2>6. FlowTypeOK' /\ RequestInv' /\ HoldsWhileFunded'
    BY <1>a, <1>s, <2>1, <2>2, <2>3, <2>4, <2>5, AfterGoTo
  <2> QED
    BY <1>7, <2>6, OnlyFlow DEF Resolve, PaymentTypeOK
<1>8. CASE Analyze(w)
  <2>1. scan[w] \in Scans /\ scan[w].target = req[w].contract
    BY <1>8 DEF Analyze, RequestInv
  <2>2. PICK s \in Scans : s.target = req[w].contract /\ scan' = [scan EXCEPT ![w] = s]
    <3>1. CASE UNCHANGED scan
      BY <2>1, <3>1 DEF FlowTypeOK
    <3>2. CASE scan' = [scan EXCEPT ![w].degraded = TRUE]
      <4> DEFINE s == [scan[w] EXCEPT !.degraded = TRUE]
      <4>1. s \in Scans /\ s.target = req[w].contract
        BY <2>1 DEF Scans
      <4> QED
        BY <3>2, <4>1 DEF FlowTypeOK
    <3> QED
      BY <1>8, <3>1, <3>2 DEF Analyze
  <2>3. "settle" \in Calls /\ "settle" \in Funded /\ Ready(w, "settle", s)
    BY <2>2 DEF Calls, Funded, Ready
  <2>4. holds' = [holds EXCEPT ![w] = holds[w]] /\ GoTo(w, "settle")
    BY <1>8 DEF Analyze, BudgetTypeOK
  <2>5. holds[w] # Budget!NoDay <=> req[w].kind = "report"
    BY <1>8 DEF Analyze, HoldsWhileFunded, Funded
  <2>6. FlowTypeOK' /\ RequestInv' /\ HoldsWhileFunded'
    BY <1>a, <1>s, <2>2, <2>3, <2>4, <2>5, AfterGoTo
  <2> QED
    BY <1>8, <2>6, OnlyFlow DEF Analyze, PaymentTypeOK
<1>9. CASE CoreFails(w) \/ TriageFails(w)
  <2>1. RefundIfReport(w) /\ Error(w)
        /\ UNCHANGED <<scan_cache, report_cache, used, paid, authorized>>
    BY <1>9 DEF CoreFails, TriageFails
  <2>2. FlowTypeOK' /\ RequestInv' /\ HoldsWhileFunded'
    BY <2>1, AfterRefund, AfterDeliver, AfterAnswer
  <2>3. BudgetTypeOK'
    BY <2>1, AfterRefund DEF BudgetTypeOK
  <2>4. PaymentTypeOK' /\ Store(scan_cache)' /\ Store(report_cache)'
    BY <2>1 DEF PaymentTypeOK, Store, Error
  <2> QED
    BY <2>2, <2>3, <2>4
<1>10. CASE SettleScan(w)
  <2>1. scan[w] \in Scans /\ scan[w].target = req[w].contract
    BY <1>10 DEF SettleScan, RequestInv
  <2>2. CASE GoTo(w, "put_scan") /\ UNCHANGED <<scan, delivered>> /\ Cacheable(scan[w])
    BY <1>10, <1>s, <2>1, <2>2, AfterPlainGoTo, OnlyFlow
    DEF SettleScan, Cacheable, Calls, Ready, PaymentTypeOK
  <2>3. CASE Deliver(w)
    BY <1>10, <2>3, AfterDeliver, AfterAnswer, OnlyFlow
    DEF SettleScan, HoldsWhileFunded
  <2> QED
    BY <1>10, <2>2, <2>3 DEF SettleScan
<1>11. CASE SettleReport(w)
  <2>1. scan[w] \in Scans /\ scan[w].target = req[w].contract
    BY <1>11 DEF SettleReport, RequestInv
  <2>2. CASE ~scan[w].degraded
    <3>1. /\ GoTo(w, "triage")
          /\ UNCHANGED <<memory, scan, delivered, used, holds, paid, authorized>>
      BY <1>11, <2>2 DEF SettleReport, memory
    <3>2. FlowTypeOK' /\ RequestInv' /\ HoldsWhileFunded'
      BY <1>11, <2>1, <2>2, <3>1, AfterPlainGoTo
      DEF SettleReport, Calls, Ready, Funded
    <3> QED
      BY <3>1, <3>2, OnlyFlow DEF PaymentTypeOK
  <2>3. CASE scan[w].degraded
    <3>1. /\ RefundIfReport(w) /\ Deliver(w)
          /\ UNCHANGED <<scan_cache, report_cache, used, paid, authorized>>
      BY <1>11, <2>3 DEF SettleReport, Cacheable
    <3>2. FlowTypeOK' /\ RequestInv' /\ HoldsWhileFunded'
      BY <3>1, AfterRefund, AfterDeliver, AfterAnswer
    <3>3. BudgetTypeOK'
      BY <3>1, AfterRefund DEF BudgetTypeOK
    <3>4. PaymentTypeOK' /\ Store(scan_cache)' /\ Store(report_cache)'
      BY <3>1, AfterDeliver DEF PaymentTypeOK, Store
    <3> QED
      BY <3>2, <3>3, <3>4
  <2> QED
    BY <2>2, <2>3
<1>12. CASE Triage(w)
  <2>1. /\ req[w].kind = "report" /\ holds[w] \in 1..LastDay
        /\ scan[w] \in Scans /\ ~scan[w].degraded
        /\ scan[w].target = req[w].contract
    BY <1>12, <1>s, CalendarLength
    DEF Triage, RequestInv, HoldsWhileFunded, Funded, Budget!NoDay
  <2>2. /\ GoTo(w, "put_report") /\ UNCHANGED <<scan, delivered>>
        /\ holds' = [holds EXCEPT ![w] = Budget!NoDay]
    BY <1>12, <2>1 DEF Triage, Cacheable
  <2>3. /\ scan' = [scan EXCEPT ![w] = scan[w]]
        /\ "put_report" \in Calls /\ "put_report" \notin Funded
        /\ Ready(w, "put_report", scan[w]) /\ Budget!NoDay \in 0..LastDay
    BY <2>1, <2>2, CalendarLength DEF FlowTypeOK, Calls, Funded, Ready, Budget!NoDay
  <2>4. FlowTypeOK' /\ RequestInv' /\ HoldsWhileFunded'
    BY <1>a, <2>1, <2>2, <2>3, AfterGoTo
  <2>5. BudgetTypeOK' /\ PaymentTypeOK'
    BY <1>12, <2>1, <2>2, <2>3 DEF Triage, memory, BudgetTypeOK, PaymentTypeOK
  <2>6. Store(scan_cache)' /\ Store(report_cache)'
    BY <1>12 DEF Triage, memory, Store
  <2> QED
    BY <2>4, <2>5, <2>6
<1>13. CASE PutReport(w)
  <2>1. /\ scan[w] \in Scans /\ ~scan[w].degraded
        /\ scan[w].target = req[w].contract
    BY <1>13 DEF PutReport, RequestInv
  <2>2. Store(report_cache)'
    <3>1. Store(AfterPut(report_cache, CacheKey(req[w].contract), scan[w]))
      BY <1>s, <2>1, StoreAfterPut DEF FlowTypeOK
    <3> QED
      BY <1>13, <3>1 DEF PutReport, Store
  <2>3. Store(scan_cache)' /\ BudgetTypeOK' /\ PaymentTypeOK'
    BY <1>13 DEF PutReport, BudgetTypeOK, PaymentTypeOK, Store
  <2>4. FlowTypeOK' /\ RequestInv' /\ HoldsWhileFunded'
    BY <1>13, <2>1, AfterPlainGoTo DEF PutReport, Calls, Ready, Funded
  <2> QED
    BY <2>2, <2>3, <2>4
<1>14. CASE PutScan(w)
  <2>1. /\ scan[w] \in Scans /\ ~scan[w].degraded
        /\ scan[w].target = req[w].contract
    BY <1>14 DEF PutScan, RequestInv
  <2>2. Store(scan_cache)'
    <3>1. Store(AfterPut(scan_cache, CacheKey(req[w].contract), scan[w]))
      BY <1>s, <2>1, StoreAfterPut DEF FlowTypeOK
    <3> QED
      BY <1>14, <3>1 DEF PutScan, Store
  <2>3. Store(report_cache)' /\ BudgetTypeOK' /\ PaymentTypeOK'
    BY <1>14, AfterDeliver DEF PutScan, BudgetTypeOK, PaymentTypeOK, Store
  <2>4. FlowTypeOK' /\ RequestInv' /\ HoldsWhileFunded'
    BY <1>14, AfterDeliver, AfterAnswer DEF PutScan, HoldsWhileFunded, Funded
  <2> QED
    BY <2>2, <2>3, <2>4
<1> QED
  BY <1>1, <1>2, <1>3, <1>4, <1>5, <1>6, <1>7, <1>8, <1>9, <1>10, <1>11, <1>12,
     <1>13, <1>14
  DEF Handle, Work

\* Every step keeps the control invariant.
LEMMA NextControl == ControlInv /\ [Next]_vars => ControlInv'
<1> SUFFICES ASSUME ControlInv, [Next]_vars PROVE ControlInv'
  OBVIOUS
<1> USE DEF ControlInv, TypeOK
<1>1. ASSUME NEW w \in Workers, Handle(w) PROVE ControlInv'
  BY <1>1, HandleControl
<1>2. ASSUME NEW w \in Workers, Arrive(w) PROVE ControlInv'
  <2>1. PICK r \in Requests :
          /\ r.proof = NoId <=> r.kind = "scan" \/ FREE_BETA
          /\ req' = [req EXCEPT ![w] = r]
          /\ pc' = [pc EXCEPT ![w] =
               IF r.proof = NoId THEN "get"
               ELSE IF r.proof = Pass THEN "verify_pass" ELSE "find_payment"]
    BY <1>2 DEF Arrive
  <2>2. r # NoRequest /\ r.kind \in {"scan", "report"}
        /\ r.proof \in PaymentIds \cup {Pass, NoId}
    BY DEF Requests, NoRequest
  <2>3. pc[w] = "idle" /\ UNCHANGED <<now, code, memory, used, scan, ghosts>>
    BY <1>2 DEF Arrive
  <2>4. FlowTypeOK'
    BY <2>1, <2>3 DEF FlowTypeOK, Calls, ghosts
  <2>5. RequestInv'
    BY <2>1, <2>2, <2>3 DEF FlowTypeOK, RequestInv
  <2>6. HoldsWhileFunded'
    BY <2>1, <2>3 DEF FlowTypeOK, HoldsWhileFunded, Funded, ghosts
  <2> QED
    BY <2>3, <2>4, <2>5, <2>6, OnlyFlow DEF ghosts, PaymentTypeOK
<1>3. ASSUME NEW c \in Upgradeable, Upgrade(c) PROVE ControlInv'
  <2>1. c \in Contracts /\ code[c] \in Versions /\ code[c] + 1 \in Versions
    BY <1>3, ContractsAssumption, BoundsAssumption DEF Upgrade, FlowTypeOK, Versions
  <2>2. now \in 0..Never
    BY BoundsAssumption DEF FlowTypeOK, Never
  <2>3. FlowTypeOK'
    BY <1>3, <2>1, <2>2 DEF Upgrade, FlowTypeOK
  <2>4. RequestInv' /\ HoldsWhileFunded'
    BY <1>3 DEF Upgrade, RequestInv, HoldsWhileFunded
  <2> QED
    BY <1>3, <2>3, <2>4, OnlyFlow DEF Upgrade, PaymentTypeOK
<1>4. CASE Tick
  <2>1. FlowTypeOK' /\ RequestInv' /\ HoldsWhileFunded'
    BY <1>4, BoundsAssumption DEF Tick, ghosts, FlowTypeOK, RequestInv, HoldsWhileFunded
  <2> QED
    BY <1>4, <2>1, OnlyFlow DEF Tick, ghosts, PaymentTypeOK
<1>5. CASE Restart
  <2>1. FlowTypeOK'
    <3>1. spent' \in [1..LastDay -> Nat]
      BY <1>5 DEF Restart, BudgetTypeOK, FlowTypeOK
    <3> QED
      BY <1>5, <3>1, BoundsAssumption DEF Restart, FlowTypeOK
  <2>2. RequestInv' /\ HoldsWhileFunded'
    BY <1>5 DEF Restart, RequestInv, HoldsWhileFunded, NoRequest, Budget!NoDay
  <2>3. BudgetTypeOK' /\ PaymentTypeOK'
    BY <1>5, CalendarLength DEF Restart, BudgetTypeOK, PaymentTypeOK, Budget!NoDay
  <2>4. Store(scan_cache)' /\ Store(report_cache)'
    BY <1>5 DEF Restart, Store
  <2> QED
    BY <2>1, <2>2, <2>3, <2>4
<1>6. CASE UNCHANGED vars
  <2>1. FlowTypeOK' /\ RequestInv' /\ HoldsWhileFunded'
    BY <1>6 DEF vars, ghosts, FlowTypeOK, RequestInv, HoldsWhileFunded
  <2> QED
    BY <1>6, <2>1, OnlyFlow DEF vars, ghosts, PaymentTypeOK
<1> QED
  BY <1>1, <1>2, <1>3, <1>4, <1>5, <1>6 DEF Next, Surroundings

\* The control invariant holds in every reachable state.
THEOREM ControlInvariant == Spec => []ControlInv
<1> QED
  BY InitControl, NextControl, PTL DEF Spec

\* Every variable of the service keeps its type.
THEOREM TypeCorrect == Spec => []TypeOK
<1>1. ControlInv => TypeOK
  BY DEF ControlInv
<1> QED
  BY ControlInvariant, <1>1, PTL

\* No thread that has answered still holds a unit of the daily budget.
THEOREM NoUnitLeaks == Spec => []HoldsWhileFunded
<1>1. ControlInv => HoldsWhileFunded
  BY DEF ControlInv
<1> QED
  BY ControlInvariant, <1>1, PTL

(***************************************************************************)
(* Payments                                                                *)
(***************************************************************************)

\* The table and the authorizations agree, also across restarts.
LEMMA PaymentInvariant == Spec => []PaymentInv
<1>1. Init => PaymentInv
  BY DEF Init, PaymentInv
<1>2. ControlInv /\ PaymentInv /\ [Next]_vars => PaymentInv'
  <2> SUFFICES ASSUME ControlInv, PaymentInv, [Next]_vars PROVE PaymentInv'
    OBVIOUS
  <2>1. CASE UNCHANGED <<used, authorized>>
    BY <2>1 DEF PaymentInv
  <2>2. ASSUME NEW w \in Workers, Consume(w) PROVE PaymentInv'
    <3>1. CASE req[w].proof \in used
      BY <2>2, <3>1 DEF Consume, PaymentInv
    <3>2. CASE req[w].proof \notin used
      <4>1. /\ used' = used \cup {req[w].proof}
            /\ authorized' = [authorized EXCEPT ![req[w].proof] = @ + 1]
        BY <2>2, <3>2 DEF Consume
      <4>2. authorized \in [PaymentIds -> Nat]
        BY DEF ControlInv, TypeOK, PaymentTypeOK
      <4> QED
        BY <3>2, <4>1, <4>2 DEF PaymentInv
    <3> QED
      BY <3>1, <3>2
  <2>3. ASSUME NEW w \in Workers, Handle(w), ~Consume(w)
        PROVE  UNCHANGED <<used, authorized>>
    BY <2>3
    DEF Handle, Work, FindPayment, VerifyPass, GetScan, GetReport, Reserve, Resolve,
        Analyze, CoreFails, SettleScan, SettleReport, Triage, TriageFails,
        PutReport, PutScan
  <2> QED
    BY <2>1, <2>2, <2>3 DEF Next, Surroundings, Arrive, Upgrade, Tick, Restart, vars, ghosts
<1> QED
  BY <1>1, <1>2, ControlInvariant, PTL DEF Spec

\* A payment lets at most one report request through.
THEOREM PaymentOnceHolds == Spec => []PaymentOnce
<1>1. PaymentInv => PaymentOnce
  BY DEF PaymentInv, PaymentOnce
<1> QED
  BY PaymentInvariant, <1>1, PTL

(***************************************************************************)
(* Caches                                                                  *)
(***************************************************************************)

\* get() removes entries and changes none.
LEMMA EstablishedAfterGet ==
    ASSUME NEW cache, Established(cache), NEW key
    PROVE  Established(AfterGet(cache, key))
BY DEF Established, AfterGet

\* put() stores a scan that is not degraded, of the contract the key names.
LEMMA EstablishedAfterPut ==
    ASSUME NEW cache, Established(cache), NEW c \in Contracts, NEW value,
           value.target = c, ~value.degraded
    PROVE  Established(AfterPut(cache, CacheKey(c), value))
BY KeyOf DEF Established, AfterPut

\* Neither cache ever holds a degraded result, or one about another contract.
THEOREM OnlyEstablishedCachedHolds == Spec => []OnlyEstablishedCached
<1>1. Init => OnlyEstablishedCached
  BY DEF Init, OnlyEstablishedCached, Established
<1>2. ControlInv /\ OnlyEstablishedCached /\ [Next]_vars => OnlyEstablishedCached'
  <2> SUFFICES ASSUME ControlInv, OnlyEstablishedCached, [Next]_vars
               PROVE  OnlyEstablishedCached'
    OBVIOUS
  <2>a. \A cache : Established(cache) \in BOOLEAN
    BY DEF Established
  <2>1. CASE UNCHANGED <<scan_cache, report_cache>>
    BY <2>1 DEF OnlyEstablishedCached, Established
  <2>2. ASSUME NEW w \in Workers, GetScan(w) PROVE OnlyEstablishedCached'
    <3>1. Established(AfterGet(scan_cache, CacheKey(req[w].contract)))
      BY EstablishedAfterGet DEF OnlyEstablishedCached
    <3> QED
      BY <2>2, <3>1 DEF GetScan, OnlyEstablishedCached, Established
  <2>3. ASSUME NEW w \in Workers, GetReport(w) PROVE OnlyEstablishedCached'
    <3>1. Established(AfterGet(report_cache, CacheKey(req[w].contract)))
      BY EstablishedAfterGet DEF OnlyEstablishedCached
    <3> QED
      BY <2>3, <3>1 DEF GetReport, OnlyEstablishedCached, Established
  <2>4. ASSUME NEW w \in Workers, pc[w] \in {"put_report", "put_scan"}
        PROVE  /\ req[w].contract \in Contracts
               /\ scan[w].target = req[w].contract /\ ~scan[w].degraded
    BY <2>4, Serving DEF ControlInv, RequestInv
  <2>5. ASSUME NEW w \in Workers, PutReport(w) PROVE OnlyEstablishedCached'
    <3>1. Established(AfterPut(report_cache, CacheKey(req[w].contract), scan[w]))
      BY <2>4, <2>5, EstablishedAfterPut DEF OnlyEstablishedCached, PutReport
    <3> QED
      BY <2>5, <3>1 DEF PutReport, OnlyEstablishedCached, Established
  <2>6. ASSUME NEW w \in Workers, PutScan(w) PROVE OnlyEstablishedCached'
    <3>1. Established(AfterPut(scan_cache, CacheKey(req[w].contract), scan[w]))
      BY <2>4, <2>6, EstablishedAfterPut DEF OnlyEstablishedCached, PutScan
    <3> QED
      BY <2>6, <3>1 DEF PutScan, OnlyEstablishedCached, Established
  <2>7. CASE Restart
    BY <2>7 DEF Restart, OnlyEstablishedCached, Established
  <2>8. ASSUME NEW w \in Workers, Handle(w),
               ~GetScan(w), ~GetReport(w), ~PutReport(w), ~PutScan(w)
        PROVE  UNCHANGED <<scan_cache, report_cache>>
    BY <2>8
    DEF Handle, Work, FindPayment, Consume, VerifyPass, Reserve, Resolve, Analyze,
        CoreFails, SettleScan, SettleReport, Triage, TriageFails, memory
  <2> QED
    BY <2>1, <2>2, <2>3, <2>5, <2>6, <2>7, <2>8
    DEF Next, Surroundings, Arrive, Upgrade, Tick, memory, vars
<1> QED
  BY <1>1, <1>2, ControlInvariant, PTL DEF Spec

(***************************************************************************)
(* Staleness.  A scan is timely if the version it is about was the current *)
(* one when it read the chain, which shows in when that was replaced.      *)
(***************************************************************************)
TimelyBy(s, clock, replaced) ==
    /\ s.readAt <= clock
    /\ s.version # Shell =>
          /\ s.isProxy <=> s.target \in Upgradeable
          /\ s.readAt <= replaced[s.target][s.version]

TimelyScan(s) == TimelyBy(s, now, replacedAt)

TimelyStore(cache) ==
    \A key \in DOMAIN cache :
        TimelyScan(cache[key].value) /\ cache[key].value.readAt <= cache[key].storedAt

\* Versions not replaced yet, and those of contracts that cannot change.
CodeInv ==
    \A c \in Contracts, v \in Versions :
        v >= code[c] \/ c \notin Upgradeable => replacedAt[c][v] = Never

TimelyInv ==
    /\ CodeInv
    /\ \A w \in Workers : scan[w] \in Scans => TimelyScan(scan[w])
    /\ TimelyStore(scan_cache) /\ TimelyStore(report_cache)

\* get() removes entries and changes none.
LEMMA TimelyAfterGet ==
    ASSUME NEW cache, TimelyStore(cache), NEW key
    PROVE  TimelyStore(AfterGet(cache, key))
BY DEF TimelyStore, AfterGet

\* put() stores a scan that has read the chain by now.
LEMMA TimelyAfterPut ==
    ASSUME NEW cache, TimelyStore(cache), NEW key, NEW value, TimelyScan(value)
    PROVE  TimelyStore(AfterPut(cache, key, value))
BY DEF TimelyStore, AfterPut, TimelyScan, TimelyBy

\* A scan of Scans is never the placeholder.
LEMMA NoScanIsNone == NoScan \notin Scans
BY ProofsAssumption DEF NoScan, Scans

\* A timely scan stays so: time passes, and a version is replaced after it was read.
LEMMA StaysTimely ==
    ASSUME ControlInv, NEW s \in Scans, TimelyScan(s),
           Tick \/ (\E c \in Upgradeable : Upgrade(c)) \/ UNCHANGED <<now, replacedAt>>
    PROVE  TimelyBy(s, now', replacedAt')
<1> USE DEF ControlInv, TypeOK, FlowTypeOK, TimelyScan
<1>1. s.readAt \in Nat /\ now \in Nat /\ s.target \in Contracts
      /\ (s.version # Shell => s.version \in Versions)
  BY BoundsAssumption DEF Scans, Shell
<1>2. CASE Tick
  BY <1>1, <1>2 DEF Tick, TimelyBy, ghosts
<1>3. ASSUME NEW c \in Upgradeable, Upgrade(c) PROVE TimelyBy(s, now', replacedAt')
  <2>1. c \in Contracts /\ code[c] \in Versions
    BY ContractsAssumption
  <2>2. now' = now /\ replacedAt' = [replacedAt EXCEPT ![c][code[c]] = now]
    BY <1>3 DEF Upgrade
  <2>3. CASE s.version # Shell /\ s.target = c /\ s.version = code[c]
    BY <1>1, <2>1, <2>2, <2>3 DEF TimelyBy
  <2>4. CASE s.version # Shell /\ ~(s.target = c /\ s.version = code[c])
    <3>1. replacedAt'[s.target][s.version] = replacedAt[s.target][s.version]
      BY <1>1, <2>1, <2>2, <2>4
    <3> QED
      BY <2>2, <2>4, <3>1 DEF TimelyBy
  <2>5. CASE s.version = Shell
    BY <2>2, <2>5 DEF TimelyBy
  <2> QED
    BY <2>3, <2>4, <2>5
<1>4. CASE UNCHANGED <<now, replacedAt>>
  BY <1>4 DEF TimelyBy
<1> QED
  BY <1>2, <1>3, <1>4

\* What resolve() comes back with is timely.
LEMMA ResolutionTimely ==
    ASSUME ControlInv, TimelyInv, NEW c \in Contracts, NEW s \in Resolutions(c)
    PROVE  TimelyScan(s)
<1> USE DEF ControlInv, TypeOK, FlowTypeOK
<1>1. now \in 0..MaxNow /\ code[c] \in Versions /\ replacedAt[c][code[c]] = Never
  BY BoundsAssumption DEF TimelyInv, CodeInv, Versions
<1>2. CASE s = Clean(c)
  <2>1. /\ s.readAt = now /\ s.target = c /\ s.version = code[c]
    BY <1>2 DEF Clean
  <2>2. s.isProxy <=> c \in Upgradeable
    BY <1>2 DEF Clean
  <2>3. s.readAt <= now /\ s.readAt <= replacedAt[s.target][s.version]
    BY <1>1, <2>1, BoundsAssumption DEF Never
  <2> QED
    BY <2>1, <2>2, <2>3, Zenon DEF TimelyScan, TimelyBy
<1>3. CASE s # Clean(c)
  <2>1. s.version = Shell /\ s.readAt = now
    BY <1>3 DEF Resolutions, Unread, ShellOnly, Clean
  <2> QED
    BY <1>1, <2>1, BoundsAssumption DEF TimelyScan, TimelyBy
<1> QED
  BY <1>2, <1>3

\* Nothing is read or stored yet.
LEMMA InitTimely == Init => TimelyInv
<1> SUFFICES ASSUME Init PROVE TimelyInv
  OBVIOUS
<1>1. CodeInv
  BY DEF Init, CodeInv
<1>2. \A w \in Workers : scan[w] \notin Scans
  BY NoScanIsNone DEF Init
<1>3. TimelyStore(scan_cache) /\ TimelyStore(report_cache)
  BY DEF Init, TimelyStore
<1> QED
  BY <1>1, <1>2, <1>3 DEF TimelyInv

\* The caches over a step of a handler.
LEMMA HandleTimelyStores ==
    ASSUME ControlInv, TimelyInv, NEW w \in Workers, Handle(w)
    PROVE  TimelyStore(scan_cache)' /\ TimelyStore(report_cache)'
<1>a. TimelyStore(scan_cache) /\ TimelyStore(report_cache)
  BY DEF TimelyInv
<1>b. now' = now /\ replacedAt' = replacedAt
  BY DEF Handle, Work, FindPayment, Consume, VerifyPass, GetScan, GetReport, Reserve, Resolve,
         Analyze, CoreFails, SettleScan, SettleReport, Triage, TriageFails, PutReport, PutScan,
         GoTo, Error, Deliver, Answer
<1>c. ASSUME pc[w] \in {"put_report", "put_scan"} PROVE TimelyScan(scan[w])
  BY <1>c DEF ControlInv, RequestInv, TimelyInv
<1>1. CASE GetScan(w)
  <2>1. /\ scan_cache' = AfterGet(scan_cache, CacheKey(req[w].contract))
        /\ report_cache' = report_cache
    BY <1>1 DEF GetScan
  <2>2. TimelyStore(AfterGet(scan_cache, CacheKey(req[w].contract)))
    BY <1>a, TimelyAfterGet
  <2> QED
    BY <1>a, <1>b, <2>1, <2>2 DEF TimelyStore, TimelyScan
<1>2. CASE GetReport(w)
  <2>1. /\ report_cache' = AfterGet(report_cache, CacheKey(req[w].contract))
        /\ scan_cache' = scan_cache
    BY <1>2 DEF GetReport
  <2>2. TimelyStore(AfterGet(report_cache, CacheKey(req[w].contract)))
    BY <1>a, TimelyAfterGet
  <2> QED
    BY <1>a, <1>b, <2>1, <2>2 DEF TimelyStore, TimelyScan
<1>3. CASE PutReport(w)
  <2>1. /\ report_cache' = AfterPut(report_cache, CacheKey(req[w].contract), scan[w])
        /\ scan_cache' = scan_cache /\ pc[w] = "put_report"
    BY <1>3 DEF PutReport
  <2>2. TimelyStore(AfterPut(report_cache, CacheKey(req[w].contract), scan[w]))
    BY <1>a, <1>c, <2>1, TimelyAfterPut
  <2> QED
    BY <1>a, <1>b, <2>1, <2>2 DEF TimelyStore, TimelyScan
<1>4. CASE PutScan(w)
  <2>1. /\ scan_cache' = AfterPut(scan_cache, CacheKey(req[w].contract), scan[w])
        /\ report_cache' = report_cache /\ pc[w] = "put_scan"
    BY <1>4 DEF PutScan
  <2>2. TimelyStore(AfterPut(scan_cache, CacheKey(req[w].contract), scan[w]))
    BY <1>a, <1>c, <2>1, TimelyAfterPut
  <2> QED
    BY <1>a, <1>b, <2>1, <2>2 DEF TimelyStore, TimelyScan
<1>5. CASE ~GetScan(w) /\ ~GetReport(w) /\ ~PutReport(w) /\ ~PutScan(w)
  <2>1. UNCHANGED <<scan_cache, report_cache>>
    BY <1>5
    DEF Handle, Work, FindPayment, Consume, VerifyPass, Reserve, Resolve, Analyze,
        CoreFails, SettleScan, SettleReport, Triage, TriageFails, memory
  <2> QED
    BY <1>a, <1>b, <2>1 DEF TimelyStore, TimelyScan
<1> QED
  BY <1>1, <1>2, <1>3, <1>4, <1>5

\* The scans in hand over a step of a handler.
LEMMA HandleTimelyScans ==
    ASSUME ControlInv, TimelyInv, NEW w \in Workers, Handle(w)
    PROVE  \A v \in Workers : scan'[v] \in Scans => TimelyScan(scan'[v])
<1> USE DEF ControlInv, TypeOK, FlowTypeOK
<1>0. \A v \in Workers : scan[v] \in Scans => TimelyScan(scan[v])
  BY DEF TimelyInv
<1>1. CASE Resolve(w)
  <2>1. PICK s \in Resolutions(req[w].contract) : scan' = [scan EXCEPT ![w] = s]
    BY <1>1 DEF Resolve
  <2>2. req[w].contract \in Contracts
    BY <1>1, Serving DEF Resolve
  <2>3. TimelyScan(s)
    BY <2>2, ResolutionTimely
  <2> QED
    BY <1>0, <2>1, <2>3
<1>2. CASE Analyze(w)
  <2>1. scan[w] \in Scans
    BY <1>2 DEF Analyze, RequestInv
  <2>2. scan' = scan \/ scan' = [scan EXCEPT ![w].degraded = TRUE]
    BY <1>2 DEF Analyze
  <2>3. CASE scan' = scan
    BY <1>0, <2>3
  <2>4. CASE scan' = [scan EXCEPT ![w].degraded = TRUE]
    <3>1. /\ scan'[w].readAt = scan[w].readAt /\ scan'[w].version = scan[w].version
          /\ scan'[w].isProxy = scan[w].isProxy /\ scan'[w].target = scan[w].target
          /\ \A v \in Workers \ {w} : scan'[v] = scan[v]
      BY <2>1, <2>4 DEF Scans
    <3> QED
      BY <1>0, <2>1, <3>1 DEF TimelyScan, TimelyBy
  <2> QED
    BY <2>2, <2>3, <2>4
<1>3. CASE ~Resolve(w) /\ ~Analyze(w)
  <2>1. scan' = scan \/ scan' = [scan EXCEPT ![w] = NoScan]
    BY <1>3
    DEF Handle, Work, FindPayment, Consume, VerifyPass, GetScan, GetReport, Reserve,
        CoreFails, SettleScan, SettleReport, Triage, TriageFails, PutReport, PutScan,
        Error, Deliver, Answer
  <2> QED
    BY <1>0, <2>1, NoScanIsNone
<1> QED
  BY <1>1, <1>2, <1>3

\* Upgrades are of proxies, and replace the version that runs.
LEMMA NextCode ==
    ASSUME ControlInv, CodeInv, [Next]_vars
    PROVE  CodeInv'
<1> USE DEF ControlInv, TypeOK, FlowTypeOK
<1>1. ASSUME NEW c \in Upgradeable, Upgrade(c) PROVE CodeInv'
  <2>1. /\ c \in Contracts /\ code[c] \in Versions /\ code[c] < MaxCode
        /\ code' = [code EXCEPT ![c] = @ + 1]
        /\ replacedAt' = [replacedAt EXCEPT ![c][code[c]] = now]
    BY <1>1, ContractsAssumption DEF Upgrade
  <2>2. SUFFICES ASSUME NEW d \in Contracts, NEW v \in Versions,
                        v >= code'[d] \/ d \notin Upgradeable
                 PROVE  replacedAt'[d][v] = Never
    BY DEF CodeInv
  <2>3. ~(d = c /\ v = code[c]) /\ (v >= code[d] \/ d \notin Upgradeable)
    BY <1>1, <2>1, <2>2, BoundsAssumption DEF Versions
  <2>4. replacedAt'[d][v] = replacedAt[d][v]
    BY <2>1, <2>3
  <2> QED
    BY <2>3, <2>4 DEF CodeInv
<1>2. CASE UNCHANGED <<code, replacedAt>>
  BY <1>2 DEF CodeInv
<1>3. CASE ~(\E c \in Upgradeable : Upgrade(c))
  <2>1. UNCHANGED <<code, replacedAt>>
    BY <1>3
    DEF Next, Surroundings, Arrive, Tick, Restart, vars, ghosts, Handle, Work, FindPayment, Consume,
        VerifyPass, GetScan, GetReport, Reserve, Resolve, Analyze, CoreFails, SettleScan,
        SettleReport, Triage, TriageFails, PutReport, PutScan, GoTo, Error, Deliver, Answer
  <2> QED
    BY <1>2, <2>1
<1> QED
  BY <1>1, <1>3

\* Every step keeps scans and stores timely.
LEMMA NextTimely ==
    ASSUME ControlInv, TimelyInv, [Next]_vars
    PROVE  TimelyInv'
<1>0. CodeInv'
  BY NextCode DEF TimelyInv
<1>1. ASSUME NEW w \in Workers, Handle(w) PROVE TimelyInv'
  <2>1. UNCHANGED <<now, replacedAt>>
    BY <1>1
    DEF Handle, Work, FindPayment, Consume, VerifyPass, GetScan, GetReport, Reserve, Resolve,
        Analyze, CoreFails, SettleScan, SettleReport, Triage, TriageFails, PutReport, PutScan,
        GoTo, Error, Deliver, Answer
  <2>2. \A v \in Workers : scan'[v] \in Scans => TimelyScan(scan'[v])
    BY <1>1, HandleTimelyScans
  <2> QED
    BY <1>0, <1>1, <2>1, <2>2, HandleTimelyStores DEF TimelyInv, TimelyScan
\* Nothing new is read or stored.
<1>2. ASSUME Tick \/ (\E c \in Upgradeable : Upgrade(c)) \/ UNCHANGED <<now, replacedAt>>,
             UNCHANGED <<scan_cache, report_cache>>, scan' = scan
      PROVE  TimelyInv'
  <2>1. ASSUME NEW s \in Scans, TimelyScan(s) PROVE TimelyBy(s, now', replacedAt')
    BY <1>2, <2>1, StaysTimely
  <2>2. \A v \in Workers : scan[v] \in Scans => TimelyBy(scan[v], now', replacedAt')
    BY <2>1 DEF TimelyInv
  <2>3. \A key \in DOMAIN scan_cache :
            /\ TimelyBy(scan_cache[key].value, now', replacedAt')
            /\ scan_cache[key].value.readAt <= scan_cache[key].storedAt
    BY <2>1 DEF TimelyInv, TimelyStore, ControlInv, TypeOK, Store
  <2>4. \A key \in DOMAIN report_cache :
            /\ TimelyBy(report_cache[key].value, now', replacedAt')
            /\ report_cache[key].value.readAt <= report_cache[key].storedAt
    BY <2>1 DEF TimelyInv, TimelyStore, ControlInv, TypeOK, Store
  <2> QED
    BY <1>0, <1>2, <2>2, <2>3, <2>4 DEF TimelyInv, TimelyStore, TimelyScan
<1>3. CASE Restart
  <2>1. \A v \in Workers : scan'[v] \notin Scans
    BY <1>3, NoScanIsNone DEF Restart
  <2>2. TimelyStore(scan_cache)' /\ TimelyStore(report_cache)'
    BY <1>3 DEF Restart, TimelyStore
  <2> QED
    BY <1>0, <2>1, <2>2 DEF TimelyInv
<1>4. CASE Tick
  BY <1>2, <1>4 DEF Tick, memory
<1>5. CASE \E c \in Upgradeable : Upgrade(c)
  BY <1>2, <1>5 DEF Upgrade, memory
<1>6. CASE (\E w \in Workers : Arrive(w)) \/ UNCHANGED vars
  BY <1>2, <1>6 DEF Arrive, memory, ghosts, vars
<1> QED
  BY <1>1, <1>3, <1>4, <1>5, <1>6 DEF Next, Surroundings

\* What is served is no staler than its TTL allows.
LEMMA TimelySafe ==
    ASSUME ControlInv, TimelyInv
    PROVE  StaleByScanTime
<1> USE BoundsAssumption, ConfigAssumption DEF ControlInv, TypeOK, FlowTypeOK
<1>1. SUFFICES ASSUME NEW cache, Store(cache), TimelyStore(cache), NEW key \in DOMAIN cache,
                      Hit(cache, key), cache[key].value.version # Shell
               PROVE  StaleAge(cache, key) <=
                        PROXY_CACHE_TTL + (cache[key].storedAt - cache[key].value.readAt)
  BY DEF StaleByScanTime, TimelyInv
<1> DEFINE s == cache[key].value
           gone == replacedAt[s.target][s.version]
           stored == cache[key].storedAt
<1>2. /\ s \in Scans /\ stored \in 0..MaxNow
  BY <1>1 DEF Store
<1>3. /\ s.target \in Contracts /\ s.version \in Versions /\ s.readAt \in Nat
      /\ gone \in Nat /\ now \in Nat /\ now <= MaxNow
  BY <1>1, <1>2 DEF Scans, Shell, Never
<1>4. (s.isProxy <=> s.target \in Upgradeable) /\ s.readAt <= gone /\ s.readAt <= stored
  BY <1>1 DEF TimelyStore, TimelyScan, TimelyBy
<1>5. CASE s.isProxy
  <2>1. now - stored <= PROXY_CACHE_TTL
    BY <1>1, <1>5 DEF Hit, proxy_aware_ttl
  <2> HIDE DEF s, gone, stored
  <2>2. now - gone <= PROXY_CACHE_TTL + (stored - s.readAt)
    BY <1>2, <1>3, <1>4, <2>1
  <2> QED
    BY <2>2 DEF StaleAge, s, gone, stored
<1>6. CASE ~s.isProxy
  <2>1. gone = Never
    BY <1>3, <1>4, <1>6 DEF TimelyInv, CodeInv
  <2> HIDE DEF s, gone, stored
  <2>2. now - gone <= PROXY_CACHE_TTL + (stored - s.readAt)
    BY <1>2, <1>3, <1>4, <2>1 DEF Never
  <2> QED
    BY <2>2 DEF StaleAge, s, gone, stored
<1> QED
  BY <1>5, <1>6

(***************************************************************************)
(* However requests, upgrades and time interleave, a cached verdict served *)
(* describes code that was replaced no longer ago than the proxy TTL plus  *)
(* the time its own request took from reading the chain to storing it.     *)
(***************************************************************************)
THEOREM StaleByScanTimeHolds == Spec => []StaleByScanTime
<1>1. Spec => []ControlInv
  BY ControlInvariant
<1>2. Init => TimelyInv
  BY InitTimely
<1>3. ControlInv /\ TimelyInv /\ [Next]_vars => TimelyInv'
  BY NextTimely
<1>4. ControlInv /\ TimelyInv => StaleByScanTime
  BY TimelySafe
<1> QED
  BY <1>1, <1>2, <1>3, <1>4, PTL DEF Spec

(***************************************************************************)
(* The service as a client of the daily budget                             *)
(***************************************************************************)

\* The service starts with an unused budget.
LEMMA BudgetInit == Init => Budget!Init
<1> SUFFICES ASSUME Init PROVE Budget!Init
  OBVIOUS
<1>1. Today \in 1..LastDay
  BY BoundsAssumption, DayType DEF Init, Today
<1> QED
  BY <1>1 DEF Init, Budget!Init, Budget!Days

\* A refund in a report settles the unit its thread holds.
LEMMA RefundSettles ==
    ASSUME ControlInv, NEW w \in Workers, RefundIfReport(w),
           pc[w] \in Funded, UNCHANGED <<now, paid>>
    PROVE  [Budget!Next]_(Budget!vars)
<1>1. CASE req[w].kind = "report"
  <2>1. holds[w] # Budget!NoDay
    BY <1>1 DEF ControlInv, HoldsWhileFunded
  <2>2. Budget!Refund(w)
    BY <1>1, <2>1 DEF RefundIfReport, Budget!Refund, Today
  <2> QED
    BY <2>2 DEF Budget!Next
<1>2. CASE req[w].kind # "report"
  BY <1>2 DEF RefundIfReport, Budget!vars, Today
<1> QED
  BY <1>1, <1>2

\* Every step of one process is a step of the budget or leaves it alone.
LEMMA BudgetNext ==
    ASSUME ControlInv, [Next]_vars, ~Restart
    PROVE  [Budget!Next]_(Budget!vars)
<1>1. CASE UNCHANGED <<now, day, count, holds, paid>>
  BY <1>1 DEF Budget!vars, Today
<1>2. ASSUME NEW w \in Workers, Reserve(w) PROVE [Budget!Next]_(Budget!vars)
  <2>1. holds[w] = Budget!NoDay /\ UNCHANGED <<now, paid>>
    BY <1>2
    DEF Reserve, GoTo, Error, Answer, ControlInv, HoldsWhileFunded, Funded
  <2>2. CASE Budget!reserve(TRUE) /\ holds' = [holds EXCEPT ![w] = Today]
    <3>1. Budget!ReserveGranted(w)
      BY <2>1, <2>2 DEF Budget!ReserveGranted, Today
    <3> QED
      BY <3>1 DEF Budget!Next
  <2>3. CASE Budget!reserve(FALSE) /\ UNCHANGED holds
    <3>1. Budget!ReserveRefused(w)
      BY <2>1, <2>3 DEF Budget!ReserveRefused, Today
    <3> QED
      BY <3>1 DEF Budget!Next
  <2> QED
    BY <1>2, <2>2, <2>3 DEF Reserve
<1>3. ASSUME NEW w \in Workers, CoreFails(w) \/ TriageFails(w)
      PROVE  [Budget!Next]_(Budget!vars)
  BY <1>3, RefundSettles DEF CoreFails, TriageFails, Error, Answer, Funded
<1>4. ASSUME NEW w \in Workers, SettleReport(w) PROVE [Budget!Next]_(Budget!vars)
  <2>1. CASE ~scan[w].degraded
    BY <1>1, <1>4, <2>1 DEF SettleReport, GoTo
  <2>2. CASE scan[w].degraded
    BY <1>4, <2>2, RefundSettles DEF SettleReport, GoTo, Deliver, Answer, Funded
  <2> QED
    BY <2>1, <2>2
<1>5. ASSUME NEW w \in Workers, Triage(w) PROVE [Budget!Next]_(Budget!vars)
  <2>1. holds[w] # Budget!NoDay
    BY <1>5 DEF Triage, ControlInv, RequestInv, HoldsWhileFunded, Funded
  <2>2. UNCHANGED <<now, day, count>>
    BY <1>5 DEF Triage, memory, GoTo, Deliver, Answer
  <2>3. Budget!Keep(w)
    BY <1>5, <2>1, <2>2 DEF Triage, Budget!Keep, Today
  <2> QED
    BY <2>3 DEF Budget!Next
<1>6. CASE Tick
  <2>1. /\ now \in Nat /\ now' = now + 1 /\ now + 1 \in 0..MaxNow
        /\ UNCHANGED <<day, count, holds, paid>>
    BY <1>6, BoundsAssumption
    DEF Tick, memory, ghosts, ControlInv, TypeOK, FlowTypeOK
  <2>2. Today' \in {Today, Today + 1} /\ Today' \in 1..LastDay /\ Today \in 1..LastDay
    <3>1. now' \div DayLength \in {now \div DayLength, now \div DayLength + 1}
      BY <2>1, DayStep
    <3>2. now \in 0..MaxNow /\ now' \in 0..MaxNow
      BY <2>1 DEF ControlInv, TypeOK, FlowTypeOK
    <3>3. Today \in 1..LastDay
      BY <3>2, DayType DEF Today
    <3>4. Today' \in 1..LastDay
      BY <3>2, DayType DEF Today
    <3>5. Today' \in {Today, Today + 1}
      BY <3>1 DEF Today
    <3> QED
      BY <3>3, <3>4, <3>5
  <2>3. CASE Today' = Today
    BY <2>1, <2>3 DEF Budget!vars
  <2>4. CASE Today' = Today + 1
    <3>1. Budget!Midnight
      BY <2>1, <2>2, <2>4, CalendarLength DEF Budget!Midnight
    <3> QED
      BY <3>1 DEF Budget!Next
  <2> QED
    BY <2>2, <2>3, <2>4
<1>7. ASSUME NEW w \in Workers, Handle(w),
             ~Reserve(w), ~CoreFails(w), ~TriageFails(w), ~SettleReport(w), ~Triage(w)
      PROVE  UNCHANGED <<now, day, count, holds, paid>>
  BY <1>7
  DEF Handle, Work, FindPayment, Consume, VerifyPass, GetScan, GetReport, Resolve,
      Analyze, SettleScan, PutReport, PutScan, GoTo, Error, Deliver, Answer, memory
<1> QED
  BY <1>1, <1>2, <1>3, <1>4, <1>5, <1>6, <1>7
  DEF Next, Surroundings, Arrive, Upgrade, memory, ghosts, vars

\* Within one process the handlers implement the budget's contract: each report
\* reserves once and settles once, on every path.
THEOREM SettlesOnceHolds ==
    ASSUME MaxRestarts = 0
    PROVE  Spec => SettlesOnce
<1>1. ControlInv /\ [Next]_vars => [Budget!Next]_(Budget!vars)
  BY BudgetNext DEF Restart, ControlInv, TypeOK, FlowTypeOK
<1> QED
  BY ControlInvariant, BudgetInit, <1>1, PTL DEF Spec, SettlesOnce, Budget!Spec

(***************************************************************************)
(* The threads respect ScanOutcome                                         *)
(***************************************************************************)

\* A thread's step, and where it leaves the others.
LEMMA ThreadMoves ==
    ASSUME NEW w \in Workers, NEW place, NEW known,
           Stage(w)' = place, OutcomeSoFar(w)' = known,
           \A v \in Workers \ {w} :
              Stage(v)' = Stage(v) /\ OutcomeSoFar(v)' = OutcomeSoFar(v)
    PROVE  Outcome!To(w, place, known)
BY DEF Outcome!To

\* Calls that leave all scans where they are.
LEMMA ThreadsStay ==
    ASSUME \A v \in Workers :
              Stage(v)' = Stage(v) /\ OutcomeSoFar(v)' = OutcomeSoFar(v)
    PROVE  UNCHANGED Outcome!vars
BY DEF Outcome!vars

\* A thread's scan depends on its own place and its own result only.
LEMMA SameThread ==
    ASSUME NEW v, pc'[v] = pc[v], scan'[v] = scan[v]
    PROVE  Stage(v)' = Stage(v) /\ OutcomeSoFar(v)' = OutcomeSoFar(v)
BY DEF Stage, OutcomeSoFar

\* A thread that answers leaves its scan, if it has one.
LEMMA AnswerOutcome ==
    ASSUME FlowTypeOK, NEW w \in Workers, Answer(w)
    PROVE  [Outcome!Next]_(Outcome!vars)
<1>1. pc'[w] = "idle" /\ \A v \in Workers \ {w} : pc'[v] = pc[v] /\ scan'[v] = scan[v]
  BY DEF Answer, FlowTypeOK
<1>2. Stage(w)' = "away" /\ OutcomeSoFar(w)' = "none"
  BY <1>1 DEF Stage, OutcomeSoFar
<1>3. Outcome!To(w, "away", "none")
  BY <1>1, <1>2, SameThread, ThreadMoves
<1>4. CASE Stage(w) = "away"
  <2>1. OutcomeSoFar(w) = "none"
    BY <1>4 DEF OutcomeSoFar
  <2> QED
    BY <1>1, <1>2, <1>4, <2>1, SameThread, ThreadsStay
<1>5. CASE Stage(w) # "away"
  BY <1>3, <1>5 DEF Outcome!Leave, Outcome!Next
<1> QED
  BY <1>4, <1>5

\* A thread that moves on; the others stay where they are.
LEMMA GoToOutcome ==
    ASSUME FlowTypeOK, NEW w \in Workers, NEW call \in Calls, GoTo(w, call),
           NEW s \in Scans \cup {NoScan}, scan' = [scan EXCEPT ![w] = s]
    PROVE  /\ pc'[w] = call /\ scan'[w] = s
           /\ \A v \in Workers \ {w} :
                 Stage(v)' = Stage(v) /\ OutcomeSoFar(v)' = OutcomeSoFar(v)
<1>1. /\ pc'[w] = call /\ scan'[w] = s
      /\ \A v \in Workers \ {w} : pc'[v] = pc[v] /\ scan'[v] = scan[v]
  BY DEF GoTo, FlowTypeOK
<1> QED
  BY <1>1, SameThread

\* Calls before the scan and after it.
LEMMA SideOutcome ==
    ASSUME FlowTypeOK, NEW w \in Workers, NEW call \in Calls, GoTo(w, call),
           UNCHANGED scan,
           \/ /\ pc[w] \in {"find_payment", "consume", "verify_pass", "get", "reserve"}
              /\ call \in {"consume", "get", "reserve", "resolve"}
           \/ pc[w] \in {"triage", "put_report"} /\ call \in {"put_report", "put_scan"}
           \/ /\ pc[w] = "settle" /\ call \in {"triage", "put_report", "put_scan"}
              /\ ~scan[w].degraded
    PROVE  [Outcome!Next]_(Outcome!vars)
<1>1. scan[w] \in Scans \cup {NoScan} /\ scan' = [scan EXCEPT ![w] = scan[w]]
  BY DEF FlowTypeOK
<1>2. /\ pc'[w] = call /\ scan'[w] = scan[w]
      /\ \A v \in Workers \ {w} : Stage(v)' = Stage(v) /\ OutcomeSoFar(v)' = OutcomeSoFar(v)
  BY <1>1, GoToOutcome
<1>3. CASE /\ pc[w] \in {"find_payment", "consume", "verify_pass", "get", "reserve"}
           /\ call \in {"consume", "get", "reserve", "resolve"}
  <2>1. Stage(w) = "away" /\ Stage(w)' \in {"away", "resolve"}
    BY <1>2, <1>3 DEF Stage
  <2>2. OutcomeSoFar(w) = "none" /\ OutcomeSoFar(w)' = "none"
    BY <2>1 DEF OutcomeSoFar
  <2>3. CASE Stage(w)' = "away"
    BY <1>2, <2>1, <2>2, <2>3, ThreadsStay
  <2>4. CASE Stage(w)' = "resolve"
    <3>1. Outcome!To(w, "resolve", "none")
      BY <1>2, <2>2, <2>4, ThreadMoves
    <3> QED
      BY <2>1, <3>1 DEF Outcome!Begin, Outcome!Next
  <2> QED
    BY <2>1, <2>3, <2>4
<1>4. CASE pc[w] \in {"triage", "put_report"} /\ call \in {"put_report", "put_scan"}
  <2>1. Stage(w) = "use" /\ Stage(w)' = "use" /\ OutcomeSoFar(w)' = OutcomeSoFar(w)
    BY <1>2, <1>4 DEF Stage, OutcomeSoFar
  <2> QED
    BY <1>2, <2>1, ThreadsStay
<1>5. CASE /\ pc[w] = "settle" /\ call \in {"triage", "put_report", "put_scan"}
           /\ ~scan[w].degraded
  <2>1. Stage(w) = "done" /\ Stage(w)' = "use"
    BY <1>2, <1>5 DEF Stage
  <2>2. OutcomeSoFar(w) # "degraded" /\ OutcomeSoFar(w)' = OutcomeSoFar(w)
    BY <1>2, <1>5, <2>1 DEF OutcomeSoFar
  <2>3. Outcome!To(w, "use", OutcomeSoFar(w))
    BY <1>2, <2>1, <2>2, ThreadMoves
  <2>4. Outcome!Use(w)
    BY <2>1, <2>2, <2>3 DEF Outcome!Use
  <2> QED
    BY <2>4 DEF Outcome!Next
<1> QED
  BY <1>3, <1>4, <1>5

\* What resolve() can make of a contract goes on to be analyzed unless degraded.
LEMMA ResolveOutcome ==
    ASSUME ControlInv, NEW w \in Workers, Resolve(w)
    PROVE  Outcome!Resolve(w)
<1>1. /\ FlowTypeOK /\ pc[w] = "resolve" /\ req[w].contract \in Contracts
      /\ now \in 0..MaxNow /\ code \in [Contracts -> Versions]
  BY Serving DEF Resolve, ControlInv, TypeOK, FlowTypeOK
<1>2. PICK s \in Resolutions(req[w].contract) :
        /\ scan' = [scan EXCEPT ![w] = s]
        /\ GoTo(w, IF s.degraded THEN "settle" ELSE "analyze")
  BY DEF Resolve
<1>3. s \in Scans
  BY <1>1, ResolutionType
<1> DEFINE call == IF s.degraded THEN "settle" ELSE "analyze"
<1>4. call \in Calls
  BY DEF Calls
<1>5. /\ pc'[w] = call /\ scan'[w] = s
      /\ \A v \in Workers \ {w} : Stage(v)' = Stage(v) /\ OutcomeSoFar(v)' = OutcomeSoFar(v)
  BY <1>1, <1>2, <1>3, <1>4, GoToOutcome
<1>6. Stage(w) = "resolve"
  BY <1>1 DEF Stage
<1>7. CASE s.degraded
  <2>1. Stage(w)' = "done"
    BY <1>5, <1>7 DEF Stage
  <2>2. OutcomeSoFar(w)' = "degraded"
    BY <1>5, <1>7, <2>1 DEF OutcomeSoFar
  <2>3. Outcome!To(w, "done", "degraded")
    BY <1>5, <2>1, <2>2, ThreadMoves
  <2> QED
    BY <1>6, <2>3 DEF Outcome!Resolve, Outcome!Outcomes
<1>8. CASE ~s.degraded
  <2>1. Stage(w)' = "analyze"
    BY <1>5, <1>8 DEF Stage
  <2>2. OutcomeSoFar(w)' \in {"plain", "proxy"}
    BY <1>5, <1>8, <2>1 DEF OutcomeSoFar
  <2>3. \E known \in {"plain", "proxy"} : Outcome!To(w, "analyze", known)
    BY <1>5, <2>1, <2>2, ThreadMoves
  <2> QED
    BY <1>6, <2>3 DEF Outcome!Resolve, Outcome!Outcomes
<1> QED
  BY <1>7, <1>8

\* Analysis keeps what is known, or loses a proxy.
LEMMA AnalyzeOutcome ==
    ASSUME ControlInv, NEW w \in Workers, Analyze(w)
    PROVE  Outcome!Analyze(w)
<1>1. FlowTypeOK /\ pc[w] = "analyze" /\ scan[w] \in Scans
  BY DEF Analyze, ControlInv, TypeOK, RequestInv
<1>2. Stage(w) = "analyze"
  BY <1>1 DEF Stage
<1>3. GoTo(w, "settle") /\ "settle" \in Calls
  BY DEF Analyze, Calls
<1>4. CASE UNCHANGED scan
  <2>1. scan' = [scan EXCEPT ![w] = scan[w]]
    BY <1>1, <1>4 DEF FlowTypeOK
  <2>2. /\ pc'[w] = "settle" /\ scan'[w] = scan[w]
        /\ \A v \in Workers \ {w} : Stage(v)' = Stage(v) /\ OutcomeSoFar(v)' = OutcomeSoFar(v)
    BY <1>1, <1>3, <2>1, GoToOutcome
  <2>3. Stage(w)' = "done"
    BY <2>2 DEF Stage
  <2>4. OutcomeSoFar(w)' = OutcomeSoFar(w)
    BY <1>2, <2>2, <2>3 DEF OutcomeSoFar
  <2>5. Outcome!To(w, "done", OutcomeSoFar(w))
    BY <2>2, <2>3, <2>4, ThreadMoves
  <2> QED
    BY <1>2, <2>5 DEF Outcome!Analyze
<1>5. CASE scan[w].isProxy /\ scan' = [scan EXCEPT ![w].degraded = TRUE]
  <2> DEFINE s == [scan[w] EXCEPT !.degraded = TRUE]
  <2>1. s \in Scans /\ s.degraded /\ scan' = [scan EXCEPT ![w] = s]
    BY <1>1, <1>5 DEF Scans
  <2>2. /\ pc'[w] = "settle" /\ scan'[w] = s
        /\ \A v \in Workers \ {w} : Stage(v)' = Stage(v) /\ OutcomeSoFar(v)' = OutcomeSoFar(v)
    BY <1>1, <1>3, <2>1, GoToOutcome
  <2>3. Stage(w)' = "done"
    BY <2>2 DEF Stage
  <2>4. OutcomeSoFar(w)' = "degraded"
    BY <2>1, <2>2, <2>3 DEF OutcomeSoFar
  <2>5. Outcome!To(w, "done", "degraded")
    BY <2>2, <2>3, <2>4, ThreadMoves
  <2>6. CASE scan[w].degraded
    <3>1. OutcomeSoFar(w) = "degraded"
      BY <1>2, <2>6 DEF OutcomeSoFar
    <3> QED
      BY <1>2, <2>5, <3>1 DEF Outcome!Analyze
  <2>7. CASE ~scan[w].degraded
    <3>1. OutcomeSoFar(w) = "proxy"
      BY <1>2, <1>5, <2>7 DEF OutcomeSoFar
    <3> QED
      BY <1>2, <2>5, <3>1 DEF Outcome!Analyze
  <2> QED
    BY <2>6, <2>7
<1> QED
  BY <1>4, <1>5 DEF Analyze

LEMMA InitOutcome == Init => Outcome!Init
<1> SUFFICES ASSUME Init PROVE Outcome!Init
  OBVIOUS
<1>1. \A w \in Workers : Stage(w) = "away"
  BY DEF Init, Stage
<1>2. \A w \in Workers : OutcomeSoFar(w) = "none"
  BY <1>1 DEF OutcomeSoFar
<1> QED
  BY <1>1, <1>2 DEF Outcome!Init

\* One step for each that Handle can take.
LEMMA HandleOutcome ==
    ASSUME ControlInv, NEW w \in Workers, Handle(w)
    PROVE  [Outcome!Next]_(Outcome!vars)
<1>1. FlowTypeOK /\ RequestInv
  BY DEF ControlInv, TypeOK
<1>2. CASE Deliver(w) \/ Error(w)
  BY <1>1, <1>2, AnswerOutcome DEF Deliver, Error
<1>3. CASE Resolve(w)
  BY <1>3, ResolveOutcome DEF Outcome!Next
<1>4. CASE Analyze(w)
  BY <1>4, AnalyzeOutcome DEF Outcome!Next
<1>5. CASE /\ FindPayment(w) \/ Consume(w) \/ VerifyPass(w) \/ GetScan(w) \/ GetReport(w) \/ Reserve(w)
           /\ ~(Deliver(w) \/ Error(w))
  <2>1. /\ pc[w] \in {"find_payment", "consume", "verify_pass", "get", "reserve"}
        /\ UNCHANGED scan
        /\ \E call \in {"consume", "get", "reserve", "resolve"} : GoTo(w, call)
    BY <1>5 DEF FindPayment, Consume, VerifyPass, GetScan, GetReport, Reserve
  <2> QED
    BY <1>1, <2>1, SideOutcome DEF Calls
<1>6. CASE /\ SettleScan(w) \/ SettleReport(w) \/ Triage(w) \/ PutReport(w)
           /\ ~(Deliver(w) \/ Error(w))
  <2>1. /\ \/ pc[w] = "settle" /\ ~scan[w].degraded
           \/ pc[w] \in {"triage", "put_report"}
        /\ UNCHANGED scan
    BY <1>6 DEF SettleScan, SettleReport, Triage, PutReport, Cacheable
  <2>2. \E call \in {"triage", "put_report", "put_scan"} :
           GoTo(w, call) /\ (pc[w] # "settle" => call # "triage")
    BY <1>6 DEF SettleScan, SettleReport, Triage, PutReport, Cacheable
  <2> QED
    BY <1>1, <2>1, <2>2, SideOutcome DEF Calls
<1>7. CASE CoreFails(w) \/ TriageFails(w) \/ PutScan(w)
  BY <1>2, <1>7 DEF CoreFails, TriageFails, PutScan
<1> QED
  BY <1>2, <1>3, <1>4, <1>5, <1>6, <1>7 DEF Handle, Work

\* Arrivals and the surroundings leave the scans alone, a restart loses them.
LEMMA NextOutcome == ControlInv /\ [Next]_vars => [Outcome!Next]_(Outcome!vars)
<1> SUFFICES ASSUME ControlInv, [Next]_vars PROVE [Outcome!Next]_(Outcome!vars)
  OBVIOUS
<1>1. CASE \E w \in Workers : Handle(w)
  BY <1>1, HandleOutcome
<1>2. ASSUME NEW w \in Workers, Arrive(w)
      PROVE  [Outcome!Next]_(Outcome!vars)
  <2>1. \A v \in Workers \ {w} : pc'[v] = pc[v] /\ scan'[v] = scan[v]
    BY <1>2 DEF Arrive, ControlInv, TypeOK, FlowTypeOK
  <2>2. pc[w] = "idle" /\ pc'[w] \in {"get", "verify_pass", "find_payment"}
    BY <1>2 DEF Arrive, ControlInv, TypeOK, FlowTypeOK
  <2>3. Stage(w) = "away" /\ Stage(w)' = "away"
    BY <2>2 DEF Stage
  <2>4. OutcomeSoFar(w)' = OutcomeSoFar(w)
    BY <2>3 DEF OutcomeSoFar
  <2> QED
    BY <2>1, <2>3, <2>4, SameThread, ThreadsStay
<1>3. CASE Restart
  <2>1. \A w \in Workers : Stage(w)' = "away"
    BY <1>3 DEF Restart, Stage
  <2>2. \A w \in Workers : OutcomeSoFar(w)' = "none"
    BY <2>1 DEF OutcomeSoFar
  <2>3. Outcome!Crash
    BY <2>1, <2>2 DEF Outcome!Crash
  <2> QED
    BY <2>3 DEF Outcome!Next
<1>4. CASE Tick \/ (\E c \in Upgradeable : Upgrade(c)) \/ UNCHANGED vars
  <2>1. UNCHANGED <<pc, scan>>
    BY <1>4 DEF Tick, Upgrade, vars
  <2> QED
    BY <2>1, SameThread, ThreadsStay
<1> QED
  BY <1>1, <1>2, <1>3, <1>4 DEF Next, Surroundings

\* Whatever the threads do to each other, no result that is flagged degraded gets
\* to a cache or to the model, and no thread takes more from a scan than ScanCore
\* gives it.
THEOREM RefinesOutcome == Spec => RespectsOutcome
BY ControlInvariant, InitOutcome, NextOutcome, PTL DEF Spec, RespectsOutcome, Outcome!Spec

(***************************************************************************)
(* The spend over all lives of the process                                 *)
(***************************************************************************)

\* What is proved of DailySpendBudget, about the service's budget.
Ledger == INSTANCE SpendBudgetProofs WITH
    Callers <- Workers, Ceilings <- {DailyMax}, MaxDay <- LastDay,
    dailyMax <- DailyMax, today <- Today

\* What the threads of one life can spend in a day.
LifeQuota == DailyMax + Cardinality(Workers) - 1

\* Every life keeps to its quota, this one and those before it together.
SpendInv ==
    /\ Ledger!IInv /\ Ledger!WithinQuota
    /\ \A d \in 1..LastDay : spent[d] <= restarts * LifeQuota

\* Sets are finite, and have the size, that they have in the ledger.
LEMMA SameSizes ==
    \A S : IsFiniteSet(S) = Ledger!IsFiniteSet(S) /\ Cardinality(S) = Ledger!Cardinality(S)
BY DEF IsFiniteSet, Ledger!IsFiniteSet, Cardinality, Ledger!Cardinality

\* The service gives the budget's constants values that it allows.
LEMMA LedgerAssumptions ==
    /\ Ledger!CallersAssumption /\ Ledger!CeilingsAssumption /\ Ledger!MaxDayAssumption
<1>1. Ledger!IsFiniteSet(Workers) /\ Workers # {} /\ {DailyMax} \subseteq Nat
  BY WorkersAssumption, ConfigAssumption, SameSizes
<1> QED
  BY <1>1, CalendarLength
  DEF Ledger!CallersAssumption, Ledger!CeilingsAssumption, Ledger!MaxDayAssumption

\* The two instances say the same of a step, and of the start.
LEMMA SameSteps ==
    /\ Budget!Init = Ledger!Init
    /\ [Budget!Next]_(Budget!vars) = [Ledger!Next]_(Ledger!vars)
BY DEF Budget!Init, Ledger!Init, Budget!Days, Ledger!Days, Budget!vars, Ledger!vars,
       Budget!Next, Ledger!Next, Budget!ReserveGranted, Ledger!ReserveGranted,
       Budget!ReserveRefused, Ledger!ReserveRefused, Budget!reserve, Ledger!reserve,
       Budget!RolledCount, Ledger!RolledCount, Budget!Refund, Ledger!Refund,
       Budget!refund, Ledger!refund, Budget!RefundApplies, Ledger!RefundApplies,
       Budget!NoDay, Ledger!NoDay, Budget!Keep, Ledger!Keep, Budget!SetDailyMax,
       Ledger!SetDailyMax, Budget!Midnight, Ledger!Midnight

\* A budget as it starts is within its quota.
LEMMA FreshLedger == Budget!Init => Ledger!IInv /\ Ledger!WithinQuota
BY SameSteps, LedgerAssumptions, Ledger!InitIInv, Ledger!InitWithinQuota

\* A life's quota is a number, and one more life adds one quota.
LEMMA QuotaPerLife ==
    /\ LifeQuota \in Nat /\ LifeQuota = Ledger!EffectiveQuota
    /\ \A r \in Nat : r * LifeQuota \in Nat /\ (r + 1) * LifeQuota = r * LifeQuota + LifeQuota
<1>1. Cardinality(Workers) \in Nat /\ Cardinality(Workers) # 0
  BY WorkersAssumption, FS_CardinalityType, FS_EmptySet
<1>2. LifeQuota \in Nat
  BY <1>1, ConfigAssumption DEF LifeQuota
<1>3. LifeQuota = Ledger!EffectiveQuota
  BY SameSizes DEF LifeQuota, Ledger!EffectiveQuota
<1> QED
  BY <1>2, <1>3

\* What this life has paid for on a day is in use, hence within the quota.
LEMMA PaidWithinLife ==
    ASSUME ControlInv, Ledger!WithinQuota, NEW d \in 1..LastDay
    PROVE  paid[d] \in Nat /\ paid[d] <= LifeQuota
<1>1. Ledger!Used(d) <= LifeQuota
  BY QuotaPerLife DEF Ledger!WithinQuota, Ledger!Days
<1>2. Ledger!Cardinality(Ledger!Holders(d)) \in Nat
  BY LedgerAssumptions, Ledger!HoldersFinite
<1>3. paid[d] \in Nat
  BY DEF ControlInv, TypeOK, BudgetTypeOK
<1> QED
  BY <1>1, <1>2, <1>3, QuotaPerLife DEF Ledger!Used

\* A restarted process has a budget as it starts.
LEMMA RestartIsFresh ==
    ASSUME ControlInv, Restart
    PROVE  Budget!Init'
<1>1. Today' \in 1..LastDay
  BY DayType DEF Restart, ControlInv, TypeOK, FlowTypeOK, Today
<1> QED
  BY <1>1 DEF Restart, Budget!Init, Budget!Days

\* Every step keeps the lives within their quotas.
LEMMA NextSpend ==
    ASSUME ControlInv, SpendInv, [Next]_vars
    PROVE  SpendInv'
<1>1. CASE ~Restart
  <2>1. [Ledger!Next]_(Ledger!vars)
    BY <1>1, BudgetNext, SameSteps
  <2>2. Ledger!IInv' /\ Ledger!WithinQuota'
    BY <2>1, LedgerAssumptions, Ledger!NextIInv, Ledger!NextWithinQuota DEF SpendInv
  <2>3. UNCHANGED <<spent, restarts>>
    BY <1>1
    DEF Next, Surroundings, Arrive, Upgrade, Tick, vars, ghosts, Handle, Work, FindPayment, Consume,
        VerifyPass, GetScan, GetReport, Reserve, Resolve, Analyze, CoreFails, SettleScan,
        SettleReport, Triage, TriageFails, PutReport, PutScan, GoTo, Error, Deliver, Answer
  <2> QED
    BY <2>2, <2>3 DEF SpendInv, LifeQuota
<1>2. CASE Restart
  <2>1. Ledger!IInv' /\ Ledger!WithinQuota'
    BY <1>2, RestartIsFresh, FreshLedger, PTL
  <2>2. \A d \in 1..LastDay : spent'[d] <= restarts' * LifeQuota
    <3> SUFFICES ASSUME NEW d \in 1..LastDay PROVE spent'[d] <= restarts' * LifeQuota
      OBVIOUS
    <3>1. spent'[d] = spent[d] + paid[d] /\ restarts' = restarts + 1
      BY <1>2 DEF Restart
    <3>2. spent[d] \in Nat /\ restarts \in Nat /\ spent[d] <= restarts * LifeQuota
      BY BoundsAssumption DEF SpendInv, ControlInv, TypeOK, FlowTypeOK
    <3>3. paid[d] \in Nat /\ paid[d] <= LifeQuota
      BY PaidWithinLife DEF SpendInv
    <3>4. restarts * LifeQuota \in Nat /\ (restarts + 1) * LifeQuota = restarts * LifeQuota + LifeQuota
          /\ LifeQuota \in Nat
      BY <3>2, QuotaPerLife
    <3> DEFINE before == restarts * LifeQuota
    <3> HIDE DEF before
    <3>5. spent[d] + paid[d] <= before + LifeQuota
      BY <3>2, <3>3, <3>4 DEF before
    <3> QED
      BY <3>1, <3>4, <3>5 DEF before
  <2> QED
    BY <2>1, <2>2 DEF SpendInv, LifeQuota
<1> QED
  BY <1>1, <1>2

(***************************************************************************)
(* However reports, failures, midnights and restarts interleave, the calls *)
(* charged to a day stay within one quota for each life of the process.    *)
(***************************************************************************)
THEOREM SpendCapHolds == Spec => []SpendCap
<1>1. Init => SpendInv
  <2> SUFFICES ASSUME Init PROVE SpendInv
    OBVIOUS
  <2>1. Ledger!IInv /\ Ledger!WithinQuota
    BY BudgetInit, FreshLedger
  <2>2. \A d \in 1..LastDay : spent[d] <= restarts * LifeQuota
    BY QuotaPerLife DEF Init
  <2> QED
    BY <2>1, <2>2 DEF SpendInv
<1>2. ControlInv /\ SpendInv /\ [Next]_vars => SpendInv'
  BY NextSpend
<1>3. ControlInv /\ SpendInv => SpendCap
  <2> SUFFICES ASSUME ControlInv, SpendInv, NEW d \in 1..LastDay
               PROVE  spent[d] + paid[d] <= (restarts + 1) * LifeQuota
    BY DEF SpendCap, LifeQuota
  <2>1. spent[d] \in Nat /\ restarts \in Nat /\ spent[d] <= restarts * LifeQuota
    BY BoundsAssumption DEF SpendInv, ControlInv, TypeOK, FlowTypeOK
  <2>2. paid[d] \in Nat /\ paid[d] <= LifeQuota
    BY PaidWithinLife DEF SpendInv
  <2>3. restarts * LifeQuota \in Nat /\ (restarts + 1) * LifeQuota = restarts * LifeQuota + LifeQuota
        /\ LifeQuota \in Nat
    BY <2>1, QuotaPerLife
  <2> DEFINE before == restarts * LifeQuota
  <2> HIDE DEF before
  <2>4. spent[d] + paid[d] <= before + LifeQuota
    BY <2>1, <2>2, <2>3 DEF before
  <2> QED
    BY <2>3, <2>4 DEF before
<1> QED
  BY ControlInvariant, <1>1, <1>2, <1>3, PTL DEF Spec
=============================================================================
