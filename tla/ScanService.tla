---------------------------- MODULE ScanService ----------------------------
(***************************************************************************)
(* The two address endpoints of app/main.py, scan_address and              *)
(* report_address, running concurrently in the server's thread pool over   *)
(* the state they share: the two result caches (TtlCache), the daily       *)
(* spending ceiling (DailySpendBudget) and the table of used payments.     *)
(*                                                                         *)
(* Both endpoints are plain functions, so each request runs in a pool      *)
(* thread of its own and interleaves with the others at every call that    *)
(* takes a lock, reads the chain, or runs Slither or the model.  One       *)
(* action stands for the code from one such call to the next.              *)
(*                                                                         *)
(* ProxyResolution and RateLimiter treat the steps this module takes as    *)
(* one: the reads of proxy.resolve, and the limiter before the handler.    *)
(***************************************************************************)
EXTENDS Integers, FiniteSets

CONSTANTS
    Workers,      \* pool threads
    Contracts,    \* <<chain, address>> pairs, both lower-cased
    Upgradeable,  \* those that are proxies: their code can be replaced
    Fragile,      \* proxies behind a beacon or another proxy (see Resolutions)
    PaymentIds,   \* paymentId values that callers present
    PaidFor,      \* PaidFor[id]: contracts for which ScanPurchased(id) exists
    FREE_BETA,    \* TRUE: deep reports need no payment
    DailyMax,     \* AI_GLOBAL_DAILY_MAX
    CACHE_TTL, PROXY_CACHE_TTL,   \* in ticks of the clock
    DayLength,    \* ticks in a UTC day
    MaxNow,       \* bound: the last tick
    MaxCode,      \* bound: code versions of one proxy
    MaxRestarts   \* bound: restarts of the process

ASSUME WorkersAssumption == IsFiniteSet(Workers) /\ Workers # {}
ASSUME ContractsAssumption ==
    /\ \A c \in Contracts : c = <<c[1], c[2]>>
    /\ Fragile \subseteq Upgradeable /\ Upgradeable \subseteq Contracts
ASSUME PaidForAssumption == PaidFor \in [PaymentIds -> SUBSET Contracts]
ASSUME ConfigAssumption ==
    /\ FREE_BETA \in BOOLEAN
    /\ DailyMax \in Nat /\ CACHE_TTL \in Nat /\ PROXY_CACHE_TTL \in Nat
ASSUME BoundsAssumption ==
    /\ DayLength \in Nat \ {0} /\ MaxNow \in Nat
    /\ MaxCode \in Nat \ {0} /\ MaxRestarts \in Nat

CONSTANTS
    NoId,   \* a request with no payment id
    Pass    \* a request with a signed pass message instead

ASSUME ProofsAssumption == NoId \notin PaymentIds \cup {Pass} \cup Contracts /\ Pass \notin PaymentIds

VARIABLES
    now,          \* the clock
    code,         \* code[c]: version of the code that runs at c
    scan_cache, report_cache,     \* _store of the two caches
    day, count,   \* _day and _count of ai_budget
    used,         \* payment_id column of used_payments, on disk
    pc,           \* where each thread is
    req,          \* req[w]: the request it serves
    scan          \* scan[w]: what resolve() and the analysis told it so far

memory == <<scan_cache, report_cache, day, count>>

(***************************************************************************)
(* What really happened, for the properties; not in the code.              *)
(***************************************************************************)
VARIABLES
    holds,        \* as in SpendBudget
    paid,         \* as in SpendBudget, by this life of the process
    spent,        \* the same, by its lives before
    authorized,   \* authorized[id]: requests that payment id let through
    delivered,    \* payment ids for which a report was returned
    replacedAt,   \* replacedAt[c][v]: when version v of c was replaced
    restarts

ghosts == <<holds, paid, spent, authorized, delivered, replacedAt, restarts>>
vars == <<now, code, memory, used, pc, req, scan, ghosts>>

Versions == 1..MaxCode
Shell == 0      \* the "version" of a scan of the proxy shell itself
Never == MaxNow + 1

Today == now \div DayLength + 1
LastDay == MaxNow \div DayLength + 1

Budget == INSTANCE SpendBudget WITH
    Callers <- Workers, Ceilings <- {DailyMax}, MaxDay <- LastDay,
    dailyMax <- DailyMax, today <- Today

----------------------------------------------------------------------------
\* ScanResult: what it is about and how far it got.  readAt, the time of the
\* chain reads, is for the properties.
Scans == [target : Contracts, version : Versions \cup {Shell},
          isProxy : BOOLEAN, degraded : BOOLEAN, readAt : 0..MaxNow]
NoScan == [target |-> NoId, version |-> Shell, isProxy |-> FALSE,
           degraded |-> FALSE, readAt |-> 0]

Requests == [kind : {"scan", "report"}, contract : Contracts,
             proof : PaymentIds \cup {Pass, NoId}]
NoRequest == [kind |-> "none", contract |-> NoId, proof |-> NoId]

\* A thread is idle or about to make one of these calls.
Calls == {"find_payment", "consume", "verify_pass", "get", "reserve", "resolve",
          "analyze", "settle", "triage", "put_report", "put_scan"}

\* In these a report holds a unit of the daily budget.
Funded == {"resolve", "analyze", "settle", "triage"}

(***************************************************************************)
(* The caches.  A store maps the keys present to entries, like its dict.   *)
(***************************************************************************)

\* Faulty variant: the key forgets the chain.
CacheKeyNoChain(contract) == <<"any", contract[2]>>

\* _cache_key: both parts, so one contract is one entry.
CacheKey(contract) == <<contract[1], contract[2]>>

\* Faulty variant: proxies live as long as any other entry.
OneTtl(value) == CACHE_TTL

\* _proxy_aware_ttl
proxy_aware_ttl(value) == IF value.isProxy THEN PROXY_CACHE_TTL ELSE CACHE_TTL

\* Faulty variant: degraded results are cached like any other.
CacheableAll(value) == TRUE

\* _cacheable
Cacheable(value) == ~value.degraded

Hit(store, key) ==
    /\ key \in DOMAIN store
    /\ now - store[key].storedAt <= proxy_aware_ttl(store[key].value)

\* get() removes an expired entry as it finds it.
AfterGet(store, key) ==
    [k \in {k \in DOMAIN store : k = key => Hit(store, key)} |-> store[k]]

AfterPut(store, key, value) ==
    [k \in DOMAIN store \cup {key} |->
        IF k = key THEN [storedAt |-> now, value |-> value] ELSE store[k]]

----------------------------------------------------------------------------
Init ==
    /\ now = 0
    /\ code = [c \in Contracts |-> 1]
    /\ scan_cache = << >> /\ report_cache = << >>
    /\ day = Budget!NoDay /\ count = 0
    /\ used = {}
    /\ pc = [w \in Workers |-> "idle"]
    /\ req = [w \in Workers |-> NoRequest]
    /\ scan = [w \in Workers |-> NoScan]
    /\ holds = [w \in Workers |-> Budget!NoDay]
    /\ paid = [d \in 1..LastDay |-> 0] /\ spent = [d \in 1..LastDay |-> 0]
    /\ authorized = [id \in PaymentIds |-> 0]
    /\ delivered = {}
    /\ replacedAt = [c \in Contracts |-> [v \in Versions |-> Never]]
    /\ restarts = 0

GoTo(w, call) ==
    /\ pc' = [pc EXCEPT ![w] = call]
    /\ UNCHANGED <<now, code, req, spent, replacedAt, restarts>>

\* The handler returns or raises: the thread goes back to the pool.
Answer(w) ==
    /\ pc' = [pc EXCEPT ![w] = "idle"]
    /\ req' = [req EXCEPT ![w] = NoRequest]
    /\ scan' = [scan EXCEPT ![w] = NoScan]
    /\ UNCHANGED <<now, code, spent, replacedAt, restarts>>

Error(w) == Answer(w) /\ UNCHANGED delivered

Deliver(w) ==
    /\ Answer(w)
    /\ delivered' = delivered \cup ({req[w].proof} \cap PaymentIds)

\* Faulty variant: a refund that does not look at the counter.
RefundNoFloor(w) ==
    IF req[w].kind = "report"
    THEN /\ count' = count - 1
         /\ holds' = [holds EXCEPT ![w] = Budget!NoDay]
         /\ UNCHANGED day
    ELSE UNCHANGED <<day, count, holds>>

\* _ai_budget_refund in a report; a free scan has nothing to give back.
RefundIfReport(w) ==
    IF req[w].kind = "report"
    THEN /\ Budget!refund
         /\ holds' = [holds EXCEPT ![w] = Budget!NoDay]
    ELSE UNCHANGED <<day, count, holds>>

\* A report request with no proof at all is answered 402 and changes nothing.
Arrive(w) ==
    /\ pc[w] = "idle"
    /\ \E r \in Requests :
        /\ r.proof = NoId <=> r.kind = "scan" \/ FREE_BETA
        /\ req' = [req EXCEPT ![w] = r]
        /\ pc' = [pc EXCEPT ![w] =
             IF r.proof = NoId THEN "get"
             ELSE IF r.proof = Pass THEN "verify_pass" ELSE "find_payment"]
    /\ UNCHANGED <<now, code, memory, used, scan, ghosts>>

(***************************************************************************)
(* Authorization                                                           *)
(***************************************************************************)

FindPayment(w) ==
    /\ pc[w] = "find_payment"
    /\ \/ /\ req[w].contract \in PaidFor[req[w].proof]
          /\ GoTo(w, "consume")
          /\ UNCHANGED <<scan, delivered>>
       \/ Error(w)    \* no such event, or the receipt could not be read
    /\ UNCHANGED <<memory, used, holds, paid, authorized>>

\* Faulty variant: the reuse check was made before, outside the lock.
ConsumeUnchecked(w) ==
    /\ pc[w] = "consume"
    /\ used' = used \cup {req[w].proof}
    /\ authorized' = [authorized EXCEPT ![req[w].proof] = @ + 1]
    /\ GoTo(w, "get")
    /\ UNCHANGED <<memory, scan, holds, paid, delivered>>

\* The INSERT: the primary key decides, and the row is committed to disk.
Consume(w) ==
    /\ pc[w] = "consume"
    /\ IF req[w].proof \in used
       THEN Error(w) /\ UNCHANGED <<used, authorized>>
       ELSE /\ used' = used \cup {req[w].proof}
            /\ authorized' = [authorized EXCEPT ![req[w].proof] = @ + 1]
            /\ GoTo(w, "get")
            /\ UNCHANGED <<scan, delivered>>
    /\ UNCHANGED <<memory, holds, paid>>

VerifyPass(w) ==
    /\ pc[w] = "verify_pass"
    /\ \/ GoTo(w, "get") /\ UNCHANGED <<scan, delivered>>
       \/ Error(w)
    /\ UNCHANGED <<memory, used, holds, paid, authorized>>

(***************************************************************************)
(* Cache lookup and budget                                                 *)
(***************************************************************************)

GetScan(w) ==
    /\ pc[w] = "get" /\ req[w].kind = "scan"
    /\ LET key == CacheKey(req[w].contract) IN
        /\ IF Hit(scan_cache, key)
           THEN Deliver(w)
           ELSE GoTo(w, "resolve") /\ UNCHANGED <<scan, delivered>>
        /\ scan_cache' = AfterGet(scan_cache, key)
    /\ UNCHANGED <<report_cache, day, count, used, holds, paid, authorized>>

GetReport(w) ==
    /\ pc[w] = "get" /\ req[w].kind = "report"
    /\ LET key == CacheKey(req[w].contract) IN
        /\ IF Hit(report_cache, key)
           THEN Deliver(w)
           ELSE GoTo(w, "reserve") /\ UNCHANGED <<scan, delivered>>
        /\ report_cache' = AfterGet(report_cache, key)
    /\ UNCHANGED <<scan_cache, day, count, used, holds, paid, authorized>>

\* Faulty variant: the cap fails open, the model is called all the same.
ReserveFailsOpen(w) ==
    /\ pc[w] = "reserve"
    /\ \E granted \in BOOLEAN : Budget!reserve(granted)
    /\ holds' = [holds EXCEPT ![w] = Today]
    /\ GoTo(w, "resolve")
    /\ UNCHANGED <<scan_cache, report_cache, used, scan, paid, authorized, delivered>>

\* Faulty variant: a refused request waits for the next day's allowance.
ReserveWaits(w) ==
    /\ pc[w] = "reserve"
    /\ \/ /\ Budget!reserve(TRUE)
          /\ holds' = [holds EXCEPT ![w] = Today]
          /\ GoTo(w, "resolve")
       \/ /\ Budget!reserve(FALSE)
          /\ GoTo(w, "reserve")
          /\ UNCHANGED holds
    /\ UNCHANGED <<scan_cache, report_cache, used, scan, paid, authorized, delivered>>

Reserve(w) ==
    /\ pc[w] = "reserve"
    /\ \/ /\ Budget!reserve(TRUE)
          /\ holds' = [holds EXCEPT ![w] = Today]
          /\ GoTo(w, "resolve")
          /\ UNCHANGED <<scan, delivered>>
       \/ /\ Budget!reserve(FALSE)     \* 503
          /\ Error(w)
          /\ UNCHANGED holds
    /\ UNCHANGED <<scan_cache, report_cache, used, paid, authorized>>

(***************************************************************************)
(* _scan_address_core and what the endpoint does with its result           *)
(***************************************************************************)

(***************************************************************************)
(* What resolve() can make of contract c, as _scan_address_core sees it:   *)
(* the code that runs; a state it could not establish; and, when a code    *)
(* query fails on a beacon or on a nested proxy, a proxy's shell taken for *)
(* the code that runs (ProxyResolution shows how).                         *)
(***************************************************************************)
Clean(c) == [target |-> c, version |-> code[c], isProxy |-> c \in Upgradeable,
             degraded |-> FALSE, readAt |-> now]
Unread(c) == [Clean(c) EXCEPT !.version = Shell, !.degraded = TRUE]
ShellOnly(c, seen) == [Clean(c) EXCEPT !.version = Shell, !.isProxy = seen]

Resolutions(c) ==
    {Clean(c), Unread(c)} \cup {ShellOnly(c, seen) : seen \in {b \in BOOLEAN : c \in Fragile}}

Resolve(w) ==
    /\ pc[w] = "resolve"
    /\ \E s \in Resolutions(req[w].contract) :
        /\ scan' = [scan EXCEPT ![w] = s]
        /\ GoTo(w, IF s.degraded THEN "settle" ELSE "analyze")
    /\ UNCHANGED <<memory, used, holds, paid, authorized, delivered>>

\* Fetch and Slither; an implementation without verified source is degraded.
Analyze(w) ==
    /\ pc[w] = "analyze"
    /\ \/ UNCHANGED scan
       \/ /\ scan[w].isProxy
          /\ scan' = [scan EXCEPT ![w].degraded = TRUE]
    /\ GoTo(w, "settle")
    /\ UNCHANGED <<memory, used, holds, paid, authorized, delivered>>

\* No API key, no verified source, explorer or Slither error: 500, 404, 502, 422.
CoreFails(w) ==
    /\ pc[w] \in {"resolve", "analyze"}
    /\ RefundIfReport(w)
    /\ Error(w)
    /\ UNCHANGED <<scan_cache, report_cache, used, paid, authorized>>

SettleScan(w) ==
    /\ pc[w] = "settle" /\ req[w].kind = "scan"
    /\ IF Cacheable(scan[w])
       THEN GoTo(w, "put_scan") /\ UNCHANGED <<scan, delivered>>
       ELSE Deliver(w)
    /\ UNCHANGED <<memory, used, holds, paid, authorized>>

\* Faulty variant: a degraded report keeps its unit.
SettleReportNoRefund(w) ==
    /\ pc[w] = "settle" /\ req[w].kind = "report"
    /\ IF ~scan[w].degraded
       THEN GoTo(w, "triage") /\ UNCHANGED <<scan, delivered, day, count, holds>>
       ELSE Deliver(w) /\ UNCHANGED <<day, count, holds>>
    /\ UNCHANGED <<scan_cache, report_cache, used, paid, authorized>>

\* A degraded scan costs no model call: refund, synthetic report.
SettleReport(w) ==
    /\ pc[w] = "settle" /\ req[w].kind = "report"
    /\ IF ~scan[w].degraded
       THEN GoTo(w, "triage") /\ UNCHANGED <<scan, delivered, day, count, holds>>
       ELSE /\ RefundIfReport(w)
            /\ IF Cacheable(scan[w])
               THEN GoTo(w, "put_report") /\ UNCHANGED <<scan, delivered>>
               ELSE Deliver(w)
    /\ UNCHANGED <<scan_cache, report_cache, used, paid, authorized>>

\* Faulty variant: the refund sits in a finally clause and also runs on success.
TriageRefunding(w) ==
    /\ pc[w] = "triage"
    /\ paid' = [paid EXCEPT ![holds[w]] = @ + 1]
    /\ RefundIfReport(w)
    /\ GoTo(w, "put_report")
    /\ UNCHANGED <<scan_cache, report_cache, used, scan, authorized, delivered>>

\* The model call goes through: the unit is spent.
Triage(w) ==
    /\ pc[w] = "triage"
    /\ paid' = [paid EXCEPT ![holds[w]] = @ + 1]
    /\ holds' = [holds EXCEPT ![w] = Budget!NoDay]
    /\ IF Cacheable(scan[w])
       THEN GoTo(w, "put_report") /\ UNCHANGED <<scan, delivered>>
       ELSE Deliver(w)
    /\ UNCHANGED <<memory, used, authorized>>

TriageFails(w) ==
    /\ pc[w] = "triage"
    /\ RefundIfReport(w)
    /\ Error(w)
    /\ UNCHANGED <<scan_cache, report_cache, used, paid, authorized>>

PutReport(w) ==
    /\ pc[w] = "put_report"
    /\ report_cache' = AfterPut(report_cache, CacheKey(req[w].contract), scan[w])
    /\ GoTo(w, "put_scan")
    /\ UNCHANGED <<scan_cache, day, count, used, scan, holds, paid, authorized, delivered>>

PutScan(w) ==
    /\ pc[w] = "put_scan"
    /\ scan_cache' = AfterPut(scan_cache, CacheKey(req[w].contract), scan[w])
    /\ Deliver(w)
    /\ UNCHANGED <<report_cache, day, count, used, holds, paid, authorized>>

(***************************************************************************)
(* The surroundings                                                        *)
(***************************************************************************)

Tick ==
    /\ now < MaxNow
    /\ now' = now + 1
    /\ UNCHANGED <<code, memory, used, pc, req, scan, ghosts>>

\* The proxy's admin replaces the implementation.
Upgrade(c) ==
    /\ code[c] < MaxCode
    /\ code' = [code EXCEPT ![c] = @ + 1]
    /\ replacedAt' = [replacedAt EXCEPT ![c][code[c]] = now]
    /\ UNCHANGED <<now, memory, used, pc, req, scan,
                   holds, paid, spent, authorized, delivered, restarts>>

\* The process dies and starts again: everything is lost but used_payments.
Restart ==
    /\ restarts < MaxRestarts
    /\ restarts' = restarts + 1
    /\ scan_cache' = << >> /\ report_cache' = << >>
    /\ day' = Budget!NoDay /\ count' = 0
    /\ pc' = [w \in Workers |-> "idle"]
    /\ req' = [w \in Workers |-> NoRequest]
    /\ scan' = [w \in Workers |-> NoScan]
    /\ holds' = [w \in Workers |-> Budget!NoDay]
    /\ paid' = [d \in 1..LastDay |-> 0]
    /\ spent' = [d \in 1..LastDay |-> spent[d] + paid[d]]
    /\ UNCHANGED <<now, code, used, authorized, delivered, replacedAt>>

\* Every call of a handler but the one to the model.
Work(w) ==
    \/ FindPayment(w) \/ Consume(w) \/ VerifyPass(w)
    \/ GetScan(w) \/ GetReport(w) \/ Reserve(w)
    \/ Resolve(w) \/ Analyze(w) \/ CoreFails(w)
    \/ SettleScan(w) \/ SettleReport(w)
    \/ PutReport(w) \/ PutScan(w)

Handle(w) == Work(w) \/ Triage(w) \/ TriageFails(w)

Surroundings == (\E c \in Upgradeable : Upgrade(c)) \/ Tick \/ Restart

Next == (\E w \in Workers : Arrive(w) \/ Handle(w)) \/ Surroundings

Spec == Init /\ [][Next]_vars

(***************************************************************************)
(* A thread that has a request keeps running: RPCs, the explorer and the   *)
(* model have timeouts.  The analysis has none as a whole (SlitherGate):   *)
(* nothing here makes a thread return from it.                             *)
(***************************************************************************)
FairSpec == Spec /\ \A w \in Workers : WF_vars(pc[w] # "analyze" /\ Handle(w))

----------------------------------------------------------------------------
Store(cache) ==
    /\ DOMAIN cache \subseteq {CacheKey(c) : c \in Contracts}
    /\ \A key \in DOMAIN cache : cache[key] \in [storedAt : 0..MaxNow, value : Scans]

FlowTypeOK ==
    /\ now \in 0..MaxNow
    /\ code \in [Contracts -> Versions]
    /\ pc \in [Workers -> Calls \cup {"idle"}]
    /\ req \in [Workers -> Requests \cup {NoRequest}]
    /\ scan \in [Workers -> Scans \cup {NoScan}]
    /\ replacedAt \in [Contracts -> [Versions -> 0..Never]]
    /\ spent \in [1..LastDay -> Nat] /\ restarts \in 0..MaxRestarts

BudgetTypeOK ==
    /\ day \in 0..LastDay /\ count \in Nat
    /\ holds \in [Workers -> 0..LastDay]
    /\ paid \in [1..LastDay -> Nat]

PaymentTypeOK ==
    /\ used \subseteq PaymentIds
    /\ authorized \in [PaymentIds -> Nat]
    /\ delivered \subseteq PaymentIds

TypeOK ==
    /\ FlowTypeOK
    /\ Store(scan_cache) /\ Store(report_cache)
    /\ BudgetTypeOK
    /\ PaymentTypeOK

(***************************************************************************)
(* No unit of the daily budget leaks: a thread holds one exactly while it  *)
(* works on a report between reserve() and the end of the model call, so   *)
(* none is held by a thread that has answered, whichever way it answered.  *)
(***************************************************************************)
HoldsWhileFunded ==
    \A w \in Workers :
        holds[w] # Budget!NoDay <=> req[w].kind = "report" /\ pc[w] \in Funded

(***************************************************************************)
(* The handlers use the counter as its contract demands: one reserve() per *)
(* report, settled once, on every path through success, degraded scan and  *)
(* error.  Within one process, the service is a client of DailySpendBudget *)
(* and nothing else touches the counter.                                   *)
(***************************************************************************)
SettlesOnce == Budget!Spec

(***************************************************************************)
(* Neither cache ever holds a result that is flagged degraded, or one      *)
(* about another contract than its key names: a transient RPC failure that *)
(* was noticed must not pin a verdict on an address (_cacheable), and      *)
(* equal addresses on two chains must not answer for each other            *)
(* (_cache_key).  A failure that resolve() takes for "no code" is not      *)
(* flagged: Resolutions lets such a shell's verdict in, and so does this.  *)
(***************************************************************************)
Established(cache) ==
    \A c \in Contracts : CacheKey(c) \in DOMAIN cache =>
        LET value == cache[CacheKey(c)].value IN
        value.target = c /\ ~value.degraded

OnlyEstablishedCached == Established(scan_cache) /\ Established(report_cache)

(***************************************************************************)
(* A payment lets at most one report request through, however requests     *)
(* with the same id interleave, and over restarts of the process.          *)
(***************************************************************************)
PaymentOnce == \A id \in PaymentIds : authorized[id] <= 1

(***************************************************************************)
(* Together with the above, what makes the invariants inductive: a thread  *)
(* between two calls has what the next call needs, and a payment id is in  *)
(* the table exactly when it has let one request through.                  *)
(***************************************************************************)
RequestInv ==
    \A w \in Workers :
        /\ pc[w] = "idle" <=> req[w] = NoRequest
        /\ pc[w] \in {"find_payment", "consume"} => req[w].proof \in PaymentIds
        /\ pc[w] \in {"find_payment", "consume", "verify_pass", "reserve",
                      "triage", "put_report"} => req[w].kind = "report"
        /\ pc[w] \in {"analyze", "settle", "triage", "put_report", "put_scan"} =>
              scan[w] \in Scans /\ scan[w].target = req[w].contract
        /\ pc[w] \in {"triage", "put_report", "put_scan"} => ~scan[w].degraded

PaymentInv ==
    \A id \in PaymentIds : authorized[id] = IF id \in used THEN 1 ELSE 0

(***************************************************************************)
(* How old a cached verdict on replaced code can be when served: the proxy *)
(* TTL, plus the time its own request took from reading the chain to       *)
(* storing the result, and no more (app/main.py:119-121).                  *)
(***************************************************************************)
StaleAge(cache, key) ==
    LET value == cache[key].value IN
    now - replacedAt[value.target][value.version]

StaleByScanTime ==
    \A cache \in {scan_cache, report_cache} : \A key \in DOMAIN cache :
        LET value == cache[key].value IN
        Hit(cache, key) /\ value.version # Shell =>
            StaleAge(cache, key) <=
                PROXY_CACHE_TTL + (cache[key].storedAt - value.readAt)

(***************************************************************************)
(* The threads take from a scan what ScanOutcome promises of it, and do    *)
(* with it what it allows: nothing that is flagged degraded reaches a      *)
(* cache or the model, on any path and for either endpoint.                *)
(***************************************************************************)
Stage(w) ==
    CASE pc[w] \in {"resolve", "analyze"} -> pc[w]
      [] pc[w] = "settle" -> "done"
      [] pc[w] \in {"triage", "put_report", "put_scan"} -> "use"
      [] OTHER -> "away"

OutcomeSoFar(w) ==
    IF Stage(w) \in {"away", "resolve"} THEN "none"
    ELSE IF scan[w].degraded THEN "degraded"
    ELSE IF scan[w].isProxy THEN "proxy" ELSE "plain"

Outcome == INSTANCE ScanOutcome WITH
    Threads <- Workers, stage <- [w \in Workers |-> Stage(w)],
    outcome <- [w \in Workers |-> OutcomeSoFar(w)]

RespectsOutcome == Outcome!Spec

(***************************************************************************)
(* The spend over all lives of the process: each life pays for at most the *)
(* daily maximum and one call per other thread (SpendBudget) on any day.   *)
(***************************************************************************)
SpendCap ==
    \A d \in 1..LastDay :
        spent[d] + paid[d] <= (restarts + 1) * (DailyMax + Cardinality(Workers) - 1)

(***************************************************************************)
(* Every request is answered, with a result or with an error, unless its   *)
(* own analysis never ends: solc-select has no timeout and the semaphore   *)
(* no order (app/analyzer.py:47-54, 192).  What other requests do, or wait *)
(* for, and an exhausted budget keep nobody waiting.                       *)
(***************************************************************************)
AnalysisReturns(w) == []<>(pc[w] # "analyze")

RequestsAnswered ==
    \A w \in Workers : AnalysisReturns(w) => (pc[w] # "idle" ~> pc[w] = "idle")

(***************************************************************************)
(* What the contract says, and the code does not do: a purchase is made    *)
(* "to unlock one deep report" (samples/PaymentGate.sol); once its id is   *)
(* used up, the report was returned or is on its way.                      *)
(***************************************************************************)
PaidIsDelivered ==
    \A id \in used :
        id \in delivered \/ \E w \in Workers : req[w].proof = id
=============================================================================
