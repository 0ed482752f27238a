# A verification project for the TrustLens backend

TLA+ models of the TrustLens backend (`src/app`), model-checked with TLC, and
proofs of their main properties checked with TLAPS. Paths below are relative to
`src/`; the definitions and the lines they stand for are in `PROJECT.json`
(`map`), with the runs, the mutants, the theorems, the hazards and the findings.

## 1. Inventory

The service is one Python process (FastAPI on uvicorn). All its endpoints are
plain `def` functions, so each request runs in a thread of the server's pool and
interleaves with the others. Shared state is in memory, behind one lock per
object, except for the used payments, which are in sqlite, and `solc-select`'s
global version, which is a file that every request sees.

| Part | State | Operations | What makes it correct |
|---|---|---|---|
| `state.py` DailySpendBudget | `_day`, `_count`, `_daily_max` | `reserve`, `refund`, setter | a day's claims stay within a quota; failures do not burn allowance |
| `state.py` TtlCache (two) | `_store` | `get`, `put` | no result flagged degraded, each under its own key; bounded staleness |
| `state.py` RateLimiter (two) | `_hits`, `_max_hits` | `check`, `reset`, setter | the window holds; refusals are justified |
| `main.py` endpoints | none of their own | `scan_address`, `report_address` | every unit is settled once, every request is answered, every payment buys one request |
| `main.py` `_scan_address_core` | a scan's locals | one scan, from the proxy to the answer | a usual verdict is only about the contract that `resolve` named without a doubt; the rest say so |
| `payments.py` | `used_payments`, `_lock` | `find_payment`, `verify_and_consume`, `verify_pass` | no reuse, over interleavings, failures and restarts |
| `proxy.py`, `rpc.py` | the chain, read one RPC at a time | `resolve` | a proxy is never taken for a plain contract, a shell never for an implementation |
| `analyzer.py` gate | `_SLITHER_SEM`, solc-select | `analyze_path`, `_ensure_solc` | no permit lost; nobody changes the compiler under a run; a Slither that hangs holds nobody up for ever |
| `analyzer.py` score | none (pure) | `_normalize`, `_score` | bounds, monotonicity, ranking of severities |
| `fetcher.py` | a temporary source tree | `fetch_sources`, `_materialize`, `_write_file`, `_pick_primary` | files stay inside, the right one is compiled, the tree is removed |
| `ai.py` | none | one model call | the bill stays within the allowance |
| `models.py`, `errors.py` | none | data shapes | |

How they meet. A report passes the limiter, proves a payment or a pass (unless
`FREE_BETA`), looks into `report_cache`, claims a unit of the daily budget, runs
`_scan_address_core` (resolve, fetch, Slither), calls the model, and stores the
result in both caches. A free scan is the same without payment, budget and model.
The two share `scan_cache`, the chain, the thread pool and the Slither gate.

What is hard in it: check-then-act on the caches and the payment table across
threads; a refund on each of several error paths, possibly after the UTC day has
changed; results that age while they are being computed; reads of a chain that
changes and fails between two reads; a clock read before a lock; a global
compiler version under a semaphore; a verdict that is set at three places; files
of the explorer that collide on disk; and what a restart forgets. `PROJECT.json`
lists each of these at its line (`hazards`), those that no property covers included.

## 2. Modules

| Module | Models | Theorems in |
|---|---|---|
| `DailyQuota` | what a daily quota promises, no bookkeeping (abstract) | |
| `SpendBudget` | DailySpendBudget and the protocol of its one client; implements `DailyQuota` | `SpendBudgetProofs` |
| `ScanService` | both address endpoints over caches, budget and payments; `Budget == INSTANCE SpendBudget WITH ...`, which it implements | `ScanServiceProofs` |
| `ModelBill` | what the provider charges for `ScanService`'s model calls; EXTENDS it | |
| `ScanOutcome` | what a scan comes to and what may be done with it (abstract); `ScanCore` and `ScanService` both implement it | |
| `ScanCore` | one `_scan_address_core` in detail, with the source tree | `ScanCoreProofs` |
| `ProxyShapes` | the records that `resolve` returns and `_scan_address_core` acts on | |
| `RiskScore`, `SourceTree` | the functions `ScanCore` is built from | `RiskScoreProofs` |
| `SlitherGate` | the semaphore, solc-select and the thread pool | `SlitherGateProofs` |
| `Payments` | `payments.py`, with the transaction's inside | `PaymentsProofs` |
| `ProxyResolution` | `resolve` and the chain under it | `ProxyResolutionProofs` |
| `RateLimiter` | RateLimiter | `RateLimiterProofs` |
| `MC...` | instances for TLC, one `.cfg` per run | |

The modules are two views of one program. `ScanService` takes a resolution, an
analysis and a payment's transaction as one step each, so that the races between
requests stay checkable; `ProxyResolution`, `ScanCore`, `SlitherGate` and
`Payments` open those steps. Where two views meet, they share a module, and each
side is shown to keep to it:

- `ProxyShapes`, between `ProxyResolution` and `ScanCore`: the first returns nothing
  but these records (`ReturnsAsPromised`), the second starts from any of them.
- `ScanOutcome`, between `ScanCore` and `ScanService`: a scan finds a plain contract, a
  proxy, or something it cannot establish; afterwards only a proxy can still be lost;
  nothing flagged degraded is used. `ScanCore` keeps to this with one thread
  (`ImplementsOutcome`) and `ScanService` with all of its own (`RespectsOutcome`). In
  both, the stage is read off `pc` and the outcome off the result's proxy record, by
  which the code itself chooses the lifetime and refuses to cache
  (`_proxy_aware_ttl`, `_degraded_scan`).
- `SpendBudget`, inside `ScanService`, as above.

`ScanService!Resolutions`, which has the code's version besides, is a reading of what
`ProxyResolution` can reach.

An operator whose comment starts with "Faulty variant" is a plausible bug in the
definition that follows it. No specification uses it; it is there so that each
property can be shown to fail when that bug is put into the code's model.
Variables under a heading "not in the code" are history variables: no guard and
no program variable depends on them, but for the counters of faults
(`restarts`, `redeploys`), which bound the faults.

### SpendBudget

One action per method: each holds the lock from its first read to its last write
and reads the date inside. `day` is `_day` (0 for `""`), `count` is `_count`,
`today` the date that `_today()` returns. The history variables record the truth
the counter stands for: `holds[c]`, the day on which thread `c` claimed the unit
it still holds, and `paid[d]`, the calls made on day `d`'s allowance.

The counter is not exact, and the properties say by how much. A refund after
midnight is dropped while the counter still stands on the old day, but once some
`reserve` has rolled it over, the same refund takes one off the *new* day's count.
So the day can hold more than `daily_max` (`DailyCeiling`, violated; the docstring
of `refund` says otherwise). What holds is `LagBounded`: the surplus is at most
one unit per thread other than the one that rolled the counter over, and hence
`ImplementsQuota`: the object is a daily quota of `daily_max + threads - 1`.

### ScanService

A thread moves from one call that takes a lock, reads the chain, or runs Slither
or the model, to the next; `pc` names the call it is about to make.

| Action | Code |
|---|---|
| `Arrive` | request parsed, choice of proof (`main.py` 285-298) |
| `FindPayment`, `Consume`, `VerifyPass` | `payments.py`; `Consume` is the insert and commit |
| `GetScan`, `GetReport` | `TtlCache.get` with its removal of an expired entry |
| `Reserve` | `_ai_budget_reserve`, granted or 503 |
| `Resolve`, `Analyze`, `CoreFails` | `_scan_address_core`: its outcomes, degraded results and errors |
| `SettleScan`, `SettleReport` | the degraded branch and its refund |
| `Triage`, `TriageFails` | the model call, kept or refunded |
| `PutReport`, `PutScan` | the two `put`s, in their order |
| `Tick`, `Upgrade`, `Restart` | time, the proxy's admin, the process |

A result is reduced to what the properties tell apart: its contract, the version
of the code it describes (`Shell` for a proxy's own stub), whether it says "proxy"
and whether it is degraded. `Resolve` takes its outcomes from `Resolutions`, which
includes the two wrong ones that `ProxyResolution` exhibits (`Fragile` contracts).
`Unread` stands for every way to a degraded scan before the fetch. `Restart`
forgets all memory and keeps `used`; `paid` counts the calls of this life of the
process and `spent` those of its lives before. The rate limiter runs before the
handler and shares nothing with it, so it has its own module.

`ModelBill` adds the provider's side to it. `ai.triage` either returns a report
(`Report`), or raises before anything was generated (`NotCalled`), or raises on an
answer that was generated and billed and does not parse (`Unparsed`). The endpoint
cannot tell the last two apart and refunds both.

### ScanCore, SourceTree, RiskScore

`pc` walks through `_scan_address_core`: `resolve`, `fetch`, `write` (one
`WriteFile` per entry of the explorer's source map, then `PickPrimary`), `analyze`,
`result`, `answered`. `tree` is the temporary directory: whether it exists, and the
text in each file. `FetchFails` is an error before `mkdtemp`, `FetchRaises` one
after it, when nobody knows the directory's name any more; `AnalysisFails` and
`Complete` are the two ends of the `try`, both with the `rmtree` of its `finally`.
The three places that decide the verdict are `AnswerDegraded` (used by `Resolve`
and `NotVerified`), `Analyze` and `Complete`. `VerdictAsResolved` relates them to the
record that `resolve` returned, with which every scan starts. It does not say that
the record is right: one that names a proxy's shell as the implementation, or a
beacon proxy as plain, gets a usual verdict here as in the code, and
`ShellNeverScanned` in `ProxyResolution` is where that is stated, and violated. A result that has a proxy holds the
*same* `ProxyInfo` object as the scan, so `Complete` sets `implementation_scanned`
in both.

`SourceTree` has paths as sequences of components: `Normpath`, the containment
test (`Inside`, `Destination`) and the preference of `_pick_primary` (`Primary`: a
file named after the contract, rather not one under `lib`; else one that defines it;
else any; each time the first that was written). A text is a number, and
whether it defines the contract. `RiskScore` has
`_normalize` and `_score` on findings that are a position in Slither's report and an
impact; an unknown impact (`"Critical"` in the run) ranks last and weighs nothing,
as in the code. `Sorted` is Python's stable sort said by its result: a finding's place
is one more than the number of those that go before it.

### SlitherGate

A request waits for a pool thread first come first served (`queue`), keeps it while
it waits for the semaphore (`value` is the number of free permits), and inside it
goes through `Install`, `Use` and `slither`. `installed` and `selected` are
solc-select's state. Either command may fail, `use` also when the version is
installed, and `check=False` ignores it: the old selection stays and Slither runs
with it. So `selected` need not be the version asked for, and no property says so;
`CompilerUndisturbed` says that nobody else changes it meanwhile. `Leave` is Slither's end or a command that cannot be started, `Timeout` the
one thing that ends a Slither that does not. `GET /health` is a request too: it
needs a thread and nothing else.

### Payments

`FindPayment` compares the id in the request with the one in the event as texts, so
a request names a purchase *and* a spelling. The transaction is `Lock`, `Insert` or
`AlreadyUsed`, and `Commit`; `DatabaseFails` may strike in it, with the rollback
that `close()` brings. `row` is what is not committed yet. `Accept` is
`verify_and_consume`'s return. `Freshness` reads the clock once and compares the age of the
message with both bounds, `ActivePass` is the chain read after it. `Restart` keeps
the table, `Redeploy` loses it with the container's disk.

### ProxyResolution

`pc` is the next RPC, `level` the call of `_single_hop` (1: the address, 2: its
implementation, 3: the next). Storage reads fail by raising, which degrades the
result; code queries and beacon calls fail by answering "no" (`Answers`). The
chain is any assignment of kinds and pointers to the accounts, and `Upgrade`
replaces a pointer between two reads. `IsProxy`, `DelegatesTo` and
`LogicWithinTwoHops` define independently which code really runs. `SaysPlain` and
`SaysClean` are the conclusions that `_scan_address_core` draws. `Position` numbers the
calls in the order in which the longest walk makes them. Not modelled: an
address with more than one filled slot, an unparsable address, and the text of notes.

### RateLimiter

`check` is two steps, as in the code: `Enter` reads the clock, `Allow` or `Refuse`
runs under the lock. A list of stamps is a set of hits with ids. `log` records the
hits that were let through and the time they really were.

## 3. Runs

`service` and `service_lives` take two minutes or so each, the others seconds.

| Run | Instance | Shows |
|---|---|---|
| `budget` | 3 threads, ceilings {0,1,2}, 3 days; 2 004 states | types, `NoPhantomCharge`, `LagBounded`, refinement of `DailyQuota` |
| `service` | 2 threads, 1 proxy, budget 1, clock 0..3, days of 2 ticks, 1 upgrade; 2.5 M states | types, `HoldsWhileFunded`, `StaleByScanTime`, refinement of `SpendBudget` |
| `service_lives` | 2 threads, one address on 2 chains, a proxy on one of them, 1 payment, budget 1, TTLs 0, 1 restart, code queries that fail unnoticed, `FairSpec`; 308 k states | `OnlyEstablishedCached`, `PaymentOnce`, `SpendCap`, `RequestsAnswered`, refinement of `ScanOutcome` |
| `core` | source maps of up to 2 entries over hostile and colliding paths, reports of up to 3 findings of 3 impacts; 33 k states | types, `Contained`, `TreeWhileNeeded`, `PrimaryChosen`, `SourceIsCompiled`, `FindingsConsistent`, `VerdictAsResolved`, `StandingNeutral`, refinement of `ScanOutcome` |
| `gate` | 3 scans, 1 health check, 2 pool threads, 2 versions, 1 permit, failing and hanging calls of solc-select, `FairSpec`; 15 k states | types, `SemaphoreCounts`, `CompilerUndisturbed`, `ProbesAnswered` |
| `payments` | 2 threads, 2 purchases on two chains with one id, 1 post-dated message, clock 0..3, 1 restart, 1 redeployment, `FairSpec`; 79 k states | types, `PurchaseOnce`, `NothingLost`, `ReplayWindow`, `PaymentsAnswered` |
| `proxy` | 3 accounts, all chains, failures, 1 upgrade, `FairSpec`; 221 k states | types, `NeverMisled`, `ExactWhenQuiet`, `ReturnsAsPromised`, `WalkAdvances`, `WalkEnds` |
| `limiter` | 2 threads, 2 clients, limits {1,2}, window 2, clock 0..4, 4 calls; 307 k states | types, `WindowHolds`, `RefusalsJustified` |

Bounds, and why they are enough. Two or three threads give every pairwise race; no
step involves more than two threads, and in `LagBounded` the third makes the bound
differ from "at most one".

- `service`: the clock is long enough for an entry to be stored, to outlive the
  proxy TTL (1), to be compared with the default TTL (2), and for the day to change
  while a unit is held. Two code versions are one upgrade, which is all that a stale
  verdict needs.
- `service_lives`: time stands still (`MaxNow = 0`), as the subject is lives of the
  process and not days; the other run has the days. The address is a proxy on one
  chain and a plain contract on the other, so results of every kind compete for the
  two keys, those on a shell that nothing flags (`Fragile`) included: the caches keep
  them, and `OnlyEstablishedCached` and `RespectsOutcome` speak of flagged results only.
- `core`: two entries suffice for one to overwrite the other and for a candidate to be
  preferred to another; three findings for a standing finding in front of two ranks
  and a tie. The paths climb out of the root, come back into it, name the root
  itself, a sibling whose name begins with the root's, and a dependency under `lib`,
  collide, and use a file as a directory.
- `gate`: two threads and three scans fill the pool and leave one in the queue.
- `payments`: the clock spans twice the age limit and one tick more.
- `proxy`: three accounts hold the longest walk that `resolve` makes (the address, its
  implementation, and that one's pointer), every cycle and every self-reference; the
  third proxy, where `resolve` gives up, is among them.
- `limiter`: a stamp can be older than the whole window when it is recorded.

`MaxNow`, `MaxDay`, `MaxCode`, `MaxRestarts`, `MaxRedeploys`, `MaxUpgrades`,
`MaxCalls`, `MaxFiles` and `MaxFindings` are bounds of the model alone. Symmetry is
used only in runs without liveness, over threads, clients or accounts that no other
constant names. `CHECK_DEADLOCK FALSE` is only in the proxy runs and in `core`: each
is one call, which returns, and nothing is left to do.

### Runs that end in a violation

Each checks what a comment, docstring or document says and shows that the code
does something else (`findings` quotes both sides).

| Run | The source says | What happens |
|---|---|---|
| `budget_ceiling` | a late refund cannot credit the new day | it does, after a rollover |
| `service_delivery` | a purchase unlocks one report | it is used up even if the request fails |
| `service_bill` | once the allowance is gone, the bill does not grow | an answer that is billed and does not parse gives its unit back |
| `proxy_shell` | a failed read gives COULD NOT ANALYZE, never a verdict on code not read | a failed code query makes an inner proxy pass for the implementation (the trace), or a beacon proxy for a plain contract |

`LagBounded`, `SpendCap` (on calls that went through), `NeverMisled` and
`ReturnsAsPromised` are what does hold in the same places. The last says of an
implementation named without a doubt that it has code, and no more.

### What the models show beside that

Bounds stated as weak as the code makes them, and limits met on the way:

- A stale verdict lives for the proxy TTL *and* the duration of its own scan
  (`StaleByScanTime`), since a result gets a fresh lifetime when it is stored; the
  comment at `app/main.py:119-121` counts the TTL alone.
- Concurrent first requests for one contract all miss the cache (`GetScan` before
  any `PutScan`), so a spike costs one scan each; `app/main.py:114-116` says that it
  hits the cache.
- `SpendCap` allows one day's allowance for each life of the process: a restart
  forgets what was spent.
- `WindowHolds` counts hits by their stamps, since the clock is read before the lock
  and a delayed thread records an earlier time than the one it is let through. The
  limiter drops a client's old hits and never the client, against `app/state.py:34-36`;
  an expired cache entry goes only when its own key is asked for (`app/state.py:345`).
- `TreeWhileNeeded` starts when `fetch_sources` has returned. A failure between
  `mkdtemp` and that (`FetchRaises`) leaves the directory for good
  (`app/fetcher.py:172-175`; the `finally` at `app/main.py:513` never sees it).
- `FindingsConsistent` leaves the standing finding out of the order: it is Low and is
  put first, though `app/analyzer.py:119` sorts the most severe first. The summary
  counts it and the score does not (`StandingNeutral`).
- The ranking of severities that `_score`'s docstring (`app/analyzer.py:61-62`) claims
  ends at the tenth Low, which reaches one High's score (`NineLowsBelowOneHigh`).
- A beacon proxy whose implementation is a proxy pointing back at it can be returned as
  cleanly resolved *to the address itself*, if the beacon's code query fails in the last
  `_single_hop`: a self-reference is looked for after the first hop only
  (`app/proxy.py:158`). `ResolvedInfo` admits that record, and `ScanCore` starts from it
  as from any other.
- A pass message dated ahead can be shown for twice `_PASS_MAX_AGE` (`ReplayWindow`).
  Two chains count their purchases separately and share the table's key, so a
  purchase on one can use up the id of one on the other: `PurchaseOnce` promises at
  most one report, and `NothingLost` only that *some* purchase of that id was served.
  A redeployment empties the table, and `PurchaseOnce` counts it.
- The timeout kills Slither and not the compiler that Slither started
  (`app/analyzer.py:22-24`). The gate's model has no compiler processes;
  `CompilerUndisturbed` is about the version selected while a run lasts.
- A scan whose `solc-select install` or `use` failed runs with whatever was selected
  before, by another request or by the image: `check=False` (`app/analyzer.py:47-54`)
  ignores it, although the docstring says "Install + select the requested solc".
- A `solc-select` that never returns keeps its permit and its thread, and with one
  permit every later analysis waits for it. Once such scans hold all threads of the
  pool, `/health` is not answered any more. `ProbesAnswered` and `RequestsAnswered`
  name this exception.
- `_pick_primary` prefers a file with the contract's name to one that defines the
  contract, and does not look into it, although its docstring (`app/fetcher.py:217`)
  says "the file that defines the target contract". `PrimaryChosen` states the order
  of preference that the code has.
- Two entries of a source map that land on one path leave the text of the later one,
  without an error; `PrimaryChosen` is about what is on disk then.
- `NeverMisled` lets a walk combine pointers that were never there together: `resolve`
  reads one slot at a time. It excludes contracts to which no pointer led.

### Fairness

`ScanService!FairSpec` has weak fairness of each busy thread's next step, but for
the analysis: the pool does not abandon a thread; RPCs (20 s, `rpc.py`), the explorer
(30 s, `fetcher.py`) and the Anthropic client have timeouts; and the locks of the
caches, the budget and the payments are held for a few lines. The analysis has no such
bound. It waits for the semaphore and for `solc-select`, so nothing makes a thread
return from `analyze`, and `RequestsAnswered` promises an answer to a request whose own
analysis returns (`AnalysisReturns`): that other requests hang in theirs, or that the
budget is exhausted, is no excuse.

`SlitherGate!FairSpec` is weak fairness of `Start` and `Answer` (threads run), of
`Acquire` (a thread that waits is woken when a permit is free and stays free) and of
`Timeout` (150 s). There is none of `Leave`, as nothing makes Slither end by itself, and
none of `Install` and `Use`: `solc-select` in `_ensure_solc` (`analyzer.py` 45-54) has no
timeout. `ProbesAnswered` is therefore an implication, with its assumption
(`SolcSelectReturns`, no scan stays in `solc-select` for ever) on the left. Weak fairness
of `Acquire` does not say that a given scan ever gets its permit, and no property says
so: `threading.Semaphore` is not first come first served.

`Payments!FairSpec` is weak fairness of each thread's next step and strong fairness
of `Lock`: `threading.Lock` promises no order, but the sections under it are one
insert long, and a thread that waits for it is passed over only while others
keep arriving. `ProxyResolution!FairSpec` is weak fairness of the walk, for the RPC
timeout. No fairness is assumed of arrivals, time, upgrades, failures or restarts.

## 4. Proofs

All theorems are checked by TLAPS without assumptions other than the named
`ASSUME`s on the constants, for every number of threads, clients, contracts, files
and payments and every value of the bounds.

**SpendBudgetProofs.** `IInv` is `TypeOK`, `CalendarInv`, `NoPhantomCharge` and
`LagBounded`. `LagBounded` is the strengthening: `GrantWithinQuota` alone is not
inductive, since it says nothing about refunds still to come. `LagBounded` counts
them (`Carried`), so that a late refund lowers the counter and the carried units
together. The rollover case rests on one lemma, `OneThreadLeftOut`: the thread that
reserves carries nothing. From `IInv` follow the action property
`GrantWithinQuota` and the refinement `RefinesQuota`, step by step: a grant is
`Claim`, a refund is `GiveBack` to the day of the claim, a kept unit is a stutter.
`WithinQuota` is the same bound as a state predicate, for a ceiling that stays as
it is; `NextWithinQuota` is what `ScanService` needs of it.

**ScanServiceProofs.** `ControlInv` is `TypeOK`, `HoldsWhileFunded` and
`RequestInv`, what a thread between two calls has in hand. It is needed for types
(a scan stored in a cache is one of the request's contract) and for everything
after it:

- `PaymentInv` (an id is in the table exactly if it let one request through) for
  `PaymentOnceHolds`;
- the freshness of what is put into a cache for `OnlyEstablishedCachedHolds`;
- `TimelyInv` for `StaleByScanTimeHolds`: a scan in a thread or in a cache was read
  when the version it names was current, so that version was replaced no earlier
  than `readAt`; and only proxies, whose entries have the short TTL, are replaced;
- the refinement `SettlesOnceHolds` of `SpendBudget`, within one life of the
  process (`MaxRestarts = 0`), as a restart resets the counter and not the truth;
- `SpendInv` for `SpendCapHolds`, over all lives. `Ledger`, an instance of
  `SpendBudgetProofs` whose constants are the service's, gives each life's `IInv` and
  `WithinQuota`; a step of the service is a step or a stutter of the budget
  (`NextSpend`); a restart starts it afresh (`RestartIsFresh`) and moves what this
  life paid, at most its quota (`PaidWithinLife`), into `spent`.

The refinement `RefinesOutcome` of `ScanOutcome` needs of `ControlInv` only that a thread
past its analysis has a scan. Its lemmas say what one thread's step does to its own
stage and outcome and that it leaves the others'; a restart is `Crash`.

**PaymentsProofs.** `PaymentInv` is `TypeOK`, `TransactionInv`, `SpentInv` and
`NothingLost`. `PurchaseOnce` is not inductive: a thread with a committed row has
yet to be let through. `SpentInv` says that an id in the table is spent or in the hands
of exactly one thread, and `TransactionInv` that what is in the uncommitted row is
not in the table. `ReplayInv` bounds the times a message was shown by the clock
reading that `Freshness` made.

**SlitherGateProofs.** `GateInv` is `TypeOK`, `SemaphoreCounts`, `Queued` (a request
waits in one place of the queue) and `OneInside`. `SemaphoreCounts` gives `OneInside`,
and with it `CompilerUndisturbedHolds`: only `Use` selects (`OnlyUseSelects`), who calls
it is inside, and nobody else is. No call of `solc-select` is assumed to succeed.

**ScanCoreProofs.** `ScanInv` is the inductive invariant of a whole scan, in four parts:

- `CoreInv`: `Contained`, `VerdictAsResolved` and `SourceIsCompiled` with `WayInv`, what is
  known at each `pc` of `info`, `fetched` and the result;
- `TreeInv`: until the answer, the files on disk are those in the list written; the
  directory is there from `mkdtemp` on; from `PickPrimary` to the end of the analysis
  the primary file is the one preferred (`Chosen`). It gives `TreeWhileNeededHolds` and, with `PrimaryPicks` (what the
  chain of preferences returns, for any list of files), `PrimaryChosenHolds`;
- `ScalarsOK`: the types of what has no invariant of its own;
- `ResultInv`: what `Analyze` leaves is `Analyzed`: it counts what it lists, in the order
  of the sort, and is scored by what it lists from its first or second finding on (the
  second if the standing finding is in front). `PlainAnalyzed` and `StandingAnalyzed`
  establish that for any report; `FindingsConsistentHolds`, `StandingNeutralHolds` and
  `TypeCorrect` follow.

`TreeInv` and `ResultInv` were checked by TLC before they were proved. `RefinesOutcome`
maps every step of the scan to a step or a stutter of `ScanOutcome`; all but the last
step follow from `pc` and `info`, `Complete` needs that the result had no proxy record
before.

**RiskScoreProofs.** Of the score: `ScoreInRange`, `MoreFindingsNeverReassure` (a finding
more never lowers it), `HighIsDangerous`, `CleanMeansNothingFound`,
`NineLowsBelowOneHigh`. Of the list: `SortedIsStable` (the sort returns a permutation
ordered by severity and, within one, by position, for any list) and `NormalizeAgrees`
(the result of `_normalize` accounts for every finding of the report). They are about
counts and places, so no induction over the list is needed.

**ProxyResolutionProofs.** `StageInv` says at each RPC what `level`, `current` and
the answer so far can be. `ReachInv` relates the walk to the pointers seen so far, those
that an upgrade has replaced included, and gives `NeverMisledHolds`; `QuietInv` does so for a chain that
neither changes nor fails, and gives `ExactWhenQuietHolds`. `ShapeInv` says what the
record looks like at each call, and gives `ReturnsAsPromisedHolds`; that a resolved
implementation has code is the last query's doing, and nothing more follows. `WalkAdvancesHolds`
is the part of termination that is a matter of safety: each call has a higher
`Position` than the one before, and there are finitely many.

**RateLimiterProofs.** `WindowHolds` is inductive with `LogInv`: a hit that was let
through and is no longer on record has left the window. A thread that decides
with an old stamp has an earlier cutoff, hence counts every recorded hit of the
window that ends now. `IdInv` ties a refusal to a step that logged nothing.

`GrantWithinQuota`, the quota as an action property, has a theorem and no run of its
own: it is what the refinement of `DailyQuota` says of a claim.

Every invariant and every action property that a passing run checks is also the
statement of a theorem, and so is every refinement. Only model-checked are the
liveness properties, which are out of the prover's reach (`RequestsAnswered`,
`WalkEnds`, `ProbesAnswered`, `PaymentsAnswered`); of the properties that are violated,
TLC has the counterexamples. `SettlesOnceHolds` is for one life of the process.

## 5. Not modelled

- Local endpoints (`scan_local`, `report_local`): no cache, budget or payment. A
  local scan is one of `SlitherGate`'s `Scans`.
- Prompt, truncation of the source and wording of reports (`ai.py`), remappings and
  compiler version (`fetcher.py`), the exception classes, CORS, the text of `/`:
  no state and no control that a property depends on.
- `TtlCache.invalidate`, `clear`, its counters and its setter have no caller.
- Clocks that step backwards, and several instances of the service (the source
  says the state is per process).
- The `PaymentGate` contract, seen only through its events, the sample contracts,
  deployment files and `tools/`.

## 6. Plan

All the parts of the plan are done: the budget and the endpoints, the payments with
their faults, proxy resolution, the limiter, the gate, one scan in detail with its
score and its tree, the bill, and the proofs above. What would extend it further:

1. The composition of `ScanService` with `SlitherGate`'s pool: a scan that waits for
   the gate ages, which `StaleByScanTime` covers by its second summand, and
   `AnalysisReturns` would follow from `SolcSelectReturns` and an order among waiters.
2. A clock that steps back by one day, to say what the budget then allows.
3. The safety part of the remaining liveness properties, as `WalkAdvances` is for
   `WalkEnds`: that no thread moves back in its request, and that whoever holds the
   gate or the payments' lock can make its next step.
