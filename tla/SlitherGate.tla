----------------------------- MODULE SlitherGate -----------------------------
(***************************************************************************)
(* The gate in front of Slither: analyze_path and _ensure_solc             *)
(* (app/analyzer.py), as the requests meet in it.                          *)
(*                                                                         *)
(* Every endpoint is a plain function, GET /health included, so a request  *)
(* first waits for a thread of the server's pool, first come first served, *)
(* and keeps that thread while it waits for the semaphore.  Inside the     *)
(* semaphore it sets solc-select's global version and starts Slither,      *)
(* whose compiler is whatever that version is when it looks.               *)
(***************************************************************************)
EXTENDS Integers, FiniteSets, Sequences

CONSTANTS
    Scans,         \* requests that run Slither
    Probes,        \* requests that do not: GET /, GET /health
    Versions,      \* of solc
    Preinstalled,  \* the one the image comes with, already selected
    Threads,       \* size of the pool
    SLITHER_MAX

ASSUME ScansAssumption == IsFiniteSet(Scans) /\ Scans \cap Probes = {}
ASSUME VersionsAssumption == Preinstalled \in Versions
ASSUME ConfigAssumption == Threads \in Nat \ {0} /\ SLITHER_MAX \in Nat \ {0}

VARIABLES
    queue,       \* requests that wait for a pool thread
    pc,          \* where each request is
    version,     \* version[r]: the solc_version that r wants
    value,       \* _SLITHER_SEM
    installed, selected     \* solc-select's state, on disk

vars == <<queue, pc, version, value, installed, selected>>

Requests == Scans \cup Probes

InGate == {r \in Scans : pc[r] \in {"install", "use", "slither"}}
OnThread == {r \in Requests : pc[r] \notin {"away", "queued"}}

Init ==
    /\ queue = << >>
    /\ pc = [r \in Requests |-> "away"]
    /\ version \in [Scans -> Versions]
    /\ value = SLITHER_MAX
    /\ installed = {Preinstalled} /\ selected = Preinstalled

GoTo(r, step) == pc' = [pc EXCEPT ![r] = step]

Arrive(r) ==
    /\ pc[r] = "away"
    /\ GoTo(r, "queued")
    /\ queue' = Append(queue, r)
    /\ \E v \in Versions :
        version' = [s \in Scans |-> IF s = r THEN v ELSE version[s]]
    /\ UNCHANGED <<value, installed, selected>>

Start ==
    /\ queue # << >>
    /\ Cardinality(OnThread) < Threads
    /\ GoTo(Head(queue), "started")
    /\ queue' = Tail(queue)
    /\ UNCHANGED <<version, value, installed, selected>>

\* The request answers and gives its thread back.
Answer(r) ==
    /\ pc[r] = IF r \in Probes THEN "started" ELSE "report"
    /\ GoTo(r, "away")
    /\ UNCHANGED <<queue, version, value, installed, selected>>

\* Faulty variant: the semaphore is made per call, so it never blocks.
AcquirePerCall(r) ==
    /\ pc[r] = "started"
    /\ GoTo(r, "install")
    /\ UNCHANGED <<queue, version, value, installed, selected>>

\* with _SLITHER_SEM; a thread that comes late may be the one that gets in.
Acquire(r) ==
    /\ pc[r] = "started"
    /\ value > 0
    /\ value' = value - 1
    /\ GoTo(r, "install")
    /\ UNCHANGED <<queue, version, installed, selected>>

\* The end of the with statement, reached normally or by an exception.
Release(r) == value' = value + 1 /\ GoTo(r, "report")

\* solc-select install; its exit code is ignored.
Install(r) ==
    /\ pc[r] = "install"
    /\ installed' \in {installed, installed \cup {version[r]}}
    /\ GoTo(r, "use")
    /\ UNCHANGED <<queue, version, value, selected>>

\* solc-select use, which refuses a version that is not installed and may fail
\* in other ways; its exit code is ignored as well, and the old choice stays.
Use(r) ==
    /\ pc[r] = "use"
    /\ \/ version[r] \in installed /\ selected' = version[r]
       \/ UNCHANGED selected
    /\ GoTo(r, "slither")
    /\ UNCHANGED <<queue, version, value, installed>>

\* Slither ends, or one of the three commands could not be started (OSError).
Leave(r) ==
    /\ r \in InGate
    /\ Release(r)
    /\ UNCHANGED <<queue, version, installed, selected>>

\* Faulty variant: subprocess.run has no timeout.
NoTimeout(r) == FALSE

\* Faulty variant: the handler of the timeout releases before the with does.
TimeoutReleasesTwice(r) ==
    /\ pc[r] = "slither"
    /\ value' = value + 2 /\ GoTo(r, "report")
    /\ UNCHANGED <<queue, version, installed, selected>>

\* Faulty variant: the semaphore is released on the normal path only.
TimeoutKeepsGate(r) ==
    /\ pc[r] = "slither"
    /\ GoTo(r, "report")
    /\ UNCHANGED <<queue, version, value, installed, selected>>

\* subprocess.run kills Slither.
Timeout(r) ==
    /\ pc[r] = "slither"
    /\ Release(r)
    /\ UNCHANGED <<queue, version, installed, selected>>

Next ==
    \/ \E r \in Requests : Arrive(r) \/ Answer(r)
    \/ \E r \in Scans :
        Acquire(r) \/ Install(r) \/ Use(r) \/ Leave(r) \/ Timeout(r)
    \/ Start

Spec == Init /\ [][Next]_vars

(***************************************************************************)
(* Threads keep running, a thread that waits at a free semaphore gets in,  *)
(* and the timeout strikes.  Nothing makes Slither end by itself, or a     *)
(* call of solc-select return: neither has fairness.                       *)
(***************************************************************************)
FairSpec ==
    /\ Spec
    /\ WF_vars(Start)
    /\ \A r \in Requests : WF_vars(Answer(r))
    /\ \A r \in Scans : WF_vars(Acquire(r)) /\ WF_vars(Timeout(r))

----------------------------------------------------------------------------
TypeOK ==
    /\ queue \in Seq(Requests)
    /\ pc \in [Requests -> {"away", "queued", "started", "install", "use", "slither", "report"}]
    /\ version \in [Scans -> Versions]
    /\ value \in 0..SLITHER_MAX
    /\ installed \subseteq Versions /\ selected \in installed

\* No permit is lost or invented on any way out of the with statement.
SemaphoreCounts == value + Cardinality(InGate) = SLITHER_MAX

(***************************************************************************)
(* With one permit, the default, nobody else touches the compiler from the *)
(* time a scan enters the semaphore until its Slither has ended, whatever  *)
(* versions others ask for meanwhile (app/analyzer.py:20-22): solc-select  *)
(* changes then only by the scan's own call, to the version it asked for.  *)
(* If that call fails, Slither runs with what was selected before.         *)
(***************************************************************************)
CompilerUndisturbed ==
    [][SLITHER_MAX = 1 =>
        \A r \in InGate :
            selected' # selected => pc[r] = "use" /\ selected' = version[r]]_vars

(***************************************************************************)
(* A health check is answered although the scans ahead of it may hold      *)
(* every thread of the pool, all but one of them waiting for a Slither     *)
(* that never ends: this is what the timeout is for.  It is for Slither    *)
(* alone.  _ensure_solc runs inside the semaphore without one              *)
(* (app/analyzer.py:47-54), so the promise is worth something only in      *)
(* behaviours where no scan stays in solc-select for ever.                 *)
(***************************************************************************)
SolcSelectReturns == \A s \in Scans : []<>(pc[s] \notin {"install", "use"})

ProbesAnswered ==
    SolcSelectReturns => \A r \in Probes : pc[r] = "queued" ~> pc[r] = "away"

\* What makes the invariants inductive: a request waits for a thread once and
\* in one place, and with one permit only one scan is inside.
Queued ==
    \A i, j \in 1..Len(queue) :
        pc[queue[i]] = "queued" /\ (queue[i] = queue[j] => i = j)

OneInside ==
    SLITHER_MAX = 1 => \A r, s \in InGate : r = s
=============================================================================
