---------------------------- MODULE ScanOutcome ----------------------------
(***************************************************************************)
(* What a scan comes to, for those who have to act on it, with none of its *)
(* data: a contract is found to be plain code or a proxy, or cannot be     *)
(* established; the analysis may still lose a proxy, whose implementation  *)
(* has no verified source, but never turns one kind into another; and a    *)
(* result is put to use, by a cache or by the model, only if it was        *)
(* established, by the code's own account: what it wrongly takes for       *)
(* established is not told apart here.  At any point a scan may end in an  *)
(* error.                                                                  *)
(*                                                                         *)
(* ScanCore is shown to keep this, one scan at a time, and ScanService     *)
(* with all its threads: the one says what the other takes for granted.    *)
(***************************************************************************)
CONSTANT Threads

VARIABLES
    stage,     \* where each thread's scan is
    outcome    \* what it is known to be about

vars == <<stage, outcome>>

Outcomes == {"plain", "proxy", "degraded"}

Init ==
    /\ stage \in [Threads -> {"away", "resolve"}]
    /\ outcome = [t \in Threads |-> "none"]

To(t, place, known) ==
    /\ stage' = [stage EXCEPT ![t] = place]
    /\ outcome' = [outcome EXCEPT ![t] = known]

Begin(t) == stage[t] = "away" /\ To(t, "resolve", "none")

\* What could not be established is not analyzed.
Resolve(t) ==
    /\ stage[t] = "resolve"
    /\ \E known \in Outcomes :
        To(t, IF known = "degraded" THEN "done" ELSE "analyze", known)

Analyze(t) ==
    /\ stage[t] = "analyze"
    /\ \/ To(t, "done", outcome[t])
       \/ outcome[t] = "proxy" /\ To(t, "done", "degraded")

\* Stored, or sent to the model.
Use(t) ==
    /\ stage[t] = "done" /\ outcome[t] # "degraded"
    /\ To(t, "use", outcome[t])

\* With an answer or an error.
Leave(t) == stage[t] # "away" /\ To(t, "away", "none")

\* All scans are lost at once.
Crash ==
    /\ stage' = [t \in Threads |-> "away"]
    /\ outcome' = [t \in Threads |-> "none"]

Next ==
    \/ \E t \in Threads : Begin(t) \/ Resolve(t) \/ Analyze(t) \/ Use(t) \/ Leave(t)
    \/ Crash

Spec == Init /\ [][Next]_vars
=============================================================================
