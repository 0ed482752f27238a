----------------------------- MODULE DailyQuota -----------------------------
(***************************************************************************)
(* What a daily spending ceiling promises, with none of its bookkeeping:   *)
(* calls are charged to the day on which they are claimed, a day never     *)
(* gains a charge once it has reached the quota in force, a charge may be  *)
(* given back to the day it was made on, and the calendar moves forward.   *)
(* SpendBudget is shown to implement this specification.                   *)
(***************************************************************************)
EXTENDS Naturals

CONSTANTS Days, Quotas

VARIABLES
    charged,  \* charged[d]: calls that stand against day d
    quota,    \* most calls a day may hold when a new one is claimed
    today     \* the current day

vars == <<charged, quota, today>>

Init ==
    /\ charged = [d \in Days |-> 0]
    /\ quota \in Quotas
    /\ today \in Days

Claim ==
    /\ charged[today] < quota
    /\ charged' = [charged EXCEPT ![today] = @ + 1]
    /\ UNCHANGED <<quota, today>>

GiveBack(d) ==
    /\ charged[d] > 0
    /\ charged' = [charged EXCEPT ![d] = @ - 1]
    /\ UNCHANGED <<quota, today>>

NextDay ==
    /\ today' \in Days
    /\ today' > today
    /\ UNCHANGED <<charged, quota>>

SetQuota ==
    /\ quota' \in Quotas
    /\ UNCHANGED <<charged, today>>

Next ==
    \/ Claim
    \/ \E d \in Days : GiveBack(d)
    \/ NextDay
    \/ SetQuota

Spec == Init /\ [][Next]_vars
=============================================================================
