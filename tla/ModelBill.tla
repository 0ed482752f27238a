------------------------------ MODULE ModelBill ------------------------------
(***************************************************************************)
(* What the model's provider charges for the calls ScanService makes.      *)
(* ai.triage (app/ai.py) sends one message and expects an answer that      *)
(* parses as an AIReport.  An answer that does not is an exception like    *)
(* any other to report_address, which gives the unit back: but the answer  *)
(* was generated, and is billed.                                           *)
(***************************************************************************)
EXTENDS ScanService

VARIABLE billed   \* billed[d]: model calls charged on day d, by the provider

billVars == <<vars, billed>>

BillInit == Init /\ billed = [d \in 1..LastDay |-> 0]

Bill == billed' = [billed EXCEPT ![Today] = @ + 1]

\* A parsed report comes back; the disclaimer is attached.
Report(w) == Triage(w) /\ Bill

\* The client raises on an answer that does not parse, or parsed_output is None
\* and has no disclaimer to set.
Unparsed(w) == TriageFails(w) /\ Bill

\* No connection, no key, an error status: nothing was generated.
NotCalled(w) == TriageFails(w) /\ UNCHANGED billed

BillNext ==
    \/ \E w \in Workers : Report(w) \/ Unparsed(w) \/ NotCalled(w)
    \/ (\E w \in Workers : Arrive(w) \/ Work(w)) /\ UNCHANGED billed
    \/ Surroundings /\ UNCHANGED billed

BillSpec == BillInit /\ [][BillNext]_billVars

----------------------------------------------------------------------------
(***************************************************************************)
(* What the source says, and the code does not do: "when the day's         *)
(* allowance is gone the caller is refused rather than the bill being      *)
(* allowed to grow" (DailySpendBudget, app/state.py:388-391).  Calls that  *)
(* run over midnight are allowed for, as in SpendCap.                      *)
(***************************************************************************)
BillCap == \A d \in 1..LastDay : billed[d] <= DailyMax + Cardinality(Workers) - 1
=============================================================================
