------------------------------ MODULE RiskScore ------------------------------
(***************************************************************************)
(* _normalize and _score (app/analyzer.py): from the list of Slither's     *)
(* detectors to findings, their count by impact, a score and a verdict.    *)
(* A finding is the position of its detector in the report, and an impact; *)
(* its texts and lines are left out.                                       *)
(***************************************************************************)
EXTENDS Integers, Sequences, FiniteSets

\* order.get(impact, 9)
Rank(impact) ==
    CASE impact = "High" -> 0
      [] impact = "Medium" -> 1
      [] impact = "Low" -> 2
      [] impact = "Informational" -> 3
      [] impact = "Optimization" -> 4
      [] OTHER -> 9

\* Number of findings with this impact; a summary has no key for none.
CountOf(summary, impact) == IF impact \in DOMAIN summary THEN summary[impact] ELSE 0

\* The sum over _IMPACT_WEIGHT; Optimization and unknown impacts weigh nothing.
Raw(summary) ==
    40 * CountOf(summary, "High") + 15 * CountOf(summary, "Medium")
        + 4 * CountOf(summary, "Low") + CountOf(summary, "Informational")

\* Faulty variant: the score is not capped.
ScoreUncapped(summary) == Raw(summary)

Score(summary) == IF Raw(summary) > 100 THEN 100 ELSE Raw(summary)

Verdict(score) ==
    CASE score >= 40 -> "DANGEROUS"
      [] score \in 15..39 -> "RISKY"
      [] score \in 1..14 -> "CAUTION"
      [] OTHER -> "CLEAN"

\* Faulty variant: the least severe findings come first.
BeforeLeastSevere(findings, j, i) ==
    \/ Rank(findings[j].impact) > Rank(findings[i].impact)
    \/ Rank(findings[j].impact) = Rank(findings[i].impact) /\ j < i

\* Finding j is put before finding i: by rank, and equal ranks as they were.
Before(findings, j, i) ==
    \/ Rank(findings[j].impact) < Rank(findings[i].impact)
    \/ Rank(findings[j].impact) = Rank(findings[i].impact) /\ j < i

\* Where finding i goes.
Place(findings, i) == Cardinality({j \in DOMAIN findings : Before(findings, j, i)}) + 1

\* findings.sort, which is stable.
Sorted(findings) ==
    [k \in DOMAIN findings |->
        findings[CHOOSE i \in DOMAIN findings : Place(findings, i) = k]]

Summarize(findings) ==
    LET with(impact) == {i \in DOMAIN findings : findings[i].impact = impact}
    IN  [k \in {findings[i].impact : i \in DOMAIN findings} |-> Cardinality(with(k))]

\* _normalize; impacts[i] is the impact of detector i.  The result's proxy, which
\* may be absent, is a set.
Normalize(impacts, target) ==
    LET findings == [i \in DOMAIN impacts |-> [id |-> i, impact |-> impacts[i]]]
        summary == Summarize(findings)
    IN  [target |-> target, risk_score |-> Score(summary), verdict |-> Verdict(Score(summary)),
         summary |-> summary, findings |-> Sorted(findings), proxy |-> {}]
=============================================================================
