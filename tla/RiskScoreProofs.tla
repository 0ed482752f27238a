--------------------------- MODULE RiskScoreProofs ---------------------------
(***************************************************************************)
(* Theorems about _score (app/analyzer.py), for every summary.             *)
(***************************************************************************)
EXTENDS RiskScore, FiniteSetTheorems, TLAPS

\* A summary: a natural number for each impact that occurs.
IsSummary(s) == \A k \in DOMAIN s : s[k] \in Nat

\* t has at least the findings of s.
Includes(t, s) == \A k : CountOf(s, k) <= CountOf(t, k)

Severity(verdict) ==
    CASE verdict = "CLEAN" -> 0
      [] verdict = "CAUTION" -> 1
      [] verdict = "RISKY" -> 2
      [] verdict = "DANGEROUS" -> 3

LEMMA CountType ==
  ASSUME NEW s, IsSummary(s), NEW k
  PROVE  CountOf(s, k) \in Nat
  BY DEF CountOf, IsSummary

LEMMA RawType ==
  ASSUME NEW s, IsSummary(s)
  PROVE  Raw(s) \in Nat
  BY CountType DEF Raw

LEMMA NoWeight ==
  ASSUME NEW a \in Nat, NEW b \in Nat, NEW c \in Nat, NEW d \in Nat,
         40 * a + 15 * b + 4 * c + d = 0
  PROVE  a = 0 /\ b = 0 /\ c = 0 /\ d = 0
  OBVIOUS

LEMMA RawMonotone ==
  ASSUME NEW s, NEW t, IsSummary(s), IsSummary(t), Includes(t, s)
  PROVE  Raw(s) <= Raw(t)
  <1> DEFINE c(k) == CountOf(s, k)
             d(k) == CountOf(t, k)
  <1>1. ASSUME NEW k PROVE c(k) \in Nat /\ d(k) \in Nat /\ c(k) <= d(k)
    BY CountType DEF Includes
  <1>2. /\ Raw(s) = 40 * c("High") + 15 * c("Medium") + 4 * c("Low") + c("Informational")
        /\ Raw(t) = 40 * d("High") + 15 * d("Medium") + 4 * d("Low") + d("Informational")
    BY DEF Raw
  <1> HIDE DEF c, d
  <1>3. /\ c("High") \in Nat /\ d("High") \in Nat /\ c("High") <= d("High")
        /\ c("Medium") \in Nat /\ d("Medium") \in Nat /\ c("Medium") <= d("Medium")
        /\ c("Low") \in Nat /\ d("Low") \in Nat /\ c("Low") <= d("Low")
        /\ c("Informational") \in Nat /\ d("Informational") \in Nat
        /\ c("Informational") <= d("Informational")
    BY <1>1
  <1> QED
    BY <1>2, <1>3

LEMMA VerdictCases ==
  ASSUME NEW n \in Nat
  PROVE  /\ n >= 40 => Verdict(n) = "DANGEROUS"
         /\ n \in 15..39 => Verdict(n) = "RISKY"
         /\ n \in 1..14 => Verdict(n) = "CAUTION"
         /\ n = 0 => Verdict(n) = "CLEAN"
  BY DEF Verdict

\* The score is one that ScanResult accepts (risk_score, app/models.py:124).
THEOREM ScoreInRange ==
  ASSUME NEW s, IsSummary(s)
  PROVE  Score(s) \in 0..100
  BY RawType DEF Score

\* More findings never make a contract look better: neither the score nor the
\* verdict goes down when findings are added, whatever their impacts.
THEOREM MoreFindingsNeverReassure ==
  ASSUME NEW s, NEW t, IsSummary(s), IsSummary(t), Includes(t, s)
  PROVE  /\ Score(s) <= Score(t)
         /\ Severity(Verdict(Score(s))) <= Severity(Verdict(Score(t)))
  <1>1. Score(s) \in Nat /\ Score(t) \in Nat /\ Score(s) <= Score(t)
    BY RawType, RawMonotone DEF Score
  <1>2. ASSUME NEW m \in Nat, NEW n \in Nat, m <= n
        PROVE  Severity(Verdict(m)) <= Severity(Verdict(n))
    <2>1. CASE n >= 40
      BY <2>1, VerdictCases, m >= 40 \/ m \in 15..39 \/ m \in 1..14 \/ m = 0 DEF Severity
    <2>2. CASE n \in 15..39
      BY <1>2, <2>2, VerdictCases, m \in 15..39 \/ m \in 1..14 \/ m = 0 DEF Severity
    <2>3. CASE n \in 1..14
      BY <1>2, <2>3, VerdictCases, m \in 1..14 \/ m = 0 DEF Severity
    <2>4. CASE n = 0
      BY <1>2, <2>4, VerdictCases DEF Severity
    <2> QED
      BY <2>1, <2>2, <2>3, <2>4
  <1> QED
    BY <1>1, <1>2

\* One High finding is enough for the worst verdict, and no number of other
\* findings hides it.
THEOREM HighIsDangerous ==
  ASSUME NEW s, IsSummary(s), CountOf(s, "High") > 0
  PROVE  Verdict(Score(s)) = "DANGEROUS"
  <1>1. Raw(s) >= 40 /\ Raw(s) \in Nat
    BY CountType, RawType DEF Raw
  <1>2. Score(s) >= 40 /\ Score(s) \in Nat
    BY <1>1 DEF Score
  <1> QED
    BY <1>2, VerdictCases

\* CLEAN means that nothing of weight was found.
THEOREM CleanMeansNothingFound ==
  ASSUME NEW s, IsSummary(s), Verdict(Score(s)) = "CLEAN"
  PROVE  \A k \in {"High", "Medium", "Low", "Informational"} : CountOf(s, k) = 0
  <1>1. Score(s) = 0
    <2>1. Score(s) \in 0..100
      BY ScoreInRange
    <2>2. Score(s) >= 40 \/ Score(s) \in 15..39 \/ Score(s) \in 1..14 \/ Score(s) = 0
      BY <2>1
    <2> QED
      BY <2>1, <2>2, VerdictCases
  <1>2. Raw(s) = 0
    BY <1>1, RawType DEF Score
  <1>3. /\ CountOf(s, "High") \in Nat /\ CountOf(s, "Medium") \in Nat
        /\ CountOf(s, "Low") \in Nat /\ CountOf(s, "Informational") \in Nat
    BY CountType
  <1>4. 40 * CountOf(s, "High") + 15 * CountOf(s, "Medium") + 4 * CountOf(s, "Low")
            + CountOf(s, "Informational") = 0
    BY <1>2 DEF Raw
  <1>5. /\ CountOf(s, "High") = 0 /\ CountOf(s, "Medium") = 0
        /\ CountOf(s, "Low") = 0 /\ CountOf(s, "Informational") = 0
    <2> DEFINE a == CountOf(s, "High")
               b == CountOf(s, "Medium")
               c == CountOf(s, "Low")
               d == CountOf(s, "Informational")
    <2>1. a \in Nat /\ b \in Nat /\ c \in Nat /\ d \in Nat /\ 40 * a + 15 * b + 4 * c + d = 0
      BY <1>3, <1>4
    <2> HIDE DEF a, b, c, d
    <2>2. a = 0 /\ b = 0 /\ c = 0 /\ d = 0
      BY <2>1, NoWeight
    <2> QED
      BY <2>2 DEF a, b, c, d
  <1> QED
    BY <1>5

\* How far the docstring of _score (app/analyzer.py:61-62) is right: up to nine
\* Low findings, with nothing else, stay below the score of one High finding.
THEOREM NineLowsBelowOneHigh ==
  ASSUME NEW s, IsSummary(s), CountOf(s, "Low") <= 9,
         \A k \in {"High", "Medium", "Informational"} : CountOf(s, k) = 0
  PROVE  Score(s) < 40
  <1>1. Raw(s) <= 36
    BY CountType DEF Raw
  <1> QED
    BY <1>1, RawType DEF Score

(***************************************************************************)
(* The order of the findings (_normalize)                                  *)
(***************************************************************************)

LEMMA RankType == \A impact : Rank(impact) \in Nat
  BY DEF Rank

\* A report with n detectors.
IsReport(findings, n) == n \in Nat /\ DOMAIN findings = 1..n

\* The findings that are put before finding i.
Earlier(findings, i) == {j \in DOMAIN findings : Before(findings, j, i)}

LEMMA BeforeOrders ==
  ASSUME NEW fs, NEW n, IsReport(fs, n), NEW i \in 1..n, NEW j \in 1..n, NEW k \in 1..n
  PROVE  /\ ~Before(fs, i, i)
         /\ i # j => Before(fs, i, j) \/ Before(fs, j, i)
         /\ Before(fs, i, j) /\ Before(fs, j, k) => Before(fs, i, k)
  <1> DEFINE r(x) == Rank(fs[x].impact)
  <1>1. r(i) \in Nat /\ r(j) \in Nat /\ r(k) \in Nat
    BY RankType
  <1>2. n \in Nat
    BY DEF IsReport
  <1>3. \A x, y : Before(fs, x, y) <=> r(x) < r(y) \/ (r(x) = r(y) /\ x < y)
    BY DEF Before
  <1> HIDE DEF r
  <1> QED
    BY <1>1, <1>2, <1>3

LEMMA EarlierFinite ==
  ASSUME NEW fs, NEW n, IsReport(fs, n), NEW i \in 1..n
  PROVE  /\ IsFiniteSet(Earlier(fs, i)) /\ Cardinality(Earlier(fs, i)) \in 0..(n - 1)
         /\ Place(fs, i) = Cardinality(Earlier(fs, i)) + 1
  <1> n \in Nat /\ DOMAIN fs = 1..n
    BY DEF IsReport
  <1>1. IsFiniteSet(1..n) /\ Cardinality(1..n) = n
    BY FS_Interval
  <1>2. IsFiniteSet((1..n) \ {i}) /\ Cardinality((1..n) \ {i}) = n - 1
    BY <1>1, FS_RemoveElement
  <1>3. Earlier(fs, i) \subseteq (1..n) \ {i}
    BY BeforeOrders DEF Earlier
  <1>4. /\ IsFiniteSet(Earlier(fs, i)) /\ Cardinality(Earlier(fs, i)) <= n - 1
        /\ Cardinality(Earlier(fs, i)) \in Nat
    BY <1>2, <1>3, FS_Subset, FS_CardinalityType
  <1> QED
    BY <1>4 DEF Place, Earlier

\* A finding that is put before another gets a place before the other's.
LEMMA PlaceOrders ==
  ASSUME NEW fs, NEW n, IsReport(fs, n), NEW i \in 1..n, NEW j \in 1..n, Before(fs, i, j)
  PROVE  Place(fs, i) < Place(fs, j)
  <1> DEFINE E(x) == Earlier(fs, x)
  <1> DOMAIN fs = 1..n
    BY DEF IsReport
  <1>1. i \notin E(i) /\ E(i) \cup {i} \subseteq E(j)
    BY BeforeOrders DEF Earlier
  <1>2. /\ IsFiniteSet(E(i)) /\ IsFiniteSet(E(j))
        /\ Cardinality(E(i)) \in 0..(n - 1) /\ Cardinality(E(j)) \in 0..(n - 1)
        /\ Place(fs, i) = Cardinality(E(i)) + 1 /\ Place(fs, j) = Cardinality(E(j)) + 1
    BY EarlierFinite
  <1> HIDE DEF E
  <1>3. Cardinality(E(i) \cup {i}) = Cardinality(E(i)) + 1
    BY <1>1, <1>2, FS_AddElement
  <1>4. Cardinality(E(i) \cup {i}) <= Cardinality(E(j))
    BY <1>1, <1>2, FS_Subset
  <1> QED
    BY <1>2, <1>3, <1>4

\* The finding at each place of the sorted list.
Sorting(findings) ==
    [k \in DOMAIN findings |-> CHOOSE i \in DOMAIN findings : Place(findings, i) = k]

\* The list is sorted by a permutation of the report that keeps the order within
\* each rank, whatever impacts the report has.
THEOREM SortedIsStable ==
  ASSUME NEW fs, NEW n, IsReport(fs, n)
  PROVE  /\ Sorting(fs) \in Bijection(1..n, 1..n)
         /\ Sorted(fs) = [k \in 1..n |-> fs[Sorting(fs)[k]]]
         /\ \A k, l \in 1..n : k < l => Before(fs, Sorting(fs)[k], Sorting(fs)[l])
  <1> DEFINE D == 1..n
             place == [i \in D |-> Place(fs, i)]
             p == Sorting(fs)
  <1>1. n \in Nat /\ DOMAIN fs = D /\ IsFiniteSet(D)
    BY FS_Interval DEF IsReport
  <1>2. \A i \in D : place[i] \in D
    <2> SUFFICES ASSUME NEW i \in D PROVE Place(fs, i) \in 1..n
      OBVIOUS
    <2> QED
      BY <1>1, EarlierFinite
  <1>3. \A i, j \in D : Before(fs, i, j) => place[i] < place[j]
    BY PlaceOrders
  <1>4. \A i, j \in D : i # j => Before(fs, i, j) \/ Before(fs, j, i)
    BY BeforeOrders
  <1>5. p = [k \in D |-> CHOOSE i \in D : place[i] = k]
    BY <1>1 DEF Sorting
  <1>6. place \in [D -> D]
    BY <1>2
  <1>7. Sorted(fs) = [k \in D |-> fs[p[k]]]
    BY <1>1 DEF Sorted, Sorting
  <1> HIDE DEF place, p
  <1>8. place \in Injection(D, D)
    <2>1. ASSUME NEW i \in D, NEW j \in D, i # j PROVE place[i] # place[j]
      <3>1. place[i] \in Int /\ place[j] \in Int
        BY <1>6
      <3> QED
        BY <1>3, <1>4, <2>1, <3>1
    <2> QED
      BY <1>6, <2>1 DEF Injection, IsInjective
  <1>9. place \in Surjection(D, D)
    BY <1>1, <1>8, FS_Injection
  <1>10. \A k \in D : p[k] \in D /\ place[p[k]] = k
    BY <1>5, <1>9 DEF Surjection
  <1>11. p \in [D -> D]
    BY <1>5, <1>10
  <1>12. p \in Injection(D, D)
    BY <1>10, <1>11 DEF Injection, IsInjective
  <1>13. p \in Bijection(D, D)
    BY <1>1, <1>12, FS_Injection DEF Bijection
  <1>14. ASSUME NEW k \in D, NEW l \in D, k < l PROVE Before(fs, p[k], p[l])
    <2>1. p[k] \in D /\ p[l] \in D /\ p[k] # p[l]
      BY <1>10, <1>14
    <2>2. ~Before(fs, p[l], p[k])
      BY <1>3, <1>10, <1>14, <2>1
    <2> QED
      BY <1>4, <2>1, <2>2
  <1> QED
    BY <1>7, <1>13, <1>14 DEF p

\* A permutation does not change how many there are of a kind.
LEMMA SameNumber ==
  ASSUME NEW n \in Nat, NEW p \in Bijection(1..n, 1..n),
         NEW S \in SUBSET (1..n), NEW T \in SUBSET (1..n),
         \A k \in 1..n : k \in S <=> p[k] \in T
  PROVE  Cardinality(S) = Cardinality(T)
  <1> DEFINE q == [k \in S |-> p[k]]
  <1>1. p \in [1..n -> 1..n] /\ (\A a, b \in 1..n : p[a] = p[b] => a = b)
        /\ \A t \in 1..n : \E k \in 1..n : p[k] = t
    BY DEF Bijection, Injection, IsInjective, Surjection
  <1>2. q \in [S -> T]
    BY <1>1
  <1>3. q \in Injection(S, T)
    BY <1>1, <1>2 DEF Injection, IsInjective
  <1>4. q \in Surjection(S, T)
    <2>1. ASSUME NEW t \in T PROVE \E k \in S : q[k] = t
      <3>1. PICK k \in 1..n : p[k] = t
        BY <1>1
      <3> QED
        BY <3>1
    <2> QED
      BY <1>2, <2>1 DEF Surjection
  <1>5. ExistsBijection(S, T)
    BY <1>3, <1>4 DEF ExistsBijection, Bijection
  <1>6. IsFiniteSet(S)
    <2>1. IsFiniteSet(1..n)
      BY FS_Interval
    <2> QED
      BY <2>1, FS_Subset
  <1> QED
    BY <1>5, <1>6, FS_Bijection

\* The findings of one impact.
With(fs, n, k) == {i \in 1..n : fs[i].impact = k}

\* A summary counts the findings of each impact, and lists no impact without one.
LEMMA SummaryCounts ==
  ASSUME NEW fs, NEW n, IsReport(fs, n)
  PROVE  /\ \A k : CountOf(Summarize(fs), k) = Cardinality(With(fs, n, k))
         /\ DOMAIN Summarize(fs) = {fs[i].impact : i \in 1..n}
         /\ \A k \in DOMAIN Summarize(fs) : Summarize(fs)[k] \in Nat \ {0}
         /\ IsSummary(Summarize(fs))
  <1> DEFINE with(k) == {i \in 1..n : fs[i].impact = k}
  <1>1. n \in Nat /\ DOMAIN fs = 1..n /\ IsFiniteSet(1..n)
    BY FS_Interval DEF IsReport
  <1>2. Summarize(fs) = [k \in {fs[i].impact : i \in 1..n} |-> Cardinality(with(k))]
    BY <1>1 DEF Summarize
  <1>3. ASSUME NEW k
        PROVE  /\ Cardinality(with(k)) \in Nat
               /\ Cardinality(with(k)) = 0 <=> k \notin {fs[i].impact : i \in 1..n}
    <2>1. IsFiniteSet(with(k))
      BY <1>1, FS_Subset
    <2>2. with(k) = {} <=> k \notin {fs[i].impact : i \in 1..n}
      OBVIOUS
    <2> HIDE DEF with
    <2> QED
      BY <2>1, <2>2, FS_CardinalityType, FS_EmptySet
  <1> HIDE DEF with
  <1>4. ASSUME NEW k PROVE CountOf(Summarize(fs), k) = Cardinality(with(k))
    BY <1>2, <1>3 DEF CountOf
  <1>5. /\ DOMAIN Summarize(fs) = {fs[i].impact : i \in 1..n}
        /\ \A k \in DOMAIN Summarize(fs) : Summarize(fs)[k] \in Nat \ {0}
    BY <1>2, <1>3
  <1> QED
    BY <1>4, <1>5 DEF IsSummary, with, With

\* The positions of the detectors in the report are the ids of the findings.
Detected(impacts) == [i \in DOMAIN impacts |-> [id |-> i, impact |-> impacts[i]]]

\* The result r gives account of the report: it lists its n findings by severity,
\* in Slither's order within one severity, counts them, and scores the counts.
Accounts(r, impacts, n) ==
    LET found == r.findings
    IN  /\ \E p \in Bijection(1..n, 1..n) :
              found = [k \in 1..n |-> [id |-> p[k], impact |-> impacts[p[k]]]]
        /\ \A i, j \in 1..n : i < j =>
              \/ Rank(found[i].impact) < Rank(found[j].impact)
              \/ /\ Rank(found[i].impact) = Rank(found[j].impact)
                 /\ found[i].id < found[j].id
        /\ \A k : CountOf(r.summary, k) = Cardinality({i \in 1..n : found[i].impact = k})
        /\ DOMAIN r.summary = {impacts[i] : i \in 1..n}
        /\ \A k \in DOMAIN r.summary : r.summary[k] \in Nat \ {0}
        /\ IsSummary(r.summary)
        /\ r.risk_score = Score(r.summary)
        /\ r.verdict = Verdict(r.risk_score)

\* What _normalize returns gives account of every report: no finding is lost,
\* doubled or counted elsewhere than it is listed.
THEOREM NormalizeAgrees ==
  ASSUME NEW impacts, NEW n, IsReport(impacts, n), NEW target
  PROVE  Accounts(Normalize(impacts, target), impacts, n)
  <1> DEFINE fs == Detected(impacts)
             p == Sorting(fs)
             result == Normalize(impacts, target)
             found == result.findings
  <1>1. /\ n \in Nat /\ IsReport(fs, n)
        /\ \A i \in 1..n : fs[i] = [id |-> i, impact |-> impacts[i]]
        /\ \A i \in 1..n : fs[i].impact = impacts[i]
    BY DEF IsReport, Detected
  <1>2. /\ result.summary = Summarize(fs) /\ found = Sorted(fs)
        /\ result.risk_score = Score(result.summary)
        /\ result.verdict = Verdict(result.risk_score)
    BY DEF Normalize, Detected
  <1>3. /\ p \in Bijection(1..n, 1..n)
        /\ Sorted(fs) = [k \in 1..n |-> fs[p[k]]]
        /\ \A k, l \in 1..n : k < l => Before(fs, p[k], p[l])
    BY <1>1, SortedIsStable
  <1>4. \A k \in 1..n : p[k] \in 1..n
    BY <1>3 DEF Bijection, Injection
  <1> HIDE DEF fs, p, result, found
  <1>5. found = [k \in 1..n |-> [id |-> p[k], impact |-> impacts[p[k]]]]
    BY <1>1, <1>2, <1>3, <1>4
  <1>6. ASSUME NEW i \in 1..n, NEW j \in 1..n, i < j
        PROVE  \/ Rank(found[i].impact) < Rank(found[j].impact)
               \/ /\ Rank(found[i].impact) = Rank(found[j].impact)
                  /\ found[i].id < found[j].id
    <2>1. Before(fs, p[i], p[j])
      BY <1>3, <1>6
    <2>2. /\ found[i].impact = fs[p[i]].impact /\ found[i].id = p[i]
          /\ found[j].impact = fs[p[j]].impact /\ found[j].id = p[j]
      BY <1>1, <1>4, <1>5
    <2> QED
      BY <2>1, <2>2 DEF Before
  <1>7. ASSUME NEW k
        PROVE  CountOf(result.summary, k) = Cardinality({i \in 1..n : found[i].impact = k})
    <2> DEFINE S == {i \in 1..n : found[i].impact = k}
               T == {i \in 1..n : fs[i].impact = k}
    <2>1. \A i \in 1..n : i \in S <=> p[i] \in T
      BY <1>1, <1>4, <1>5
    <2>2. S \in SUBSET (1..n) /\ T \in SUBSET (1..n)
      OBVIOUS
    <2>3. CountOf(result.summary, k) = Cardinality(T)
      <3>1. CountOf(Summarize(fs), k) = Cardinality(With(fs, n, k))
        BY <1>1, SummaryCounts
      <3> QED
        BY <1>2, <3>1 DEF With
    <2> HIDE DEF S, T
    <2>4. Cardinality(S) = Cardinality(T)
      BY <1>1, <1>3, <2>1, <2>2, SameNumber
    <2> QED
      BY <2>3, <2>4 DEF S
  <1>8. /\ DOMAIN result.summary = {impacts[i] : i \in 1..n}
        /\ \A k \in DOMAIN result.summary : result.summary[k] \in Nat \ {0}
        /\ IsSummary(result.summary)
    <2>1. \A i \in 1..n : fs[i].impact = impacts[i]
      BY <1>1
    <2>2. {fs[i].impact : i \in 1..n} = {impacts[i] : i \in 1..n}
      BY <2>1
    <2>3. /\ DOMAIN Summarize(fs) = {fs[i].impact : i \in 1..n}
          /\ \A k \in DOMAIN Summarize(fs) : Summarize(fs)[k] \in Nat \ {0}
          /\ IsSummary(Summarize(fs))
      BY <1>1, SummaryCounts
    <2> QED
      BY <1>2, <2>2, <2>3
  <1> QED
    BY <1>2, <1>3, <1>5, <1>6, <1>7, <1>8 DEF found, result, Accounts
=============================================================================
