--------------------------- MODULE ScanCoreProofs ---------------------------
(***************************************************************************)
(* Theorems about ScanCore, for every root directory, every set of paths   *)
(* the explorer may name, and any number of files and findings.            *)
(***************************************************************************)
EXTENDS ScanCore, RiskScoreProofs, SequenceTheorems, TLAPS

Working == {"fetch", "write", "analyze", "result"}

\* What holds on the way to a verdict: nothing is answered yet, the info is one
\* that resolve() returns, and its contract is the one that is fetched.
WayInv ==
    /\ info \in ProxyInfos
    /\ pc # "answered" => info \in Infos /\ status = 0 /\ source = NoText
    /\ pc \in Working => NamedByResolve /\ (info.is_proxy <=> CleanlyResolved)
    /\ pc = "result" =>
          /\ result.verdict = Verdict(result.risk_score)
          /\ result.proxy = {}
          /\ compiled = disk[primary]

CoreInv == WayInv /\ Contained /\ VerdictAsResolved /\ SourceIsCompiled

----------------------------------------------------------------------------
\* The name that a path outside the root is reduced to is inside it.
LEMMA UnderRoot ==
  ASSUME NEW name
  PROVE  Inside(Append(Root, name))
  <1> DEFINE S == STRING \cup {name}
             t == Append(Root, name)
  <1>1. Root \in Seq(S) /\ t \in Seq(S) /\ Len(Root) \in Nat
        /\ Len(t) = Len(Root) + 1 /\ (\A i \in 1..Len(Root) : t[i] = Root[i] /\ Root[i] \in S)
    BY RootAssumption, SeqMonotonic, AppendProperties
  <1> HIDE DEF S, t
  <1>2. /\ SubSeq(Root, 1, Len(Root)) \in Seq(S) /\ SubSeq(t, 1, Len(Root)) \in Seq(S)
        /\ Len(SubSeq(Root, 1, Len(Root))) = Len(Root)
        /\ Len(SubSeq(t, 1, Len(Root))) = Len(Root)
        /\ \A i \in 1..Len(Root) :
              SubSeq(Root, 1, Len(Root))[i] = Root[i] /\ SubSeq(t, 1, Len(Root))[i] = t[i]
    BY <1>1, SubSeqProperties
  <1>3. SubSeq(Root, 1, Len(Root)) = SubSeq(t, 1, Len(Root))
    BY <1>1, <1>2, SeqEqual
  <1> QED
    BY <1>1, <1>3 DEF Inside, IsPrefix, t

\* _write_file puts every file inside the root, by whatever path.
LEMMA DestinationInside ==
  ASSUME NEW path
  PROVE  Inside(Destination(path))
  BY UnderRoot DEF Destination

\* The records that resolve() returns, and which of them go on to be fetched.
LEMMA InfosType ==
  ASSUME NEW i \in Infos
  PROVE  /\ i \in ProxyInfos /\ ~i.implementation_scanned
         /\ i.is_proxy \/ ~i.note \/ ~i.state_read_ok
  BY DEF Infos, ProxyInfos, Returned, PlainInfo, ResolvedInfo, UnresolvedInfo

LEMMA InitCore == Init => CoreInv
  <1> SUFFICES ASSUME Init PROVE CoreInv
    OBVIOUS
  <1>1. WayInv
    BY InfosType DEF Init, WayInv, Working
  <1>2. Contained /\ VerdictAsResolved /\ SourceIsCompiled
    BY DEF Init, Contained, VerdictAsResolved, SourceIsCompiled
  <1> QED
    BY <1>1, <1>2 DEF CoreInv

\* Answers other than 200 have no verdict.
LEMMA FailCore ==
  ASSUME CoreInv, NEW code, Fail(code), code # 200, pc # "answered",
         \A f \in DOMAIN disk' : IsStrictPrefix(Root, f)
  PROVE  CoreInv'
  BY DEF CoreInv, WayInv, Contained, VerdictAsResolved, SourceIsCompiled, Fail, Answer, Working

\* A degraded result is one by both accounts: its verdict and its ProxyInfo.
LEMMA DegradedCore ==
  ASSUME CoreInv, pc # "answered", NEW i \in ProxyInfos, AnswerDegraded(i),
         ~i.state_read_ok \/ (i.is_proxy /\ ~i.implementation_scanned)
  PROVE  CoreInv'
  <1>1. /\ info' = i /\ result' = DegradedProxyScan(i) /\ pc' = "answered" /\ status' = 200
        /\ UNCHANGED <<disk, source, compiled>>
    BY DEF AnswerDegraded, Answer, tree
  <1>2. DegradedScan(result')
    BY <1>1 DEF DegradedScan, DegradedProxyScan
  <1>3. (CHOOSE p \in result'.proxy : TRUE) = i
    BY <1>1 DEF DegradedProxyScan
  <1>4. /\ DegradedAIReport(result').verdict = "COULD NOT ANALYZE"
        /\ DegradedAIReport(result').adjusted_risk >= 40
        /\ "state" \in DegradedAIReport(result').limitations <=> ~info'.state_read_ok
    <2>1. result'.risk_score = 55 /\ result'.verdict = "COULD NOT ANALYZE"
      BY <1>1 DEF DegradedProxyScan
    <2> DEFINE report == DegradedAIReport(result')
               about == {a \in {"state", "implementation", "note", "upgradeable"} :
                           /\ a = "state" => ~i.state_read_ok
                           /\ a = "implementation" => i.state_read_ok
                           /\ a = "note" => i.note}
    <2>2. report = [adjusted_risk |-> result'.risk_score, verdict |-> result'.verdict,
                    limitations |-> about]
      BY <1>3 DEF DegradedAIReport
    <2>3. i.state_read_ok \in BOOLEAN /\ info'.state_read_ok = i.state_read_ok
      BY <1>1 DEF ProxyInfos
    <2>4. "state" \in about <=> ~i.state_read_ok
      OBVIOUS
    <2> HIDE DEF report, about
    <2>5. report.verdict = "COULD NOT ANALYZE" /\ report.adjusted_risk >= 40
          /\ report.limitations = about
      <3>1. report.verdict = result'.verdict
        BY <2>2
      <3>2. report.adjusted_risk = result'.risk_score
        BY <2>2
      <3>3. report.limitations = about
        BY <2>2
      <3>4. report.adjusted_risk = 55
        BY <2>1, <3>2
      <3>5. report.adjusted_risk >= 40
        BY <3>4
      <3>6. report.verdict = "COULD NOT ANALYZE"
        BY <2>1, <3>1
      <3> QED
        BY <3>3, <3>5, <3>6
    <2>6. "state" \in report.limitations <=> ~info'.state_read_ok
      BY <2>3, <2>4, <2>5
    <2> QED
      BY <2>5, <2>6 DEF report
  <1>5. source' = NoText
    BY <1>1 DEF CoreInv, WayInv
  <1>6. VerdictAsResolved'
    BY <1>1, <1>2, <1>4, <1>5 DEF VerdictAsResolved
  <1> QED
    BY <1>1, <1>6 DEF CoreInv, WayInv, Contained, SourceIsCompiled, Working

\* A usual result says nothing about a proxy, or that its implementation was
\* scanned.
LEMMA CompleteCore ==
  ASSUME CoreInv, Complete
  PROVE  CoreInv'
  <1> USE DEF CoreInv, WayInv, Working
  <1>1. /\ pc = "result" /\ pc' = "answered" /\ status' = 200 /\ DOMAIN disk' = {}
        /\ source' \in {NoText, compiled} /\ UNCHANGED <<fetched, compiled>>
    BY DEF Complete, Answer, RemoveTree
  <1>2. NamedByResolve /\ info \in ProxyInfos /\ (info.is_proxy <=> CleanlyResolved)
    BY <1>1
  <1>3. /\ info' \in ProxyInfos /\ NamedByResolve' /\ ~DegradedScan(result')
        /\ result'.verdict = Verdict(result'.risk_score)
    <2>1. CASE CleanlyResolved
      <3>1. /\ info' = [info EXCEPT !.implementation_scanned = TRUE]
            /\ result' = WithStandingFinding(result, info')
        BY <2>1 DEF Complete
      <3>2. /\ info' \in ProxyInfos /\ info'.implementation_scanned
            /\ info'.state_read_ok /\ ~info'.note
            /\ info'.is_proxy = info.is_proxy
            /\ info'.implementation_address = info.implementation_address
        BY <1>2, <3>1 DEF ProxyInfos, NamedByResolve
      <3>3. /\ result'.proxy = {info'} /\ result'.verdict = result.verdict
            /\ result'.risk_score = result.risk_score
        BY <3>1 DEF WithStandingFinding
      <3>4. ~DegradedScan(result')
        BY <3>2, <3>3 DEF DegradedScan
      <3> QED
        BY <1>1, <1>2, <3>2, <3>3, <3>4 DEF NamedByResolve
    <2>2. CASE ~CleanlyResolved
      <3>1. UNCHANGED <<info, result>>
        BY <2>2 DEF Complete
      <3> QED
        BY <1>1, <1>2, <3>1 DEF NamedByResolve, DegradedScan
    <2> QED
      BY <2>1, <2>2
  <1> QED
    BY <1>1, <1>3 DEF Contained, VerdictAsResolved, SourceIsCompiled

LEMMA NextCore == CoreInv /\ [Next]_vars => CoreInv'
  <1> SUFFICES ASSUME CoreInv, [Next]_vars PROVE CoreInv'
    OBVIOUS
  <1>1. CASE NoApiKey \/ FetchFails \/ FetchRaises \/ AnalysisFails
    <2>1. \A f \in DOMAIN disk' : IsStrictPrefix(Root, f)
      BY <1>1 DEF NoApiKey, FetchFails, FetchRaises, AnalysisFails, RemoveTree, tree,
                  CoreInv, Contained
    <2> QED
      BY <1>1, <2>1, FailCore DEF NoApiKey, FetchFails, FetchRaises, AnalysisFails
  <1>2. CASE Resolve
    <2>1. info \in Infos /\ pc = "resolve"
      BY <1>2 DEF Resolve, CoreInv, WayInv
    <2>2. CASE ~info.state_read_ok \/ (info.is_proxy /\ ~CleanlyResolved)
      BY <1>2, <2>1, <2>2, InfosType, DegradedCore DEF Resolve
    <2>3. CASE ~(~info.state_read_ok \/ (info.is_proxy /\ ~CleanlyResolved))
      <3>1. /\ pc' = "fetch" /\ UNCHANGED <<info, disk, result, source, status, compiled>>
            /\ fetched' = IF CleanlyResolved THEN info.implementation_address ELSE Address
        BY <1>2, <2>3 DEF Resolve, tree
      <3>2. info.is_proxy <=> CleanlyResolved
        BY <2>3 DEF CleanlyResolved
      <3>3. NamedByResolve' /\ CleanlyResolved' = CleanlyResolved
        BY <2>1, <2>3, <3>1, <3>2, InfosType DEF NamedByResolve, CleanlyResolved
      <3> QED
        BY <2>1, <3>1, <3>2, <3>3 DEF CoreInv, WayInv, Working, Contained, VerdictAsResolved,
                                      SourceIsCompiled
    <2> QED
      BY <2>2, <2>3
  <1>3. CASE NotVerified
    <2>1. pc = "fetch" /\ info \in Infos /\ info \in ProxyInfos
      BY <1>3, InfosType DEF NotVerified, CoreInv, WayInv
    <2>2. CASE CleanlyResolved /\ AnswerDegraded([info EXCEPT !.note = TRUE])
      <3> DEFINE i == [info EXCEPT !.note = TRUE]
      <3>1. i \in ProxyInfos /\ i.is_proxy /\ ~i.implementation_scanned
        BY <2>1, <2>2, InfosType DEF ProxyInfos, CleanlyResolved
      <3> QED
        BY <2>1, <2>2, <3>1, DegradedCore
    <2>3. CASE Fail(404) /\ UNCHANGED tree
      BY <2>1, <2>3, FailCore DEF tree, CoreInv, Contained
    <2> QED
      BY <1>3, <2>2, <2>3 DEF NotVerified
  <1>4. CASE Fetch
    <2>1. pc = "fetch" /\ pc' = "write"
          /\ UNCHANGED <<info, disk, result, source, status, fetched, compiled>>
      BY <1>4 DEF Fetch
    <2> QED
      BY <2>1 DEF CoreInv, WayInv, Working, Contained, VerdictAsResolved, SourceIsCompiled,
                  NamedByResolve, CleanlyResolved
  <1>5. CASE WriteFile
    <2> DEFINE safe == Destination(Head(todo).path)
    <2>1. /\ pc = "write" /\ pc' = pc /\ safe # Root
          /\ DOMAIN disk' = DOMAIN disk \cup {safe}
          /\ UNCHANGED <<info, result, source, status, fetched, compiled>>
      BY <1>5 DEF WriteFile, Writable
    <2>2. IsStrictPrefix(Root, safe)
      BY <2>1, DestinationInside DEF Inside, IsStrictPrefix
    <2>3. Contained'
      BY <2>1, <2>2 DEF CoreInv, Contained
    <2> QED
      BY <2>1, <2>3 DEF CoreInv, WayInv, Working, VerdictAsResolved, SourceIsCompiled,
                        NamedByResolve, CleanlyResolved
  <1>6. CASE PickPrimary
    <2>1. pc = "write" /\ pc' = "analyze"
          /\ UNCHANGED <<info, disk, result, source, status, fetched, compiled>>
      BY <1>6 DEF PickPrimary, tree
    <2> QED
      BY <2>1 DEF CoreInv, WayInv, Working, Contained, VerdictAsResolved, SourceIsCompiled,
                  NamedByResolve, CleanlyResolved
  <1>7. CASE Analyze
    <2>1. /\ pc = "analyze" /\ pc' = "result" /\ compiled' = disk[primary]
          /\ UNCHANGED <<info, disk, primary, source, status, fetched>>
      BY <1>7 DEF Analyze, tree
    <2>2. result'.verdict = Verdict(result'.risk_score) /\ result'.proxy = {}
      <3>1. PICK impacts : result' = Normalize(impacts, Address)
        BY <1>7 DEF Analyze
      <3> QED
        BY <3>1 DEF Normalize
    <2> QED
      BY <2>1, <2>2 DEF CoreInv, WayInv, Working, Contained, VerdictAsResolved, SourceIsCompiled,
                        NamedByResolve, CleanlyResolved
  <1>8. CASE Complete
    BY <1>8, CompleteCore
  <1>9. CASE UNCHANGED vars
    BY <1>9 DEF vars, tree, CoreInv, WayInv, Working, Contained, VerdictAsResolved, SourceIsCompiled,
                NamedByResolve, CleanlyResolved
  <1> QED
    BY <1>1, <1>2, <1>3, <1>4, <1>5, <1>6, <1>7, <1>8, <1>9 DEF Next

LEMMA CoreInvHolds == Spec => []CoreInv
  BY InitCore, NextCore, PTL DEF Spec

----------------------------------------------------------------------------
\* No path in a contract's source map, however long and whatever it is made of,
\* gets a file written outside the directory of the scan.
THEOREM ContainedHolds == Spec => []Contained
  BY CoreInvHolds, PTL DEF CoreInv

\* A verdict of the usual kind is only given for the contract that resolve() named
\* without a doubt, and the two ways the code marks any other result always agree.
THEOREM VerdictAsResolvedHolds == Spec => []VerdictAsResolved
  BY CoreInvHolds, PTL DEF CoreInv

\* The model is never given a text other than the one that was compiled.
THEOREM SourceIsCompiledHolds == Spec => []SourceIsCompiled
  BY CoreInvHolds, PTL DEF CoreInv

----------------------------------------------------------------------------
(***************************************************************************)
(* The file that is compiled                                               *)
(***************************************************************************)

LEMMA LeastExists ==
  ASSUME NEW T \in SUBSET Nat, T # {}
  PROVE  \E x \in T : \A y \in T : x <= y
  <1> DEFINE R == OpToRel(<, Nat)
  <1>1. IsWellFoundedOn(R, Nat)
    BY NatLessThanWellFounded
  <1>2. \A x, y \in Nat : y < x => <<y, x>> \in R
    BY DEF OpToRel
  <1> HIDE DEF R
  <1>3. \E x \in T : \A y \in T : ~ (<<y, x>> \in R)
    BY <1>1, WFMin
  <1>4. PICK x \in T : \A y \in T : ~ (<<y, x>> \in R)
    BY <1>3
  <1>5. ASSUME NEW y \in T PROVE x <= y
    <2>1. x \in Nat /\ y \in Nat /\ ~ (y < x)
      BY <1>2, <1>4
    <2> QED
      BY <2>1
  <1> QED
    BY <1>5

LEMMA FirstInPicks ==
  ASSUME NEW D, NEW fs \in Seq(D), NEW S, \E f \in Range(fs) : f \in S
  PROVE  FirstIn(fs, S) \in S /\ FirstIn(fs, S) \in Range(fs)
  <1> DEFINE T == {i \in 1..Len(fs) : fs[i] \in S}
  <1>1. Len(fs) \in Nat /\ DOMAIN fs = 1..Len(fs) /\ Range(fs) = {fs[i] : i \in 1..Len(fs)}
    BY RangeEquality
  <1>2. T \in SUBSET Nat /\ T # {}
    BY <1>1
  <1>3. PICK x \in T : \A y \in T : x <= y
    BY <1>2, LeastExists
  <1>4. x \in DOMAIN fs /\ fs[x] \in S /\ \A j \in 1..(x - 1) : fs[j] \notin S
    <2>1. \A j \in 1..(x - 1) : j \in 1..Len(fs) /\ ~ (x <= j)
      BY <1>1
    <2> QED
      BY <1>1, <1>3, <2>1
  <1> DEFINE P(i) == fs[i] \in S /\ \A j \in 1..(i - 1) : fs[j] \notin S
             c == CHOOSE i \in DOMAIN fs : P(i)
  <1>5. c \in DOMAIN fs /\ P(c)
    BY <1>4
  <1>6. FirstIn(fs, S) = fs[c]
    BY DEF FirstIn
  <1> QED
    BY <1>1, <1>5, <1>6

\* _pick_primary: the file is one that was written; it is one of the contract's
\* name, outside lib, if there is such a file; else one of its name, if there is
\* one; else one that defines the contract, if there is one.
LEMMA PrimaryPicks ==
  ASSUME NEW D, NEW fs \in Seq(D), fs # << >>, Range(fs) = D, NEW defining \in SUBSET D
  PROVE  LET p == Primary(fs, defining)
             named == {f \in D : Last(f) = TargetFile}
             outside == {f \in named : ~InLib(f)}
         IN  /\ p \in D
             /\ outside # {} => p \in outside
             /\ named # {} => p \in named
             /\ named = {} /\ defining # {} => p \in defining
  <1> DEFINE p == Primary(fs, defining)
             named == {f \in D : Last(f) = TargetFile}
             outside == {f \in named : ~InLib(f)}
  <1>1. Matches(fs) = named /\ NonLib(fs) = outside
    BY DEF Matches, NonLib
  <1>2. \A S : (\E f \in D : f \in S) => FirstIn(fs, S) \in S /\ FirstIn(fs, S) \in D
    BY FirstInPicks
  <1>3. CASE outside # {}
    <2>1. p = FirstIn(fs, outside)
      BY <1>1, <1>3 DEF Primary
    <2>2. p \in outside
      BY <1>2, <1>3, <2>1
    <2> QED
      BY <2>2
  <1>4. CASE outside = {} /\ named # {}
    <2>1. p = FirstIn(fs, named)
      BY <1>1, <1>4 DEF Primary
    <2>2. p \in named
      BY <1>2, <1>4, <2>1
    <2> QED
      BY <1>4, <2>2
  <1>5. CASE named = {} /\ defining # {}
    <2>1. p = FirstIn(fs, defining)
      BY <1>1, <1>5 DEF Primary
    <2>2. p \in defining /\ p \in D
      BY <1>2, <1>5, <2>1
    <2> QED
      BY <1>5, <2>2
  <1>6. CASE named = {} /\ defining = {}
    <2>1. p = Head(fs)
      BY <1>1, <1>6 DEF Primary
    <2>2. p \in D
      BY <2>1, HeadTailProperties
    <2> QED
      BY <1>6, <2>2
  <1> QED
    BY <1>3, <1>4, <1>5, <1>6

(***************************************************************************)
(* The tree, from mkdtemp to rmtree                                        *)
(***************************************************************************)

Entries == [path : RelPaths \cup {<<TargetFile>>}, text : Texts]

Chosen ==
    /\ primary \in DOMAIN disk
    /\ LET named == {f \in DOMAIN disk : Last(f) = TargetFile}
           outside == {f \in named : ~InLib(f)}
           defining == {f \in DOMAIN disk : disk[f].defines}
       IN  /\ outside # {} => primary \in outside
           /\ named # {} => primary \in named
           /\ named = {} /\ defining # {} => primary \in defining

\* The files that are written are those on disk, in some order; the directory is
\* there from the first entry to the answer; and a file is chosen for Slither
\* once, and stays the right one until the answer.
TreeInv ==
    /\ made \in BOOLEAN
    /\ \A f \in DOMAIN disk : disk[f] \in Texts
    /\ todo \in Seq(Entries)
    /\ pc # "answered" => files \in Seq(DOMAIN disk) /\ Range(files) = DOMAIN disk
    /\ pc \in {"write", "analyze", "result"} => made
    /\ pc \in {"analyze", "result"} => Chosen
    /\ pc \in {"resolve", "fetch", "write"} => primary = << >>
    /\ pc = "answered" /\ primary # << >> => ~made

\* The variables that hold no tree and no result.
ScalarsOK ==
    /\ pc \in Working \cup {"resolve", "answered"}
    /\ status \in {0, 200, 404, 422, 500, 502}
    /\ fetched \in {Address, Impl, None}
    /\ compiled \in Texts \cup {NoText}

LEMMA InitTree == Init => TreeInv /\ ScalarsOK
  <1>1. << >> \in Seq(Entries) /\ << >> \in Seq({}) /\ DOMAIN << >> = {} /\ Range(<< >>) = {}
    BY EmptySeq DEF Range
  <1> QED
    BY <1>1 DEF Init, TreeInv, ScalarsOK, Working

\* The source maps of the explorer are lists of entries.
LEMMA SourceMapType ==
  ASSUME NEW m \in SourceMaps \cup {FlatSource}
  PROVE  m \in Seq(Entries)
  <1>1. CASE m \in SourceMaps
    <2>1. PICK n \in 0..MaxFiles : m \in [1..n -> [path : RelPaths, text : Texts]]
      BY <1>1 DEF SourceMaps
    <2>2. n \in Nat /\ [path : RelPaths, text : Texts] \subseteq Entries
      BY BoundsAssumption DEF Entries
    <2>3. m \in Seq([path : RelPaths, text : Texts])
      <3> DEFINE T == [path : RelPaths, text : Texts]
      <3>1. n \in Nat /\ m \in [1..n -> T]
        BY <2>1, <2>2
      <3> HIDE DEF T
      <3>2. m \in UNION {[1..k -> T] : k \in Nat}
        BY <3>1
      <3>3. m \in Seq(T)
        BY <3>2, SeqDef
      <3> QED
        BY <3>3 DEF T
    <2> QED
      BY <2>2, <2>3, SeqMonotonic
  <1>2. CASE m = FlatSource
    <2>1. [path |-> <<TargetFile>>, text |-> [n |-> 1, defines |-> TRUE]] \in Entries
      BY BoundsAssumption DEF Entries, Texts
    <2> QED
      BY <1>2, <2>1 DEF FlatSource
  <1> QED
    BY <1>1, <1>2

\* Writing a file adds it to the list and to the directory alike, whether or not
\* it replaces one.
LEMMA WriteTree ==
  ASSUME TreeInv, WriteFile
  PROVE  TreeInv'
  <1> DEFINE safe == Destination(Head(todo).path)
             D == DOMAIN disk
  <1>1. /\ pc = "write" /\ pc' = "write" /\ todo # << >> /\ made /\ made' = made
        /\ files' = Append(files, safe) /\ todo' = Tail(todo) /\ primary = << >>
        /\ disk' = [f \in D \cup {safe} |-> IF f = safe THEN Head(todo).text ELSE disk[f]]
        /\ primary' = primary
        /\ files \in Seq(D) /\ Range(files) = D /\ \A f \in D : disk[f] \in Texts
        /\ todo \in Seq(Entries)
    BY DEF WriteFile, TreeInv
  <1>2. Head(todo) \in Entries /\ todo' \in Seq(Entries)
    BY <1>1, HeadTailProperties
  <1>3. Head(todo).text \in Texts
    BY <1>2 DEF Entries
  <1> HIDE DEF safe, D
  <1>4. DOMAIN disk' = D \cup {safe} /\ \A f \in DOMAIN disk' : disk'[f] \in Texts
    BY <1>1, <1>3
  <1>5. files' \in Seq(D \cup {safe}) /\ Range(files') = D \cup {safe}
    <2>1. files \in Seq(D \cup {safe}) /\ safe \in D \cup {safe}
      BY <1>1, SeqMonotonic
    <2>2. /\ files' \in Seq(D \cup {safe}) /\ Len(files') = Len(files) + 1 /\ Len(files) \in Nat
          /\ \A i \in 1..Len(files) : files'[i] = files[i]
          /\ files'[Len(files) + 1] = safe
      BY <1>1, <2>1, AppendProperties
    <2>3. /\ Range(files) = {files[i] : i \in 1..Len(files)}
          /\ Range(files') = {files'[i] : i \in 1..Len(files')}
      BY <2>1, <2>2, RangeEquality
    <2>4. 1..Len(files') = 1..Len(files) \cup {Len(files) + 1}
      BY <2>2
    <2>5. Range(files') = Range(files) \cup {safe}
      BY <2>2, <2>3, <2>4
    <2> QED
      BY <1>1, <2>2, <2>5
  <1> QED
    BY <1>1, <1>2, <1>4, <1>5 DEF TreeInv

LEMMA PickTree ==
  ASSUME TreeInv, PickPrimary
  PROVE  TreeInv'
  <1> DEFINE D == DOMAIN disk
             defining == {f \in D : disk[f].defines}
             p == Primary(files, defining)
             named == {f \in D : Last(f) = TargetFile}
             outside == {f \in named : ~InLib(f)}
  <1>1. /\ pc = "write" /\ pc' = "analyze" /\ files # << >> /\ primary' = p
        /\ UNCHANGED <<todo, made, disk, files>>
        /\ files \in Seq(D) /\ Range(files) = D /\ made
    BY DEF PickPrimary, TreeInv, tree
  <1>2. /\ p \in D
        /\ outside # {} => p \in outside
        /\ named # {} => p \in named
        /\ named = {} /\ defining # {} => p \in defining
    BY <1>1, PrimaryPicks
  <1>3. Chosen'
    BY <1>1, <1>2 DEF Chosen
  <1> QED
    BY <1>1, <1>3 DEF TreeInv

LEMMA NextTree == CoreInv /\ TreeInv /\ ScalarsOK /\ [Next]_vars => TreeInv' /\ ScalarsOK'
  <1> SUFFICES ASSUME CoreInv, TreeInv, ScalarsOK, [Next]_vars PROVE TreeInv' /\ ScalarsOK'
    OBVIOUS
  <1>1. CASE NoApiKey \/ FetchFails \/ FetchRaises
    <2>1. /\ pc \in {"resolve", "fetch", "write"} /\ pc' = "answered" /\ status' \in {500, 502}
          /\ UNCHANGED <<todo, made, disk, primary, fetched, compiled>>
      BY <1>1 DEF NoApiKey, FetchFails, FetchRaises, Fail, Answer, tree
    <2> QED
      BY <2>1 DEF TreeInv, ScalarsOK
  <1>2. CASE AnalysisFails
    <2>1. /\ pc' = "answered" /\ status' = 422 /\ made' = FALSE /\ DOMAIN disk' = {}
          /\ UNCHANGED <<todo, fetched, compiled>>
      BY <1>2 DEF AnalysisFails, Fail, Answer, RemoveTree
    <2> QED
      BY <2>1 DEF TreeInv, ScalarsOK
  <1>3. ASSUME NEW i, AnswerDegraded(i), pc \in {"resolve", "fetch"}
        PROVE  TreeInv' /\ ScalarsOK'
    <2>1. /\ pc' = "answered" /\ status' = 200
          /\ UNCHANGED <<todo, made, disk, primary, fetched, compiled>>
      BY <1>3 DEF AnswerDegraded, Answer, tree
    <2> QED
      BY <1>3, <2>1 DEF TreeInv, ScalarsOK
  <1>4. CASE Resolve
    <2>1. pc = "resolve"
      BY <1>4 DEF Resolve
    <2>2. CASE ~info.state_read_ok \/ (info.is_proxy /\ ~CleanlyResolved)
      BY <1>3, <1>4, <2>1, <2>2 DEF Resolve
    <2>3. CASE ~(~info.state_read_ok \/ (info.is_proxy /\ ~CleanlyResolved))
      <3>1. /\ pc' = "fetch" /\ UNCHANGED <<todo, made, disk, files, primary, status, compiled>>
            /\ fetched' = IF CleanlyResolved THEN info.implementation_address ELSE Address
        BY <1>4, <2>3 DEF Resolve, tree
      <3>2. fetched' \in {Address, Impl, None}
        BY <3>1 DEF CoreInv, WayInv, ProxyInfos
      <3> QED
        BY <2>1, <3>1, <3>2 DEF TreeInv, ScalarsOK, Working
    <2> QED
      BY <2>2, <2>3
  <1>5. CASE NotVerified
    <2>1. pc = "fetch"
      BY <1>5 DEF NotVerified
    <2>2. CASE AnswerDegraded([info EXCEPT !.note = TRUE])
      BY <1>3, <2>1, <2>2
    <2>3. CASE Fail(404) /\ UNCHANGED tree
      <3>1. /\ pc' = "answered" /\ status' = 404
            /\ UNCHANGED <<todo, made, disk, primary, fetched, compiled>>
        BY <2>3 DEF Fail, Answer, tree
      <3> QED
        BY <2>1, <3>1 DEF TreeInv, ScalarsOK
    <2> QED
      BY <1>5, <2>2, <2>3 DEF NotVerified
  <1>6. CASE Fetch
    <2>1. /\ pc = "fetch" /\ pc' = "write" /\ made' = TRUE
          /\ todo' \in SourceMaps \cup {FlatSource}
          /\ UNCHANGED <<disk, files, primary, status, fetched, compiled>>
      BY <1>6 DEF Fetch
    <2>2. todo' \in Seq(Entries)
      BY <2>1, SourceMapType
    <2> QED
      BY <2>1, <2>2 DEF TreeInv, ScalarsOK, Working
  <1>7. CASE WriteFile
    BY <1>7, WriteTree DEF WriteFile, ScalarsOK
  <1>8. CASE PickPrimary
    BY <1>8, PickTree DEF PickPrimary, ScalarsOK, Working
  <1>9. CASE Analyze
    <2>1. /\ pc = "analyze" /\ pc' = "result" /\ compiled' = disk[primary]
          /\ UNCHANGED <<todo, made, disk, files, primary, status, fetched>>
      BY <1>9 DEF Analyze, tree
    <2>2. compiled' \in Texts /\ Chosen /\ Chosen'
      BY <2>1 DEF TreeInv, Chosen
    <2> QED
      BY <2>1, <2>2 DEF TreeInv, ScalarsOK, Working
  <1>10. CASE Complete
    <2>1. /\ pc' = "answered" /\ status' = 200 /\ made' = FALSE /\ DOMAIN disk' = {}
          /\ UNCHANGED <<todo, fetched, compiled>>
      BY <1>10 DEF Complete, Answer, RemoveTree
    <2> QED
      BY <2>1 DEF TreeInv, ScalarsOK
  <1>11. CASE UNCHANGED vars
    BY <1>11 DEF vars, tree, TreeInv, ScalarsOK, Chosen
  <1> QED
    BY <1>1, <1>2, <1>4, <1>5, <1>6, <1>7, <1>8, <1>9, <1>10, <1>11 DEF Next

(***************************************************************************)
(* The result, from the report to the answer                               *)
(***************************************************************************)

\* A score depends on the counts only.
LEMMA ScoreByCounts ==
  ASSUME NEW s, NEW t, \A k : CountOf(s, k) = CountOf(t, k)
  PROVE  Score(s) = Score(t)
  BY DEF Score, Raw

\* Putting one finding first moves the others by one place.
LEMMA ShiftedNumber ==
  ASSUME NEW n \in Nat, NEW S \in SUBSET (1..n), NEW T \in SUBSET (1..(n + 1)),
         \A j \in 1..(n + 1) : j \in T <=> j # 1 /\ j - 1 \in S
  PROVE  /\ IsFiniteSet(S) /\ IsFiniteSet(T) /\ 1 \notin T
         /\ Cardinality(S) \in Nat /\ Cardinality(T) = Cardinality(S)
  <1> DEFINE q == [k \in S |-> k + 1]
  <1>1. \A k \in S : k + 1 \in T /\ k \in Nat
    OBVIOUS
  <1>2. q \in [S -> T]
    BY <1>1
  <1>3. q \in Injection(S, T)
    BY <1>1, <1>2 DEF Injection, IsInjective
  <1>4. q \in Surjection(S, T)
    <2>1. ASSUME NEW t \in T PROVE \E k \in S : q[k] = t
      <3>1. t - 1 \in S /\ (t - 1) + 1 = t
        OBVIOUS
      <3> QED
        BY <3>1
    <2> QED
      BY <1>2, <2>1 DEF Surjection
  <1>5. ExistsBijection(S, T)
    BY <1>3, <1>4 DEF ExistsBijection, Bijection
  <1>6. IsFiniteSet(S)
    <2>1. IsFiniteSet(1..n)
      BY FS_Interval
    <2> QED
      BY <2>1, FS_Subset
  <1>7. 1 \notin T
    OBVIOUS
  <1> QED
    BY <1>5, <1>6, <1>7, FS_Bijection, FS_CardinalityType

\* The findings that Slither reported, n of them from place first on: each is one
\* of the report, in the order of the sort.
Listed(found, first, n) ==
    /\ n \in 0..MaxFindings /\ first \in {1, 2}
    /\ found \in Seq(Finding) /\ DOMAIN found = 1..(n + first - 1)
    /\ \A i \in first..(n + first - 1) : found[i].id # 0 /\ found[i].impact \in Impacts
    /\ \A i, j \in first..(n + first - 1) :
          i < j => \/ Rank(found[i].impact) < Rank(found[j].impact)
                   \/ /\ Rank(found[i].impact) = Rank(found[j].impact)
                      /\ found[i].id < found[j].id

\* The score is that of the findings that Slither reported.
ScoredByOwn(r, own) ==
    LET with(k) == {i \in own : r.findings[i].impact = k}
    IN  r.risk_score = Score([k \in Impacts |-> Cardinality(with(k))])

\* A result about code that was analyzed; first is 2 when the standing finding
\* is in front.
Analyzed(r, first) ==
    \E n \in 0..MaxFindings :
        LET own == first..(n + first - 1) IN
        /\ Listed(r.findings, first, n)
        /\ first = 2 => r.findings[1] = [id |-> 0, impact |-> "Low"]
        /\ ScoredByOwn(r, own)
        /\ \A k : CountOf(r.summary, k)
                    = Cardinality({i \in DOMAIN r.findings : r.findings[i].impact = k})
        /\ \A k \in DOMAIN r.summary : r.summary[k] \in Nat \ {0}
        /\ r.risk_score \in 0..100 /\ r.verdict = Verdict(r.risk_score)

LEMMA VerdictType ==
  ASSUME NEW n \in Nat
  PROVE  Verdict(n) \in {"DANGEROUS", "RISKY", "CAUTION", "CLEAN"}
  BY DEF Verdict

\* _normalize returns such a result, without a standing finding.
LEMMA PlainAnalyzed ==
  ASSUME NEW n \in 0..MaxFindings, NEW impacts \in [1..n -> Impacts]
  PROVE  LET r == Normalize(impacts, Address)
         IN  Analyzed(r, 1) /\ r.proxy = {} /\ r # NoResult
  <1> DEFINE r == Normalize(impacts, Address)
             found == r.findings
             own == 1..(n + 1 - 1)
             with(k) == {i \in own : found[i].impact = k}
             counts == [k \in Impacts |-> Cardinality(with(k))]
  <1>1. n \in Nat /\ IsReport(impacts, n) /\ own = 1..n
    BY BoundsAssumption DEF IsReport
  <1>2. Accounts(r, impacts, n)
    BY <1>1, NormalizeAgrees
  <1>3. r.proxy = {}
    BY DEF Normalize
  <1> HIDE DEF r
  <1>4. PICK p \in Bijection(1..n, 1..n) :
           found = [k \in 1..n |-> [id |-> p[k], impact |-> impacts[p[k]]]]
    BY <1>2 DEF Accounts
  <1>5. \A k \in 1..n : p[k] \in 1..n /\ impacts[p[k]] \in Impacts
    BY DEF Bijection, Injection
  <1>6. \A k \in 1..n : found[k] \in Finding /\ found[k].id # 0 /\ found[k].impact \in Impacts
    <2>1. ASSUME NEW k \in 1..n PROVE found[k] = [id |-> p[k], impact |-> impacts[p[k]]]
      BY <1>4
    <2>2. ASSUME NEW k \in 1..n PROVE p[k] \in 0..MaxFindings /\ p[k] # 0
      BY <1>1, <1>5, BoundsAssumption
    <2> HIDE DEF found
    <2>3. ASSUME NEW k \in 1..n
          PROVE  found[k] \in Finding /\ found[k].id # 0 /\ found[k].impact \in Impacts
      <3>1. found[k] = [id |-> p[k], impact |-> impacts[p[k]]]
        BY <2>1
      <3>2. p[k] \in 0..MaxFindings /\ p[k] # 0 /\ impacts[p[k]] \in Impacts
        BY <1>5, <2>2
      <3> QED
        BY <3>1, <3>2 DEF Finding
    <2> QED
      BY <2>3
  <1>7. found \in Seq(Finding) /\ DOMAIN found = 1..n
    <2>1. found \in [1..n -> Finding] /\ DOMAIN found = 1..n
      BY <1>4, <1>6
    <2>2. found \in UNION {[1..k -> Finding] : k \in Nat}
      BY <1>1, <2>1
    <2> QED
      BY <2>1, <2>2, SeqDef
  <1> HIDE DEF found
  <1>8. Listed(found, 1, n)
    BY <1>1, <1>2, <1>6, <1>7 DEF Listed, Accounts, found
  <1>9. ScoredByOwn(r, own)
    <2>1. ASSUME NEW k PROVE CountOf(r.summary, k) = CountOf(counts, k)
      <3>1. CountOf(r.summary, k) = Cardinality(with(k))
        <4>1. \A x : CountOf(r.summary, x) = Cardinality({i \in 1..n : r.findings[i].impact = x})
          BY <1>2 DEF Accounts
        <4>2. with(k) = {i \in 1..n : r.findings[i].impact = k}
          BY <1>1 DEF found
        <4> HIDE DEF with
        <4> QED
          BY <4>1, <4>2
      <3>2. k \notin Impacts => with(k) = {}
        BY <1>1, <1>6
      <3>3. DOMAIN counts = Impacts /\ (k \in Impacts => counts[k] = Cardinality(with(k)))
        OBVIOUS
      <3> HIDE DEF with, counts
      <3> QED
        BY <3>1, <3>2, <3>3, FS_EmptySet DEF CountOf
    <2> HIDE DEF counts
    <2>2. Score(r.summary) = Score(counts)
      BY <2>1, ScoreByCounts
    <2> QED
      BY <1>2, <2>2 DEF ScoredByOwn, counts, found, Accounts
  <1>10. r.risk_score \in 0..100 /\ r.verdict = Verdict(r.risk_score)
    <2>1. /\ IsSummary(r.summary) /\ r.risk_score = Score(r.summary)
          /\ r.verdict = Verdict(r.risk_score)
      BY <1>2 DEF Accounts
    <2>2. Score(r.summary) \in 0..100
      BY <2>1, ScoreInRange
    <2> QED
      BY <2>1, <2>2
  <1>11. Analyzed(r, 1)
    <2>1. /\ \A k : CountOf(r.summary, k)
                     = Cardinality({i \in DOMAIN r.findings : r.findings[i].impact = k})
          /\ \A k \in DOMAIN r.summary : r.summary[k] \in Nat \ {0}
      BY <1>2, <1>7 DEF Accounts, found
    <2>2. Listed(r.findings, 1, n)
      BY <1>8 DEF found
    <2> HIDE DEF own
    <2> QED
      BY <1>9, <1>10, <2>1, <2>2 DEF Analyzed, own
  <1>12. r # NoResult
    <2>1. "risk_score" \in DOMAIN r /\ "risk_score" \notin DOMAIN NoResult
      BY DEF r, Normalize, NoResult
    <2> QED
      BY <2>1
  <1> QED
    BY <1>3, <1>11, <1>12 DEF r

\* The standing finding is counted, and changes neither the others nor the score.
LEMMA StandingAnalyzed ==
  ASSUME NEW r, Analyzed(r, 1), NEW i
  PROVE  LET s == WithStandingFinding(r, i)
         IN  Analyzed(s, 2) /\ s.proxy = {i} /\ s # NoResult
  <1> DEFINE s == WithStandingFinding(r, i)
             found == r.findings
             standing == [id |-> 0, impact |-> "Low"]
             all == s.findings
  <1>1. /\ all = <<standing>> \o found /\ s.proxy = {i} /\ s.summary = LowsPlusOne(r.summary)
        /\ s.risk_score = r.risk_score /\ s.verdict = r.verdict
    BY DEF WithStandingFinding
  <1>2. s # NoResult
    <2>1. "risk_score" \in DOMAIN s /\ "risk_score" \notin DOMAIN NoResult
      BY DEF WithStandingFinding, NoResult
    <2> QED
      BY <2>1
  <1>3. PICK n \in 0..MaxFindings :
           /\ Listed(found, 1, n)
           /\ ScoredByOwn(r, 1..(n + 1 - 1))
           /\ \A k : CountOf(r.summary, k) = Cardinality({j \in DOMAIN found : found[j].impact = k})
           /\ \A k \in DOMAIN r.summary : r.summary[k] \in Nat \ {0}
           /\ r.risk_score \in 0..100 /\ r.verdict = Verdict(r.risk_score)
    BY DEF Analyzed
  <1> HIDE DEF s, found
  <1>4. /\ n \in Nat /\ found \in Seq(Finding) /\ DOMAIN found = 1..n /\ Len(found) = n
        /\ \A j \in 1..n : found[j].id # 0 /\ found[j].impact \in Impacts
    <2>1. n \in Nat /\ found \in Seq(Finding) /\ DOMAIN found = 1..n
          /\ \A j \in 1..n : found[j].id # 0 /\ found[j].impact \in Impacts
      BY <1>3, BoundsAssumption DEF Listed
    <2>2. Len(found) \in Nat /\ 1..Len(found) = 1..n
      BY <2>1, LenProperties
    <2> QED
      BY <2>1, <2>2
  <1>5. standing \in Finding
    BY BoundsAssumption DEF Finding
  <1>6. /\ all \in Seq(Finding) /\ DOMAIN all = 1..(n + 1) /\ all[1] = standing
        /\ \A j \in 2..(n + 1) : j - 1 \in 1..n /\ all[j] = found[j - 1]
    <2>1. <<standing>> \in Seq(Finding) /\ Len(<<standing>>) = 1 /\ <<standing>>[1] = standing
      BY <1>5
    <2> HIDE DEF standing
    <2> DEFINE one == <<standing>>
    <2>2. one \in Seq(Finding) /\ Len(one) = 1 /\ one[1] = standing /\ all = one \o found
      BY <1>1, <2>1
    <2> HIDE DEF one, all
    <2>3. /\ all \in Seq(Finding) /\ Len(all) = 1 + n
          /\ \A j \in 1..(1 + n) : all[j] = IF j <= 1 THEN one[j] ELSE found[j - 1]
      <3>1. /\ one \o found \in Seq(Finding) /\ Len(one \o found) = Len(one) + Len(found)
            /\ \A j \in 1..(Len(one) + Len(found)) :
                  (one \o found)[j] = IF j <= Len(one) THEN one[j] ELSE found[j - Len(one)]
        BY <1>4, <2>2, ConcatProperties
      <3> QED
        BY <1>4, <2>2, <3>1
    <2>4. DOMAIN all = 1..(n + 1)
      BY <1>4, <2>3, LenProperties
    <2> QED
      BY <1>4, <2>2, <2>3, <2>4
  <1> HIDE DEF all
  <1>7. Listed(all, 2, n)
    <2>1. ASSUME NEW j \in 2..(n + 1) PROVE all[j].id # 0 /\ all[j].impact \in Impacts
      BY <1>4, <1>6
    <2>2. ASSUME NEW j \in 2..(n + 1), NEW k \in 2..(n + 1), j < k
          PROVE  \/ Rank(all[j].impact) < Rank(all[k].impact)
                 \/ /\ Rank(all[j].impact) = Rank(all[k].impact)
                    /\ all[j].id < all[k].id
      <3>1. /\ j - 1 \in 1..n /\ k - 1 \in 1..n /\ j - 1 < k - 1
            /\ all[j] = found[j - 1] /\ all[k] = found[k - 1]
        BY <1>4, <1>6, <2>2
      <3>2. \A a, b \in 1..n : a < b =>
               \/ Rank(found[a].impact) < Rank(found[b].impact)
               \/ /\ Rank(found[a].impact) = Rank(found[b].impact)
                  /\ found[a].id < found[b].id
        <4>1. 1..(n + 1 - 1) = 1..n
          BY <1>4
        <4> QED
          BY <1>3, <4>1 DEF Listed
      <3> QED
        BY <3>1, <3>2
    <2>3. n + 2 - 1 = n + 1
      BY <1>4
    <2> QED
      BY <1>3, <1>6, <2>1, <2>2, <2>3 DEF Listed
  <1>8. ASSUME NEW k
        PROVE  LET S == {j \in 1..n : found[j].impact = k}
                   T == {j \in 2..(n + 1) : all[j].impact = k}
               IN  /\ IsFiniteSet(S) /\ IsFiniteSet(T) /\ 1 \notin T
                   /\ Cardinality(S) \in Nat /\ Cardinality(T) = Cardinality(S)
    <2> DEFINE S == {j \in 1..n : found[j].impact = k}
               T == {j \in 2..(n + 1) : all[j].impact = k}
    <2>1. S \in SUBSET (1..n) /\ T \in SUBSET (1..(n + 1))
      BY <1>4
    <2>2. \A j \in 1..(n + 1) : j \in T <=> j # 1 /\ j - 1 \in S
      BY <1>4, <1>6
    <2> HIDE DEF S, T
    <2>3. n \in Nat
      BY <1>4
    <2>4. /\ IsFiniteSet(S) /\ IsFiniteSet(T) /\ 1 \notin T
          /\ Cardinality(S) \in Nat /\ Cardinality(T) = Cardinality(S)
      BY <2>1, <2>2, <2>3, ShiftedNumber
    <2> QED
      BY <2>4 DEF S, T
  <1>9. ScoredByOwn(s, 2..(n + 2 - 1))
    <2> DEFINE before(k) == {j \in 1..n : found[j].impact = k}
               after(k) == {j \in 2..(n + 1) : all[j].impact = k}
    <2>1. \A k : Cardinality(after(k)) = Cardinality(before(k))
      BY <1>8
    <2>2. r.risk_score = Score([k \in Impacts |-> Cardinality(before(k))])
      <3>1. 1..(n + 1 - 1) = 1..n
        BY <1>4
      <3> QED
        BY <1>3, <3>1 DEF ScoredByOwn, found
    <2>3. [k \in Impacts |-> Cardinality(after(k))] = [k \in Impacts |-> Cardinality(before(k))]
      <3> HIDE DEF before, after
      <3> QED
        BY <2>1
    <2>4. s.risk_score = Score([k \in Impacts |-> Cardinality(after(k))])
      <3> HIDE DEF before, after
      <3> QED
        BY <1>1, <2>2, <2>3
    <2>5. 2..(n + 2 - 1) = 2..(n + 1)
      BY <1>4
    <2> QED
      BY <2>4, <2>5 DEF ScoredByOwn, all
  <1>10. ASSUME NEW k
         PROVE  /\ CountOf(r.summary, k) \in Nat
                /\ CountOf(s.summary, k) = CountOf(r.summary, k) + IF k = "Low" THEN 1 ELSE 0
                /\ k \in DOMAIN s.summary => s.summary[k] \in Nat \ {0}
    <2>1. CountOf(r.summary, k) \in Nat
      BY <1>3 DEF CountOf
    <2> QED
      BY <1>1, <1>3, <2>1 DEF CountOf, LowsPlusOne
  <1>11. ASSUME NEW k
         PROVE  CountOf(s.summary, k) = Cardinality({j \in 1..(n + 1) : all[j].impact = k})
    <2> DEFINE S == {j \in 1..n : found[j].impact = k}
               T == {j \in 2..(n + 1) : all[j].impact = k}
               U == {j \in 1..(n + 1) : all[j].impact = k}
    <2>1. /\ IsFiniteSet(T) /\ 1 \notin T /\ Cardinality(S) \in Nat
          /\ Cardinality(T) = Cardinality(S)
      BY <1>8
    <2>2. CountOf(r.summary, k) = Cardinality(S)
      BY <1>3, <1>4
    <2>3. U = IF k = "Low" THEN T \cup {1} ELSE T
      <3>1. 1..(n + 1) = 2..(n + 1) \cup {1} /\ all[1].impact = "Low"
        BY <1>4, <1>6
      <3> QED
        BY <3>1
    <2> HIDE DEF S, T, U
    <2>4. Cardinality(T \cup {1}) = Cardinality(T) + 1
      BY <2>1, FS_AddElement
    <2>5. CountOf(s.summary, k) = Cardinality(U)
      BY <1>10, <2>1, <2>2, <2>3, <2>4
    <2> QED
      BY <2>5 DEF U
  <1>12. Analyzed(s, 2)
    <2>1. /\ Listed(s.findings, 2, n)
          /\ s.findings[1] = standing
          /\ \A k : CountOf(s.summary, k)
                     = Cardinality({j \in DOMAIN s.findings : s.findings[j].impact = k})
          /\ \A k \in DOMAIN s.summary : s.summary[k] \in Nat \ {0}
      BY <1>6, <1>7, <1>10, <1>11 DEF all
    <2>2. s.risk_score \in 0..100 /\ s.verdict = Verdict(s.risk_score)
      BY <1>1, <1>3
    <2> QED
      BY <1>9, <2>1, <2>2 DEF Analyzed
  <1> QED
    BY <1>1, <1>2, <1>12 DEF s

\* What the invariants say of such a result.
LEMMA AnalyzedResult ==
  ASSUME NEW r, NEW first \in {1, 2}, Analyzed(r, first)
  PROVE  LET own == {i \in DOMAIN r.findings : r.findings[i].id # 0}
         IN  /\ ResultTypeOK(r) /\ Consistent(r)
             /\ ScoredByOwn(r, own)
             /\ own # DOMAIN r.findings <=> first = 2
  <1> DEFINE found == r.findings
             own == {i \in DOMAIN found : found[i].id # 0}
  <1>1. PICK n \in 0..MaxFindings :
           /\ Listed(found, first, n)
           /\ first = 2 => found[1] = [id |-> 0, impact |-> "Low"]
           /\ ScoredByOwn(r, first..(n + first - 1))
           /\ \A k : CountOf(r.summary, k) = Cardinality({i \in DOMAIN found : found[i].impact = k})
           /\ \A k \in DOMAIN r.summary : r.summary[k] \in Nat \ {0}
           /\ r.risk_score \in 0..100 /\ r.verdict = Verdict(r.risk_score)
    BY DEF Analyzed
  <1> HIDE DEF found
  <1>2. /\ n \in Nat /\ found \in Seq(Finding) /\ DOMAIN found = 1..(n + first - 1)
        /\ \A i \in first..(n + first - 1) : found[i].id # 0
        /\ \A i, j \in first..(n + first - 1) :
              i < j => \/ Rank(found[i].impact) < Rank(found[j].impact)
                       \/ /\ Rank(found[i].impact) = Rank(found[j].impact)
                          /\ found[i].id < found[j].id
    BY <1>1, BoundsAssumption DEF Listed
  <1>3. own = first..(n + first - 1) /\ (own # DOMAIN found <=> first = 2)
    <2>1. CASE first = 1
      BY <1>2, <2>1
    <2>2. CASE first = 2
      <3>1. 1..(n + 1) = 2..(n + 1) \cup {1} /\ 1 \notin 2..(n + 1) /\ n + 2 - 1 = n + 1
        BY <1>2
      <3>2. found[1].id = 0
        BY <1>1, <2>2
      <3> QED
        BY <1>2, <2>2, <3>1, <3>2
    <2> QED
      BY <2>1, <2>2
  <1>4. ResultTypeOK(r)
    <2>1. r.risk_score \in 0..100 /\ r.verdict = Verdict(r.risk_score)
          /\ \A k \in DOMAIN r.summary : r.summary[k] \in Nat \ {0}
      BY <1>1
    <2>2. r.verdict \in {"DANGEROUS", "RISKY", "CAUTION", "CLEAN", "COULD NOT ANALYZE"}
      <3>1. r.risk_score \in Nat
        BY <2>1
      <3> QED
        BY <2>1, <3>1, VerdictType
    <2> QED
      BY <1>2, <2>1, <2>2 DEF ResultTypeOK, found
  <1>5. Consistent(r)
    <2>1. ASSUME NEW i \in DOMAIN found, NEW j \in DOMAIN found, i < j, found[i].id # 0
          PROVE  \/ Rank(found[i].impact) < Rank(found[j].impact)
                 \/ /\ Rank(found[i].impact) = Rank(found[j].impact)
                    /\ found[i].id < found[j].id
      <3>1. i \in own
        BY <2>1
      <3>2. i \in first..(n + first - 1) /\ j \in 1..(n + first - 1) /\ i < j
        BY <1>2, <1>3, <2>1, <3>1
      <3> HIDE DEF own
      <3>3. j \in first..(n + first - 1)
        BY <1>2, <3>2
      <3> QED
        BY <1>2, <3>2, <3>3
    <2>2. \A k : CountOf(r.summary, k)
                   = Cardinality({i \in DOMAIN r.findings : r.findings[i].impact = k})
      BY <1>1 DEF found
    <2> QED
      BY <2>1, <2>2 DEF Consistent, found
  <1>6. ScoredByOwn(r, own)
    BY <1>1, <1>3
  <1> QED
    BY <1>3, <1>4, <1>5, <1>6 DEF found

\* A degraded result counts its one finding too.
LEMMA DegradedResult ==
  ASSUME NEW i
  PROVE  LET r == DegradedProxyScan(i)
         IN  ResultTypeOK(r) /\ Consistent(r) /\ r # NoResult
  <1> DEFINE r == DegradedProxyScan(i)
             one == [id |-> 0, impact |-> "High"]
             sum == [High |-> 1]
  <1>1. /\ r.findings = <<one>> /\ r.summary = sum /\ r.risk_score = 55
        /\ r.verdict = "COULD NOT ANALYZE" /\ "findings" \in DOMAIN r
    BY DEF DegradedProxyScan
  <1>2. r # NoResult
    <2>1. "findings" \notin DOMAIN NoResult
      BY DEF NoResult
    <2> QED
      BY <1>1, <2>1
  <1>3. one \in Finding /\ one.impact = "High" /\ one.id = 0
    BY BoundsAssumption DEF Finding
  <1>4. DOMAIN sum = {"High"} /\ sum["High"] = 1
    OBVIOUS
  <1> HIDE DEF r, one, sum
  <1>5. /\ r.findings \in Seq(Finding) /\ DOMAIN r.findings = {1}
        /\ r.findings[1] = one
    <2>1. <<one>> \in Seq(Finding) /\ DOMAIN <<one>> = {1} /\ <<one>>[1] = one
      BY <1>3
    <2> QED
      BY <1>1, <2>1
  <1>6. \A k \in DOMAIN r.summary : r.summary[k] \in Nat \ {0}
    <2>1. 1 \in Nat \ {0}
      OBVIOUS
    <2>2. r.summary = sum
      BY <1>1
    <2> QED
      BY <1>4, <2>1, <2>2
  <1>7. ResultTypeOK(r)
    <2>1. r.risk_score \in 0..100
      <3>1. r.risk_score = 55
        BY <1>1
      <3> QED
        BY <3>1
    <2>2. r.verdict \in {"DANGEROUS", "RISKY", "CAUTION", "CLEAN", "COULD NOT ANALYZE"}
      BY <1>1
    <2> QED
      BY <1>5, <1>6, <2>1, <2>2 DEF ResultTypeOK
  <1>8. ASSUME NEW k
        PROVE  CountOf(r.summary, k) = Cardinality({j \in DOMAIN r.findings : r.findings[j].impact = k})
    <2> DEFINE with == {j \in DOMAIN r.findings : r.findings[j].impact = k}
    <2>1. with = IF k = "High" THEN {1} ELSE {}
      BY <1>3, <1>5
    <2>2. CountOf(r.summary, k) = IF k = "High" THEN 1 ELSE 0
      BY <1>1, <1>4 DEF CountOf
    <2> HIDE DEF with
    <2>3. Cardinality({1}) = 1 /\ Cardinality({}) = 0
      BY FS_Singleton, FS_EmptySet
    <2>4. CountOf(r.summary, k) = Cardinality(with)
      BY <2>1, <2>2, <2>3
    <2> QED
      BY <2>4 DEF with
  <1>9. \A j, k \in DOMAIN r.findings : ~ (j < k)
    BY <1>5
  <1>10. Consistent(r)
    BY <1>8, <1>9 DEF Consistent
  <1> QED
    BY <1>2, <1>7, <1>10 DEF r

\* There is no result before the analysis, Slither's between it and the answer,
\* and in an answer one that has the standing finding exactly for a proxy.
ResultInv ==
    /\ pc \in {"resolve", "fetch", "write", "analyze"} => result = NoResult
    /\ pc = "result" => Analyzed(result, 1)
    /\ result # NoResult => ResultTypeOK(result) /\ Consistent(result)
    /\ StandingNeutral

LEMMA InitResult == Init => ResultInv
  BY DEF Init, ResultInv, StandingNeutral

LEMMA CompleteResult ==
  ASSUME CoreInv, ResultInv, Complete
  PROVE  ResultInv'
  <1>1. pc = "result" /\ pc' = "answered" /\ Analyzed(result, 1)
    BY DEF Complete, Answer, ResultInv
  <1>2. info \in ProxyInfos /\ (info.is_proxy <=> CleanlyResolved)
    BY <1>1 DEF CoreInv, WayInv, Working
  <1>3. \E first \in {1, 2} :
           /\ Analyzed(result', first)
           /\ info'.is_proxy <=> first = 2
    <2>1. CASE CleanlyResolved
      <3>1. /\ info' = [info EXCEPT !.implementation_scanned = TRUE]
            /\ result' = WithStandingFinding(result, info')
        BY <2>1 DEF Complete
      <3>2. info'.is_proxy
        BY <1>2, <2>1, <3>1 DEF ProxyInfos
      <3>3. Analyzed(result', 2)
        BY <1>1, <3>1, StandingAnalyzed
      <3> QED
        BY <3>2, <3>3
    <2>2. CASE ~CleanlyResolved
      <3>1. info' = info /\ result' = result
        BY <2>2 DEF Complete
      <3> QED
        BY <1>1, <1>2, <2>2, <3>1
    <2> QED
      BY <2>1, <2>2
  <1>4. PICK first \in {1, 2} : Analyzed(result', first) /\ (info'.is_proxy <=> first = 2)
    BY <1>3
  <1> DEFINE own == {i \in DOMAIN result'.findings : result'.findings[i].id # 0}
  <1>5. /\ ResultTypeOK(result') /\ Consistent(result') /\ ScoredByOwn(result', own)
        /\ own # DOMAIN result'.findings <=> first = 2
    BY <1>4, AnalyzedResult
  <1>6. StandingNeutral'
    BY <1>4, <1>5 DEF StandingNeutral, ScoredByOwn
  <1> QED
    BY <1>1, <1>5, <1>6 DEF ResultInv

LEMMA NextResult == CoreInv /\ ResultInv /\ [Next]_vars => ResultInv'
  <1> SUFFICES ASSUME CoreInv, ResultInv, [Next]_vars PROVE ResultInv'
    OBVIOUS
  <1>1. ASSUME NEW code, Fail(code), code # 200 PROVE ResultInv'
    <2>1. pc' = "answered" /\ result' = result /\ status' # 200
      BY <1>1 DEF Fail, Answer
    <2> QED
      BY <2>1 DEF ResultInv, StandingNeutral
  <1>2. CASE NoApiKey \/ FetchFails \/ FetchRaises \/ AnalysisFails
    BY <1>1, <1>2 DEF NoApiKey, FetchFails, FetchRaises, AnalysisFails
  <1>3. ASSUME NEW i, AnswerDegraded(i),
               ~i.state_read_ok \/ (i.is_proxy /\ ~i.implementation_scanned)
        PROVE  ResultInv'
    <2>1. pc' = "answered" /\ result' = DegradedProxyScan(i)
      BY <1>3 DEF AnswerDegraded, Answer
    <2>2. DegradedScan(result')
      BY <1>3, <2>1 DEF DegradedScan, DegradedProxyScan
    <2> QED
      BY <2>1, <2>2, DegradedResult DEF ResultInv, StandingNeutral
  <1>4. CASE Resolve
    <2>1. pc = "resolve" /\ info \in Infos
      BY <1>4 DEF Resolve, CoreInv, WayInv
    <2>2. CASE ~info.state_read_ok \/ (info.is_proxy /\ ~CleanlyResolved)
      BY <1>3, <1>4, <2>1, <2>2, InfosType DEF Resolve
    <2>3. CASE ~(~info.state_read_ok \/ (info.is_proxy /\ ~CleanlyResolved))
      <3>1. pc' = "fetch" /\ UNCHANGED <<result, status>>
        BY <1>4, <2>3 DEF Resolve
      <3> QED
        BY <2>1, <3>1 DEF ResultInv, StandingNeutral, CoreInv, WayInv
    <2> QED
      BY <2>2, <2>3
  <1>5. CASE NotVerified
    <2>1. pc = "fetch" /\ info \in Infos /\ info \in ProxyInfos
      BY <1>5, InfosType DEF NotVerified, CoreInv, WayInv
    <2>2. CASE CleanlyResolved /\ AnswerDegraded([info EXCEPT !.note = TRUE])
      <3> DEFINE i == [info EXCEPT !.note = TRUE]
      <3>1. i.is_proxy /\ ~i.implementation_scanned
        BY <2>1, <2>2, InfosType DEF ProxyInfos, CleanlyResolved
      <3> QED
        BY <1>3, <2>2, <3>1
    <2>3. CASE Fail(404)
      BY <1>1, <2>3
    <2> QED
      BY <1>5, <2>2, <2>3 DEF NotVerified
  <1>6. CASE Fetch \/ WriteFile \/ PickPrimary
    <2>1. /\ pc \in {"fetch", "write"} /\ pc' \in {"write", "analyze"}
          /\ result' = result /\ status' = status
      BY <1>6 DEF Fetch, WriteFile, PickPrimary
    <2> QED
      BY <2>1 DEF ResultInv, StandingNeutral, CoreInv, WayInv
  <1>7. CASE Analyze
    <2>1. /\ pc = "analyze" /\ pc' = "result" /\ status' = status
      BY <1>7 DEF Analyze
    <2>2. PICK n \in 0..MaxFindings : \E impacts \in [1..n -> Impacts] :
             result' = Normalize(impacts, Address)
      BY <1>7 DEF Analyze
    <2>3. Analyzed(result', 1)
      BY <2>2, PlainAnalyzed
    <2>4. ResultTypeOK(result') /\ Consistent(result')
      BY <2>3, AnalyzedResult
    <2> QED
      BY <2>1, <2>3, <2>4 DEF ResultInv, StandingNeutral, CoreInv, WayInv
  <1>8. CASE Complete
    BY <1>8, CompleteResult
  <1>9. CASE UNCHANGED vars
    BY <1>9 DEF vars, tree, ResultInv, StandingNeutral
  <1> QED
    BY <1>2, <1>4, <1>5, <1>6, <1>7, <1>8, <1>9 DEF Next

\* The inductive invariant of the whole scan.
ScanInv == CoreInv /\ TreeInv /\ ScalarsOK /\ ResultInv

LEMMA ScanInvHolds == Spec => []ScanInv
  <1>1. Init => ScanInv
    BY InitCore, InitTree, InitResult DEF ScanInv
  <1>2. ScanInv /\ [Next]_vars => ScanInv'
    BY NextCore, NextTree, NextResult DEF ScanInv
  <1> QED
    BY <1>1, <1>2, PTL DEF Spec

\* Every variable has its type; a score that ScanResult refuses (risk_score, le=100)
\* is never produced.
THEOREM TypeCorrect == Spec => []TypeOK
  <1>1. ScanInv => TypeOK
    BY DEF ScanInv, CoreInv, WayInv, TreeInv, ScalarsOK, ResultInv, TypeOK, Working,
           SourceIsCompiled
  <1> QED
    BY <1>1, ScanInvHolds, PTL

\* Slither and the reader of the source find the tree and the file they are given,
\* and once fetch_sources has returned, every way out removes the tree.
THEOREM TreeWhileNeededHolds == Spec => []TreeWhileNeeded
  <1>1. ScanInv => TreeWhileNeeded
    BY DEF ScanInv, TreeInv, Chosen, TreeWhileNeeded
  <1> QED
    BY <1>1, ScanInvHolds, PTL

\* Whatever files the explorer sends, in whatever order, with whatever names, texts
\* and collisions, _pick_primary keeps to its order of preference: a name outside
\* lib, a name, a definition.
THEOREM PrimaryChosenHolds == Spec => []PrimaryChosen
  <1>1. ScanInv => PrimaryChosen
    BY DEF ScanInv, TreeInv, Chosen, PrimaryChosen
  <1> QED
    BY <1>1, ScanInvHolds, PTL

\* A result counts what it lists and lists it in order, for reports of any length
\* with any impacts.
THEOREM FindingsConsistentHolds == Spec => []FindingsConsistent
  <1>1. ScanInv => FindingsConsistent
    BY DEF ScanInv, ResultInv, FindingsConsistent
  <1> QED
    BY <1>1, ScanInvHolds, PTL

\* Being behind a proxy costs a clean implementation nothing in its score.
THEOREM StandingNeutralHolds == Spec => []StandingNeutral
  <1>1. ScanInv => StandingNeutral
    BY DEF ScanInv, ResultInv
  <1> QED
    BY <1>1, ScanInvHolds, PTL

(***************************************************************************)
(* The scan implements ScanOutcome                                         *)
(***************************************************************************)

\* A step of the scan that changes what it has come to.
LEMMA Moves ==
  ASSUME NEW place, NEW known, Stage' = place, OutcomeSoFar' = known
  PROVE  Outcome!To(Address, place, known)
  BY DEF Outcome!To

\* And one that does not.
LEMMA Stays ==
  ASSUME Stage' = Stage, OutcomeSoFar' = OutcomeSoFar
  PROVE  UNCHANGED Outcome!vars
  BY DEF Outcome!vars

LEMMA InitOutcome == Init => Outcome!Init
  <1> SUFFICES ASSUME Init PROVE Outcome!Init
    OBVIOUS
  <1>1. Stage = "resolve" /\ OutcomeSoFar = "none"
    BY DEF Init, Stage, OutcomeSoFar
  <1> QED
    BY <1>1 DEF Outcome!Init

\* An error: the scan is over and has come to nothing.
LEMMA FailOutcome ==
  ASSUME NEW code, Fail(code), code # 200, pc # "answered"
  PROVE  Outcome!Leave(Address)
  <1>1. Stage # "away" /\ Stage' = "away" /\ OutcomeSoFar' = "none"
    BY DEF Fail, Answer, Stage, OutcomeSoFar
  <1> QED
    BY <1>1, Moves DEF Outcome!Leave

\* A degraded result is one wherever it comes from.
LEMMA DegradedOutcome ==
  ASSUME NEW i, AnswerDegraded(i), ~i.state_read_ok \/ (i.is_proxy /\ ~i.implementation_scanned)
  PROVE  Outcome!To(Address, "done", "degraded")
  <1>1. pc' = "answered" /\ status' = 200 /\ DegradedScan(result')
    BY DEF AnswerDegraded, Answer, DegradedScan, DegradedProxyScan
  <1>2. Stage' = "done"
    BY <1>1 DEF Stage
  <1>3. OutcomeSoFar' = "degraded"
    BY <1>1, <1>2 DEF OutcomeSoFar
  <1> QED
    BY <1>2, <1>3, Moves

\* The answer speaks of a proxy exactly when the contract is one.
LEMMA CompleteOutcome ==
  ASSUME CoreInv, Complete
  PROVE  Outcome!Analyze(Address)
  <1>1. /\ pc = "result" /\ pc' = "answered" /\ status' = 200 /\ result.proxy = {}
        /\ info \in ProxyInfos /\ info.state_read_ok /\ (info.is_proxy <=> CleanlyResolved)
    BY DEF CoreInv, WayInv, Working, NamedByResolve, Complete, Answer
  <1>2. Stage = "analyze" /\ Stage' = "done"
    BY <1>1 DEF Stage
  <1>3. ~DegradedScan(result') /\ ((\E p \in result'.proxy : p.is_proxy) <=> info.is_proxy)
    <2>1. CASE CleanlyResolved
      <3>1. /\ info' = [info EXCEPT !.implementation_scanned = TRUE]
            /\ result' = WithStandingFinding(result, info')
        BY <2>1 DEF Complete
      <3>2. info'.implementation_scanned /\ info'.state_read_ok /\ info'.is_proxy
        BY <1>1, <2>1, <3>1 DEF ProxyInfos
      <3>3. result'.proxy = {info'}
        BY <3>1 DEF WithStandingFinding
      <3> QED
        BY <1>1, <2>1, <3>2, <3>3 DEF DegradedScan
    <2>2. CASE ~CleanlyResolved
      BY <1>1, <2>2 DEF Complete, DegradedScan
    <2> QED
      BY <2>1, <2>2
  <1>4. OutcomeSoFar' = OutcomeSoFar
    BY <1>2, <1>3 DEF OutcomeSoFar
  <1> QED
    BY <1>2, <1>4, Moves DEF Outcome!Analyze

LEMMA NextOutcome == CoreInv /\ [Next]_vars => [Outcome!Next]_(Outcome!vars)
  <1> SUFFICES ASSUME CoreInv, [Next]_vars PROVE [Outcome!Next]_(Outcome!vars)
    OBVIOUS
  <1>1. CASE NoApiKey \/ FetchFails \/ FetchRaises \/ AnalysisFails
    <2>1. Outcome!Leave(Address)
      BY <1>1, FailOutcome DEF NoApiKey, FetchFails, FetchRaises, AnalysisFails
    <2> QED
      BY <2>1 DEF Outcome!Next
  <1>2. CASE Resolve
    <2>1. pc = "resolve" /\ info \in Infos /\ Stage = "resolve"
      BY <1>2 DEF Resolve, CoreInv, WayInv, Stage
    <2>2. CASE ~info.state_read_ok \/ (info.is_proxy /\ ~CleanlyResolved)
      <3>1. Outcome!To(Address, "done", "degraded")
        BY <1>2, <2>1, <2>2, InfosType, DegradedOutcome DEF Resolve
      <3>2. Outcome!Resolve(Address)
        BY <2>1, <3>1 DEF Outcome!Resolve, Outcome!Outcomes
      <3> QED
        BY <3>2 DEF Outcome!Next
    <2>3. CASE ~(~info.state_read_ok \/ (info.is_proxy /\ ~CleanlyResolved))
      <3>1. pc' = "fetch"
        BY <1>2, <2>3 DEF Resolve
      <3>2. Stage' = "analyze"
        BY <3>1 DEF Stage
      <3>3. OutcomeSoFar' \in {"plain", "proxy"}
        BY <3>2 DEF OutcomeSoFar
      <3>4. Outcome!Resolve(Address)
        BY <2>1, <3>2, <3>3, Moves DEF Outcome!Resolve, Outcome!Outcomes
      <3> QED
        BY <3>4 DEF Outcome!Next
    <2> QED
      BY <2>2, <2>3
  <1>3. CASE NotVerified
    <2>1. pc = "fetch" /\ info \in Infos /\ info \in ProxyInfos /\ Stage = "analyze"
      BY <1>3, InfosType DEF NotVerified, CoreInv, WayInv, Stage
    <2>2. CASE CleanlyResolved /\ AnswerDegraded([info EXCEPT !.note = TRUE])
      <3> DEFINE i == [info EXCEPT !.note = TRUE]
      <3>1. info.is_proxy /\ i.is_proxy /\ ~i.implementation_scanned
        BY <2>1, <2>2, InfosType DEF ProxyInfos, CleanlyResolved
      <3>2. OutcomeSoFar = "proxy"
        BY <2>1, <3>1 DEF OutcomeSoFar
      <3>3. Outcome!To(Address, "done", "degraded")
        BY <2>2, <3>1, DegradedOutcome
      <3>4. Outcome!Analyze(Address)
        BY <2>1, <3>2, <3>3 DEF Outcome!Analyze
      <3> QED
        BY <3>4 DEF Outcome!Next
    <2>3. CASE Fail(404)
      BY <2>1, <2>3, FailOutcome DEF Outcome!Next
    <2> QED
      BY <1>3, <2>2, <2>3 DEF NotVerified
  <1>4. CASE Fetch \/ WriteFile \/ PickPrimary \/ Analyze
    <2>1. pc \in Working /\ pc' \in Working /\ info' = info
      BY <1>4 DEF Fetch, WriteFile, PickPrimary, Analyze, Working
    <2>2. Stage = "analyze" /\ Stage' = "analyze"
      BY <2>1 DEF Working, Stage
    <2>3. OutcomeSoFar' = OutcomeSoFar
      BY <2>1, <2>2 DEF OutcomeSoFar
    <2> QED
      BY <2>2, <2>3, Stays
  <1>5. CASE Complete
    BY <1>5, CompleteOutcome DEF Outcome!Next
  <1>6. CASE UNCHANGED vars
    <2>1. Stage' = Stage /\ OutcomeSoFar' = OutcomeSoFar
      BY <1>6 DEF vars, Stage, OutcomeSoFar, DegradedScan
    <2> QED
      BY <2>1, Stays
  <1> QED
    BY <1>1, <1>2, <1>3, <1>4, <1>5, <1>6 DEF Next

\* Every way through _scan_address_core is one that ScanService reckons with: a
\* plain contract stays one, a proxy may only be lost to a degraded result, and
\* no result forgets that its contract is a proxy.
THEOREM RefinesOutcome == Spec => ImplementsOutcome
  BY CoreInvHolds, InitOutcome, NextOutcome, PTL DEF Spec, ImplementsOutcome, Outcome!Spec
=============================================================================
