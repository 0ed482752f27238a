------------------------------ MODULE ScanCore ------------------------------
(***************************************************************************)
(* One run of _scan_address_core (app/main.py): from the address of a      *)
(* contract to a ScanResult and the source it is about, over fetch_sources *)
(* (app/fetcher.py), which writes a source tree to disk one file at a      *)
(* time, and analyze_path.  ScanService takes this as two steps; here each *)
(* call that can fail is a step, and the tree is part of the state.        *)
(***************************************************************************)
EXTENDS RiskScore, SourceTree, ProxyShapes

CONSTANTS
    Impl,         \* its implementation, if it is a proxy
    RelPaths,     \* paths of the explorer's source map
    MaxFiles,     \* bound: files of one contract
    Impacts,      \* impacts that Slither reports
    MaxFindings   \* bound: detectors of one report

ASSUME AddressAssumption == Address # Impl /\ None \notin {Address, Impl}
ASSUME BoundsAssumption == MaxFiles \in Nat \ {0} /\ MaxFindings \in Nat

VARIABLES
    pc,         \* the next call
    info,       \* the ProxyInfo
    todo,       \* entries of the source map still to be written
    made,       \* BOOLEAN: the directory Root exists
    disk,       \* the files in it: their contents by path
    files,      \* the local variable written of _materialize
    primary,    \* fetched.primary_file
    result,     \* the ScanResult
    source,     \* the text returned with it
    status      \* the HTTP status of the answer

\* Not in the code: the contract whose source was asked for, the file that
\* Slither compiled, and what it held.
VARIABLES fetched, compiled

tree == <<made, disk>>
vars == <<pc, info, todo, tree, files, primary, result, source, status, fetched, compiled>>

ProxyInfos == [is_proxy : BOOLEAN, implementation_address : {Address, Impl, None},
               scanned_address : {Address, Impl}, note : BOOLEAN,
               state_read_ok : BOOLEAN, implementation_scanned : BOOLEAN]

\* What resolve() returns.
Infos == {i \in ProxyInfos : Returned(i) /\ ~i.implementation_scanned}

\* An entry's text, as far as _pick_primary looks at it; n tells texts apart.
Texts == [n : 1..MaxFiles, defines : BOOLEAN]

\* The entries in the order of the JSON object, whose keys are distinct.  A flat
\* source is one entry, named after the contract.
SourceMaps ==
    {m \in UNION {[1..n -> [path : RelPaths, text : Texts]] : n \in 0..MaxFiles} :
        \A i, j \in DOMAIN m : m[i].text.n = i /\ (m[i].path = m[j].path => i = j)}
FlatSource == << [path |-> <<TargetFile>>, text |-> [n |-> 1, defines |-> TRUE]] >>

NoResult == [verdict |-> "none"]
NoText == [n |-> 0, defines |-> FALSE]

CleanlyResolved ==
    /\ info.is_proxy /\ info.implementation_address # None
    /\ info.scanned_address = info.implementation_address /\ ~info.note

\* _degraded_proxy_scan
DegradedProxyScan(i) ==
    [target |-> Address, risk_score |-> 55, verdict |-> "COULD NOT ANALYZE",
     summary |-> [High |-> 1], findings |-> << [id |-> 0, impact |-> "High"] >>, proxy |-> {i}]

\* _degraded_scan; proxy is the set of the result's ProxyInfo, if it has one.
DegradedScan(scan) ==
    \E p \in scan.proxy : ~p.state_read_ok \/ (p.is_proxy /\ ~p.implementation_scanned)

\* _degraded_ai_report; limitations by what they are about.
DegradedAIReport(scan) ==
    LET i == CHOOSE p \in scan.proxy : TRUE IN
    [adjusted_risk |-> scan.risk_score, verdict |-> scan.verdict,
     limitations |-> {about \in {"state", "implementation", "note", "upgradeable"} :
                        /\ about = "state" => ~i.state_read_ok
                        /\ about = "implementation" => i.state_read_ok
                        /\ about = "note" => i.note}]

Init ==
    /\ pc = "resolve" /\ info \in Infos
    /\ todo = << >> /\ made = FALSE /\ disk = << >> /\ files = << >> /\ primary = << >>
    /\ result = NoResult /\ source = NoText /\ status = 0
    /\ fetched = None /\ compiled = NoText

----------------------------------------------------------------------------
Answer(code) == pc' = "answered" /\ status' = code

\* An HTTPException.
Fail(code) ==
    /\ Answer(code)
    /\ UNCHANGED <<info, todo, files, primary, result, source, fetched, compiled>>

\* A degraded result is returned, with no source.
AnswerDegraded(i) ==
    /\ info' = i
    /\ result' = DegradedProxyScan(i)
    /\ Answer(200)
    /\ UNCHANGED <<todo, tree, files, primary, source, fetched, compiled>>

NoApiKey == pc = "resolve" /\ Fail(500) /\ UNCHANGED tree

\* Faulty variant: any proxy with a known implementation goes on.
ResolveIgnoringNote ==
    /\ pc = "resolve"
    /\ IF ~info.state_read_ok \/ (info.is_proxy /\ info.implementation_address = None)
       THEN AnswerDegraded(info)
       ELSE /\ pc' = "fetch"
            /\ fetched' = IF info.is_proxy THEN info.implementation_address ELSE Address
            /\ UNCHANGED <<info, todo, tree, files, primary, result, source, status, compiled>>

Resolve ==
    /\ pc = "resolve"
    /\ IF ~info.state_read_ok \/ (info.is_proxy /\ ~CleanlyResolved)
       THEN AnswerDegraded(info)
       ELSE /\ pc' = "fetch"
            /\ fetched' = IF CleanlyResolved THEN info.implementation_address ELSE Address
            /\ UNCHANGED <<info, todo, tree, files, primary, result, source, status, compiled>>

\* Unsupported chain, HTTP error or an answer of another shape, before mkdtemp.
FetchFails == pc = "fetch" /\ Fail(502) /\ UNCHANGED tree

NotVerified ==
    /\ pc = "fetch"
    /\ \/ CleanlyResolved /\ AnswerDegraded([info EXCEPT !.note = TRUE])
       \/ ~CleanlyResolved /\ Fail(404) /\ UNCHANGED tree

\* The explorer's answer, then mkdtemp.
Fetch ==
    /\ pc = "fetch"
    /\ pc' = "write"
    /\ made' = TRUE
    /\ todo' \in SourceMaps \cup {FlatSource}
    /\ UNCHANGED <<info, disk, files, primary, result, source, status, fetched, compiled>>

\* _write_file; an entry that lands on the file of an earlier one replaces it.
WriteFile ==
    /\ pc = "write" /\ todo # << >>
    /\ LET safe == Destination(Head(todo).path) IN
        /\ Writable(safe, DOMAIN disk)
        /\ disk' = [f \in DOMAIN disk \cup {safe} |-> IF f = safe THEN Head(todo).text ELSE disk[f]]
        /\ files' = Append(files, safe)
    /\ todo' = Tail(todo)
    /\ UNCHANGED <<pc, info, made, primary, result, source, status, fetched, compiled>>

PickPrimary ==
    /\ pc = "write" /\ todo = << >> /\ files # << >>
    /\ primary' = Primary(files, {f \in DOMAIN disk : disk[f].defines})
    /\ pc' = "analyze"
    /\ UNCHANGED <<info, todo, tree, files, result, source, status, fetched, compiled>>

(***************************************************************************)
(* After mkdtemp: JSON that does not parse, a write that raises, no file   *)
(* at all.  Nobody has the name of the directory, so it stays.             *)
(***************************************************************************)
FetchRaises == pc = "write" /\ Fail(502) /\ UNCHANGED tree

\* rmtree(fetched.root_dir)
RemoveTree == made' = FALSE /\ disk' = << >>

\* Faulty variant: the tree is removed on the way out of the try block only.
AnalysisFailsKeepingTree == pc \in {"analyze", "result"} /\ Fail(422) /\ UNCHANGED tree

\* Slither gives no report or times out; or the result is refused.
AnalysisFails == pc \in {"analyze", "result"} /\ Fail(422) /\ RemoveTree

\* analyze_path, with the user's address as the target.
Analyze ==
    /\ pc = "analyze"
    /\ \E n \in 0..MaxFindings : \E impacts \in [1..n -> Impacts] :
        result' = Normalize(impacts, Address)
    /\ compiled' = disk[primary]
    /\ pc' = "result"
    /\ UNCHANGED <<info, todo, tree, files, primary, source, status, fetched>>

LowsPlusOne(summary) ==
    [k \in DOMAIN summary \cup {"Low"} |-> CountOf(summary, k) + IF k = "Low" THEN 1 ELSE 0]

\* Faulty variant: the score is worked out again.
WithStandingScored(scan, i) ==
    [target |-> scan.target, risk_score |-> Score(LowsPlusOne(scan.summary)),
     verdict |-> Verdict(Score(LowsPlusOne(scan.summary))), summary |-> LowsPlusOne(scan.summary),
     findings |-> << [id |-> 0, impact |-> "Low"] >> \o scan.findings, proxy |-> {i}]

\* _proxy_standing_finding, inserted first; the score stays as it is.
WithStandingFinding(scan, i) ==
    [target |-> scan.target, risk_score |-> scan.risk_score, verdict |-> scan.verdict,
     summary |-> LowsPlusOne(scan.summary),
     findings |-> << [id |-> 0, impact |-> "Low"] >> \o scan.findings, proxy |-> {i}]

\* Faulty variant: the flag that the implementation was scanned is not set.
CompleteUnflagged ==
    /\ pc = "result"
    /\ IF CleanlyResolved
       THEN info' = info /\ result' = WithStandingFinding(result, info)
       ELSE UNCHANGED <<info, result>>
    /\ source' \in {NoText, disk[primary]}
    /\ Answer(200)
    /\ RemoveTree
    /\ UNCHANGED <<todo, files, primary, fetched, compiled>>

\* Faulty variant: the source returned is that of the first file.
CompleteFirstFile ==
    /\ pc = "result"
    /\ IF CleanlyResolved
       THEN /\ info' = [info EXCEPT !.implementation_scanned = TRUE]
            /\ result' = WithStandingFinding(result, info')
       ELSE UNCHANGED <<info, result>>
    /\ source' \in {NoText, disk[Head(files)]}
    /\ Answer(200)
    /\ RemoveTree
    /\ UNCHANGED <<todo, files, primary, fetched, compiled>>

\* The rest of the try block, and its finally.
Complete ==
    /\ pc = "result"
    /\ IF CleanlyResolved
       THEN /\ info' = [info EXCEPT !.implementation_scanned = TRUE]
            /\ result' = WithStandingFinding(result, info')
       ELSE UNCHANGED <<info, result>>
    /\ source' \in {NoText, disk[primary]}    \* NoText: it could not be read
    /\ Answer(200)
    /\ RemoveTree
    /\ UNCHANGED <<todo, files, primary, fetched, compiled>>

Next ==
    \/ NoApiKey \/ Resolve
    \/ FetchFails \/ NotVerified \/ Fetch
    \/ WriteFile \/ PickPrimary \/ FetchRaises
    \/ AnalysisFails \/ Analyze \/ Complete

Spec == Init /\ [][Next]_vars

----------------------------------------------------------------------------
Finding == [id : 0..MaxFindings, impact : Impacts \cup {"High", "Low"}]

ResultTypeOK(r) ==
    /\ r.risk_score \in 0..100
    /\ r.verdict \in {"DANGEROUS", "RISKY", "CAUTION", "CLEAN", "COULD NOT ANALYZE"}
    /\ r.findings \in Seq(Finding)
    /\ \A k \in DOMAIN r.summary : r.summary[k] \in Nat \ {0}

TypeOK ==
    /\ pc \in {"resolve", "fetch", "write", "analyze", "result", "answered"}
    /\ info \in ProxyInfos
    /\ made \in BOOLEAN
    /\ \A f \in DOMAIN disk : disk[f] \in Texts
    /\ result # NoResult => ResultTypeOK(result)
    /\ {source, compiled} \subseteq Texts \cup {NoText}
    /\ status \in {0, 200, 404, 422, 500, 502}
    /\ fetched \in {Address, Impl, None}

\* Whatever paths the source map has, every file is inside the directory that
\* is removed afterwards (_write_file's docstring, app/fetcher.py:249-257).
Contained == \A f \in DOMAIN disk : IsStrictPrefix(Root, f)

\* The tree is there for as long as Slither and the reader of the source need
\* it, and once fetch_sources has returned, no way out of the scan leaves it.
TreeWhileNeeded ==
    /\ pc \in {"analyze", "result"} => made /\ primary \in DOMAIN disk
    /\ pc = "answered" /\ primary # << >> => ~made

(***************************************************************************)
(* The file compiled is the one that _pick_primary prefers, by what is on  *)
(* disk in the end, files replaced by a later entry included: one named    *)
(* after the contract if any is, and a dependency under lib only if no     *)
(* other has the name; else one whose text defines the contract, if any    *)
(* does.  A file with the name is preferred to one with the definition:    *)
(* that the first defines the contract is not promised, although the       *)
(* docstring says that the choice is the file that does (fetcher.py:217).  *)
(***************************************************************************)
PrimaryChosen ==
    pc = "analyze" =>
        LET named == {f \in DOMAIN disk : Last(f) = TargetFile}
            outside == {f \in named : ~InLib(f)}
            defining == {f \in DOMAIN disk : disk[f].defines}
        IN  /\ outside # {} => primary \in outside
            /\ named # {} => primary \in named
            /\ named = {} /\ defining # {} => primary \in defining

\* The text returned for the model to read is the one Slither compiled.
SourceIsCompiled == source \in {NoText, compiled}

(***************************************************************************)
(* A result counts what it lists, standing finding and degraded results    *)
(* included, and lists Slither's findings by severity, in Slither's order  *)
(* within one severity.                                                    *)
(***************************************************************************)
Consistent(r) ==
    LET found == r.findings IN
    /\ \A k \in DOMAIN r.summary \cup {f.impact : f \in Range(found)} :
          CountOf(r.summary, k) = Cardinality({i \in DOMAIN found : found[i].impact = k})
    /\ \A i, j \in DOMAIN found :
          i < j /\ found[i].id # 0 =>
             \/ Rank(found[i].impact) < Rank(found[j].impact)
             \/ /\ Rank(found[i].impact) = Rank(found[j].impact)
                /\ found[i].id < found[j].id

FindingsConsistent == result # NoResult => Consistent(result)

(***************************************************************************)
(* A verdict of the usual kind is about the contract that resolve() named  *)
(* in a record without doubts: the address, or the implementation that was *)
(* found for it.  All other results say so, score above the threshold of   *)
(* the worst verdict, and are exactly those that the endpoints refuse to   *)
(* cache or to send to the model (_degraded_scan); their report repeats    *)
(* the verdict.                                                            *)
(*                                                                         *)
(* That the code of the contract named is the code that runs at the        *)
(* address is up to resolve(), and is not said here: a failed code query   *)
(* can make it name a proxy's shell, or the address itself, without a      *)
(* doubt (ProxyResolution, where ShellNeverScanned is violated).           *)
(***************************************************************************)
NamedByResolve ==
    /\ info.state_read_ok /\ ~info.note
    /\ fetched = IF info.is_proxy THEN info.implementation_address ELSE Address

VerdictAsResolved ==
    status = 200 =>
        IF DegradedScan(result)
        THEN LET report == DegradedAIReport(result) IN
             /\ report.verdict = "COULD NOT ANALYZE" /\ report.adjusted_risk >= 40
             /\ "state" \in report.limitations <=> ~info.state_read_ok
             /\ source = NoText
        ELSE /\ NamedByResolve
             /\ result.verdict = Verdict(result.risk_score)

\* A clean implementation is not scored up for being behind a proxy, although
\* the summary counts the standing finding (_proxy_standing_finding, 371-372).
StandingNeutral ==
    status = 200 /\ ~DegradedScan(result) =>
        LET own == {i \in DOMAIN result.findings : result.findings[i].id # 0}
            with(k) == {i \in own : result.findings[i].impact = k}
        IN  /\ result.risk_score = Score([k \in Impacts |-> Cardinality(with(k))])
            /\ info.is_proxy <=> own # DOMAIN result.findings

(***************************************************************************)
(* The scan comes to what ScanOutcome allows: a proxy is one from the      *)
(* moment it is found to be one, so its result carries the proxy record by *)
(* which the caches shorten its life and the endpoints know it as degraded *)
(* (_proxy_aware_ttl, app/main.py:137, and _degraded_scan, 411), and a     *)
(* plain contract never turns into a degraded one.                         *)
(***************************************************************************)
Stage == CASE pc = "resolve" -> "resolve"
           [] pc = "answered" -> IF status = 200 THEN "done" ELSE "away"
           [] OTHER -> "analyze"

OutcomeSoFar ==
    CASE Stage = "analyze" -> IF info.is_proxy THEN "proxy" ELSE "plain"
      [] Stage = "done" -> IF DegradedScan(result) THEN "degraded"
                           ELSE IF \E p \in result.proxy : p.is_proxy THEN "proxy" ELSE "plain"
      [] OTHER -> "none"

Outcome == INSTANCE ScanOutcome WITH
    Threads <- {Address}, stage <- [t \in {Address} |-> Stage],
    outcome <- [t \in {Address} |-> OutcomeSoFar]

ImplementsOutcome == Outcome!Spec
=============================================================================
