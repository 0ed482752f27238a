----------------------------- MODULE SourceTree -----------------------------
(***************************************************************************)
(* Where the verified source is written (_write_file) and which file is    *)
(* then compiled (_pick_primary, both app/fetcher.py).  A path is the      *)
(* sequence of its components.                                             *)
(***************************************************************************)
EXTENDS Integers, SequencesExt

CONSTANTS
    Root,        \* the directory mkdtemp made
    TargetFile   \* the name of the contract, with ".sol"; cases are not told apart

ASSUME RootAssumption == Root \in Seq(STRING) \ {<< >>}

\* os.path.normpath of an absolute path
Normpath(path) ==
    LET Step(done, name) ==
            CASE name = "." -> done
              [] name = ".." /\ done # << >> -> Front(done)
              [] name = ".." /\ done = << >> -> done
              [] OTHER -> Append(done, name)
    IN  FoldLeft(Step, << >>, path)

\* Faulty variant: compared with the bare prefix of a name, a sibling passes.
InsideBarePrefix(path) ==
    Len(path) >= Len(Root) /\ IsPrefix(Front(Root), path)

\* safe is root, or starts with root and a separator.
Inside(path) == IsPrefix(Root, path)

\* The file that an entry of the explorer's answer goes to.
Destination(rel_path) ==
    LET safe == Normpath(Root \o rel_path)
    IN  IF Inside(safe) THEN safe ELSE Append(Root, Last(rel_path))

\* makedirs and open raise where a directory and a file would share a name.
Writable(safe, files) ==
    /\ safe # Root /\ Last(safe) \notin {".", ".."}
    /\ \A f \in files : ~IsStrictPrefix(safe, f) /\ ~IsStrictPrefix(f, safe)

InLib(file) == \E i \in DOMAIN file : file[i] = "lib"

\* The first of files that is in S.
FirstIn(files, S) ==
    files[CHOOSE i \in DOMAIN files :
            files[i] \in S /\ \A j \in 1..(i - 1) : files[j] \notin S]

Matches(files) == {f \in Range(files) : Last(f) = TargetFile}
NonLib(files) == {f \in Matches(files) : ~InLib(f)}

\* Faulty variant: nobody looks into the files.
PrimaryByName(files, defining) ==
    IF NonLib(files) # {} THEN FirstIn(files, NonLib(files))
    ELSE IF Matches(files) # {} THEN FirstIn(files, Matches(files))
    ELSE Head(files)

\* _pick_primary: a file named after the contract, rather not one under lib;
\* else one whose text defines it; else any.
Primary(files, defining) ==
    IF NonLib(files) # {} THEN FirstIn(files, NonLib(files))
    ELSE IF Matches(files) # {} THEN FirstIn(files, Matches(files))
    ELSE IF defining # {} THEN FirstIn(files, defining)
    ELSE Head(files)
=============================================================================
