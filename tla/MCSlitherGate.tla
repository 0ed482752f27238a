---------------------------- MODULE MCSlitherGate ----------------------------
(***************************************************************************)
(* SlitherGate with more scans than pool threads, and one health check.    *)
(***************************************************************************)
EXTENDS SlitherGate

CONSTANTS s1, s2, s3, health, old, new

const_Scans == {s1, s2, s3}
const_Versions == {old, new}
=============================================================================
