----------------------------- MODULE MCScanCore -----------------------------
(***************************************************************************)
(* ScanCore with a root directory, a sibling whose name starts alike, and  *)
(* paths that leave the root, name it, collide, and use a file as a        *)
(* directory.                                                              *)
(***************************************************************************)
EXTENDS ScanCore

CONSTANTS address, impl, none

const_Root == <<"tmp", "ab">>
const_RelPaths ==
    {<<"T.sol">>, <<"lib", "T.sol">>, <<"src", "U.sol">>, <<"src", "..", "T.sol">>,
     <<"..", "abc", "U.sol">>, <<"..", "ab">>, <<"..", "..">>, <<"T.sol", "U.sol">>}
=============================================================================
