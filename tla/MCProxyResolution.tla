------------------------- MODULE MCProxyResolution -------------------------
(***************************************************************************)
(* Every chain of three accounts: all patterns, all pointers,              *)
(* self-references and cycles included.                                    *)
(***************************************************************************)
EXTENDS ProxyResolution, TLC

CONSTANTS a1, a2, a3

Three == {a1, a2, a3}
Symmetry == Permutations({a2, a3})
=============================================================================
