---------------------------- MODULE MCRateLimiter ----------------------------
(***************************************************************************)
(* RateLimiter with two threads and two clients.                           *)
(***************************************************************************)
EXTENDS RateLimiter, TLC

CONSTANTS t1, t2, k1, k2

const_Threads == {t1, t2}
const_Keys == {k1, k2}
Symmetry == Permutations(const_Threads) \cup Permutations(const_Keys)
==============================================================================
