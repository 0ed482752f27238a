--------------------------- MODULE MCScanService ---------------------------
(***************************************************************************)
(* Instances of ScanService: a proxy p, and the same address on another    *)
(* chain.                                                                  *)
(***************************************************************************)
EXTENDS ScanService, TLC

CONSTANTS w1, w2, base, sepolia, p, id1

proxyHere == <<base, p>>
proxyThere == <<sepolia, p>>

const_Workers == {w1, w2}
const_OneWorker == {w1}
Symmetry == Permutations(const_Workers)

const_OneProxy == {proxyHere}
const_TwoChains == {proxyHere, proxyThere}

const_NoPayments == [id \in {} |-> {}]
const_OnePayment == (id1 :> {proxyHere})
=============================================================================
