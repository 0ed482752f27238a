----------------------------- MODULE MCModelBill -----------------------------
(***************************************************************************)
(* ModelBill with one pool thread, that asks for one report again and      *)
(* again.                                                                  *)
(***************************************************************************)
EXTENDS ModelBill

CONSTANTS w1, c1

const_Contracts == {<<"base", c1>>}
const_NoPayments == [id \in {} |-> {}]
=============================================================================
