----------------------------- MODULE MCPayments -----------------------------
(***************************************************************************)
(* Payments with two requests at a time, one purchase on each of two       *)
(* chains with the same id, and a message that is dated ahead.             *)
(***************************************************************************)
EXTENDS Payments

CONSTANTS w1, w2, main, test, msg

const_Workers == {w1, w2}
const_Purchases == {main, test}
const_PaymentId == [p \in const_Purchases |-> 7]
const_Issued == [m \in {msg} |-> 2]
=============================================================================
