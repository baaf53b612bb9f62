------------------------- MODULE MCTransactionGossip -------------------------
(* Instances of TransactionGossip for TLC. *)
EXTENDS TransactionGossip

CONSTANTS n1, n2, n3

\* Three nodes of which every two are linked.
MCTriangle == {<<n1, n2>>, <<n2, n1>>, <<n3, n2>>, <<n2, n3>>, <<n1, n3>>, <<n3, n1>>}
=============================================================================
