-------------------------- MODULE MCTransactionPool --------------------------
(* Instances of TransactionPool for TLC. *)
EXTENDS TransactionPool, TLC

CONSTANTS a, b,               \* accounts
          x1, y1, x2, z1, s1  \* transactions

\* x1 and y1 compete for a's first nonce, x2 has its second, z1 is b's
\* participation and s1 a transaction of b that costs more than it has at first
\* or, in the last run, a type that no block applies.
MCFrom == (x1 :> a) @@ (y1 :> a) @@ (x2 :> a) @@ (z1 :> b) @@ (s1 :> b)
MCTo == (x1 :> b) @@ (y1 :> a) @@ (x2 :> b) @@ (z1 :> b) @@ (s1 :> a)
MCNonce == (x1 :> 1) @@ (y1 :> 1) @@ (x2 :> 2) @@ (z1 :> 1) @@ (s1 :> 1)
MCValue == (x1 :> 2) @@ (y1 :> 1) @@ (x2 :> 1) @@ (z1 :> 0) @@ (s1 :> 1)
MCFee == (x1 :> 1) @@ (y1 :> 2) @@ (x2 :> 1) @@ (z1 :> 0) @@ (s1 :> 1)
MCHighFee == [MCFee EXCEPT ![s1] = 3]
MCBalance == (a :> 6) @@ (b :> 1)
MCRich == (a :> 6) @@ (b :> 6)
MCType == (x1 :> "transfer") @@ (y1 :> "transfer") @@ (x2 :> "transfer")
          @@ (z1 :> "participation") @@ (s1 :> "register_validator")
\* "stake" is one of the types the API accepts.
MCStakeType == [MCType EXCEPT ![s1] = "stake"]

\* Blocks of nodes whose pools and accounts differ from this node's.
MCReceived == {<<x1>>, <<y1, z1>>, <<x1, x2>>, <<s1>>}
=============================================================================
