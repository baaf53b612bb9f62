------------------------ MODULE MCBlockFinalization ------------------------
(* Instances of BlockFinalization for TLC. *)
EXTENDS BlockFinalization, TLC

CONSTANTS b1, b2, own, self, v1

\* A block and its successor, to look for blocks that are not linked.
LineNumber == (b1 :> 1) @@ (b2 :> 2)
LinePrev == (b1 :> Genesis) @@ (b2 :> b1)

\* A foreign block and the node's own block competing for height 1.
OwnNumber == (b1 :> 1) @@ (own :> 1)
OwnPrev == (b1 :> Genesis) @@ (own :> Genesis)

\* Two validators have threshold 2; before the first election nobody is elected.
OneCommittee == {{self, v1}}
=============================================================================
