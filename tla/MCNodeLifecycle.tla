-------------------------- MODULE MCNodeLifecycle ---------------------------
(* Instances of NodeLifecycle for TLC. *)
EXTENDS NodeLifecycle, TLC

CONSTANTS b1, c1, b2

\* Two competing blocks at the first height, one at the second.
MCNumber == (b1 :> 1) @@ (c1 :> 1) @@ (b2 :> 2)
=============================================================================
