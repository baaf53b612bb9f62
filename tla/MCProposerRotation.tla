------------------------- MODULE MCProposerRotation -------------------------
(* Instances of ProposerRotation for TLC. *)
EXTENDS ProposerRotation

\* Some shuffle of one, two and three indices.
MCPerm == <<<<1>>, <<2, 1>>, <<3, 1, 2>>>>
=============================================================================
