------------------------- MODULE MCInactivityMonitor ------------------------
(* Instances of InactivityMonitor for TLC. *)
EXTENDS InactivityMonitor

CONSTANTS s1, s2, s3, idle

\* Two seeds know a third and a peer, the third knows the peer, which knows
\* nobody.
MCLink == {<<s1, s3>>, <<s1, idle>>, <<s2, s3>>, <<s2, idle>>, <<s3, idle>>}

\* One of the two gets broadcasts from the third.
MCForward == {<<s3, s1>>}
=============================================================================
