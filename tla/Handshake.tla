----------------------------- MODULE Handshake ------------------------------
(***************************************************************************)
(* The handshake between BAR nodes (handshake.go) and its users in         *)
(* producerLoop and in the P2P layer's connect hook, composed with the     *)
(* peer books of module BARNetwork.  Messages are published on a gossip    *)
(* topic: they may be delayed, reordered and lost.                         *)
(*                                                                         *)
(* verifyRoundSeed compares one byte of a hash of the receiver's own       *)
(* random seed with the sender's: any outcome in SeedCheck.                *)
(***************************************************************************)
EXTENDS BARNetwork

CONSTANTS
    Lenient,       \* nodes of another client version, which answer every ping
    SeedCheck,     \* outcomes of verifyRoundSeed: a subset of BOOLEAN
    CleanupEvery,  \* rounds between clean-ups, 10 in the code
    MaxPings       \* bound: pings sent

ASSUME HandshakeAssumption ==
    /\ Peer = Node
    /\ Lenient \subseteq Node
    /\ SeedCheck \subseteq BOOLEAN
    /\ CleanupEvery \in Nat \ {0}
    /\ MaxPings \in Nat

VARIABLES
    hround,     \* [Node -> hm.round]
    cleanupDue, \* nodes whose producerLoop is about to clean up
    net,        \* messages under way
    judged,     \* pings found unselected whose senders are yet to be charged
    nPings,
    trusted     \* [Node -> peers it ever had on its whitelist]

vars == <<bookVars, hround, cleanupDue, net, judged, nPings, trusted>>

Message == [type : {"ping", "pong", "ack"}, from : Node, to : Node,
            round : 0..MaxRound]

\* Mutant: a message carries the round after its sender's.
MsgOfNextRound(type, from, to, r) ==
    [type |-> type, from |-> from, to |-> to, round |-> r + 1]

Msg(type, from, to, r) ==
    [type |-> type, from |-> from, to |-> to, round |-> r]

Init ==
    /\ BookInit
    /\ hround = [n \in Node |-> 0]
    /\ cleanupDue = {}
    /\ net = {}
    /\ judged = {}
    /\ nPings = 0
    /\ trusted = [n \in Node |-> {}]

\* P2PNode.Connect tells the book of the node that dialled.
Connect(n, p) ==
    /\ n # p
    /\ AddPeer(n, p)
    /\ UNCHANGED <<hround, cleanupDue, net, judged, nPings, trusted>>

\* producerLoop's round: UpdateRound, FindNodes and, every tenth round, the
\* clean-up, which other handlers may precede.
ProducerRound(n) ==
    /\ n \notin cleanupDue
    /\ hround[n] < MaxRound
    /\ hround' = [hround EXCEPT ![n] = @ + 1]
    /\ FindNodes(n, hround[n] + 1)
    /\ cleanupDue' = IF (hround[n] + 1) % CleanupEvery = 0
                     THEN cleanupDue \cup {n} ELSE cleanupDue
    /\ UNCHANGED <<white, grey, banned, pom, record, net, judged, nPings, trusted>>

Cleanup(n) ==
    /\ n \in cleanupDue
    /\ CleanupReputationRecords(n)
    /\ cleanupDue' = cleanupDue \ {n}
    /\ UNCHANGED <<hround, net, judged, nPings, trusted>>

\* One iteration of performHandshakes; which greylisted peers it takes depends
\* on when they were last seen.  Publishing may fail.
SendPing(n, p) ==
    /\ p \in grey[n]
    /\ nPings < MaxPings
    /\ nPings' = nPings + 1
    /\ \/ /\ net' = net \cup {Msg("ping", n, p, hround[n])}
          /\ UNCHANGED bookVars
       \/ /\ UpdatePOMScore(n, p, 1, round[n])
          /\ UNCHANGED <<net, round>>
    /\ UNCHANGED <<hround, cleanupDue, judged, trusted>>

Reply(n, ping) ==
    {Msg("pong", n, ping.from, ping.round), Msg("ack", n, ping.from, ping.round)}

\* A node handles one handshake message at a time.
Deliver(m, type) ==
    /\ m \in net /\ m.type = type
    /\ \A j \in judged : j.to # m.to

\* The sender of m is charged a point.
Charge(m) == UpdatePOMScore(m.to, m.from, 1, round[m.to]) /\ UNCHANGED round

BadSeed(m) ==
    /\ FALSE \in SeedCheck
    /\ Charge(m)
    /\ net' = net \ {m}

\* A bad seed or an unselected sender costs the sender a point; FindNodes moves
\* the book to the sender's round.  The charge for not being selected takes the
\* book's mutex again.
HandlePing(m) ==
    /\ Deliver(m, "ping")
    /\ \/ /\ BadSeed(m)
          /\ UNCHANGED judged
       \/ /\ TRUE \in SeedCheck
          /\ FindNodes(m.to, m.round)
          /\ \E selected \in Selections(m.to) :
                \/ /\ m.from \in selected \/ m.to \in Lenient
                   /\ net' = (net \ {m}) \cup Reply(m.to, m)
                   /\ UNCHANGED judged
                \/ /\ m.from \notin selected /\ m.to \notin Lenient
                   /\ net' = net \ {m}
                   /\ judged' = judged \cup {m}
          /\ UNCHANGED <<white, grey, banned, pom, record>>
    /\ UNCHANGED <<hround, cleanupDue, nPings, trusted>>

ChargeUnselected(m) ==
    /\ m \in judged
    /\ Charge(m)
    /\ judged' = judged \ {m}
    /\ UNCHANGED <<hround, cleanupDue, net, nPings, trusted>>

\* A greylisted sender is promoted if there is room.
HandlePong(m) ==
    /\ Deliver(m, "pong")
    /\ \/ BadSeed(m) /\ UNCHANGED trusted
       \/ /\ TRUE \in SeedCheck
          /\ net' = net \ {m}
          /\ \/ /\ PromoteToWhitelist(m.to, m.from)
                /\ trusted' = Include(trusted, m.to, m.from)
             \/ /\ ~ CanPromote(m.to, m.from)
                /\ UNCHANGED <<bookVars, trusted>>
    /\ UNCHANGED <<hround, cleanupDue, judged, nPings>>

HandleAck(m) ==
    /\ Deliver(m, "ack")
    /\ \/ BadSeed(m)
       \/ /\ TRUE \in SeedCheck
          /\ net' = net \ {m}
          /\ UNCHANGED bookVars
    /\ UNCHANGED <<hround, cleanupDue, judged, nPings, trusted>>

Lose(m) ==
    /\ m \in net
    /\ net' = net \ {m}
    /\ UNCHANGED <<bookVars, hround, cleanupDue, judged, nPings, trusted>>

Handle(m) == HandlePing(m) \/ HandlePong(m) \/ HandleAck(m)

Next ==
    \/ \E n, p \in Node : Connect(n, p)
    \/ \E n \in Node : ProducerRound(n)
    \/ \E n \in Node : Cleanup(n)
    \/ \E n, p \in Node : SendPing(n, p)
    \/ \E m \in net : Handle(m)
    \/ \E m \in judged : ChargeUnselected(m)
    \/ \E m \in net : Lose(m)

Spec == Init /\ [][Next]_vars

-----------------------------------------------------------------------------
(* Properties *)

\* The type invariant of the network of nodes.
TypeOK ==
    /\ BookTypeOK
    /\ hround \in [Node -> 0..MaxRound]
    /\ cleanupDue \subseteq Node
    /\ net \subseteq Message
    /\ judged \subseteq Message
    /\ nPings \in 0..MaxPings
    /\ trusted \in [Node -> SUBSET Node]

\* handlePing answers only whitelisted peers, and only an answer whitelists its
\* sender: a node comes to trust a peer running this code only after that peer
\* trusted the node.  Nodes that all run this code therefore never whitelist
\* anyone.
TrustNeedsTrust ==
    \A n \in Node : \A p \in white[n] : p \in Lenient \/ n \in trusted[p]

\* What makes it inductive: a whitelisted peer is one trusted at some time, and
\* an answer under way comes from a peer that trusted its addressee.
WhiteTrusted == \A n \in Node : white[n] \subseteq trusted[n]

AnswersNeedTrust ==
    \A m \in net : m.type = "pong" => m.from \in Lenient \/ m.to \in trusted[m.from]

TrustInv == WhiteTrusted /\ TrustNeedsTrust /\ AnswersNeedTrust

(* What documents and comments say and the code does not have: TLC refutes *)
(* these (README.md, section 6).                                           *)

\* docs/BAR_IMPLEMENTATION_SUMMARY.md: "Reputation Tracking: Misbehavior
\* detection and automatic penalties": a peer that only sends the pings of the
\* protocol is not banned.
HonestNotBanned == \A n \in Node : banned[n] = {}
=============================================================================
