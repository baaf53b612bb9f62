----------------------------- MODULE BARNetwork -----------------------------
(***************************************************************************)
(* The peer books of BAR nodes (bar_network.go): whitelist, greylist and   *)
(* banned list with the proof-of-misbehaviour (POM) scores and the         *)
(* reputation records.  Every operation holds the book's mutex, so it is   *)
(* one step.  The operations are those the rest of the node calls; module  *)
(* Handshake composes them with the handshake protocol.                    *)
(***************************************************************************)
EXTENDS Integers, FiniteSets

CONSTANTS
    Node,                 \* the nodes that keep a book
    Peer,                 \* peer IDs
    IncomingConnections,  \* whitelist limit, 8 in the code
    POMThreshold,         \* demotion score, 5 in the code
    POMBanThreshold,      \* ban score, 15 in the code
    ReputationMemory,     \* rounds a record is kept, 10 in the code
    MaxU,                 \* the largest uint64
    MaxRound              \* bound: rounds

ASSUME BookAssumption ==
    /\ IncomingConnections \in Nat /\ ReputationMemory \in Nat
    /\ POMThreshold \in Nat \ {0} /\ POMBanThreshold \in Nat \ {0}
    /\ MaxU \in Nat /\ MaxRound \in 0..MaxU
    /\ ReputationMemory + MaxRound <= MaxU

VARIABLES
    white, grey, banned,  \* [Node -> SUBSET Peer]: the three lists
    pom,      \* [Node -> [Peer -> POMScore of the peer's PeerInfo]]
    record,   \* [Node -> [Peer -> LastRound of the reputation record, or -1]]
    round     \* [Node -> bn.round]

bookVars == <<white, grey, banned, pom, record, round>>

BookInit ==
    /\ white = [n \in Node |-> {}]
    /\ grey = [n \in Node |-> {}]
    /\ banned = [n \in Node |-> {}]
    /\ pom = [n \in Node |-> [p \in Peer |-> 0]]
    /\ record = [n \in Node |-> [p \in Peer |-> -1]]
    /\ round = [n \in Node |-> 0]

Known(n, p) == p \in white[n] \cup grey[n] \cup banned[n]

Include(list, n, p) == [list EXCEPT ![n] = @ \cup {p}]
Exclude(list, n, p) == [list EXCEPT ![n] = @ \ {p}]

AddPeer(n, p) ==
    /\ ~ Known(n, p)
    /\ grey' = Include(grey, n, p)
    /\ UNCHANGED <<white, banned, pom, record, round>>

CanPromote(n, p) ==
    p \in grey[n] /\ Cardinality(white[n]) < IncomingConnections

\* Mutant: the promoted peer stays on the greylist.
PromoteKeepsGrey(n, p) ==
    /\ CanPromote(n, p)
    /\ white' = Include(white, n, p)
    /\ UNCHANGED <<grey, banned, pom, record, round>>

PromoteToWhitelist(n, p) ==
    /\ CanPromote(n, p)
    /\ grey' = Exclude(grey, n, p)
    /\ white' = Include(white, n, p)
    /\ UNCHANGED <<banned, pom, record, round>>

DemoteToGreylist(n, p) ==
    /\ p \in white[n]
    /\ white' = Exclude(white, n, p)
    /\ grey' = Include(grey, n, p)
    /\ UNCHANGED <<banned, record>>

\* The peer leaves its list for the banned list and a record of round r is made.
BanPeer(n, p, r) ==
    /\ p \in white[n] \cup grey[n]
    /\ white' = Exclude(white, n, p)
    /\ grey' = Exclude(grey, n, p)
    /\ banned' = Include(banned, n, p)
    /\ record' = [record EXCEPT ![n][p] = r]

\* The score grows and decides: a whitelisted peer is demoted, a greylisted one
\* is banned.  r is bn.round at that moment.
UpdatePOMScore(n, p, k, r) ==
    LET score == pom[n][p] + k IN
    \/ /\ p \notin white[n] \cup grey[n]
       /\ UNCHANGED <<white, grey, banned, pom, record>>
    \/ /\ p \in white[n] \cup grey[n]
       /\ pom' = [pom EXCEPT ![n][p] = score]
       /\ \/ /\ p \in white[n] /\ score >= POMThreshold
             /\ DemoteToGreylist(n, p)
          \/ /\ p \in grey[n] /\ score >= POMBanThreshold
             /\ BanPeer(n, p, r)
          \/ /\ score < IF p \in white[n] THEN POMThreshold ELSE POMBanThreshold
             /\ UNCHANGED <<white, grey, banned, record>>

\* Mutant: greylisted peers are selected as well.
SelectionsOfAll(n) == {white[n] \cup grey[n]}

\* FindNodes also sets the book's round.  It picks as many whitelisted peers as
\* there are connections; the hash-driven choice is any such set.
Selections(n) ==
    {S \in SUBSET white[n] :
        Cardinality(S) = IF Cardinality(white[n]) < IncomingConnections
                         THEN Cardinality(white[n]) ELSE IncomingConnections}

FindNodes(n, r) == round' = [round EXCEPT ![n] = r]

\* The age of a record, in unsigned arithmetic.
Age(n, p) == (round[n] - record[n][p]) % (MaxU + 1)

\* Mutant: with its record a peer loses its ban.
CleanupForgives(n) ==
    LET old == {p \in Peer : record[n][p] # -1 /\ Age(n, p) > ReputationMemory} IN
    /\ record' = [record EXCEPT ![n] =
           [p \in Peer |-> IF p \in old THEN -1 ELSE record[n][p]]]
    /\ banned' = [banned EXCEPT ![n] = @ \ old]
    /\ UNCHANGED <<white, grey, pom, round>>

CleanupReputationRecords(n) ==
    /\ record' = [record EXCEPT ![n] =
           [p \in Peer |-> IF record[n][p] # -1 /\ Age(n, p) > ReputationMemory
                           THEN -1 ELSE record[n][p]]]
    /\ UNCHANGED <<white, grey, banned, pom, round>>

-----------------------------------------------------------------------------
(* Properties *)

\* The type invariant of the books.
BookTypeOK ==
    /\ white \in [Node -> SUBSET Peer]
    /\ grey \in [Node -> SUBSET Peer]
    /\ banned \in [Node -> SUBSET Peer]
    /\ pom \in [Node -> [Peer -> Nat]]
    /\ record \in [Node -> [Peer -> Nat \cup {-1}]]
    /\ round \in [Node -> Nat]

\* A peer is on one list at most, and the whitelist never exceeds its limit:
\* every operation that puts a peer on a list takes it off the others.
OneList ==
    \A n \in Node :
        /\ white[n] \cap grey[n] = {}
        /\ (white[n] \cup grey[n]) \cap banned[n] = {}
        /\ Cardinality(white[n]) <= IncomingConnections

\* No sequence of operations - reconnecting, late promotions, clean-ups - frees
\* a banned peer or changes its score, and none is banned below the threshold.
BanIsFinal ==
    [][\A n \in Node, p \in Peer :
          /\ p \in banned[n] => p \in banned'[n] /\ pom'[n][p] = pom[n][p]
          /\ p \in banned'[n] => pom'[n][p] >= POMBanThreshold]_bookVars

(* What documents and comments say and the code does not have: TLC refutes *)
(* these (README.md, section 6).                                           *)

\* docs/BAR_IMPLEMENTATION_SUMMARY.md: "Proof of Misbehavior (POM) scoring with
\* automatic demotion/banning": a peer whose score reaches the ban threshold is
\* banned.
BannedAtThreshold ==
    \A n \in Node, p \in Peer :
        pom[n][p] >= POMBanThreshold => p \in banned[n]

\* bar_network.go: "CleanupReputationRecords removes old reputation records".
\* A record that goes away is older than ReputationMemory rounds.
OnlyOldRecordsRemoved ==
    [][\A n \in Node, p \in Peer :
          record[n][p] # -1 /\ record'[n][p] = -1 =>
              round[n] - record[n][p] > ReputationMemory]_bookVars
=============================================================================
