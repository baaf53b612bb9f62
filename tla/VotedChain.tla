----------------------------- MODULE VotedChain -----------------------------
(***************************************************************************)
(* What the exchange of blocks promises, without messages, buffers,        *)
(* time-outs or retries: a block is created once, committee members        *)
(* support blocks that exist, and a node stores a block it did not create  *)
(* only when a quorum supports it.  Which of several blocks of a height    *)
(* are supported is left open, and a node may replace what it stored.      *)
(* Module BlockSync implements this.                                       *)
(***************************************************************************)
EXTENDS Integers

CONSTANTS
    Node,       \* the nodes
    Committee,  \* the nodes whose votes count
    Quorum,     \* sets of members whose support suffices
    Block,      \* the blocks
    None,       \* "no block stored"
    Number,     \* [Block -> height in the header]
    Proposer,   \* [Block -> the node that creates it]
    MaxHeight   \* bound: the largest block number

VARIABLES
    known,      \* the blocks created so far
    support,    \* [Block -> committee members that voted for it]
    chain       \* [Node -> [1..MaxHeight -> block stored, or None]]

vars == <<known, support, chain>>

Init ==
    /\ known = {}
    /\ support = [b \in Block |-> {}]
    /\ chain = [n \in Node |-> [h \in 1..MaxHeight |-> None]]

Store(n, b) == chain' = [chain EXCEPT ![n][Number[b]] = b]

\* A block comes into being on its proposer's chain.
Create(n, b) ==
    /\ Proposer[b] = n /\ b \notin known
    /\ known' = known \cup {b}
    /\ Store(n, b)
    /\ UNCHANGED support

\* A member votes for a block that exists.
Vote(m, b) ==
    /\ m \in Committee /\ b \in known
    /\ support' = [support EXCEPT ![b] = @ \cup {m}]
    /\ UNCHANGED <<known, chain>>

\* A node stores a block that exists and has its quorum.
Take(n, b) ==
    /\ b \in known
    /\ \E Q \in Quorum : Q \subseteq support[b]
    /\ Store(n, b)
    /\ UNCHANGED <<known, support>>

Next == \E n \in Node, b \in Block : Create(n, b) \/ Vote(n, b) \/ Take(n, b)

Spec == Init /\ [][Next]_vars
=============================================================================
