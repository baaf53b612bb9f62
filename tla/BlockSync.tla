----------------------------- MODULE BlockSync -----------------------------
(***************************************************************************)
(* A network of nodes that propose, approve, finalize and re-request       *)
(* blocks (node.go).  Every handler is one step here: what its goroutines  *)
(* can do to each other is module BlockFinalization.  The committee is     *)
(* fixed and the same for all nodes; that it may differ, and with it who   *)
(* proposes, is module ProposerRotation: here each block names its         *)
(* proposer, and a run says which blocks exist.                            *)
(*                                                                         *)
(* A publication reaches the other nodes connected at that moment, each    *)
(* after a delay of its own and in any order; without fairness it may also *)
(* never arrive.  A block proposal and a block response carry a block and  *)
(* are handled alike, so an inbox holds blocks, approvals and requested    *)
(* heights.                                                                *)
(***************************************************************************)
EXTENDS Integers, FiniteSets

CONSTANTS
    Node,         \* the nodes
    Committee,    \* the nodes whose approvals count
    Late,         \* nodes that join after the start
    Block,        \* block identities (hashes)
    None,         \* "no block stored"
    Number,       \* [Block -> height in the header]
    Proposer,     \* [Block -> the node that creates it]
    CatchUp,      \* the allowance of the height check, 10 in the code
    SyncWindow,   \* heights requested by one sync round, 3 in the code
    MaxHeight,    \* bound: the largest block number
    Timely        \* TRUE: messages arrive within the 250 ms of the watch

ASSUME NetworkAssumption ==
    /\ IsFiniteSet(Node) /\ Committee \subseteq Node /\ Late \subseteq Node
    /\ None \notin Block
    /\ MaxHeight \in Nat \ {0} /\ CatchUp \in Nat /\ SyncWindow \in Nat
    /\ Number \in [Block -> 1..MaxHeight]
    /\ Proposer \in [Block -> Node]
    /\ Timely \in BOOLEAN

Height == 1..MaxHeight

VARIABLES
    chain,      \* [Node -> [Height -> block stored under the height, or None]]
    height,     \* [Node -> currentHeight]
    pending,    \* [Node -> SUBSET Block]: pendingBlocks
    sigs,       \* [Node -> [Block -> SUBSET Node]]: signatures of the entry
    buffer,     \* [Node -> [Block -> SUBSET Node]]: approvalBuffer
    connected,  \* the nodes that are connected
    created,    \* the blocks proposed so far
    voted,      \* [Node -> SUBSET Block]: blocks the node sent an approval for
    blocks,     \* [Node -> SUBSET Block]: blocks on their way to the node
    approvals,  \* [Node -> SUBSET (Node \X Block)]: approvals on their way
    requests    \* [Node -> SUBSET Height]: block requests on their way

chainVars == <<chain, height>>
approvalVars == <<pending, sigs, buffer, voted>>
netVars == <<blocks, approvals, requests>>
vars == <<chainVars, approvalVars, connected, created, netVars>>

Init ==
    /\ chain = [n \in Node |-> [h \in Height |-> None]]
    /\ height = [n \in Node |-> 0]
    /\ pending = [n \in Node |-> {}]
    /\ sigs = [n \in Node |-> [b \in Block |-> {}]]
    /\ buffer = [n \in Node |-> [b \in Block |-> {}]]
    /\ connected = Node \ Late
    /\ created = {}
    /\ voted = [n \in Node |-> {}]
    /\ blocks = [n \in Node |-> {}]
    /\ approvals = [n \in Node |-> {}]
    /\ requests = [n \in Node |-> {}]

\* The nodes a publication by n reaches; nobody receives its own messages.
Reached(n) == IF n \in connected THEN connected \ {n} ELSE {}

Publish(inbox, n, msgs) ==
    [m \in Node |-> IF m \in Reached(n) THEN inbox[m] \cup msgs ELSE inbox[m]]

Receive(inbox, n, msg) == [inbox EXCEPT ![n] = @ \ {msg}]

\* What is stored above the current height is not found.
GetBlockByHeight(n, h) == IF h <= height[n] THEN chain[n][h] ELSE None

HasBlock(n, b) == \E h \in Height : GetBlockByHeight(n, h) = b

\* Mutant: the threshold is one short.
IsApprovedOneShort(n, b) ==
    Cardinality(sigs[n][b]) >= (2 * Cardinality(Committee)) \div 3

IsApproved(n, b) ==
    Cardinality(sigs[n][b]) >= (2 * Cardinality(Committee)) \div 3 + 1

\* Mutant: the height is one too far.
AddBlockTooHigh(n, b) ==
    /\ chain' = [chain EXCEPT ![n][Number[b]] = b]
    /\ height' = [height EXCEPT ![n] = Number[b] + 1]

AddBlock(n, b) ==
    /\ chain' = [chain EXCEPT ![n][Number[b]] = b]
    /\ height' = [height EXCEPT ![n] = Number[b]]

\* A late node connects to the others.
Connect(n) ==
    /\ n \notin connected
    /\ connected' = connected \cup {n}
    /\ UNCHANGED <<chainVars, approvalVars, created, netVars>>

\* producerLoop: the proposer adds its block at once and publishes it.
Propose(n, b) ==
    /\ Proposer[b] = n /\ b \notin created
    /\ Number[b] = height[n] + 1
    /\ AddBlock(n, b)
    /\ created' = created \cup {b}
    /\ blocks' = Publish(blocks, n, {b})
    /\ UNCHANGED <<approvalVars, connected, approvals, requests>>

\* The checks of processReceivedBlock, in its order.
Accepted(n, b) ==
    /\ b \notin pending[n]
    /\ ~ HasBlock(n, b)
    /\ Number[b] <= height[n] + CatchUp
    /\ Number[b] >= height[n]

\* The new entry takes over the buffered approvals and the node's own vote.
StartApproval(n, b) ==
    /\ pending' = [pending EXCEPT ![n] = @ \cup {b}]
    /\ sigs' = [sigs EXCEPT ![n][b] = (buffer[n][b] \cup {n}) \cap Committee]
    /\ buffer' = [buffer EXCEPT ![n][b] = {}]

\* Mutant: the approval is counted and not broadcast.
ReceiveBlockSilently(n, b) ==
    /\ b \in blocks[n]
    /\ blocks' = Receive(blocks, n, b)
    /\ \/ /\ ~ Accepted(n, b)
          /\ UNCHANGED approvalVars
       \/ /\ Accepted(n, b)
          /\ StartApproval(n, b)
          /\ voted' = [voted EXCEPT ![n] = @ \cup {b}]
    /\ UNCHANGED <<chainVars, connected, created, approvals, requests>>

\* handleBlockProposal and handleBlockResponse: the approval is broadcast
\* whether or not the node is in the committee.
ReceiveBlock(n, b) ==
    /\ b \in blocks[n]
    /\ blocks' = Receive(blocks, n, b)
    /\ \/ /\ ~ Accepted(n, b)
          /\ UNCHANGED <<approvalVars, approvals>>
       \/ /\ Accepted(n, b)
          /\ StartApproval(n, b)
          /\ voted' = [voted EXCEPT ![n] = @ \cup {b}]
          /\ approvals' = Publish(approvals, n, {<<n, b>>})
    /\ UNCHANGED <<chainVars, connected, created, requests>>

\* processApproval: counted if the block is pending and the sender a member,
\* buffered if the block is unknown (or already finalized).
CountApproval(n, a, b) ==
    \/ /\ b \in pending[n]
       /\ sigs' = [sigs EXCEPT ![n][b] = @ \cup ({a} \cap Committee)]
       /\ UNCHANGED buffer
    \/ /\ b \notin pending[n]
       /\ buffer' = [buffer EXCEPT ![n][b] = @ \cup {a}]
       /\ UNCHANGED sigs

ReceiveApproval(n, a, b) ==
    /\ <<a, b>> \in approvals[n]
    /\ approvals' = Receive(approvals, n, <<a, b>>)
    /\ CountApproval(n, a, b)
    /\ UNCHANGED <<chainVars, pending, voted, connected, created, blocks,
                   requests>>

Drop(n, b) ==
    /\ pending' = [pending EXCEPT ![n] = @ \ {b}]
    /\ sigs' = [sigs EXCEPT ![n][b] = {}]

\* finalizeApprovedBlock.
Finalize(n, b) ==
    /\ b \in pending[n]
    /\ IsApproved(n, b)
    /\ Drop(n, b)
    /\ AddBlock(n, b)
    /\ UNCHANGED <<buffer, voted, connected, created, netVars>>

\* Nothing about b is on its way.
Quiet(b) ==
    \A m \in Node : b \notin blocks[m] /\ \A a \in Node : <<a, b>> \notin approvals[m]

\* Mutant: the watch finalizes the block when it gives up.
WatchTimeoutFinalizes(n, b) ==
    /\ b \in pending[n]
    /\ Timely => Quiet(b) /\ ~ IsApproved(n, b)
    /\ Drop(n, b)
    /\ AddBlock(n, b)
    /\ UNCHANGED <<buffer, voted, connected, created, netVars>>

\* watchBlockApproval gives up.  In a timely network that is when all messages
\* were handled and the finalizer of an approved block has run.
WatchTimeout(n, b) ==
    /\ b \in pending[n]
    /\ Timely => Quiet(b) /\ ~ IsApproved(n, b)
    /\ Drop(n, b)
    /\ UNCHANGED <<chainVars, buffer, voted, connected, created, netVars>>

\* performBlockSync: the next heights the node has no block for.
Wanted(n) ==
    {h \in Height : /\ h \in height[n] + 1 .. height[n] + SyncWindow
                    /\ GetBlockByHeight(n, h) = None}

PerformBlockSync(n) ==
    /\ requests' = Publish(requests, n, Wanted(n))
    /\ UNCHANGED <<chainVars, approvalVars, connected, created, blocks, approvals>>

\* handleBlockRequest: the answer is published, so everyone receives it.
HandleBlockRequest(n, h) ==
    /\ h \in requests[n]
    /\ requests' = Receive(requests, n, h)
    /\ blocks' = IF GetBlockByHeight(n, h) = None THEN blocks
                 ELSE Publish(blocks, n, {GetBlockByHeight(n, h)})
    /\ UNCHANGED <<chainVars, approvalVars, connected, created, approvals>>

Next ==
    \E n \in Node :
        \/ Connect(n)
        \/ PerformBlockSync(n)
        \/ \E h \in Height : HandleBlockRequest(n, h)
        \/ \E b \in Block :
              \/ Propose(n, b) \/ ReceiveBlock(n, b)
              \/ Finalize(n, b) \/ WatchTimeout(n, b)
              \/ \E a \in Node : ReceiveApproval(n, a, b)

Spec == Init /\ [][Next]_vars

\* Every node keeps running and a late node joins in the end; a message to a
\* connected node arrives; the sync ticker keeps ticking.
Fairness ==
    \A n \in Node :
        /\ WF_vars(Connect(n))
        /\ WF_vars(PerformBlockSync(n))
        /\ \A h \in Height : WF_vars(HandleBlockRequest(n, h))
        /\ \A b \in Block :
              /\ WF_vars(ReceiveBlock(n, b)) /\ WF_vars(Finalize(n, b))
              /\ WF_vars(WatchTimeout(n, b))
              /\ \A a \in Node : WF_vars(ReceiveApproval(n, a, b))

FairSpec == Spec /\ Fairness

-----------------------------------------------------------------------------
(* Properties *)

\* The type invariant.
TypeOK ==
    /\ chain \in [Node -> [Height -> Block \cup {None}]]
    /\ height \in [Node -> 0..MaxHeight]
    /\ pending \in [Node -> SUBSET Block]
    /\ sigs \in [Node -> [Block -> SUBSET Committee]]
    /\ buffer \in [Node -> [Block -> SUBSET Node]]
    /\ connected \in SUBSET Node
    /\ created \in SUBSET Block
    /\ voted \in [Node -> SUBSET Block]
    /\ blocks \in [Node -> SUBSET Block]
    /\ approvals \in [Node -> SUBSET (Node \X Block)]
    /\ requests \in [Node -> SUBSET Height]

Voters(b) == {m \in Committee : b \in voted[m]}

\* A block on a node's chain is the node's own, or more than two thirds of the
\* committee really voted for it, whatever was lost, delayed, timed out,
\* re-requested or buffered on the way.
QuorumBacked ==
    \A n \in Node, h \in Height :
        LET b == chain[n][h] IN
        b # None /\ Proposer[b] # n =>
            3 * Cardinality(Voters(b)) > 2 * Cardinality(Committee)

\* Two nodes end up with different blocks of a height, neither its own, only if
\* more than a third of the committee voted for both: nothing lost, late or
\* retried on the way makes a fork out of single votes.
ForkNeedsDoubleVotes ==
    \A m, n \in Node, h \in Height :
        LET b == chain[m][h]
            c == chain[n][h]
        IN  /\ b # None /\ c # None /\ b # c
            /\ Proposer[b] # m /\ Proposer[c] # n
            => 3 * Cardinality(Voters(b) \cap Voters(c)) > Cardinality(Committee)

\* The network implements the voted chain: behind all messages, a block is
\* created once, a vote is for a block that exists, and a node stores a block
\* of another node only with its quorum.
VC == INSTANCE VotedChain WITH
          Quorum <- {S \in SUBSET Committee :
                        3 * Cardinality(S) > 2 * Cardinality(Committee)},
          known <- created,
          support <- [b \in Block |-> Voters(b)],
          chain <- chain

ImplementsVotedChain == VC!Spec

\* node_test.go: "all nodes should finalize the block within the timeout".
AllFinalize ==
    \A b \in Block : b \in created ~> \A n \in Node : HasBlock(n, b)

(* What documents and comments say and the code does not have: TLC refutes *)
(* these (README.md, section 6).                                           *)

\* docs/QUICKSTART.md: "New nodes will fast sync to the latest block height if
\* behind".  A block that is on the chain of every node that was there is in
\* the end on the chain of a node that joins late.
LateNodeCatchesUp ==
    \A b \in Block :
        (\A n \in Node \ Late : HasBlock(n, b)) ~> (\A n \in Node : HasBlock(n, b))

\* node_test.go: "Check that all nodes have the same block at height 1": two
\* nodes that finalized a block of another proposer at some height finalized
\* the same one.
SameBlockAtHeight ==
    \A m, n \in Node, h \in Height :
        LET b == chain[m][h]
            c == chain[n][h]
        IN  b # None /\ c # None /\ Proposer[b] # m /\ Proposer[c] # n => b = c
=============================================================================
