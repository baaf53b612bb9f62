------------------------- MODULE BlockFinalization -------------------------
(***************************************************************************)
(* How one node turns received block proposals and approvals into blocks   *)
(* of its chain (node.go, block_approval.go, and AddBlock of               *)
(* blockchain.go), at the granularity of its goroutines:                   *)
(*                                                                         *)
(*  - one handler per subscribed topic (p2p.go starts one goroutine per    *)
(*    topic): BlockTopic and BlockResponseTopic both run                   *)
(*    processReceivedBlock, ApprovalTopic runs processApproval;            *)
(*  - one watchBlockApproval goroutine per pending insertion;              *)
(*  - any number of finalizeApprovedBlock goroutines;                      *)
(*  - producerLoop, which adds its own blocks directly.                    *)
(*                                                                         *)
(* A step is what a goroutine does between two accesses to state that      *)
(* another goroutine may change (a mutex section, or one access to an      *)
(* unsynchronised map).  Signatures are not verified by AddSignature, so   *)
(* an approval is just the address it carries.  A block is its identity:   *)
(* Number and Prev are its header's BlockNumber and PreviousHash.  What    *)
(* applying a block does to accounts is module Ledger; what a crash leaves *)
(* on disk is module ChainStore.                                           *)
(***************************************************************************)
EXTENDS Integers, FiniteSets

CONSTANTS
    Block,          \* identities (hashes) of the blocks other than genesis
    OwnBlock,       \* the blocks this node's producer may create
    Genesis,        \* the genesis block
    None,           \* "no such entry"
    Number,         \* [Block -> height written in the header]
    Prev,           \* [Block -> previous hash written in the header]
    Addr,           \* validator addresses
    Self,           \* this node's address
    Committees,     \* committees ForceCommitteeAndProposer may elect
    CatchUp,        \* the allowance of the height check, 10 in the code
    MaxHeight,      \* bound: the largest block number
    MaxObj,         \* bound: BlockApproval objects ever created
    MaxApprovals    \* bound: approval messages received

Handler == {"block", "response"}
Obj == 1..MaxObj

ASSUME BlockAssumption ==
    /\ None \notin Block \cup {Genesis} \cup Obj
    /\ Genesis \notin Block
    /\ OwnBlock \subseteq Block
    /\ Number \in [Block -> 1..MaxHeight]
    /\ Prev \in [Block -> Block \cup {Genesis}]

ASSUME CommitteeAssumption ==
    /\ IsFiniteSet(Addr)
    /\ Self \in Addr
    /\ None \notin Addr
    /\ Committees \subseteq SUBSET Addr
    /\ {} \notin Committees

ASSUME BoundAssumption ==
    /\ CatchUp \in Nat
    /\ MaxHeight \in Nat \ {0}
    /\ MaxObj \in Nat \ {0}
    /\ MaxApprovals \in Nat

VARIABLES
    pending,      \* [Block -> Obj or None]: pendingBlocks
    buffer,       \* [Block -> SUBSET Addr]: approvalBuffer
    nObj,         \* how many BlockApproval objects were created
    objBlock,     \* [Obj -> Block or None]: BlockApproval.Block.  Objects are
    objCommittee, \* [Obj -> SUBSET Addr]:   .Committee   never reused: these
    objSigs,      \* [Obj -> SUBSET Addr]:   .Signatures  are also the history
    hpc, hblk, hobj,  \* per block handler: program counter, block, approval
    ah,           \* the approval handler: pc, block, addr, obj
    nApprovals,   \* approval messages received so far
    watchers,     \* [Block -> watchBlockApproval goroutines running]
    finalizers,   \* [Block -> finalizeApprovedBlock goroutines not yet claimed]
    adding,       \* [Block -> goroutines that claimed and will AddBlock]
    applying,     \* [Block -> goroutines that added and will apply the block]
    applied,      \* [Block -> times the block was handed to the state]
    chain,        \* [0..MaxHeight -> block stored under that height, or None]
    currentHeight,
    committee,    \* n.committee
    producer,     \* producerLoop: pc, block
    created,      \* own blocks created so far
    published,    \* own blocks broadcast on BlockTopic
    approvedBy    \* [Block -> addresses that approved it, this node included]

objVars == <<nObj, objBlock, objCommittee>>
nodeVars == <<pending, buffer, objVars, objSigs>>
handlerVars == <<hpc, hblk, hobj>>
approvalVars == <<ah, nApprovals>>
routineVars == <<watchers, finalizers, adding, applying, applied>>
chainVars == <<chain, currentHeight>>
otherVars == <<committee, producer, created, published>>
vars == <<nodeVars, handlerVars, approvalVars, routineVars, chainVars,
          otherVars, approvedBy>>

Idle == [pc |-> "idle", block |-> None, addr |-> None, obj |-> None]
ProducerIdle == [pc |-> "idle", block |-> None]
NoGoroutine == [b \in Block |-> 0]

Threshold(c) == (2 * Cardinality(c)) \div 3 + 1

IsApproved(o) == Cardinality(objSigs[o]) >= Threshold(objCommittee[o])

\* AddSignature returns an error for an address outside the object's committee
\* and for a repeated address; the map is then unchanged.
Refuses(o, a) == a \notin objCommittee[o] \/ a \in objSigs[o]

\* Mutant: the signer's membership is checked against the committee of the moment.
AddSignatureOfCurrent(o, addrs) ==
    [objSigs EXCEPT ![o] = @ \cup (addrs \cap committee)]

AddSignature(o, addrs) ==
    [objSigs EXCEPT ![o] = @ \cup (addrs \cap objCommittee[o])]

Inc(f, b) == [f EXCEPT ![b] = @ + 1]
Dec(f, b) == [f EXCEPT ![b] = @ - 1]

\* HasBlock scans the heights up to currentHeight; height 0 is always genesis.
HasBlock(b) == \E h \in 1..currentHeight : chain[h] = b

\* Mutant: the height is one too far.
AddBlockTooHigh(b) ==
    /\ chain' = [chain EXCEPT ![Number[b]] = b]
    /\ currentHeight' = Number[b] + 1

\* AddBlock stores b under its number and makes it the tip, whatever was there.
AddBlock(b) ==
    /\ chain' = [chain EXCEPT ![Number[b]] = b]
    /\ currentHeight' = Number[b]

\* The store refuses the first Put; what a later Put leaves is in ChainStore.
AddBlockFails == UNCHANGED chainVars

Init ==
    /\ pending = [b \in Block |-> None]
    /\ buffer = [b \in Block |-> {}]
    /\ nObj = 0
    /\ objBlock = [o \in Obj |-> None]
    /\ objCommittee = [o \in Obj |-> {}]
    /\ objSigs = [o \in Obj |-> {}]
    /\ hpc = [h \in Handler |-> "idle"]
    /\ hblk = [h \in Handler |-> None]
    /\ hobj = [h \in Handler |-> None]
    /\ ah = Idle
    /\ nApprovals = 0
    /\ watchers = NoGoroutine
    /\ finalizers = NoGoroutine
    /\ adding = NoGoroutine
    /\ applying = NoGoroutine
    /\ applied = NoGoroutine
    /\ chain = [h \in 0..MaxHeight |-> IF h = 0 THEN Genesis ELSE None]
    /\ currentHeight = 0
    /\ committee = {}
    /\ producer = ProducerIdle
    /\ created = {}
    /\ published = {}
    /\ approvedBy = [b \in Block |-> {}]

-----------------------------------------------------------------------------
(* processReceivedBlock, run by the two block handlers *)

Goto(h, pc) == hpc' = [hpc EXCEPT ![h] = pc]

Finish(h) ==
    /\ Goto(h, "idle")
    /\ hblk' = [hblk EXCEPT ![h] = None]
    /\ hobj' = [hobj EXCEPT ![h] = None]

\* First section: a block that is already pending is ignored.
StartProcessing(h, b) ==
    /\ hpc[h] = "idle"
    /\ pending[b] = None
    /\ Goto(h, "hasBlock")
    /\ hblk' = [hblk EXCEPT ![h] = b]
    /\ UNCHANGED <<nodeVars, hobj, approvalVars, routineVars, chainVars,
                   otherVars, approvedBy>>

HandleBlockProposal(b) ==
    /\ b \notin OwnBlock
    /\ StartProcessing("block", b)

\* A peer may answer a block request with any block it holds, one of ours
\* included once it was broadcast.
HandleBlockResponse(b) ==
    /\ b \in OwnBlock => b \in published
    /\ StartProcessing("response", b)

HasBlockCheck(h) ==
    /\ hpc[h] = "hasBlock"
    /\ \/ /\ HasBlock(hblk[h])
          /\ Finish(h)
       \/ /\ ~ HasBlock(hblk[h])
          /\ Goto(h, "height")
          /\ UNCHANGED <<hblk, hobj>>
    /\ UNCHANGED <<nodeVars, approvalVars, routineVars, chainVars, otherVars,
                   approvedBy>>

HeightAccepted(n) == n <= currentHeight + CatchUp /\ n >= currentHeight

HeightCheck(h) ==
    /\ hpc[h] = "height"
    /\ \/ /\ ~ HeightAccepted(Number[hblk[h]])
          /\ Finish(h)
       \/ /\ HeightAccepted(Number[hblk[h]])
          /\ Goto(h, "insert")
          /\ UNCHANGED <<hblk, hobj>>
    /\ UNCHANGED <<nodeVars, approvalVars, routineVars, chainVars, otherVars,
                   approvedBy>>

\* NewBlockApproval with the committee of this moment, then the insertion.
\* Elections are unconstrained here, so reading n.committee together with the
\* insertion loses no behaviour.
Insert(h) ==
    /\ hpc[h] = "insert"
    /\ nObj < MaxObj
    /\ nObj' = nObj + 1
    /\ objBlock' = [objBlock EXCEPT ![nObj + 1] = hblk[h]]
    /\ objCommittee' = [objCommittee EXCEPT ![nObj + 1] = committee]
    /\ pending' = [pending EXCEPT ![hblk[h]] = nObj + 1]
    /\ hobj' = [hobj EXCEPT ![h] = nObj + 1]
    /\ Goto(h, "drain")
    /\ UNCHANGED <<buffer, objSigs, hblk, approvalVars, routineVars, chainVars,
                   otherVars, approvedBy>>

\* The buffered approvals are taken over and the watcher is started.
Drain(h) ==
    /\ hpc[h] = "drain"
    /\ objSigs' = AddSignature(hobj[h], buffer[hblk[h]])
    /\ buffer' = [buffer EXCEPT ![hblk[h]] = {}]
    /\ watchers' = Inc(watchers, hblk[h])
    /\ Goto(h, "vote")
    /\ UNCHANGED <<pending, objVars, hblk, hobj, approvalVars, finalizers,
                   adding, applying, applied, chainVars, otherVars,
                   approvedBy>>

\* A node that is a member of the committee now signs the object, whose own
\* committee may be an older one: then AddSignature fails and the pending
\* entry is dropped.
SkipVote(h) ==
    /\ Self \notin committee
    /\ Goto(h, "decide")
    /\ UNCHANGED <<pending, objSigs, hblk, hobj, approvedBy>>

FailVote(h) ==
    /\ Self \in committee /\ Refuses(hobj[h], Self)
    /\ pending' = [pending EXCEPT ![hblk[h]] = None]
    /\ Finish(h)
    /\ UNCHANGED <<objSigs, approvedBy>>

SignVote(h) ==
    /\ Self \in committee /\ ~ Refuses(hobj[h], Self)
    /\ objSigs' = AddSignature(hobj[h], {Self})
    /\ approvedBy' = [approvedBy EXCEPT ![hblk[h]] = @ \cup {Self}]
    /\ Goto(h, "decide")
    /\ UNCHANGED <<pending, hblk, hobj>>

Vote(h) ==
    /\ hpc[h] = "vote"
    /\ SkipVote(h) \/ FailVote(h) \/ SignVote(h)
    /\ UNCHANGED <<buffer, objVars, approvalVars, routineVars, chainVars,
                   otherVars>>

\* A finalizer is started if the object is approved, and the node's approval
\* is broadcast either way.
Decide(h) ==
    /\ hpc[h] = "decide"
    /\ finalizers' = IF IsApproved(hobj[h]) THEN Inc(finalizers, hblk[h])
                                            ELSE finalizers
    /\ Finish(h)
    /\ UNCHANGED <<nodeVars, approvalVars, watchers, adding, applying, applied,
                   chainVars, otherVars, approvedBy>>

-----------------------------------------------------------------------------
(* processApproval *)

\* The look-up in pendingBlocks.  pubsub does not deliver a node's own messages.
HandleApproval(b, a) ==
    /\ ah.pc = "idle"
    /\ nApprovals < MaxApprovals
    /\ a # Self
    /\ nApprovals' = nApprovals + 1
    /\ approvedBy' = [approvedBy EXCEPT ![b] = @ \cup {a}]
    /\ ah' = [pc |-> IF pending[b] = None THEN "buffer" ELSE "add",
              block |-> b, addr |-> a, obj |-> pending[b]]
    /\ UNCHANGED <<nodeVars, handlerVars, routineVars, chainVars, otherVars>>

BufferApproval ==
    /\ ah.pc = "buffer"
    /\ buffer' = [buffer EXCEPT ![ah.block] = @ \cup {ah.addr}]
    /\ ah' = Idle
    /\ UNCHANGED <<pending, objVars, objSigs, handlerVars, nApprovals,
                   routineVars, chainVars, otherVars, approvedBy>>

\* AddSignature on the object found; when it refuses, the handler returns.
AddApproval ==
    /\ ah.pc = "add"
    /\ \/ /\ Refuses(ah.obj, ah.addr)
          /\ ah' = Idle
          /\ UNCHANGED objSigs
       \/ /\ ~ Refuses(ah.obj, ah.addr)
          /\ objSigs' = AddSignature(ah.obj, {ah.addr})
          /\ ah' = [pc |-> "check", block |-> ah.block, addr |-> ah.addr,
                    obj |-> ah.obj]
    /\ UNCHANGED <<pending, buffer, objVars, handlerVars, nApprovals,
                   routineVars, chainVars, otherVars, approvedBy>>

CheckApproval ==
    /\ ah.pc = "check"
    /\ finalizers' = IF IsApproved(ah.obj) THEN Inc(finalizers, ah.block)
                                           ELSE finalizers
    /\ ah' = Idle
    /\ UNCHANGED <<nodeVars, handlerVars, nApprovals, watchers, adding,
                   applying, applied, chainVars, otherVars, approvedBy>>

-----------------------------------------------------------------------------
(* watchBlockApproval *)

\* A tick of the 50 ms ticker that ends the watch.
WatchTick(b) ==
    /\ watchers[b] > 0
    /\ \/ /\ pending[b] = None
          /\ UNCHANGED finalizers
       \/ /\ pending[b] # None
          /\ IsApproved(pending[b])
          /\ finalizers' = Inc(finalizers, b)
    /\ watchers' = Dec(watchers, b)
    /\ UNCHANGED <<nodeVars, handlerVars, approvalVars, adding, applying,
                   applied, chainVars, otherVars, approvedBy>>

\* Mutant: the timeout ends the watch and leaves the entry.
WatchTimeoutKeeps(b) ==
    /\ watchers[b] > 0
    /\ watchers' = Dec(watchers, b)
    /\ UNCHANGED <<nodeVars, handlerVars, approvalVars, finalizers, adding,
                   applying, applied, chainVars, otherVars, approvedBy>>

\* The 250 ms timeout: whatever is pending under the hash is dropped.
WatchTimeout(b) ==
    /\ watchers[b] > 0
    /\ pending' = [pending EXCEPT ![b] = None]
    /\ watchers' = Dec(watchers, b)
    /\ UNCHANGED <<buffer, objVars, objSigs, handlerVars, approvalVars,
                   finalizers, adding, applying, applied, chainVars, otherVars,
                   approvedBy>>

-----------------------------------------------------------------------------
(* finalizeApprovedBlock *)

\* Mutant: the entry is checked and not removed.
ClaimWithoutRemoval(b) ==
    /\ finalizers[b] > 0
    /\ finalizers' = Dec(finalizers, b)
    /\ adding' = IF pending[b] = None THEN adding ELSE Inc(adding, b)
    /\ UNCHANGED <<nodeVars, handlerVars, approvalVars, watchers, applying,
                   applied, chainVars, otherVars, approvedBy>>

\* The claim: the pending entry is checked and removed in one section.
Claim(b) ==
    /\ finalizers[b] > 0
    /\ finalizers' = Dec(finalizers, b)
    /\ \/ /\ pending[b] = None
          /\ UNCHANGED <<pending, adding>>
       \/ /\ pending[b] # None
          /\ pending' = [pending EXCEPT ![b] = None]
          /\ adding' = Inc(adding, b)
    /\ UNCHANGED <<buffer, objVars, objSigs, handlerVars, approvalVars,
                   watchers, applying, applied, chainVars, otherVars,
                   approvedBy>>

FinalizeAdd(b) ==
    /\ adding[b] > 0
    /\ adding' = Dec(adding, b)
    /\ \/ /\ AddBlock(b)
          /\ applying' = Inc(applying, b)
       \/ /\ AddBlockFails
          /\ UNCHANGED applying
    /\ UNCHANGED <<nodeVars, handlerVars, approvalVars, watchers, finalizers,
                   applied, otherVars, approvedBy>>

\* ApplyBlockWithRegistry; module Ledger says what it does and how it fails.
FinalizeApply(b) ==
    /\ applying[b] > 0
    /\ applying' = Dec(applying, b)
    /\ applied' = Inc(applied, b)
    /\ UNCHANGED <<nodeVars, handlerVars, approvalVars, watchers, finalizers,
                   adding, chainVars, otherVars, approvedBy>>

-----------------------------------------------------------------------------
(* producerLoop, elections, and the death and restart of the process *)

\* CreateBlock builds on GetLastBlock, the block stored at the current height.
ProposeCreate(b) ==
    /\ producer.pc = "idle"
    /\ Self \in committee
    /\ b \in OwnBlock
    /\ b \notin created
    /\ Prev[b] = chain[currentHeight]
    /\ Number[b] = currentHeight + 1
    /\ producer' = [pc |-> "add", block |-> b]
    /\ created' = created \cup {b}
    /\ UNCHANGED <<nodeVars, handlerVars, approvalVars, routineVars, chainVars,
                   committee, published, approvedBy>>

ProposeAdd ==
    /\ producer.pc = "add"
    /\ \/ /\ AddBlock(producer.block)
          /\ producer' = [pc |-> "apply", block |-> producer.block]
       \/ /\ AddBlockFails
          /\ producer' = ProducerIdle
    /\ UNCHANGED <<nodeVars, handlerVars, approvalVars, routineVars, committee,
                   created, published, approvedBy>>

\* If applying fails the loop continues and the block is not broadcast.
ProposeApply ==
    /\ producer.pc = "apply"
    /\ applied' = Inc(applied, producer.block)
    /\ published' \in {published, published \cup {producer.block}}
    /\ producer' = ProducerIdle
    /\ UNCHANGED <<nodeVars, handlerVars, approvalVars, watchers, finalizers,
                   adding, applying, chainVars, committee, created,
                   approvedBy>>

\* ForceCommitteeAndProposer; how it chooses is module ProposerRotation.
ForceCommitteeAndProposer(c) ==
    /\ c # committee
    /\ committee' = c
    /\ UNCHANGED <<nodeVars, handlerVars, approvalVars, routineVars, chainVars,
                   producer, created, published, approvedBy>>

\* The process dies (a signal, or the runtime's fatal error on a concurrent
\* write of a Signatures map) and NewAppNode starts over with empty maps; the
\* chain is read back from its store.
Restart ==
    /\ pending' = [b \in Block |-> None]
    /\ buffer' = [b \in Block |-> {}]
    /\ hpc' = [h \in Handler |-> "idle"]
    /\ hblk' = [h \in Handler |-> None]
    /\ hobj' = [h \in Handler |-> None]
    /\ ah' = Idle
    /\ watchers' = NoGoroutine
    /\ finalizers' = NoGoroutine
    /\ adding' = NoGoroutine
    /\ applying' = NoGoroutine
    /\ committee' = {}
    /\ producer' = ProducerIdle
    /\ UNCHANGED <<objVars, objSigs, nApprovals, applied, chainVars, created,
                   published, approvedBy>>

HandlerStep(h) ==
    \/ HasBlockCheck(h)
    \/ HeightCheck(h)
    \/ Insert(h)
    \/ Drain(h)
    \/ Vote(h)
    \/ Decide(h)

Watch(b) == WatchTick(b) \/ WatchTimeout(b)

Next ==
    \/ \E b \in Block : HandleBlockProposal(b)
    \/ \E b \in Block : HandleBlockResponse(b)
    \/ \E h \in Handler : HandlerStep(h)
    \/ \E b \in Block, a \in Addr : HandleApproval(b, a)
    \/ BufferApproval
    \/ AddApproval
    \/ CheckApproval
    \/ \E b \in Block : Watch(b)
    \/ \E b \in Block : Claim(b)
    \/ \E b \in Block : FinalizeAdd(b)
    \/ \E b \in Block : FinalizeApply(b)
    \/ \E b \in Block : ProposeCreate(b)
    \/ ProposeAdd
    \/ ProposeApply
    \/ \E c \in Committees : ForceCommitteeAndProposer(c)
    \/ Restart

Spec == Init /\ [][Next]_vars

\* Goroutines that are ready keep being scheduled, and a watcher's ticker and
\* timer keep firing.  Nothing is assumed of the network, of elections, of the
\* producer or of crashes.
Fairness ==
    /\ \A h \in Handler : WF_vars(HandlerStep(h))
    /\ \A b \in Block : /\ WF_vars(Watch(b))
                        /\ WF_vars(Claim(b))

FairSpec == Spec /\ Fairness

-----------------------------------------------------------------------------
(* Properties *)

TypeNode ==
    /\ pending \in [Block -> Obj \cup {None}]
    /\ buffer \in [Block -> SUBSET Addr]
    /\ nObj \in 0..MaxObj
    /\ objBlock \in [Obj -> Block \cup {None}]
    /\ objCommittee \in [Obj -> SUBSET Addr]
    /\ objSigs \in [Obj -> SUBSET Addr]
    /\ committee \in SUBSET Addr
    /\ approvedBy \in [Block -> SUBSET Addr]

TypeHandlers ==
    /\ hpc \in [Handler -> {"idle", "hasBlock", "height", "insert", "drain",
                            "vote", "decide"}]
    /\ hblk \in [Handler -> Block \cup {None}]
    /\ hobj \in [Handler -> Obj \cup {None}]
    /\ \A h \in Handler :
          /\ hpc[h] # "idle" => hblk[h] # None
          /\ hpc[h] \in {"drain", "vote", "decide"} => hobj[h] # None

TypeApproval ==
    /\ nApprovals \in 0..MaxApprovals
    /\ ah \in [pc : {"idle", "buffer", "add", "check"},
               block : Block \cup {None}, addr : Addr \cup {None},
               obj : Obj \cup {None}]
    /\ ah.pc # "idle" => ah.block # None /\ ah.addr # None
    /\ ah.pc \in {"add", "check"} => ah.obj # None

TypeRoutines ==
    /\ watchers \in [Block -> Nat]
    /\ finalizers \in [Block -> Nat]
    /\ adding \in [Block -> Nat]
    /\ applying \in [Block -> Nat]
    /\ applied \in [Block -> Nat]

TypeChain ==
    /\ chain \in [0..MaxHeight -> Block \cup {Genesis, None}]
    /\ currentHeight \in 0..MaxHeight
    /\ producer \in [pc : {"idle", "add", "apply"},
                     block : OwnBlock \cup {None}]
    /\ producer.pc # "idle" => producer.block # None
    /\ created \in SUBSET OwnBlock
    /\ published \in SUBSET OwnBlock

\* The type invariant of the node's consensus state: AppNode's maps, the
\* goroutines' local variables and the stored chain.
TypeOK ==
    /\ TypeNode
    /\ TypeHandlers
    /\ TypeApproval
    /\ TypeRoutines
    /\ TypeChain

HasQuorum(b) ==
    \E c \in Committees : Cardinality(approvedBy[b] \cap c) >= Threshold(c)

\* Whatever the races between handlers, buffer, watchers, late finalizers and
\* re-elections, a block of another proposer enters the chain
\* (finalizeApprovedBlock) only after more than two thirds of one elected
\* committee approved that very block: approvals are never counted for another
\* block, nor together with approvals given under another committee.
FinalizedHasQuorum ==
    \A h \in 1..MaxHeight :
        chain[h] \in Block \ OwnBlock => HasQuorum(chain[h])

Inserts(b) == Cardinality({o \in Obj : objBlock[o] = b})

Claims(b) == adding[b] + applying[b] + applied[b]

\* However many finalizers the approval handler, the block handlers and the
\* watchers start for a block, the claim in finalizeApprovedBlock lets at most
\* one of them through for each time the block was inserted as pending.
ClaimOncePerInsert ==
    \A b \in Block \ OwnBlock :
        Claims(b) + (IF pending[b] = None THEN 0 ELSE 1) <= Inserts(b)

(* What has to hold besides, for the two invariants above to be inductive. *)

\* A pending entry, a handler and the approval handler hold an object of the
\* very block they are working on.
ObjectOfBlock ==
    /\ \A o \in Obj : o > nObj => objBlock[o] = None /\ objSigs[o] = {}
    /\ \A b \in Block : pending[b] # None => objBlock[pending[b]] = b
    /\ \A h \in Handler :
          hpc[h] \in {"drain", "vote", "decide"} => objBlock[hobj[h]] = hblk[h]
    /\ ah.pc \in {"add", "check"} => objBlock[ah.obj] = ah.block

\* Every signature is that of a member who approved the object's block.
Genuine(o) ==
    /\ objCommittee[o] \in Committees \cup {{}}
    /\ objSigs[o] \subseteq objCommittee[o]
    /\ objBlock[o] # None => objSigs[o] \subseteq approvedBy[objBlock[o]]

SignaturesGenuine ==
    /\ committee \in Committees \cup {{}}
    /\ \A o \in Obj : Genuine(o)
    /\ \A b \in Block : buffer[b] \subseteq approvedBy[b]
    /\ ah.pc # "idle" => ah.addr \in approvedBy[ah.block]

\* A finalizer is started, and claims, only for a block with a quorum.
FinalizersHaveQuorum ==
    \A b \in Block : finalizers[b] > 0 \/ adding[b] > 0 => HasQuorum(b)

QuorumInv ==
    /\ TypeOK
    /\ ObjectOfBlock
    /\ SignaturesGenuine
    /\ FinalizersHaveQuorum
    /\ FinalizedHasQuorum

ClaimInv ==
    /\ TypeOK
    /\ \A o \in Obj : o > nObj => objBlock[o] = None
    /\ ClaimOncePerInsert

\* Nothing stays pending for ever: the watcher's timeout or a finalizer removes
\* every entry of pendingBlocks (watchBlockApproval).
PendingDrains ==
    \A b \in Block : pending[b] # None ~> pending[b] = None

(* What documents and comments say and the code does not have: TLC refutes *)
(* these (README.md, section 6).                                           *)

\* node.go: "Check the buffer for any approvals that arrived early".  Once the
\* buffer was drained for a pending block no approval for it is left behind.
NoStrandedApproval ==
    \A b \in Block :
        /\ pending[b] # None
        /\ \A h \in Handler : hblk[h] # b
        => buffer[b] = {}

\* node.go: "Atomically check and remove the block from pending to "claim" it
\* for finalization": one finalization of a block for the life of the node.
FinalizedOnce == \A b \in Block : Claims(b) <= 1

\* node.go: "Block was already finalized by another goroutine": a finalizer
\* that finds nothing to claim lost to another finalizer.
MissMeansFinalized ==
    \A b \in Block :
        finalizers[b] > 0 /\ pending[b] = None => Claims(b) > 0

\* docs/TECHNICAL.md: "Sequence of blocks, each referencing the previous".
ChainLinked ==
    \A h \in 1..currentHeight :
        chain[h] # None /\ Prev[chain[h]] = chain[h - 1]

\* README.md: "At least 2/3 of the committee must sign a block for it to be
\* finalized".
EveryBlockApproved ==
    \A h \in 1..currentHeight : chain[h] \in Block => HasQuorum(chain[h])

=============================================================================
