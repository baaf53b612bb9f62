----------------------------- MODULE ChainStore -----------------------------
(***************************************************************************)
(* The chain on disk (blockchain.go): NewBlockchain, addBlock with its     *)
(* three separate Puts, the look-ups, and what a crash between two Puts,   *)
(* or a Put that returns an error, leaves behind.  Every Put is one        *)
(* committed transaction of the store (BoltStore.Put).  AddBlock holds the *)
(* chain's lock, so there is one writer.  Which blocks are added in which  *)
(* order is left open: module BlockFinalization shows that heights may be  *)
(* skipped, repeated and go back.                                          *)
(***************************************************************************)
EXTENDS Integers

CONSTANTS
    Block,      \* the blocks other than genesis
    Genesis,    \* the genesis block
    None,       \* "no such key", and the zero hash
    Number,     \* [Block -> height written in the header]
    MaxHeight   \* bound: the largest block number

ASSUME ChainAssumption ==
    /\ None \notin Block \cup {Genesis} \cup Nat
    /\ Genesis \notin Block
    /\ MaxHeight \in Nat
    /\ Number \in [Block -> 1..MaxHeight]

VARIABLES
    disk,           \* [0..MaxHeight -> block under block_<height>, or None]
    diskTip,        \* the value under "tip", or None
    diskHeight,     \* the value under "height", or None
    pc,             \* the writer: down, initTip, initHeight, block, tip, height, idle
    blk,            \* the block being added
    tip,            \* bc.tip
    currentHeight,  \* bc.currentHeight
    state,          \* the blocks whose effects are in n.state
    applied,        \* the block "last" once it has been applied, or None
    last            \* the last Put sequence that completed, None once it is
                    \* partly overwritten

diskVars == <<disk, diskTip, diskHeight>>
memVars == <<tip, currentHeight>>
applyVars == <<state, applied>>
vars == <<diskVars, pc, blk, memVars, applyVars, last>>

Height == 0..MaxHeight
NumberOf(b) == IF b = Genesis THEN 0 ELSE Number[b]

-----------------------------------------------------------------------------
(* Look-ups *)

\* GetBlockByHeight; None stands for the error it returns.
GetBlockByHeight(h) ==
    IF h > currentHeight THEN None
    ELSE IF h = 0 THEN Genesis
    ELSE disk[h]

\* GetBlockByHash scans the heights up to the current one, gaps included.
GetBlockByHash(b) ==
    IF \E h \in 0..currentHeight : GetBlockByHeight(h) = b THEN b ELSE None

GetLastBlock == IF tip = None THEN Genesis ELSE GetBlockByHash(tip)

-----------------------------------------------------------------------------
(* NewBlockchain *)

Init ==
    /\ disk = [h \in Height |-> None]
    /\ diskTip = None
    /\ diskHeight = None
    /\ pc = "down"
    /\ blk = None
    /\ tip = None
    /\ currentHeight = 0
    /\ state = {}
    /\ applied = None
    /\ last = None

\* Mutant: the stored height is not loaded.
OpenExistingAtZero ==
    /\ pc = "down"
    /\ diskTip # None
    /\ tip' = diskTip
    /\ currentHeight' = 0
    /\ pc' = "idle"
    /\ UNCHANGED <<diskVars, blk, applyVars, last>>

\* A stored tip is loaded, with the stored height if there is one.  NewAppNode
\* starts with an empty state (NewState) in either case.
OpenExisting ==
    /\ pc = "down"
    /\ diskTip # None
    /\ tip' = diskTip
    /\ currentHeight' = IF diskHeight = None THEN 0 ELSE diskHeight
    /\ pc' = "idle"
    /\ UNCHANGED <<diskVars, blk, applyVars, last>>

OpenFresh ==
    /\ pc = "down"
    /\ diskTip = None
    /\ tip' = Genesis
    /\ currentHeight' = 0
    /\ pc' = "initTip"
    /\ UNCHANGED <<diskVars, blk, applyVars, last>>

PutInitialTip ==
    /\ pc = "initTip"
    /\ diskTip' = tip
    /\ pc' = "initHeight"
    /\ UNCHANGED <<disk, diskHeight, blk, memVars, applyVars, last>>

\* Mutant: no genesis block is created.
PutInitialHeightOnly ==
    /\ pc = "initHeight"
    /\ diskHeight' = 0
    /\ pc' = "block"
    /\ UNCHANGED <<disk, diskTip, blk, memVars, applyVars, last>>

\* Then the genesis block is added like any other.
PutInitialHeight ==
    /\ pc = "initHeight"
    /\ diskHeight' = 0
    /\ blk' = Genesis
    /\ pc' = "block"
    /\ UNCHANGED <<disk, diskTip, memVars, applyVars, last>>

-----------------------------------------------------------------------------
(* addBlock *)

\* Mutant: the height is counted up before the block is stored.
AddBlockHeightFirst(b) ==
    /\ pc = "idle"
    /\ blk' = b
    /\ currentHeight' = Number[b]
    /\ pc' = "block"
    /\ UNCHANGED <<diskVars, tip, applyVars, last>>

AddBlock(b) ==
    /\ pc = "idle"
    /\ blk' = b
    /\ pc' = "block"
    /\ UNCHANGED <<diskVars, memVars, applyVars, last>>

PutBlock ==
    /\ pc = "block"
    /\ disk' = [disk EXCEPT ![NumberOf(blk)] = blk]
    /\ tip' = blk
    /\ last' = None
    /\ applied' = None
    /\ pc' = "tip"
    /\ UNCHANGED <<diskTip, diskHeight, blk, currentHeight, state>>

PutTip ==
    /\ pc = "tip"
    /\ diskTip' = tip
    /\ currentHeight' = NumberOf(blk)
    /\ pc' = "height"
    /\ UNCHANGED <<disk, diskHeight, blk, tip, applyVars, last>>

PutHeight ==
    /\ pc = "height"
    /\ diskHeight' = currentHeight
    /\ last' = blk
    /\ pc' = "idle"
    /\ UNCHANGED <<disk, diskTip, blk, memVars, applyVars>>

\* A Put returns an error.  addBlock returns it; in NewBlockchain the node then
\* does not start.  What was assigned in memory before the Put stays assigned.
PutFails ==
    /\ pc \in {"initTip", "initHeight", "block", "tip", "height"}
    /\ pc' = IF pc \in {"initTip", "initHeight"} \/ blk = Genesis
             THEN "down" ELSE "idle"
    /\ UNCHANGED <<diskVars, blk, memVars, applyVars, last>>

\* The caller of AddBlock applies the block it added.
ApplyBlock ==
    /\ pc = "idle"
    /\ last \in Block
    /\ state' = state \cup {last}
    /\ applied' = last
    /\ UNCHANGED <<diskVars, pc, blk, memVars, last>>

\* The process dies between two steps; only the store is left.
Crash ==
    /\ pc # "down"
    /\ pc' = "down"
    /\ blk' = None
    /\ tip' = None
    /\ currentHeight' = 0
    /\ state' = {}
    /\ UNCHANGED <<diskVars, applied, last>>

Next ==
    \/ OpenExisting
    \/ OpenFresh
    \/ PutInitialTip
    \/ PutInitialHeight
    \/ \E b \in Block : AddBlock(b)
    \/ PutBlock
    \/ PutTip
    \/ PutHeight
    \/ PutFails
    \/ ApplyBlock
    \/ Crash

-----------------------------------------------------------------------------
(* Properties *)

\* The type invariant of the stored keys and the chain's fields.
TypeOK ==
    /\ disk \in [Height -> Block \cup {Genesis, None}]
    /\ diskTip \in Block \cup {Genesis, None}
    /\ diskHeight \in Height \cup {None}
    /\ pc \in {"down", "initTip", "initHeight", "block", "tip", "height", "idle"}
    /\ blk \in Block \cup {Genesis, None}
    /\ pc \in {"block", "tip", "height"} => blk # None
    /\ tip \in Block \cup {Genesis, None}
    /\ currentHeight \in Height
    /\ state \subseteq Block /\ applied \in Block \cup {None}
    /\ last \in Block \cup {Genesis, None}

\* The height never runs ahead of the blocks: after any crash, failed Put or
\* restart, GetBlockByHeight(Height()) finds a block, and so will it after the
\* next restart.  addBlock gets this from the order of its Puts.
HeightBacked ==
    /\ GetBlockByHeight(currentHeight) # None
    /\ diskHeight \notin {None, 0} => disk[diskHeight] # None

\* Once AddBlock has returned, the block it added is the last block, now and
\* after every later crash and restart, until another Put succeeds - whatever
\* earlier crashes or failed Puts had left on disk.
AddedIsLast ==
    last # None /\ pc = "idle" =>
        /\ GetLastBlock = last
        /\ currentHeight = NumberOf(last)

(* What documents and comments say and the code does not have: TLC refutes *)
(* these (README.md, section 6).                                           *)

\* blockchain.go: "GetLastBlock returns the most recent block in the chain."
\* An open chain that is not in the middle of AddBlock has a last block.
LastBlockFound == pc = "idle" => GetLastBlock # None

\* docs/TECHNICAL_SPEC.md: the storage layer "provides persistent and in-memory
\* storage for blocks and state": what was applied for the chain's last block
\* is in the state whenever that chain is open.
StateFollowsChain ==
    pc = "idle" /\ last # None /\ applied = last => last \in state

(* What has to hold besides for the invariants to be inductive. *)

\* While the writer is in the middle, the block of its height is on disk.
WriterInv ==
    /\ pc \in {"initTip", "initHeight"} => tip = Genesis
    /\ pc \in {"tip", "height"} => tip = blk /\ disk[NumberOf(blk)] = blk
    /\ pc = "height" => diskTip = blk /\ currentHeight = NumberOf(blk)

\* The last completed addition is what the store holds, and the memory too
\* unless the node is down.
LastInv ==
    last # None =>
        /\ diskTip = last
        /\ diskHeight = NumberOf(last)
        /\ last # Genesis => disk[NumberOf(last)] = last
        /\ pc \in {"idle", "block"} => tip = last /\ currentHeight = NumberOf(last)
        /\ pc \in {"idle", "block", "down"}

ChainInv == TypeOK /\ WriterInv /\ LastInv /\ HeightBacked
=============================================================================
