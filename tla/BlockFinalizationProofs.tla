---------------------- MODULE BlockFinalizationProofs ----------------------
(* Machine-checked proofs about BlockFinalization. *)
EXTENDS BlockFinalization, FiniteSetTheorems, TLAPS

-----------------------------------------------------------------------------
(* Type correctness *)

(* No step takes a variable out of its type: under each action, the parts of  *)
(* the type invariant it can disturb, then the parts it leaves alone.         *)
LEMMA TypeStep == TypeOK /\ [Next]_vars => TypeOK'
<1> SUFFICES ASSUME TypeOK, [Next]_vars PROVE TypeOK'
  OBVIOUS
<1> USE BlockAssumption, CommitteeAssumption, BoundAssumption
    DEF TypeOK, Obj, Handler, objVars, nodeVars, handlerVars, approvalVars,
        routineVars, chainVars, otherVars
<1>1. CASE UNCHANGED vars
  BY <1>1 DEF vars, TypeNode, TypeHandlers, TypeApproval, TypeRoutines,
              TypeChain
<1>2. ASSUME NEW b \in Block, HandleBlockProposal(b) PROVE TypeOK'
  <2>1. TypeHandlers'
    BY <1>2 DEF HandleBlockProposal, StartProcessing, TypeHandlers, Goto
  <2>2. TypeNode' /\ TypeApproval' /\ TypeRoutines' /\ TypeChain'
    BY <1>2 DEF HandleBlockProposal, StartProcessing, TypeNode, TypeApproval,
                TypeRoutines, TypeChain
  <2> QED
    BY <2>1, <2>2
<1>3. ASSUME NEW b \in Block, HandleBlockResponse(b) PROVE TypeOK'
  <2>1. TypeHandlers'
    BY <1>3 DEF HandleBlockResponse, StartProcessing, TypeHandlers, Goto
  <2>2. TypeNode' /\ TypeApproval' /\ TypeRoutines' /\ TypeChain'
    BY <1>3 DEF HandleBlockResponse, StartProcessing, TypeNode, TypeApproval,
                TypeRoutines, TypeChain
  <2> QED
    BY <2>1, <2>2
<1>4. ASSUME NEW h \in Handler, HasBlockCheck(h) PROVE TypeOK'
  <2>1. TypeHandlers'
    BY <1>4 DEF HasBlockCheck, TypeHandlers, Goto, Finish
  <2>2. TypeNode' /\ TypeApproval' /\ TypeRoutines' /\ TypeChain'
    BY <1>4 DEF HasBlockCheck, TypeNode, TypeApproval, TypeRoutines, TypeChain
  <2> QED
    BY <2>1, <2>2
<1>5. ASSUME NEW h \in Handler, HeightCheck(h) PROVE TypeOK'
  <2>1. TypeHandlers'
    BY <1>5 DEF HeightCheck, TypeHandlers, Goto, Finish
  <2>2. TypeNode' /\ TypeApproval' /\ TypeRoutines' /\ TypeChain'
    BY <1>5 DEF HeightCheck, TypeNode, TypeApproval, TypeRoutines, TypeChain
  <2> QED
    BY <2>1, <2>2
<1>6. ASSUME NEW h \in Handler, Insert(h) PROVE TypeOK'
  <2>1. TypeNode'
    BY <1>6 DEF Insert, TypeNode, TypeHandlers
  <2>2. TypeHandlers'
    BY <1>6 DEF Insert, TypeHandlers, TypeNode, Goto
  <2>3. TypeApproval' /\ TypeRoutines' /\ TypeChain'
    BY <1>6 DEF Insert, TypeApproval, TypeRoutines, TypeChain
  <2> QED
    BY <2>1, <2>2, <2>3
<1>7. ASSUME NEW h \in Handler, Drain(h) PROVE TypeOK'
  <2>1. TypeNode'
    BY <1>7 DEF Drain, TypeNode, TypeHandlers, AddSignature
  <2>2. TypeHandlers'
    BY <1>7 DEF Drain, TypeHandlers, Goto
  <2>3. TypeRoutines'
    BY <1>7 DEF Drain, TypeRoutines, TypeHandlers, Inc
  <2>4. TypeApproval' /\ TypeChain'
    BY <1>7 DEF Drain, TypeApproval, TypeChain
  <2> QED
    BY <2>1, <2>2, <2>3, <2>4
<1>8. ASSUME NEW h \in Handler, Vote(h) PROVE TypeOK'
  <2>1. hblk[h] \in Block /\ hobj[h] \in Obj
    BY <1>8 DEF TypeHandlers, Vote
  <2>2. TypeNode'
    <3>1. CASE SkipVote(h)
      BY <1>8, <3>1 DEF Vote, SkipVote, TypeNode
    <3>2. CASE FailVote(h)
      BY <1>8, <2>1, <3>2 DEF Vote, FailVote, TypeNode
    <3>3. CASE SignVote(h)
      BY <1>8, <2>1, <3>3 DEF Vote, SignVote, TypeNode, AddSignature
    <3> QED
      BY <1>8, <3>1, <3>2, <3>3 DEF Vote
  <2>3. TypeHandlers'
    BY <1>8 DEF Vote, SkipVote, FailVote, SignVote, TypeHandlers, Goto, Finish
  <2>4. TypeApproval' /\ TypeRoutines' /\ TypeChain'
    BY <1>8 DEF Vote, TypeApproval, TypeRoutines, TypeChain
  <2> QED
    BY <2>1, <2>2, <2>3, <2>4
<1>9. ASSUME NEW h \in Handler, Decide(h) PROVE TypeOK'
  <2>1. TypeHandlers'
    BY <1>9 DEF Decide, TypeHandlers, Goto, Finish
  <2>2. TypeRoutines'
    BY <1>9 DEF Decide, TypeRoutines, TypeHandlers, Inc
  <2>3. TypeNode' /\ TypeApproval' /\ TypeChain'
    BY <1>9 DEF Decide, TypeNode, TypeApproval, TypeChain
  <2> QED
    BY <2>1, <2>2, <2>3
<1>10. ASSUME NEW b \in Block, NEW a \in Addr, HandleApproval(b, a)
      PROVE TypeOK'
  <2>1. pending[b] = None \/ pending[b] \in Obj
    BY <1>10 DEF TypeNode, HandleApproval
  <2>2. TypeNode'
    BY <1>10, <2>1 DEF HandleApproval, TypeNode
  <2>3. TypeApproval'
    BY <1>10, <2>1 DEF HandleApproval, TypeApproval, TypeNode
  <2>4. TypeHandlers' /\ TypeRoutines' /\ TypeChain'
    BY <1>10 DEF HandleApproval, TypeHandlers, TypeRoutines, TypeChain
  <2> QED
    BY <2>1, <2>2, <2>3, <2>4
<1>11. CASE BufferApproval
  <2>1. TypeNode'
    BY <1>11 DEF BufferApproval, TypeNode, TypeApproval
  <2>2. TypeApproval'
    BY <1>11 DEF BufferApproval, TypeApproval, Idle
  <2>3. TypeHandlers' /\ TypeRoutines' /\ TypeChain'
    BY <1>11 DEF BufferApproval, TypeHandlers, TypeRoutines, TypeChain
  <2> QED
    BY <2>1, <2>2, <2>3
<1>12. CASE AddApproval
  <2>1. ah.obj \in Obj /\ ah.addr \in Addr
    BY <1>12 DEF TypeApproval, AddApproval
  <2>2. TypeNode'
    <3>1. CASE Refuses(ah.obj, ah.addr)
      BY <1>12, <3>1 DEF AddApproval, TypeNode
    <3>2. CASE ~ Refuses(ah.obj, ah.addr)
      BY <1>12, <2>1, <3>2 DEF AddApproval, TypeNode, AddSignature
    <3> QED
      BY <3>1, <3>2
  <2>3. TypeApproval'
    BY <1>12, <2>1 DEF AddApproval, TypeApproval, Idle
  <2>4. TypeHandlers' /\ TypeRoutines' /\ TypeChain'
    BY <1>12 DEF AddApproval, TypeHandlers, TypeRoutines, TypeChain
  <2> QED
    BY <2>1, <2>2, <2>3, <2>4
<1>13. CASE CheckApproval
  <2>1. TypeApproval'
    BY <1>13 DEF CheckApproval, TypeApproval, Idle
  <2>2. TypeRoutines'
    BY <1>13 DEF CheckApproval, TypeRoutines, TypeApproval, Inc
  <2>3. TypeNode' /\ TypeHandlers' /\ TypeChain'
    BY <1>13 DEF CheckApproval, TypeNode, TypeHandlers, TypeChain
  <2> QED
    BY <2>1, <2>2, <2>3
<1>14. ASSUME NEW b \in Block, Watch(b) PROVE TypeOK'
  <2>1. TypeNode'
    BY <1>14 DEF Watch, WatchTick, WatchTimeout, TypeNode
  <2>2. TypeRoutines'
    BY <1>14 DEF Watch, WatchTick, WatchTimeout, TypeRoutines, Inc, Dec
  <2>3. TypeHandlers' /\ TypeApproval' /\ TypeChain'
    BY <1>14 DEF Watch, WatchTick, WatchTimeout, TypeHandlers, TypeApproval,
                 TypeChain
  <2> QED
    BY <2>1, <2>2, <2>3
<1>15. ASSUME NEW b \in Block, Claim(b) PROVE TypeOK'
  <2>1. TypeNode'
    BY <1>15 DEF Claim, TypeNode
  <2>2. TypeRoutines'
    BY <1>15 DEF Claim, TypeRoutines, Inc, Dec
  <2>3. TypeHandlers' /\ TypeApproval' /\ TypeChain'
    BY <1>15 DEF Claim, TypeHandlers, TypeApproval, TypeChain
  <2> QED
    BY <2>1, <2>2, <2>3
<1>16. ASSUME NEW b \in Block, FinalizeAdd(b) PROVE TypeOK'
  <2>1. Number[b] \in 0..MaxHeight
    BY <1>16 DEF FinalizeAdd
  <2>2. TypeRoutines'
    BY <1>16, <2>1 DEF FinalizeAdd, AddBlock, AddBlockFails, TypeRoutines, Inc,
                       Dec
  <2>3. TypeChain'
    <3>1. CASE AddBlock(b)
      BY <1>16, <2>1, <3>1 DEF FinalizeAdd, AddBlock, TypeChain
    <3>2. CASE AddBlockFails
      BY <1>16, <3>2 DEF FinalizeAdd, AddBlockFails, TypeChain
    <3> QED
      BY <1>16, <3>1, <3>2 DEF FinalizeAdd
  <2>4. TypeNode' /\ TypeHandlers' /\ TypeApproval'
    BY <1>16 DEF FinalizeAdd, AddBlock, AddBlockFails, TypeNode, TypeHandlers,
                 TypeApproval
  <2> QED
    BY <2>1, <2>2, <2>3, <2>4
<1>17. ASSUME NEW b \in Block, FinalizeApply(b) PROVE TypeOK'
  <2>1. TypeRoutines'
    BY <1>17 DEF FinalizeApply, TypeRoutines, Inc, Dec
  <2>2. TypeNode' /\ TypeHandlers' /\ TypeApproval' /\ TypeChain'
    BY <1>17 DEF FinalizeApply, TypeNode, TypeHandlers, TypeApproval, TypeChain
  <2> QED
    BY <2>1, <2>2
<1>18. ASSUME NEW b \in Block, ProposeCreate(b) PROVE TypeOK'
  <2>1. TypeChain'
    BY <1>18 DEF ProposeCreate, TypeChain
  <2>2. TypeNode' /\ TypeHandlers' /\ TypeApproval' /\ TypeRoutines'
    BY <1>18 DEF ProposeCreate, TypeNode, TypeHandlers, TypeApproval,
                 TypeRoutines
  <2> QED
    BY <2>1, <2>2
<1>19. CASE ProposeAdd
  <2>1. TypeChain'
    BY <1>19 DEF ProposeAdd, AddBlock, AddBlockFails, TypeChain, ProducerIdle
  <2>2. TypeNode' /\ TypeHandlers' /\ TypeApproval' /\ TypeRoutines'
    BY <1>19 DEF ProposeAdd, AddBlock, AddBlockFails, TypeNode, TypeHandlers,
                 TypeApproval, TypeRoutines
  <2> QED
    BY <2>1, <2>2
<1>20. CASE ProposeApply
  <2>1. TypeRoutines'
    BY <1>20 DEF ProposeApply, TypeRoutines, TypeChain, Inc
  <2>2. TypeChain'
    BY <1>20 DEF ProposeApply, TypeChain, ProducerIdle
  <2>3. TypeNode' /\ TypeHandlers' /\ TypeApproval'
    BY <1>20 DEF ProposeApply, TypeNode, TypeHandlers, TypeApproval
  <2> QED
    BY <2>1, <2>2, <2>3
<1>21. ASSUME NEW c \in Committees, ForceCommitteeAndProposer(c) PROVE TypeOK'
  <2>1. TypeNode'
    BY <1>21 DEF ForceCommitteeAndProposer, TypeNode
  <2>2. TypeHandlers' /\ TypeApproval' /\ TypeRoutines' /\ TypeChain'
    BY <1>21 DEF ForceCommitteeAndProposer, TypeHandlers, TypeApproval,
                 TypeRoutines, TypeChain
  <2> QED
    BY <2>1, <2>2
<1>22. CASE Restart
  <2>1. TypeNode'
    BY <1>22 DEF Restart, TypeNode
  <2>2. TypeHandlers'
    BY <1>22 DEF Restart, TypeHandlers
  <2>3. TypeApproval'
    BY <1>22 DEF Restart, TypeApproval, Idle
  <2>4. TypeRoutines'
    BY <1>22 DEF Restart, TypeRoutines, NoGoroutine
  <2>5. TypeChain'
    BY <1>22 DEF Restart, TypeChain, ProducerIdle
  <2> QED
    BY <2>1, <2>2, <2>3, <2>4, <2>5
<1> QED
  BY <1>1, <1>2, <1>3, <1>4, <1>5, <1>6, <1>7, <1>8, <1>9, <1>10, <1>11, <1>12,
     <1>13, <1>14, <1>15, <1>16, <1>17, <1>18, <1>19, <1>20, <1>21, <1>22
     DEF Next, HandlerStep

(* A node that has just started is well typed. *)
LEMMA TypeInit == Init => TypeOK
  BY BlockAssumption, CommitteeAssumption, BoundAssumption
     DEF Init, TypeOK, TypeNode, TypeHandlers, TypeApproval, TypeRoutines,
         TypeChain, Obj, Handler, Idle, ProducerIdle, NoGoroutine

(* AppNode's maps, the goroutines' locals and the chain keep their types:     *)
(* TypeOK holds in every state of every instance.                             *)
THEOREM TypeCorrect == Spec => []TypeOK
  BY TypeInit, TypeStep, PTL DEF Spec

-----------------------------------------------------------------------------
(* A quorum behind every finalized block *)

(* Approvals are never taken back, so a quorum stays a quorum. *)
LEMMA QuorumGrows ==
    ASSUME TypeOK, TypeOK', NEW b \in Block, HasQuorum(b),
           approvedBy[b] \subseteq approvedBy'[b]
    PROVE  HasQuorum(b)'
<1>1. PICK c \in Committees : Cardinality(approvedBy[b] \cap c) >= Threshold(c)
  BY DEF HasQuorum
<1>2. IsFiniteSet(approvedBy'[b] \cap c)
  <2>1. approvedBy'[b] \cap c \subseteq Addr
    BY DEF TypeOK, TypeNode
  <2> QED
    BY <2>1, CommitteeAssumption, FS_Subset
<1>3. approvedBy[b] \cap c \subseteq approvedBy'[b] \cap c
  OBVIOUS
<1>4. /\ IsFiniteSet(approvedBy[b] \cap c)
      /\ Cardinality(approvedBy[b] \cap c) <= Cardinality(approvedBy'[b] \cap c)
  BY <1>2, <1>3, FS_Subset
<1>5. Cardinality(approvedBy[b] \cap c) \in Nat
  BY <1>4, FS_CardinalityType
<1>6. Cardinality(approvedBy'[b] \cap c) \in Nat
  BY <1>2, FS_CardinalityType
<1>7. Threshold(c) \in Int
  <2>1. IsFiniteSet(c)
    BY CommitteeAssumption, FS_Subset
  <2>2. Cardinality(c) \in Nat
    BY <2>1, FS_CardinalityType
  <2> QED
    BY <2>2 DEF Threshold
<1>8. Cardinality(approvedBy'[b] \cap c) >= Threshold(c)
  BY <1>1, <1>4, <1>5, <1>6, <1>7
<1> QED
  BY <1>8 DEF HasQuorum, Threshold

(* An object that IsApproved has a quorum behind its block; an object made     *)
(* before the first election has no member and is never approved.              *)
LEMMA ApprovedHasQuorum ==
    ASSUME TypeOK, SignaturesGenuine, NEW o \in Obj, objBlock[o] \in Block,
           IsApproved(o)
    PROVE  HasQuorum(objBlock[o])
<1> DEFINE b == objBlock[o]
           c == objCommittee[o]
<1>1. IsFiniteSet(c) /\ c \in Committees \cup {{}}
  BY CommitteeAssumption, FS_Subset
     DEF TypeOK, TypeNode, SignaturesGenuine, Genuine
<1>2. Cardinality(c) \in Nat /\ Threshold(c) \in Int /\ Threshold(c) > 0
  BY <1>1, FS_CardinalityType DEF Threshold
<1>3. objSigs[o] \subseteq approvedBy[b] \cap c
  BY BlockAssumption DEF SignaturesGenuine, Genuine
<1>4. IsFiniteSet(approvedBy[b] \cap c)
  BY <1>1, FS_Subset
<1>5. /\ IsFiniteSet(objSigs[o])
      /\ Cardinality(objSigs[o]) <= Cardinality(approvedBy[b] \cap c)
  BY <1>3, <1>4, FS_Subset
<1>6. /\ Cardinality(objSigs[o]) \in Nat
      /\ Cardinality(approvedBy[b] \cap c) \in Nat
  BY <1>4, <1>5, FS_CardinalityType
<1>7. Cardinality(approvedBy[b] \cap c) >= Threshold(c)
  BY <1>2, <1>5, <1>6 DEF IsApproved
<1>8. c # {}
  <2>1. SUFFICES ASSUME c = {} PROVE FALSE
    OBVIOUS
  <2>2. Cardinality(approvedBy[b] \cap c) = 0
    BY <2>1, FS_EmptySet
  <2> QED
    BY <1>2, <1>7, <2>2
<1> QED
  BY <1>1, <1>7, <1>8 DEF HasQuorum

(* Pending entries and handlers keep naming objects of their own block.        *)
LEMMA ObjectStep == TypeOK /\ ObjectOfBlock /\ [Next]_vars => ObjectOfBlock'
<1> SUFFICES ASSUME TypeOK, ObjectOfBlock, [Next]_vars PROVE ObjectOfBlock'
  OBVIOUS
<1> USE BlockAssumption, BoundAssumption
    DEF TypeOK, TypeNode, TypeHandlers, TypeApproval, ObjectOfBlock, Obj,
        objVars, nodeVars, handlerVars, approvalVars
<1>1. CASE UNCHANGED <<nodeVars, handlerVars, ah>>
  BY <1>1
<1>2. ASSUME NEW h \in Handler, NEW b \in Block, StartProcessing(h, b)
      PROVE ObjectOfBlock'
  BY <1>2 DEF StartProcessing, Goto
<1>3. ASSUME NEW h \in Handler, HasBlockCheck(h) \/ HeightCheck(h) \/ Decide(h)
      PROVE ObjectOfBlock'
  <2>1. UNCHANGED <<nodeVars, ah>>
    BY <1>3 DEF HasBlockCheck, HeightCheck, Decide
  <2>2. \/ Finish(h)
        \/ hpc[h] \in {"hasBlock", "height"} /\ UNCHANGED <<hblk, hobj>>
           /\ (Goto(h, "height") \/ Goto(h, "insert"))
    BY <1>3 DEF HasBlockCheck, HeightCheck, Decide
  <2> QED
    BY <2>1, <2>2 DEF Finish, Goto
<1>4. ASSUME NEW h \in Handler, Insert(h) PROVE ObjectOfBlock'
  <2>1. nObj + 1 \in Obj /\ objBlock[nObj + 1] = None /\ hblk[h] \in Block
    BY <1>4 DEF Insert
  <2>2. \A o \in Obj : o > nObj' => objBlock'[o] = None /\ objSigs'[o] = {}
    BY <1>4, <2>1 DEF Insert
  <2>3. \A b \in Block : pending'[b] # None => objBlock'[pending'[b]] = b
    BY <1>4, <2>1 DEF Insert
  <2>4. \A k \in Handler : hpc'[k] \in {"drain", "vote", "decide"}
                             => objBlock'[hobj'[k]] = hblk'[k]
    BY <1>4, <2>1 DEF Insert, Goto
  <2>5. ah'.pc \in {"add", "check"} => objBlock'[ah'.obj] = ah'.block
    BY <1>4, <2>1 DEF Insert
  <2> QED
    BY <2>2, <2>3, <2>4, <2>5
<1>5. ASSUME NEW h \in Handler, Drain(h) PROVE ObjectOfBlock'
  BY <1>5 DEF Drain, Goto, AddSignature
<1>6. ASSUME NEW h \in Handler, Vote(h) PROVE ObjectOfBlock'
  <2>1. hblk[h] \in Block /\ hobj[h] \in Obj
    BY <1>6 DEF Vote
  <2>2. CASE SkipVote(h)
    BY <1>6, <2>2 DEF Vote, SkipVote, Goto
  <2>3. CASE FailVote(h)
    BY <1>6, <2>1, <2>3 DEF Vote, FailVote, Finish, Goto
  <2>4. CASE SignVote(h)
    BY <1>6, <2>1, <2>4 DEF Vote, SignVote, AddSignature, Goto
  <2> QED
    BY <1>6, <2>2, <2>3, <2>4 DEF Vote
<1>7. ASSUME NEW b \in Block, NEW a \in Addr, HandleApproval(b, a)
      PROVE ObjectOfBlock'
  BY <1>7 DEF HandleApproval
<1>8. CASE BufferApproval \/ CheckApproval
  BY <1>8 DEF BufferApproval, CheckApproval, Idle
<1>9. CASE AddApproval
  <2>1. ah.obj \in Obj /\ objBlock[ah.obj] = ah.block /\ ah.block \in Block
    BY <1>9 DEF AddApproval
  <2>2. ah.obj <= nObj
    BY <2>1
  <2>3. \A o \in Obj : o > nObj => objSigs'[o] = objSigs[o]
    BY <1>9, <2>1, <2>2 DEF AddApproval, AddSignature
  <2>4. ah'.pc \in {"add", "check"} => ah'.obj = ah.obj /\ ah'.block = ah.block
    BY <1>9 DEF AddApproval, Idle
  <2> QED
    BY <1>9, <2>1, <2>3, <2>4 DEF AddApproval
<1>10. ASSUME NEW b \in Block, Watch(b) \/ Claim(b) PROVE ObjectOfBlock'
  <2>1. /\ UNCHANGED <<buffer, objVars, objSigs, handlerVars, ah>>
        /\ pending' = pending \/ pending' = [pending EXCEPT ![b] = None]
    BY <1>10 DEF Watch, WatchTick, WatchTimeout, Claim
  <2> QED
    BY <2>1
<1>11. CASE Restart
  BY <1>11 DEF Restart, Idle
<1>12. ASSUME NEW b \in Block, FinalizeAdd(b) \/ FinalizeApply(b)
                                \/ ProposeCreate(b)
       PROVE UNCHANGED <<nodeVars, handlerVars, ah>>
  BY <1>12 DEF FinalizeAdd, FinalizeApply, ProposeCreate
<1>13. ASSUME \/ ProposeAdd \/ ProposeApply
              \/ \E c \in Committees : ForceCommitteeAndProposer(c)
       PROVE UNCHANGED <<nodeVars, handlerVars, ah>>
  BY <1>13 DEF ProposeAdd, ProposeApply, ForceCommitteeAndProposer
<1>14. CASE UNCHANGED vars
  BY <1>14, <1>1 DEF vars
<1> QED
  BY <1>1, <1>2, <1>3, <1>4, <1>5, <1>6, <1>7, <1>8, <1>9, <1>10, <1>11,
     <1>12, <1>13, <1>14
     DEF Next, HandlerStep, HandleBlockProposal, HandleBlockResponse, Handler

(* No step forgets an approval, a crash included. *)
LEMMA ApprovalsGrow ==
    TypeOK /\ [Next]_vars => \A b \in Block : approvedBy[b] \subseteq approvedBy'[b]
<1> SUFFICES ASSUME TypeOK, [Next]_vars, NEW b \in Block
             PROVE  approvedBy[b] \subseteq approvedBy'[b]
  OBVIOUS
<1> USE DEF TypeOK, TypeNode, TypeHandlers
<1>1. CASE approvedBy' = approvedBy
  BY <1>1
<1>2. ASSUME NEW h \in Handler, Vote(h)
      PROVE  approvedBy[b] \subseteq approvedBy'[b]
  BY <1>2 DEF Vote, SkipVote, FailVote, SignVote
<1>3. ASSUME NEW d \in Block, NEW a \in Addr, HandleApproval(d, a)
      PROVE  approvedBy[b] \subseteq approvedBy'[b]
  BY <1>3 DEF HandleApproval
<1>4. ASSUME NEW h \in Handler, HandlerStep(h), ~ Vote(h)
      PROVE  approvedBy' = approvedBy
  BY <1>4 DEF HandlerStep, HasBlockCheck, HeightCheck, Insert, Drain, Decide
<1>5. ASSUME NEW d \in Block,
             \/ HandleBlockProposal(d) \/ HandleBlockResponse(d) \/ Watch(d)
             \/ Claim(d) \/ FinalizeAdd(d) \/ FinalizeApply(d)
             \/ ProposeCreate(d)
      PROVE  approvedBy' = approvedBy
  BY <1>5 DEF HandleBlockProposal, HandleBlockResponse, StartProcessing, Watch,
              WatchTick, WatchTimeout, Claim, FinalizeAdd, FinalizeApply,
              ProposeCreate
<1>6. ASSUME \/ BufferApproval \/ AddApproval \/ CheckApproval \/ ProposeAdd
             \/ ProposeApply \/ Restart
             \/ \E c \in Committees : ForceCommitteeAndProposer(c)
      PROVE  approvedBy' = approvedBy
  BY <1>6 DEF BufferApproval, AddApproval, CheckApproval, ProposeAdd,
              ProposeApply, Restart, ForceCommitteeAndProposer
<1>7. CASE UNCHANGED vars
  BY <1>7 DEF vars
<1> QED
  BY <1>1, <1>2, <1>3, <1>4, <1>5, <1>6, <1>7 DEF Next

(* AddSignature on one object, for addresses that approved its block, leaves   *)
(* every object with genuine signatures only.                                  *)
LEMMA AddSignatureGenuine ==
    ASSUME TypeOK, SignaturesGenuine, NEW o \in Obj, NEW A,
           objBlock[o] \in Block, A \subseteq approvedBy'[objBlock[o]],
           objSigs' = AddSignature(o, A), UNCHANGED <<objBlock, objCommittee>>,
           \A b \in Block : approvedBy[b] \subseteq approvedBy'[b]
    PROVE  \A p \in Obj : Genuine(p)'
<1> SUFFICES ASSUME NEW p \in Obj PROVE Genuine(p)'
  OBVIOUS
<1>1. objSigs \in [Obj -> SUBSET Addr] /\ objBlock \in [Obj -> Block \cup {None}]
  BY DEF TypeOK, TypeNode
<1>2. CASE p = o
  <2>1. objSigs'[p] = objSigs[o] \cup (A \cap objCommittee[o])
    BY <1>1, <1>2 DEF AddSignature
  <2>2. objSigs[o] \subseteq approvedBy[objBlock[o]]
    BY BlockAssumption DEF SignaturesGenuine, Genuine
  <2> QED
    BY <1>2, <2>1, <2>2 DEF SignaturesGenuine, Genuine
<1>3. CASE p # o
  <2>1. objSigs'[p] = objSigs[p]
    BY <1>1, <1>3 DEF AddSignature
  <2>2. objBlock[p] # None => objSigs[p] \subseteq approvedBy'[objBlock[p]]
    BY <1>1 DEF SignaturesGenuine, Genuine
  <2> QED
    BY <2>1, <2>2 DEF SignaturesGenuine, Genuine
<1> QED
  BY <1>2, <1>3

(* A signature is only ever added for a member whose approval was received.    *)
LEMMA SignatureStep ==
    TypeOK /\ ObjectOfBlock /\ SignaturesGenuine /\ [Next]_vars
        => SignaturesGenuine'
<1> SUFFICES ASSUME TypeOK, ObjectOfBlock, SignaturesGenuine, [Next]_vars
             PROVE  SignaturesGenuine'
  OBVIOUS
<1>g. \A b \in Block : approvedBy[b] \subseteq approvedBy'[b]
  BY ApprovalsGrow
<1> USE BlockAssumption, CommitteeAssumption, BoundAssumption
    DEF TypeNode, TypeHandlers, TypeApproval, ObjectOfBlock, objVars, nodeVars,
        approvalVars, otherVars
<1>t. TypeNode /\ TypeHandlers /\ TypeApproval
  BY DEF TypeOK
<1> USE <1>t DEF SignaturesGenuine
<1>1. CASE UNCHANGED <<nodeVars, ah, committee, approvedBy>>
  BY <1>1 DEF Genuine
<1>2. ASSUME NEW h \in Handler, Insert(h) PROVE SignaturesGenuine'
  <2>1. PICK n \in Obj : n = nObj + 1 /\ objSigs[n] = {}
    BY <1>2 DEF Insert, Obj
  <2>2. UNCHANGED <<buffer, ah, committee, approvedBy, objSigs>>
    BY <1>2 DEF Insert
  <2>3. \A o \in Obj : Genuine(o)'
    <3>1. Genuine(n)'
      BY <1>2, <2>1 DEF Insert, Genuine
    <3>2. \A o \in Obj \ {n} : Genuine(o)'
      BY <1>2, <2>1 DEF Insert, Genuine
    <3> QED
      BY <3>1, <3>2
  <2> QED
    BY <2>2, <2>3
<1>3. ASSUME NEW h \in Handler, Drain(h) PROVE SignaturesGenuine'
  <2>1. hobj[h] \in Obj /\ hblk[h] \in Block /\ objBlock[hobj[h]] = hblk[h]
    BY <1>3 DEF Drain
  <2>2. UNCHANGED <<objBlock, objCommittee, committee, ah, approvedBy>>
    BY <1>3 DEF Drain
  <2>3. \A b \in Block : buffer'[b] \subseteq buffer[b]
    BY <1>3, <2>1 DEF Drain
  <2>4. objSigs' = AddSignature(hobj[h], buffer[hblk[h]])
    BY <1>3 DEF Drain
  <2>5. buffer[hblk[h]] \subseteq approvedBy'[objBlock[hobj[h]]]
    BY <2>1, <2>2
  <2>6. \A o \in Obj : Genuine(o)'
    BY <1>g, <2>1, <2>2, <2>4, <2>5, AddSignatureGenuine
  <2> QED
    BY <2>2, <2>3, <2>6
<1>4. ASSUME NEW h \in Handler, Vote(h) PROVE SignaturesGenuine'
  <2>1. hobj[h] \in Obj /\ hblk[h] \in Block /\ objBlock[hobj[h]] = hblk[h]
    BY <1>4 DEF Vote
  <2>2. UNCHANGED <<objBlock, objCommittee, committee, ah, buffer>>
    BY <1>4 DEF Vote
  <2>3. CASE SkipVote(h) \/ FailVote(h)
    BY <2>2, <2>3 DEF SkipVote, FailVote, Genuine
  <2>4. CASE SignVote(h)
    <3>1. {Self} \subseteq approvedBy'[objBlock[hobj[h]]]
      BY <2>1, <2>4 DEF SignVote
    <3>2. objSigs' = AddSignature(hobj[h], {Self})
      BY <2>4 DEF SignVote
    <3>3. ah.pc # "idle" => ah.addr \in approvedBy'[ah.block]
      BY <1>g
    <3>4. \A o \in Obj : Genuine(o)'
      BY <1>g, <2>1, <2>2, <3>1, <3>2, AddSignatureGenuine
    <3> QED
      BY <1>g, <2>2, <3>3, <3>4
  <2> QED
    BY <1>4, <2>3, <2>4 DEF Vote
<1>5. ASSUME NEW b \in Block, NEW a \in Addr, HandleApproval(b, a)
      PROVE  SignaturesGenuine'
  <2>1. a \in approvedBy'[b] /\ ah'.addr = a /\ ah'.block = b
    BY <1>5 DEF HandleApproval
  <2>2. UNCHANGED <<nodeVars, committee>>
    BY <1>5 DEF HandleApproval
  <2>3. \A o \in Obj : Genuine(o)'
    BY <1>g, <2>2 DEF Genuine
  <2> QED
    BY <1>g, <2>1, <2>2, <2>3
<1>6. CASE BufferApproval
  BY <1>6 DEF BufferApproval, Idle, Genuine
<1>7. CASE AddApproval
  <2>1. /\ ah.obj \in Obj /\ objBlock[ah.obj] = ah.block
        /\ ah.block \in Block /\ ah.addr \in approvedBy[ah.block]
    BY <1>7 DEF AddApproval
  <2>2. /\ UNCHANGED <<objBlock, objCommittee, committee, buffer, approvedBy>>
        /\ ah'.pc # "idle" => ah'.addr = ah.addr /\ ah'.block = ah.block
    BY <1>7 DEF AddApproval, Idle
  <2>3. CASE objSigs' = objSigs
    BY <2>1, <2>2, <2>3 DEF Genuine
  <2>4. CASE objSigs' = AddSignature(ah.obj, {ah.addr})
    <3>1. \A o \in Obj : Genuine(o)'
      BY <1>g, <2>1, <2>2, <2>4, AddSignatureGenuine
    <3> QED
      BY <2>1, <2>2, <3>1
  <2> QED
    BY <1>7, <2>3, <2>4 DEF AddApproval
<1>8. CASE CheckApproval
  BY <1>8 DEF CheckApproval, Idle, Genuine
<1>9. ASSUME NEW b \in Block, Watch(b) \/ Claim(b)
      PROVE UNCHANGED <<buffer, objVars, objSigs, ah, committee, approvedBy>>
  BY <1>9 DEF Watch, WatchTick, WatchTimeout, Claim
<1>10. ASSUME NEW c \in Committees, ForceCommitteeAndProposer(c)
       PROVE SignaturesGenuine'
  BY <1>10 DEF ForceCommitteeAndProposer, Genuine
<1>11. CASE Restart
  BY <1>11 DEF Restart, Idle, Genuine
<1>12. ASSUME NEW b \in Block,
              \/ HandleBlockProposal(b) \/ HandleBlockResponse(b)
              \/ FinalizeAdd(b) \/ FinalizeApply(b) \/ ProposeCreate(b)
       PROVE UNCHANGED <<nodeVars, ah, committee, approvedBy>>
  BY <1>12 DEF HandleBlockProposal, HandleBlockResponse, StartProcessing,
               FinalizeAdd, FinalizeApply, ProposeCreate
<1>13. ASSUME NEW h \in Handler, HasBlockCheck(h) \/ HeightCheck(h) \/ Decide(h)
       PROVE UNCHANGED <<nodeVars, ah, committee, approvedBy>>
  BY <1>13 DEF HasBlockCheck, HeightCheck, Decide
<1>14. ASSUME ProposeAdd \/ ProposeApply
       PROVE UNCHANGED <<nodeVars, ah, committee, approvedBy>>
  BY <1>14 DEF ProposeAdd, ProposeApply
<1>15. CASE UNCHANGED vars
  BY <1>15, <1>1 DEF vars
<1>16. CASE UNCHANGED <<buffer, objVars, objSigs, ah, committee, approvedBy>>
  BY <1>16 DEF Genuine
<1> QED
  BY <1>1, <1>2, <1>3, <1>4, <1>5, <1>6, <1>7, <1>8, <1>9, <1>10, <1>11,
     <1>12, <1>13, <1>14, <1>15, <1>16 DEF Next, HandlerStep

(* Finalizers are started only where IsApproved was seen to hold.              *)
LEMMA FinalizerStep ==
    QuorumInv /\ TypeOK' /\ [Next]_vars => FinalizersHaveQuorum'
<1> SUFFICES ASSUME QuorumInv, TypeOK', [Next]_vars, NEW d \in Block,
                    (finalizers'[d] > 0 \/ adding'[d] > 0)
             PROVE  HasQuorum(d)'
  BY DEF FinalizersHaveQuorum
<1>t. TypeNode /\ TypeHandlers /\ TypeApproval /\ TypeRoutines
  BY DEF QuorumInv, TypeOK
<1>1. SUFFICES HasQuorum(d)
  BY QuorumGrows, ApprovalsGrow DEF QuorumInv
<1>2. CASE finalizers[d] > 0 \/ adding[d] > 0
  BY <1>2 DEF QuorumInv, FinalizersHaveQuorum
<1>3. SUFFICES ASSUME ~ (finalizers[d] > 0 \/ adding[d] > 0) PROVE HasQuorum(d)
  BY <1>2
<1>4. ASSUME NEW o \in Obj, objBlock[o] = d, IsApproved(o) PROVE HasQuorum(d)
  BY <1>4, ApprovedHasQuorum DEF QuorumInv
<1> USE <1>t, <1>3 DEF TypeNode, TypeHandlers, TypeApproval, TypeRoutines,
        routineVars, Inc, Dec
<1>5. CASE UNCHANGED <<finalizers, adding>>
  BY <1>5
<1>6. ASSUME NEW h \in Handler, Decide(h) PROVE HasQuorum(d)
  <2>1. IsApproved(hobj[h]) /\ hblk[h] = d /\ hobj[h] \in Obj
    BY <1>6 DEF Decide
  <2>2. objBlock[hobj[h]] = d
    BY <1>6, <2>1 DEF Decide, QuorumInv, ObjectOfBlock
  <2> QED
    BY <1>4, <2>1, <2>2
<1>7. CASE CheckApproval
  <2>1. IsApproved(ah.obj) /\ ah.block = d /\ ah.obj \in Obj
    BY <1>7 DEF CheckApproval
  <2>2. objBlock[ah.obj] = d
    BY <1>7, <2>1 DEF CheckApproval, QuorumInv, ObjectOfBlock
  <2> QED
    BY <1>4, <2>1, <2>2
<1>8. ASSUME NEW b \in Block, WatchTick(b) PROVE HasQuorum(d)
  <2>1. IsApproved(pending[b]) /\ b = d /\ pending[b] \in Obj
    BY <1>8 DEF WatchTick
  <2>2. objBlock[pending[b]] = d
    BY <2>1, BlockAssumption DEF QuorumInv, ObjectOfBlock
  <2> QED
    BY <1>4, <2>1, <2>2
<1>9. ASSUME NEW b \in Block, Claim(b) \/ FinalizeAdd(b) PROVE HasQuorum(d)
  BY <1>9 DEF Claim, FinalizeAdd
<1>10. ASSUME NEW h \in Handler, HandlerStep(h), ~ Decide(h)
       PROVE  UNCHANGED <<finalizers, adding>>
  BY <1>10 DEF HandlerStep, HasBlockCheck, HeightCheck, Insert, Drain, Vote
<1>11. ASSUME NEW b \in Block,
              \/ HandleBlockProposal(b) \/ HandleBlockResponse(b)
              \/ \E a \in Addr : HandleApproval(b, a)
              \/ WatchTimeout(b) \/ FinalizeApply(b) \/ ProposeCreate(b)
       PROVE  UNCHANGED <<finalizers, adding>>
  BY <1>11 DEF HandleBlockProposal, HandleBlockResponse, StartProcessing,
               HandleApproval, WatchTimeout, FinalizeApply, ProposeCreate
<1>12. ASSUME \/ BufferApproval \/ AddApproval \/ ProposeAdd \/ ProposeApply
              \/ \E c \in Committees : ForceCommitteeAndProposer(c)
              \/ UNCHANGED vars
       PROVE  UNCHANGED <<finalizers, adding>>
  BY <1>12 DEF BufferApproval, AddApproval, ProposeAdd, ProposeApply,
               ForceCommitteeAndProposer, vars
<1>13. CASE Restart
  BY <1>13 DEF Restart, NoGoroutine
<1> QED
  BY <1>5, <1>6, <1>7, <1>8, <1>9, <1>10, <1>11, <1>12, <1>13 DEF Next, Watch

(* The chain changes by AddBlock only: of a claimed block or of an own block.  *)
LEMMA FinalizedStep ==
    QuorumInv /\ TypeOK' /\ [Next]_vars => FinalizedHasQuorum'
<1> SUFFICES ASSUME QuorumInv, TypeOK', [Next]_vars, NEW k \in 1..MaxHeight,
                    NEW d \in Block \ OwnBlock, chain'[k] = d
             PROVE  HasQuorum(d)'
  BY DEF FinalizedHasQuorum, HasQuorum
<1>t. TypeChain /\ TypeRoutines /\ k \in 0..MaxHeight
  BY BoundAssumption DEF QuorumInv, TypeOK
<1>1. SUFFICES HasQuorum(d)
  BY QuorumGrows, ApprovalsGrow DEF QuorumInv
<1>2. CASE chain'[k] = chain[k]
  BY <1>2 DEF QuorumInv, FinalizedHasQuorum
<1>3. ASSUME NEW b \in Block, FinalizeAdd(b) PROVE HasQuorum(d)
  <2>1. CASE d = b
    BY <1>3, <2>1 DEF FinalizeAdd, QuorumInv, FinalizersHaveQuorum
  <2>2. CASE d # b
    <3>1. chain'[k] = chain[k]
      BY <1>t, <1>3, <2>2, BlockAssumption
         DEF FinalizeAdd, AddBlock, AddBlockFails, chainVars, TypeChain
    <3> QED
      BY <1>2, <3>1
  <2> QED
    BY <2>1, <2>2
<1>4. CASE ProposeAdd
  <2>1. producer.block \in OwnBlock
    BY <1>4, <1>t DEF ProposeAdd, TypeChain
  <2>2. chain'[k] = chain[k]
    BY <1>t, <1>4, <2>1, BlockAssumption
       DEF ProposeAdd, AddBlock, AddBlockFails, chainVars, TypeChain
  <2> QED
    BY <1>2, <2>2
<1>5. ASSUME NEW h \in Handler, HandlerStep(h) PROVE chain' = chain
  BY <1>5 DEF HandlerStep, HasBlockCheck, HeightCheck, Insert, Drain, Vote,
              Decide, chainVars
<1>6. ASSUME NEW b \in Block,
             \/ HandleBlockProposal(b) \/ HandleBlockResponse(b)
             \/ \E a \in Addr : HandleApproval(b, a)
             \/ Watch(b) \/ Claim(b) \/ FinalizeApply(b) \/ ProposeCreate(b)
      PROVE  chain' = chain
  BY <1>6 DEF HandleBlockProposal, HandleBlockResponse, StartProcessing,
              HandleApproval, Watch, WatchTick, WatchTimeout, Claim,
              FinalizeApply, ProposeCreate, chainVars
<1>7. ASSUME \/ BufferApproval \/ AddApproval \/ CheckApproval \/ ProposeApply
             \/ \E c \in Committees : ForceCommitteeAndProposer(c)
             \/ Restart \/ UNCHANGED vars
      PROVE  chain' = chain
  BY <1>7 DEF BufferApproval, AddApproval, CheckApproval, ProposeApply,
              ForceCommitteeAndProposer, Restart, vars, chainVars
<1> QED
  BY <1>2, <1>3, <1>4, <1>5, <1>6, <1>7 DEF Next

(* README: "At least 2/3 of the committee must sign a block for it to be       *)
(* finalized".  For every block another node proposed, and any number of       *)
(* handlers' races, elections and crashes, finalizeApprovedBlock keeps that.   *)
THEOREM QuorumCorrect == Spec => []FinalizedHasQuorum
<1>1. Init => QuorumInv
  <2>1. ASSUME Init PROVE ObjectOfBlock
    BY <2>1 DEF Init, ObjectOfBlock, Idle, Obj
  <2>2. ASSUME Init PROVE SignaturesGenuine
    BY <2>2 DEF Init, SignaturesGenuine, Genuine, Idle
  <2>3. ASSUME Init PROVE FinalizersHaveQuorum /\ FinalizedHasQuorum
    BY <2>3, BlockAssumption, BoundAssumption
       DEF Init, FinalizersHaveQuorum, FinalizedHasQuorum, NoGoroutine
  <2> QED
    BY <2>1, <2>2, <2>3, TypeInit DEF QuorumInv
<1>2. QuorumInv /\ [Next]_vars => QuorumInv'
  BY TypeStep, ObjectStep, SignatureStep, FinalizerStep, FinalizedStep
     DEF QuorumInv
<1>3. QuorumInv => FinalizedHasQuorum
  BY DEF QuorumInv
<1> QED
  BY <1>1, <1>2, <1>3, PTL DEF Spec

-----------------------------------------------------------------------------
(* One claim for each insertion *)

(* The insertions of a block can be counted. *)
LEMMA InsertsFinite ==
    ASSUME NEW b PROVE /\ IsFiniteSet({o \in Obj : objBlock[o] = b})
                       /\ Inserts(b) \in Nat
<1>1. IsFiniteSet(Obj)
  BY BoundAssumption, FS_Interval DEF Obj
<1>2. IsFiniteSet({o \in Obj : objBlock[o] = b})
  BY <1>1, FS_Subset
<1> QED
  BY <1>2, FS_CardinalityType DEF Inserts

\* No step lets two finalizers claim one insertion of a block.
LEMMA ClaimStep == ClaimInv /\ TypeOK' /\ [Next]_vars => ClaimInv'
<1> SUFFICES ASSUME ClaimInv, TypeOK', [Next]_vars PROVE ClaimInv'
  OBVIOUS
<1>t. TypeNode /\ TypeHandlers /\ TypeChain /\ TypeRoutines
  BY DEF ClaimInv, TypeOK
<1>n. \A b \in Block : Inserts(b) \in Nat
  BY InsertsFinite
<1>c. \A b \in Block \ OwnBlock :
        Claims(b) + (IF pending[b] = None THEN 0 ELSE 1) <= Inserts(b)
  BY DEF ClaimInv, ClaimOncePerInsert
<1>i. \A o \in Obj : o > nObj => objBlock[o] = None
  BY DEF ClaimInv
<1> DEFINE Entry(b) == IF pending[b] = None THEN 0 ELSE 1
(* Every step but Insert leaves the objects' blocks alone and does not let the *)
(* claims and the pending entry of a foreign block outgrow what they were.     *)
<1>1. ASSUME UNCHANGED <<nObj, objBlock>>,
             \A b \in Block \ OwnBlock :
                Claims(b)' + Entry(b)' <= Claims(b) + Entry(b)
      PROVE  ClaimInv'
  <2>1. \A b \in Block : Inserts(b)' = Inserts(b)
    BY <1>1 DEF Inserts
  <2>2. \A b \in Block : /\ Claims(b) \in Nat /\ Claims(b)' \in Nat
                         /\ Entry(b) \in Nat /\ Entry(b)' \in Nat
    BY <1>t DEF Claims, TypeOK, TypeRoutines
  <2>3. ClaimOncePerInsert'
    BY <1>1, <1>c, <1>n, <2>1, <2>2 DEF ClaimOncePerInsert
  <2> QED
    BY <1>1, <1>i, <2>3 DEF ClaimInv
<1> USE <1>t DEF TypeNode, TypeHandlers, TypeChain, TypeRoutines, Claims,
        objVars, nodeVars, routineVars, Inc, Dec
<1>2. CASE UNCHANGED <<pending, nObj, objBlock, adding, applying, applied>>
  BY <1>1, <1>2
<1>3. ASSUME NEW h \in Handler, Insert(h) PROVE ClaimInv'
  <2>1. PICK n \in Obj : n = nObj + 1 /\ objBlock[n] = None
    BY <1>3, <1>i, BoundAssumption DEF Insert, Obj
  <2>2. PICK d \in Block : d = hblk[h]
    BY <1>3 DEF Insert
  <2>3. objBlock' = [objBlock EXCEPT ![n] = d] /\ nObj' = n
    BY <1>3, <2>1, <2>2 DEF Insert
  <2>4. Inserts(d)' = Inserts(d) + 1
    <3>1. {o \in Obj : objBlock'[o] = d} = {o \in Obj : objBlock[o] = d} \cup {n}
      BY <2>1, <2>3
    <3>2. n \notin {o \in Obj : objBlock[o] = d}
      BY <2>1, BlockAssumption
    <3>3. IsFiniteSet({o \in Obj : objBlock[o] = d})
      BY InsertsFinite
    <3>4. Cardinality({o \in Obj : objBlock[o] = d} \cup {n})
            = Cardinality({o \in Obj : objBlock[o] = d}) + 1
      BY <3>2, <3>3, FS_AddElement
    <3> QED
      BY <3>1, <3>4 DEF Inserts
  <2>5. \A b \in Block \ {d} : Inserts(b)' = Inserts(b)
    <3>1. ASSUME NEW b \in Block \ {d}
          PROVE  {o \in Obj : objBlock'[o] = b} = {o \in Obj : objBlock[o] = b}
      <4>1. b # d /\ b # None
        BY BlockAssumption
      <4>2. \A o \in Obj : objBlock'[o] = b <=> objBlock[o] = b
        BY <2>1, <2>3, <4>1
      <4> QED
        BY <4>2
    <3> QED
      BY <3>1 DEF Inserts
  <2>6. /\ \A b \in Block : Claims(b)' = Claims(b)
        /\ \A b \in Block \ {d} : Entry(b)' = Entry(b)
        /\ Entry(d) \in {0, 1} /\ Entry(d)' \in {0, 1}
    BY <1>3, <2>2 DEF Insert
  <2>7. ClaimOncePerInsert'
    <3>1. \A b \in Block : Claims(b) \in Nat
      OBVIOUS
    <3>2. ASSUME NEW b \in Block \ OwnBlock
          PROVE  Claims(b)' + Entry(b)' <= Inserts(b)'
      <4>1. Claims(b) + Entry(b) <= Inserts(b) /\ Inserts(b) \in Nat
        BY <1>c, <1>n
      <4>2. Claims(b) \in Nat /\ Claims(b)' = Claims(b)
        BY <2>6, <3>1
      <4> HIDE DEF Entry, Claims
      <4>3. CASE b = d
        BY <2>4, <2>6, <4>1, <4>2, <4>3
      <4>4. CASE b # d
        BY <2>5, <2>6, <4>1, <4>2, <4>4
      <4> QED
        BY <4>3, <4>4
    <3> QED
      BY <3>2 DEF ClaimOncePerInsert
  <2>8. \A o \in Obj : o > nObj' => objBlock'[o] = None
    BY <1>i, <2>1, <2>3 DEF Obj
  <2> QED
    BY <2>7, <2>8 DEF ClaimInv
<1>4. ASSUME NEW h \in Handler, Vote(h) PROVE ClaimInv'
  BY <1>1, <1>4 DEF Vote, SkipVote, FailVote, SignVote
<1>5. ASSUME NEW b \in Block, Watch(b) \/ Claim(b) \/ FinalizeAdd(b)
                                \/ FinalizeApply(b)
      PROVE  ClaimInv'
  <2>1. UNCHANGED <<nObj, objBlock>>
    BY <1>5 DEF Watch, WatchTick, WatchTimeout, Claim, FinalizeAdd,
                FinalizeApply
  <2>2. CASE Watch(b)
    BY <1>1, <2>1, <2>2 DEF Watch, WatchTick, WatchTimeout
  <2>3. CASE Claim(b)
    <3>1. CASE pending[b] = None
      BY <1>1, <2>1, <2>3, <3>1 DEF Claim
    <3>2. CASE pending[b] # None
      <4>1. /\ UNCHANGED <<applying, applied>>
            /\ \A d \in Block \ {b} : /\ adding'[d] = adding[d]
                                       /\ pending'[d] = pending[d]
            /\ adding'[b] = adding[b] + 1 /\ pending'[b] = None
        BY <2>3, <3>2 DEF Claim
      <4>2. ASSUME NEW d \in Block
            PROVE  Claims(d)' + Entry(d)' <= Claims(d) + Entry(d)
        <5>1. CASE d = b
          BY <3>2, <4>1, <5>1
        <5>2. CASE d # b
          <6>1. Claims(d)' = Claims(d) /\ Entry(d)' = Entry(d)
            BY <4>1, <5>2
          <6> QED
            BY <6>1
        <5> QED
          BY <5>1, <5>2
      <4> QED
        BY <1>1, <2>1, <4>2
    <3> QED
      BY <3>1, <3>2
  <2>4. CASE FinalizeAdd(b)
    <3>1. /\ UNCHANGED <<pending, applied>>
          /\ \A d \in Block \ {b} : /\ adding'[d] = adding[d]
                                     /\ applying'[d] = applying[d]
          /\ adding'[b] = adding[b] - 1
          /\ applying'[b] \in {applying[b], applying[b] + 1}
      BY <2>4 DEF FinalizeAdd
    <3>2. ASSUME NEW d \in Block
          PROVE  Claims(d)' + Entry(d)' <= Claims(d) + Entry(d)
      <4>t. adding[d] \in Nat /\ applying[d] \in Nat /\ applied[d] \in Nat
        OBVIOUS
      <4>1. Claims(d)' <= Claims(d) /\ Claims(d) \in Int /\ Claims(d)' \in Int
        <5>1. CASE d = b
          BY <3>1, <4>t, <5>1
        <5>2. CASE d # b
          BY <3>1, <4>t, <5>2
        <5> QED
          BY <5>1, <5>2
      <4>2. Entry(d)' = Entry(d) /\ Entry(d) \in Int
        BY <3>1
      <4> HIDE DEF Entry, Claims
      <4> QED
        BY <4>1, <4>2
    <3> QED
      BY <1>1, <2>1, <3>2
  <2>5. CASE FinalizeApply(b)
    <3>1. /\ UNCHANGED <<pending, adding>>
          /\ \A d \in Block \ {b} : /\ applying'[d] = applying[d]
                                     /\ applied'[d] = applied[d]
          /\ applying'[b] = applying[b] - 1 /\ applied'[b] = applied[b] + 1
      BY <2>5 DEF FinalizeApply
    <3>2. ASSUME NEW d \in Block
          PROVE  Claims(d)' + Entry(d)' <= Claims(d) + Entry(d)
      <4>t. adding[d] \in Nat /\ applying[d] \in Nat /\ applied[d] \in Nat
        OBVIOUS
      <4>1. Claims(d)' = Claims(d) /\ Claims(d) \in Int
        <5>1. CASE d = b
          BY <3>1, <4>t, <5>1
        <5>2. CASE d # b
          BY <3>1, <4>t, <5>2
        <5> QED
          BY <5>1, <5>2
      <4>2. Entry(d)' = Entry(d) /\ Entry(d) \in Int
        BY <3>1
      <4> HIDE DEF Entry, Claims
      <4> QED
        BY <4>1, <4>2
    <3> QED
      BY <1>1, <2>1, <3>2
  <2> QED
    BY <1>5, <2>2, <2>3, <2>4, <2>5
<1>6. CASE ProposeApply
  BY <1>1, <1>6 DEF ProposeApply
<1>7. CASE Restart
  BY <1>1, <1>7 DEF Restart, NoGoroutine
<1>8. ASSUME NEW h \in Handler, HandlerStep(h), ~ Insert(h), ~ Vote(h)
      PROVE  UNCHANGED <<pending, nObj, objBlock, adding, applying, applied>>
  BY <1>8 DEF HandlerStep, HasBlockCheck, HeightCheck, Drain, Decide
<1>9. ASSUME NEW b \in Block,
             \/ HandleBlockProposal(b) \/ HandleBlockResponse(b)
             \/ \E a \in Addr : HandleApproval(b, a)
             \/ ProposeCreate(b)
      PROVE  UNCHANGED <<pending, nObj, objBlock, adding, applying, applied>>
  BY <1>9 DEF HandleBlockProposal, HandleBlockResponse, StartProcessing,
              HandleApproval, ProposeCreate
<1>10. ASSUME \/ BufferApproval \/ AddApproval \/ CheckApproval \/ ProposeAdd
              \/ \E c \in Committees : ForceCommitteeAndProposer(c)
              \/ UNCHANGED vars
       PROVE  UNCHANGED <<pending, nObj, objBlock, adding, applying, applied>>
  BY <1>10 DEF BufferApproval, AddApproval, CheckApproval, ProposeAdd,
               ForceCommitteeAndProposer, vars
<1> QED
  BY <1>2, <1>3, <1>4, <1>5, <1>6, <1>7, <1>8, <1>9, <1>10 DEF Next

(* finalizeApprovedBlock: of all the finalizers started for a block, one at    *)
(* most gets past the claim for each insertion of the block in pendingBlocks.  *)
THEOREM ClaimCorrect == Spec => []ClaimOncePerInsert
<1>1. Init => ClaimInv
  <2>1. ASSUME Init PROVE ClaimOncePerInsert
    <3>1. \A b \in Block : Claims(b) = 0 /\ pending[b] = None
      BY <2>1 DEF Init, Claims, NoGoroutine
    <3>2. \A b \in Block : Inserts(b) \in Nat
      BY InsertsFinite
    <3> QED
      BY <3>1, <3>2 DEF ClaimOncePerInsert
  <2> QED
    BY <2>1, TypeInit DEF ClaimInv, Init
<1>2. ClaimInv /\ [Next]_vars => ClaimInv'
  BY TypeStep, ClaimStep DEF ClaimInv
<1>3. ClaimInv => ClaimOncePerInsert
  BY DEF ClaimInv
<1> QED
  BY <1>1, <1>2, <1>3, PTL DEF Spec
=============================================================================
