------------------------ MODULE NodeLifecycleProofs -------------------------
(* Machine-checked proofs about NodeLifecycle and the ChainStore it extends. *)
EXTENDS NodeLifecycle, TLAPS

-----------------------------------------------------------------------------
(* The chain *)

(* Every block, genesis included, has a height in range. *)
LEMMA NumberType ==
    ASSUME NEW b \in Block \cup {Genesis}
    PROVE  NumberOf(b) \in Height /\ (b # Genesis => NumberOf(b) # 0)
BY ChainAssumption DEF NumberOf, Height

\* An empty store satisfies the invariant.
LEMMA ChainInit == Init => ChainInv
<1> SUFFICES ASSUME Init PROVE ChainInv
  OBVIOUS
<1>1. TypeOK
  BY ChainAssumption DEF Init, TypeOK, Height
<1>2. WriterInv /\ LastInv
  BY DEF Init, WriterInv, LastInv
<1>3. HeightBacked
  BY ChainAssumption DEF Init, HeightBacked, GetBlockByHeight
<1> QED
  BY <1>1, <1>2, <1>3 DEF ChainInv

(* Stored keys and fields keep their types. *)
LEMMA TypeStep == TypeOK /\ [Next]_vars => TypeOK'
<1> SUFFICES ASSUME TypeOK, [Next]_vars PROVE TypeOK'
  OBVIOUS
<1> USE DEF diskVars, memVars, applyVars, TypeOK
<1>0. 0 \in Height
  BY ChainAssumption DEF Height
<1>n. pc \in {"block", "tip", "height"} => NumberOf(blk) \in Height
  BY NumberType
<1>1. CASE UNCHANGED vars
  BY <1>1 DEF vars
<1>2. CASE OpenExisting
  BY <1>2, <1>0 DEF OpenExisting
<1>3. CASE OpenFresh
  BY <1>3, <1>0 DEF OpenFresh
<1>4. CASE PutInitialTip
  BY <1>4 DEF PutInitialTip
<1>5. CASE PutInitialHeight
  BY <1>5, <1>0, ChainAssumption DEF PutInitialHeight
<1>6. ASSUME NEW b \in Block, AddBlock(b) PROVE TypeOK'
  BY <1>6, ChainAssumption DEF AddBlock
<1>7. CASE PutBlock
  BY <1>7, <1>n DEF PutBlock
<1>8. CASE PutTip
  BY <1>8, <1>n DEF PutTip
<1>9. CASE PutHeight
  BY <1>9 DEF PutHeight
<1>10. CASE PutFails
  BY <1>10 DEF PutFails
<1>11. CASE ApplyBlock
  BY <1>11 DEF ApplyBlock
<1>12. CASE Crash
  BY <1>12, <1>0 DEF Crash
<1> QED
  BY <1>1, <1>2, <1>3, <1>4, <1>5, <1>6, <1>7, <1>8, <1>9, <1>10, <1>11, <1>12
  DEF Next

(* The writer's order of Puts keeps memory and disk in step. *)
LEMMA WriterStep == ChainInv /\ [Next]_vars => WriterInv' /\ LastInv'
<1> SUFFICES ASSUME ChainInv, [Next]_vars PROVE WriterInv' /\ LastInv'
  OBVIOUS
<1>t. TypeOK /\ TypeOK' /\ WriterInv /\ LastInv
  BY TypeStep DEF ChainInv
<1> USE DEF diskVars, memVars, applyVars, WriterInv, LastInv
<1>1. CASE UNCHANGED vars
  BY <1>1, <1>t DEF vars
<1>2. CASE OpenExisting
  <2>1. last # None => NumberOf(last) \in Height
    BY <1>t, NumberType DEF TypeOK
  <2>2. last # None => NumberOf(last) # None
    BY <2>1, ChainAssumption DEF Height
  <2> HIDE DEF NumberOf
  <2>3. last # None => currentHeight' = NumberOf(last) /\ tip' = last
    BY <1>2, <1>t, <2>2 DEF OpenExisting
  <2> QED
    BY <1>2, <1>t, <2>3 DEF OpenExisting
<1>3. CASE OpenFresh
  BY <1>3, <1>t DEF OpenFresh
<1>4. CASE PutInitialTip
  BY <1>4, <1>t DEF PutInitialTip
<1>5. CASE PutInitialHeight
  BY <1>5, <1>t DEF PutInitialHeight
<1>6. ASSUME NEW b \in Block, AddBlock(b) PROVE WriterInv' /\ LastInv'
  BY <1>6, <1>t DEF AddBlock
<1>7. CASE PutBlock
  <2>1. NumberOf(blk) \in Height
    BY <1>7, <1>t, NumberType DEF PutBlock, TypeOK
  <2>2. disk'[NumberOf(blk)] = blk
    BY <1>7, <1>t, <2>1 DEF PutBlock, TypeOK
  <2> QED
    BY <1>7, <1>t, <2>2 DEF PutBlock
<1>8. CASE PutTip
  BY <1>8, <1>t DEF PutTip
<1>9. CASE PutHeight
  BY <1>9, <1>t DEF PutHeight
<1>10. CASE PutFails
  BY <1>10, <1>t DEF PutFails
<1>11. CASE ApplyBlock
  BY <1>11, <1>t DEF ApplyBlock
<1>12. CASE Crash
  BY <1>12, <1>t DEF Crash
<1> QED
  BY <1>1, <1>2, <1>3, <1>4, <1>5, <1>6, <1>7, <1>8, <1>9, <1>10, <1>11, <1>12
  DEF Next

(* No step lets the height run ahead of the stored blocks. *)
LEMMA BackedStep == ChainInv /\ [Next]_vars => HeightBacked'
<1> SUFFICES ASSUME ChainInv, [Next]_vars PROVE HeightBacked'
  OBVIOUS
<1>t. TypeOK /\ TypeOK' /\ WriterInv /\ HeightBacked
  BY TypeStep DEF ChainInv
<1> DEFINE Backed(h, d) == h = 0 \/ d[h] # None
<1>1. Backed(currentHeight, disk)
  BY <1>t, ChainAssumption DEF HeightBacked, GetBlockByHeight, TypeOK, Height
<1>2. diskHeight # None => Backed(diskHeight, disk)
  BY <1>t DEF HeightBacked
<1>3. ASSUME Backed(currentHeight', disk'),
             diskHeight' # None => Backed(diskHeight', disk')
      PROVE  HeightBacked'
  BY <1>3, <1>t, ChainAssumption DEF HeightBacked, GetBlockByHeight, TypeOK, Height
<1> USE DEF diskVars, memVars, applyVars
<1>4. CASE UNCHANGED <<disk, diskHeight, currentHeight>>
  BY <1>1, <1>2, <1>3, <1>4
<1>5. CASE OpenExisting
  BY <1>2, <1>3, <1>5 DEF OpenExisting
<1>6. CASE OpenFresh \/ Crash
  BY <1>2, <1>3, <1>6 DEF OpenFresh, Crash
<1>7. CASE PutInitialHeight
  BY <1>1, <1>3, <1>7 DEF PutInitialHeight
<1>8. CASE PutBlock
  <2>1. \A h \in Height : disk[h] # None => disk'[h] # None
    BY <1>8, <1>t DEF PutBlock, TypeOK
  <2> QED
    BY <1>1, <1>2, <1>3, <1>8, <1>t, <2>1 DEF PutBlock, TypeOK
<1>9. CASE PutTip
  BY <1>2, <1>3, <1>9, <1>t DEF PutTip, WriterInv, TypeOK
<1>10. CASE PutHeight
  BY <1>1, <1>3, <1>10 DEF PutHeight
<1>11. \/ UNCHANGED <<disk, diskHeight, currentHeight>>
       \/ OpenExisting \/ OpenFresh \/ Crash \/ PutInitialHeight
       \/ PutBlock \/ PutTip \/ PutHeight
  BY DEF Next, vars, PutInitialTip, AddBlock, PutFails, ApplyBlock
<1> QED
  BY <1>4, <1>5, <1>6, <1>7, <1>8, <1>9, <1>10, <1>11

(* The invariant gives the last block. *)
LEMMA ChainInvLast == ChainInv => AddedIsLast
<1> SUFFICES ASSUME ChainInv, last # None, pc = "idle"
             PROVE  GetLastBlock = last /\ currentHeight = NumberOf(last)
  BY DEF AddedIsLast
<1>1. /\ last \in Block \cup {Genesis} /\ tip = last
      /\ currentHeight = NumberOf(last)
      /\ last # Genesis => disk[NumberOf(last)] = last
  BY DEF ChainInv, TypeOK, LastInv
<1>2. NumberOf(last) \in Nat /\ (last # Genesis => NumberOf(last) # 0)
  BY <1>1, NumberType, ChainAssumption DEF Height
<1>3. GetBlockByHeight(currentHeight) = last
  BY <1>1, <1>2 DEF GetBlockByHeight, NumberOf
<1>4. currentHeight \in 0..currentHeight
  BY <1>1, <1>2
<1>5. GetBlockByHash(last) = last
  BY <1>3, <1>4 DEF GetBlockByHash
<1> QED
  BY <1>1, <1>5 DEF GetLastBlock

-----------------------------------------------------------------------------
(* The process *)

(* A process does to the chain what ChainStore's actions do, or removes it. *)
LEMMA ChainOrLaunch == [NodeNext]_nodeVars => [Next]_vars \/ Launch
<1> SUFFICES ASSUME [NodeNext]_nodeVars PROVE [Next]_vars \/ Launch
  OBVIOUS
<1>1. CASE UNCHANGED nodeVars
  BY <1>1 DEF nodeVars
<1>2. CASE StartNode \/ \E s \in Stopper : Shutdown(s)
  BY <1>2 DEF StartNode, Shutdown
<1>3. CASE OpenChain \/ WriteChain \/ PutError \/ NodeWork
  BY <1>3 DEF OpenChain, WriteChain, PutError, NodeWork, Next
<1>4. Die \/ FastSync => [Next]_vars
  BY DEF Die, FastSync, Next
<1>5. ASSUME NEW s \in Stopper, RunHook(s) PROVE [Next]_vars
  BY <1>4, <1>5 DEF RunHook
<1> QED
  BY <1>1, <1>2, <1>3, <1>4, <1>5 DEF NodeNext

(* What the process holds keeps its type. *)
LEMMA ProcessStep ==
    ASSUME NodeTypeOK, [NodeNext]_nodeVars
    PROVE  ProcessTypeOK'
<1> USE DEF ProcessTypeOK
<1>h. Len(Hooks) = 4 /\ \A i \in 1..4 : Hooks[i] \in Components
  BY DEF Hooks, Components
<1>0. ProcessTypeOK
  BY DEF NodeTypeOK
<1>1. CASE UNCHANGED processVars
  BY <1>0, <1>1 DEF processVars
<1>2. CASE ProcessEnds
  BY <1>2, <1>h DEF ProcessEnds
<1>3. CASE Launch \/ StartNode
  BY <1>0, <1>3 DEF Launch, StartNode
<1>4. ASSUME NEW s \in Stopper, Shutdown(s) PROVE ProcessTypeOK'
  BY <1>0, <1>4, <1>h DEF Shutdown
<1>5. ASSUME NEW s \in Stopper, RunHook(s), ~ Die PROVE ProcessTypeOK'
  BY <1>0, <1>5, <1>h DEF RunHook
<1>6. Die \/ FastSync => ProcessEnds
  BY DEF Die, FastSync
<1>7. OpenChain \/ WriteChain \/ NodeWork \/ UNCHANGED nodeVars =>
          UNCHANGED processVars
  BY DEF OpenChain, WriteChain, NodeWork, nodeVars
<1>8. PutError => ProcessEnds \/ UNCHANGED processVars
  BY DEF PutError
<1> QED
  BY <1>1, <1>2, <1>3, <1>4, <1>5, <1>6, <1>7, <1>8 DEF NodeNext

(* A chain that is not open reports no height. *)
LEMMA ClosedStep ==
    ASSUME ChainInv, ClosedAtZero, [Next]_vars
    PROVE  ClosedAtZero'
<1> USE DEF ClosedAtZero, diskVars, memVars, applyVars
<1>1. CASE UNCHANGED vars
  BY <1>1 DEF vars
<1>2. CASE OpenExisting \/ OpenFresh \/ PutInitialTip \/ PutInitialHeight
  BY <1>2 DEF OpenExisting, OpenFresh, PutInitialTip, PutInitialHeight
<1>3. ASSUME NEW b \in Block, AddBlock(b) PROVE ClosedAtZero'
  BY <1>3, ChainAssumption DEF AddBlock
<1>4. CASE PutBlock \/ PutHeight \/ ApplyBlock
  BY <1>4 DEF PutBlock, PutHeight, ApplyBlock
<1>5. CASE PutTip
  BY <1>5 DEF PutTip, NumberOf
<1>6. CASE PutFails \/ Crash
  BY <1>6 DEF PutFails, Crash
<1> QED
  BY <1>1, <1>2, <1>3, <1>4, <1>5, <1>6 DEF Next

(* Outside a process the chain is not open. *)
LEMMA OffStep ==
    ASSUME OffDown, [NodeNext]_nodeVars
    PROVE  OffDown'
<1> USE DEF OffDown
<1>1. CASE UNCHANGED nodeVars
  BY <1>1 DEF nodeVars, vars, processVars
<1>2. CASE Launch \/ StartNode
  BY <1>2 DEF Launch, StartNode
<1>3. CASE OpenChain
  BY <1>3 DEF OpenChain, processVars
<1>4. CASE WriteChain
  BY <1>4 DEF WriteChain, processVars, PutBlock, PutTip, PutHeight
<1>5. CASE PutError
  BY <1>5 DEF PutError, PutFails, processVars
<1>6. CASE NodeWork
  BY <1>6 DEF NodeWork, processVars
<1>7. Die \/ FastSync => OffDown'
  BY DEF Die, FastSync, Crash, vars
<1>8. ASSUME NEW s \in Stopper, Shutdown(s) \/ RunHook(s) PROVE OffDown'
  BY <1>7, <1>8 DEF Shutdown, RunHook
<1> QED
  BY <1>1, <1>2, <1>3, <1>4, <1>5, <1>6, <1>7, <1>8 DEF NodeNext

(* Removing the database leaves a chain that can be opened. *)
LEMMA LaunchStep ==
    ASSUME ChainInv, ClosedAtZero, OffDown, Launch
    PROVE  ChainInv' /\ ClosedAtZero'
<1>0. pc = "down" /\ currentHeight = 0
  BY DEF Launch, OffDown, ClosedAtZero
<1>1. UNCHANGED <<pc, blk, tip, currentHeight, state>>
  BY DEF Launch, memVars
<1>2. CASE UNCHANGED vars
  BY <1>2, TypeStep, WriterStep, BackedStep, ClosedStep DEF ChainInv
<1>3. CASE /\ disk' = [h \in Height |-> None]
           /\ diskTip' = None /\ diskHeight' = None
           /\ last' = None /\ applied' = None
  <2>1. TypeOK'
    BY <1>1, <1>3 DEF ChainInv, TypeOK
  <2>2. WriterInv' /\ LastInv'
    BY <1>0, <1>1, <1>3 DEF WriterInv, LastInv
  <2>3. HeightBacked'
    BY <1>0, <1>1, <1>3, ChainAssumption DEF HeightBacked, GetBlockByHeight
  <2>4. ClosedAtZero'
    BY <1>0, <1>1 DEF ClosedAtZero
  <2> QED
    BY <2>1, <2>2, <2>3, <2>4 DEF ChainInv
<1> QED
  BY <1>1, <1>2, <1>3 DEF Launch, vars, diskVars, memVars, applyVars

(* The inductive invariant of the process and its chain. *)
THEOREM NodeInvariant == NodeSpec => []NodeInv
<1>1. NodeInit => NodeInv
  <2> SUFFICES ASSUME NodeInit PROVE NodeInv
    OBVIOUS
  <2>1. ChainInv
    BY ChainInit DEF NodeInit
  <2>2. Len(Hooks) = 4
    BY DEF Hooks
  <2>3. ProcessTypeOK
    BY <2>2 DEF NodeInit, ProcessTypeOK
  <2>4. ClosedAtZero /\ OffDown
    BY DEF NodeInit, Init, ClosedAtZero, OffDown
  <2> QED
    BY <2>1, <2>3, <2>4 DEF NodeInv, NodeTypeOK, ChainInv
<1>2. NodeInv /\ [NodeNext]_nodeVars => NodeInv'
  <2> SUFFICES ASSUME NodeInv, [NodeNext]_nodeVars PROVE NodeInv'
    OBVIOUS
  <2>1. ChainInv /\ NodeTypeOK /\ ClosedAtZero /\ OffDown
    BY DEF NodeInv
  <2>2. ChainInv' /\ ClosedAtZero'
    BY <2>1, ChainOrLaunch, LaunchStep, ClosedStep, TypeStep, WriterStep,
       BackedStep DEF ChainInv
  <2>3. ProcessTypeOK' /\ OffDown'
    BY <2>1, ProcessStep, OffStep
  <2> QED
    BY <2>2, <2>3 DEF NodeInv, NodeTypeOK, ChainInv
<1> QED
  BY <1>1, <1>2, PTL DEF NodeSpec

(* The type invariant, for any blocks, heights and shutdown requests. *)
THEOREM NodeTypeCorrect == NodeSpec => []NodeTypeOK
<1>1. NodeInv => NodeTypeOK
  BY DEF NodeInv
<1> QED
  BY <1>1, NodeInvariant, PTL

(* Whatever process removes, opens, shuts or leaves the store between two      *)
(* Puts: the height the chain reports has a block on disk.                     *)
THEOREM NodeHeightBacked == NodeSpec => []HeightBacked
<1>1. NodeInv => HeightBacked
  BY DEF NodeInv, ChainInv
<1> QED
  BY <1>1, NodeInvariant, PTL

(* The same for the last block: what AddBlock has added in one process is the  *)
(* last block of every later one that finds the database.                      *)
THEOREM NodeAddedIsLast == NodeSpec => []AddedIsLast
<1>1. NodeInv => AddedIsLast
  BY ChainInvLast DEF NodeInv
<1> QED
  BY <1>1, NodeInvariant, PTL
=============================================================================
