-------------------------- MODULE BlockSyncProofs --------------------------
(***************************************************************************)
(* Proofs about module BlockSync: for any network, committee, set of       *)
(* blocks and timing, a block that a node did not propose itself gets on   *)
(* its chain only with the votes of more than two thirds of the committee. *)
(***************************************************************************)
EXTENDS BlockSync, FiniteSetTheorems, TLAPS

\* Every approval that is counted, buffered or on its way was sent by a node
\* that voted for the block.
VotesReal ==
    /\ \A n \in Node, b \in Block, a \in Node :
          a \in sigs[n][b] \cup buffer[n][b] => b \in voted[a]
    /\ \A n \in Node, b \in Block, a \in Node :
          <<a, b>> \in approvals[n] => b \in voted[a]

\* The inductive invariant.
IInv == TypeOK /\ VotesReal /\ QuorumBacked

-----------------------------------------------------------------------------
(* Type correctness *)

\* Publishing and receiving keep an inbox an inbox.
LEMMA InboxType ==
    ASSUME NEW S, NEW inbox \in [Node -> SUBSET S], NEW n \in Node
    PROVE  /\ \A msgs \in SUBSET S : Publish(inbox, n, msgs) \in [Node -> SUBSET S]
           /\ \A m : Receive(inbox, n, m) \in [Node -> SUBSET S]
  BY DEF Publish, Receive

\* New signatures or buffered approvals of one block keep the maps well typed.
LEMMA AssignType ==
    ASSUME NEW S, NEW f \in [Node -> [Block -> SUBSET S]],
           NEW n \in Node, NEW b \in Block, NEW v \in SUBSET S
    PROVE  /\ [f EXCEPT ![n][b] = v] \in [Node -> [Block -> SUBSET S]]
           /\ \A m \in Node, c \in Block :
                 [f EXCEPT ![n][b] = v][m][c] = IF m = n /\ c = b THEN v ELSE f[m][c]
  OBVIOUS

\* Every step of the network keeps the type invariant.
LEMMA TypeStep == TypeOK /\ [Next]_vars => TypeOK'
<1> SUFFICES ASSUME TypeOK, [Next]_vars PROVE TypeOK'
  OBVIOUS
<1> USE NetworkAssumption DEF TypeOK, Height
<1>1. CASE UNCHANGED vars
  BY <1>1 DEF vars, chainVars, approvalVars, netVars
<1>2. ASSUME NEW n \in Node, Connect(n) PROVE TypeOK'
  BY <1>2 DEF Connect, chainVars, approvalVars, netVars
<1>3. ASSUME NEW n \in Node, PerformBlockSync(n) PROVE TypeOK'
  <2>1. Wanted(n) \in SUBSET Height
    BY DEF Wanted
  <2>2. requests' \in [Node -> SUBSET Height]
    BY <1>3, <2>1, InboxType DEF PerformBlockSync
  <2> QED
    BY <1>3, <2>2 DEF PerformBlockSync, chainVars, approvalVars
<1>4. ASSUME NEW n \in Node, NEW h \in Height, HandleBlockRequest(n, h) PROVE TypeOK'
  <2>1. requests' \in [Node -> SUBSET Height]
    BY <1>4, InboxType DEF HandleBlockRequest
  <2>2. blocks' \in [Node -> SUBSET Block]
    <3>1. CASE GetBlockByHeight(n, h) = None
      BY <1>4, <3>1 DEF HandleBlockRequest
    <3>2. CASE GetBlockByHeight(n, h) # None
      <4>1. {GetBlockByHeight(n, h)} \in SUBSET Block
        BY <3>2 DEF GetBlockByHeight
      <4> QED
        BY <1>4, <3>2, <4>1, InboxType DEF HandleBlockRequest
    <3> QED
      BY <3>1, <3>2
  <2> QED
    BY <1>4, <2>1, <2>2 DEF HandleBlockRequest, chainVars, approvalVars
<1>5. ASSUME NEW n \in Node, NEW b \in Block, Propose(n, b) PROVE TypeOK'
  <2>1. blocks' \in [Node -> SUBSET Block]
    <3>1. {b} \in SUBSET Block
      OBVIOUS
    <3> QED
      BY <1>5, <3>1, InboxType DEF Propose
  <2>2. chain' \in [Node -> [Height -> Block \cup {None}]] /\ height' \in [Node -> 0..MaxHeight]
    BY <1>5 DEF Propose, AddBlock
  <2> QED
    BY <1>5, <2>1, <2>2 DEF Propose, approvalVars
<1>6. ASSUME NEW n \in Node, NEW b \in Block, ReceiveBlock(n, b) PROVE TypeOK'
  <2>1. blocks' \in [Node -> SUBSET Block]
    BY <1>6, InboxType DEF ReceiveBlock
  <2>2. approvals' \in [Node -> SUBSET (Node \X Block)]
    <3>1. {<<n, b>>} \in SUBSET (Node \X Block)
      OBVIOUS
    <3>2. Publish(approvals, n, {<<n, b>>}) \in [Node -> SUBSET (Node \X Block)]
      BY <3>1, InboxType
    <3> QED
      BY <1>6, <3>2 DEF ReceiveBlock
  <2>3. CASE ~ Accepted(n, b)
    BY <1>6, <2>1, <2>2, <2>3 DEF ReceiveBlock, approvalVars, chainVars
  <2>4. CASE Accepted(n, b)
    <3>1. (buffer[n][b] \cup {n}) \cap Committee \in SUBSET Committee /\ {} \in SUBSET Node
      OBVIOUS
    <3>2. [sigs EXCEPT ![n][b] = (buffer[n][b] \cup {n}) \cap Committee]
             \in [Node -> [Block -> SUBSET Committee]]
      BY <3>1, AssignType
    <3>3. [buffer EXCEPT ![n][b] = {}] \in [Node -> [Block -> SUBSET Node]]
      BY <3>1, AssignType
    <3>4. /\ [pending EXCEPT ![n] = @ \cup {b}] \in [Node -> SUBSET Block]
          /\ [voted EXCEPT ![n] = @ \cup {b}] \in [Node -> SUBSET Block]
      OBVIOUS
    <3>5. /\ sigs' \in [Node -> [Block -> SUBSET Committee]]
          /\ buffer' \in [Node -> [Block -> SUBSET Node]]
          /\ pending' \in [Node -> SUBSET Block] /\ voted' \in [Node -> SUBSET Block]
      BY <1>6, <2>4, <3>2, <3>3, <3>4 DEF ReceiveBlock, StartApproval
    <3> QED
      BY <1>6, <2>1, <2>2, <3>5 DEF ReceiveBlock, chainVars
  <2> QED
    BY <2>3, <2>4
<1>7. ASSUME NEW n \in Node, NEW b \in Block, Finalize(n, b) PROVE TypeOK'
  BY <1>7 DEF Finalize, Drop, AddBlock, netVars
<1>8. ASSUME NEW n \in Node, NEW b \in Block, WatchTimeout(n, b) PROVE TypeOK'
  BY <1>8 DEF WatchTimeout, Drop, chainVars, netVars
<1>9. ASSUME NEW n \in Node, NEW b \in Block, NEW a \in Node, ReceiveApproval(n, a, b)
      PROVE TypeOK'
  <2>1. approvals' \in [Node -> SUBSET (Node \X Block)]
    BY <1>9, InboxType DEF ReceiveApproval
  <2>2. /\ sigs[n][b] \cup ({a} \cap Committee) \in SUBSET Committee
        /\ buffer[n][b] \cup {a} \in SUBSET Node
    OBVIOUS
  <2>3. /\ [sigs EXCEPT ![n][b] = @ \cup ({a} \cap Committee)]
             \in [Node -> [Block -> SUBSET Committee]]
        /\ [buffer EXCEPT ![n][b] = @ \cup {a}] \in [Node -> [Block -> SUBSET Node]]
    BY <2>2, AssignType
  <2>4. /\ sigs' \in [Node -> [Block -> SUBSET Committee]]
        /\ buffer' \in [Node -> [Block -> SUBSET Node]]
    BY <1>9, <2>3 DEF ReceiveApproval, CountApproval
  <2> QED
    BY <1>9, <2>1, <2>4 DEF ReceiveApproval, chainVars
<1> QED
  BY <1>1, <1>2, <1>3, <1>4, <1>5, <1>6, <1>7, <1>8, <1>9 DEF Next

\* The variables of BlockSync keep their types in every network.
THEOREM TypeCorrect == Spec => []TypeOK
<1>1. Init => TypeOK
  BY NetworkAssumption DEF Init, TypeOK, Height
<1> QED
  BY <1>1, TypeStep, PTL DEF Spec

-----------------------------------------------------------------------------
(* Votes *)

\* No vote is invented on the way from the voter to the counters.
LEMMA VotesStep == TypeOK /\ VotesReal /\ [Next]_vars => VotesReal'
<1> SUFFICES ASSUME TypeOK, VotesReal, [Next]_vars PROVE VotesReal'
  OBVIOUS
<1> USE DEF VotesReal, TypeOK
<1>1. CASE UNCHANGED vars
  BY <1>1 DEF vars, approvalVars, netVars
<1>2. ASSUME NEW n \in Node, Connect(n) PROVE VotesReal'
  BY <1>2 DEF Connect, approvalVars, netVars
<1>3. ASSUME NEW n \in Node, PerformBlockSync(n) PROVE VotesReal'
  BY <1>3 DEF PerformBlockSync, approvalVars
<1>4. ASSUME NEW n \in Node, NEW h \in Height, HandleBlockRequest(n, h) PROVE VotesReal'
  BY <1>4 DEF HandleBlockRequest, approvalVars
<1>5. ASSUME NEW n \in Node, NEW b \in Block, Propose(n, b) PROVE VotesReal'
  BY <1>5 DEF Propose, approvalVars
<1>6. ASSUME NEW n \in Node, NEW b \in Block, ReceiveBlock(n, b) PROVE VotesReal'
  <2>1. CASE ~ Accepted(n, b)
    BY <1>6, <2>1 DEF ReceiveBlock, approvalVars
  <2>2. CASE Accepted(n, b)
    <3>1. b \in voted'[n] /\ \A m \in Node : voted[m] \subseteq voted'[m]
      BY <1>6, <2>2 DEF ReceiveBlock
    <3>2. \A m \in Node, c \in Block, a \in Node :
             a \in sigs'[m][c] \cup buffer'[m][c] =>
                 a \in sigs[m][c] \cup buffer[m][c] \/ (a = n /\ c = b)
      <4>1. \A m \in Node, c \in Block :
               /\ sigs'[m][c] = IF m = n /\ c = b THEN (buffer[n][b] \cup {n}) \cap Committee
                                                ELSE sigs[m][c]
               /\ buffer'[m][c] = IF m = n /\ c = b THEN {} ELSE buffer[m][c]
        <5>1. /\ (buffer[n][b] \cup {n}) \cap Committee \in SUBSET Committee
              /\ {} \in SUBSET Node
          OBVIOUS
        <5>2. /\ sigs' = [sigs EXCEPT ![n][b] = (buffer[n][b] \cup {n}) \cap Committee]
              /\ buffer' = [buffer EXCEPT ![n][b] = {}]
          BY <1>6, <2>2 DEF ReceiveBlock, StartApproval
        <5> QED
          BY <5>1, <5>2, AssignType
      <4> QED
        BY <4>1
    <3>3. \A m \in Node, c \in Block, a \in Node :
             <<a, c>> \in approvals'[m] => <<a, c>> \in approvals[m] \/ (a = n /\ c = b)
      <4>1. \A m \in Node : approvals'[m] \subseteq approvals[m] \cup {<<n, b>>}
        BY <1>6, <2>2 DEF ReceiveBlock, Publish
      <4> QED
        BY <4>1
    <3> QED
      BY <3>1, <3>2, <3>3
  <2> QED
    BY <2>1, <2>2
<1>7. ASSUME NEW n \in Node, NEW b \in Block, Finalize(n, b) PROVE VotesReal'
  BY <1>7 DEF Finalize, Drop, netVars
<1>8. ASSUME NEW n \in Node, NEW b \in Block, WatchTimeout(n, b) PROVE VotesReal'
  BY <1>8 DEF WatchTimeout, Drop, netVars
<1>9. ASSUME NEW n \in Node, NEW b \in Block, NEW a \in Node, ReceiveApproval(n, a, b)
      PROVE VotesReal'
  <2>1. b \in voted[a] /\ voted' = voted
    BY <1>9 DEF ReceiveApproval
  <2>2. \A m \in Node, c \in Block, d \in Node :
           d \in sigs'[m][c] \cup buffer'[m][c] =>
               d \in sigs[m][c] \cup buffer[m][c] \/ (d = a /\ c = b)
    <3>1. \A m \in Node, c \in Block :
             /\ sigs'[m][c] \subseteq sigs[m][c] \cup (IF c = b THEN {a} ELSE {})
             /\ buffer'[m][c] \subseteq buffer[m][c] \cup (IF c = b THEN {a} ELSE {})
      <4>1. /\ sigs[n][b] \cup ({a} \cap Committee) \in SUBSET Committee
            /\ buffer[n][b] \cup {a} \in SUBSET Node
        OBVIOUS
      <4>2. CASE b \in pending[n]
        <5>1. /\ sigs' = [sigs EXCEPT ![n][b] = sigs[n][b] \cup ({a} \cap Committee)]
              /\ buffer' = buffer
          BY <1>9, <4>2 DEF ReceiveApproval, CountApproval
        <5>2. \A m \in Node, c \in Block :
                 sigs'[m][c] = IF m = n /\ c = b THEN sigs[n][b] \cup ({a} \cap Committee)
                                                 ELSE sigs[m][c]
          BY <4>1, <5>1, AssignType
        <5> QED
          BY <5>1, <5>2
      <4>3. CASE b \notin pending[n]
        <5>1. /\ buffer' = [buffer EXCEPT ![n][b] = buffer[n][b] \cup {a}]
              /\ sigs' = sigs
          BY <1>9, <4>3 DEF ReceiveApproval, CountApproval
        <5>2. \A m \in Node, c \in Block :
                 buffer'[m][c] = IF m = n /\ c = b THEN buffer[n][b] \cup {a}
                                                   ELSE buffer[m][c]
          BY <4>1, <5>1, AssignType
        <5> QED
          BY <5>1, <5>2
      <4> QED
        BY <4>2, <4>3
    <3> QED
      BY <3>1
  <2>3. \A m \in Node : approvals'[m] \subseteq approvals[m]
    BY <1>9 DEF ReceiveApproval, Receive
  <2> QED
    BY <2>1, <2>2, <2>3
<1> QED
  BY <1>1, <1>2, <1>3, <1>4, <1>5, <1>6, <1>7, <1>8, <1>9 DEF Next

\* The voters of a block are finitely many and a step takes none away.
LEMMA VotersGrow ==
    ASSUME TypeOK, [Next]_vars, NEW b \in Block
    PROVE  /\ IsFiniteSet(Voters(b)) /\ IsFiniteSet(Voters(b)')
           /\ Cardinality(Voters(b)) \in Nat /\ Cardinality(Voters(b)') \in Nat
           /\ Cardinality(Voters(b)) <= Cardinality(Voters(b)')
<1>1. \A m \in Node : voted[m] \subseteq voted'[m]
  <2>1. CASE UNCHANGED vars
    BY <2>1 DEF vars, approvalVars
  <2>2. CASE Next
    <3>1. CASE UNCHANGED voted
      BY <3>1
    <3>2. CASE \E n \in Node, c \in Block : ReceiveBlock(n, c)
      BY <3>2 DEF TypeOK, ReceiveBlock, approvalVars
    <3> QED
      BY <2>2, <3>1, <3>2 DEF Next, Connect, PerformBlockSync, HandleBlockRequest,
         Propose, Finalize, WatchTimeout, ReceiveApproval, approvalVars
  <2> QED
    BY <2>1, <2>2
<1>2. Voters(b) \subseteq Voters(b)' /\ Voters(b)' \subseteq Committee
  BY <1>1, NetworkAssumption DEF Voters
<1>3. IsFiniteSet(Committee)
  BY NetworkAssumption, FS_Subset
<1>4. IsFiniteSet(Voters(b)')
  BY <1>2, <1>3, FS_Subset
<1>5. IsFiniteSet(Voters(b)) /\ Cardinality(Voters(b)) <= Cardinality(Voters(b)')
  BY <1>2, <1>4, FS_Subset
<1> QED
  BY <1>4, <1>5, FS_CardinalityType

\* An approved entry carries the votes of more than two thirds.
LEMMA ApprovedMeansQuorum ==
    ASSUME TypeOK, VotesReal, NEW n \in Node, NEW b \in Block, IsApproved(n, b)
    PROVE  3 * Cardinality(Voters(b)) > 2 * Cardinality(Committee)
<1>1. IsFiniteSet(Committee)
  BY NetworkAssumption, FS_Subset
<1>2. IsFiniteSet(Voters(b)) /\ sigs[n][b] \subseteq Voters(b)
  <2>1. Voters(b) \subseteq Committee
    BY DEF Voters
  <2>2. sigs[n][b] \subseteq Voters(b)
    BY NetworkAssumption DEF TypeOK, VotesReal, Voters
  <2> QED
    BY <1>1, <2>1, <2>2, FS_Subset
<1>3. Cardinality(sigs[n][b]) <= Cardinality(Voters(b)) /\ IsFiniteSet(sigs[n][b])
  BY <1>2, FS_Subset
<1>4. /\ Cardinality(sigs[n][b]) \in Nat /\ Cardinality(Voters(b)) \in Nat
      /\ Cardinality(Committee) \in Nat
  BY <1>1, <1>2, <1>3, FS_CardinalityType
<1>5. Cardinality(sigs[n][b]) >= (2 * Cardinality(Committee)) \div 3 + 1
  BY DEF IsApproved
<1>6. ASSUME NEW c \in Nat, NEW s \in Nat, NEW v \in Nat,
             s >= (2 * c) \div 3 + 1, s <= v
      PROVE  3 * v > 2 * c
  BY <1>6
<1> QED
  BY <1>3, <1>4, <1>5, <1>6

\* A step puts a block on a chain only if it is the node's own or approved.
LEMMA QuorumStep == IInv /\ [Next]_vars => QuorumBacked'
<1> SUFFICES ASSUME IInv, [Next]_vars,
                    NEW n \in Node, NEW h \in Height,
                    chain'[n][h] # None, Proposer[chain'[n][h]] # n
             PROVE  3 * Cardinality({m \in Committee : chain'[n][h] \in voted'[m]})
                        > 2 * Cardinality(Committee)
  BY DEF QuorumBacked, Voters
<1>1. TypeOK /\ TypeOK' /\ VotesReal
  BY TypeStep DEF IInv
<1>2. PICK b \in Block : b = chain'[n][h]
  BY <1>1 DEF TypeOK
<1>3. \/ chain'[n][h] = chain[n][h]
      \/ Proposer[b] = n
      \/ IsApproved(n, b)
  <2>1. ASSUME NEW m \in Node, NEW c \in Block, AddBlock(m, c)
        PROVE  chain'[n][h] = chain[n][h] \/ (m = n /\ b = c)
    BY <1>1, <1>2, <2>1, NetworkAssumption DEF AddBlock, TypeOK, Height
  <2>2. CASE \E m \in Node, c \in Block : Propose(m, c)
    BY <2>1, <2>2 DEF Propose
  <2>3. CASE \E m \in Node, c \in Block : Finalize(m, c)
    BY <2>1, <2>3 DEF Finalize
  <2>4. CASE UNCHANGED chain
    BY <2>4
  <2> QED
    BY <2>2, <2>3, <2>4 DEF Next, Connect, PerformBlockSync, HandleBlockRequest,
       ReceiveBlock, WatchTimeout, ReceiveApproval, vars, chainVars
<1>4. 3 * Cardinality(Voters(b)) > 2 * Cardinality(Committee)
  <2>1. CASE chain'[n][h] = chain[n][h]
    <3>1. chain[n][h] = b /\ b # None /\ Proposer[b] # n
      BY <1>2, <2>1
    <3>2. 3 * Cardinality(Voters(chain[n][h])) > 2 * Cardinality(Committee)
      BY <3>1 DEF IInv, QuorumBacked
    <3> QED
      BY <3>1, <3>2
  <2>2. CASE IsApproved(n, b)
    BY <1>1, <2>2, ApprovedMeansQuorum
  <2> QED
    BY <1>2, <1>3, <2>1, <2>2
<1>5. IsFiniteSet(Committee)
  BY NetworkAssumption, FS_Subset
<1>6. Cardinality(Committee) \in Nat
  BY <1>5, FS_CardinalityType
<1>7. ASSUME NEW c \in Nat, NEW v \in Nat, NEW w \in Nat, 3 * v > 2 * c, v <= w
      PROVE  3 * w > 2 * c
  BY <1>7
<1>8. /\ Cardinality(Voters(b)) \in Nat /\ Cardinality(Voters(b)') \in Nat
      /\ Cardinality(Voters(b)) <= Cardinality(Voters(b)')
  BY <1>1, VotersGrow
<1>9. Voters(b)' = {m \in Committee : chain'[n][h] \in voted'[m]}
  BY <1>2 DEF Voters
<1> QED
  BY <1>4, <1>6, <1>7, <1>8, <1>9

\* In every network, whatever is lost, late or retried, a block that is not the
\* node's own is on its chain only with the votes of more than two thirds.
THEOREM QuorumCorrect == Spec => []QuorumBacked
<1>1. Init => IInv
  <2>1. Init => TypeOK
    BY NetworkAssumption DEF Init, TypeOK, Height
  <2>2. Init => VotesReal /\ QuorumBacked
    BY DEF Init, VotesReal, QuorumBacked
  <2> QED
    BY <2>1, <2>2 DEF IInv
<1>2. IInv /\ [Next]_vars => IInv'
  BY TypeStep, VotesStep, QuorumStep DEF IInv
<1>3. IInv => QuorumBacked
  BY DEF IInv
<1> QED
  BY <1>1, <1>2, <1>3, PTL DEF Spec

-----------------------------------------------------------------------------
(* Forks *)

\* Two sets of more than two thirds of a finite set share more than a third.
LEMMA QuorumsIntersect ==
    ASSUME NEW C, IsFiniteSet(C), NEW A \in SUBSET C, NEW B \in SUBSET C,
           3 * Cardinality(A) > 2 * Cardinality(C),
           3 * Cardinality(B) > 2 * Cardinality(C)
    PROVE  3 * Cardinality(A \cap B) > Cardinality(C)
<1>1. /\ IsFiniteSet(A) /\ IsFiniteSet(B) /\ IsFiniteSet(A \cup B)
      /\ IsFiniteSet(A \cap B) /\ Cardinality(A \cup B) <= Cardinality(C)
  <2>1. A \subseteq C /\ B \subseteq C /\ A \cup B \subseteq C /\ A \cap B \subseteq C
    OBVIOUS
  <2> QED
    BY <2>1, FS_Subset
<1>2. /\ Cardinality(A) \in Nat /\ Cardinality(B) \in Nat /\ Cardinality(C) \in Nat
      /\ Cardinality(A \cup B) \in Nat /\ Cardinality(A \cap B) \in Nat
  BY <1>1, FS_CardinalityType
<1>3. Cardinality(A \cup B) = Cardinality(A) + Cardinality(B) - Cardinality(A \cap B)
  BY <1>1, FS_Union
<1>4. ASSUME NEW x \in Nat, NEW y \in Nat, NEW c \in Nat, NEW u \in Nat, NEW i \in Nat,
             u = x + y - i, u <= c, 3 * x > 2 * c, 3 * y > 2 * c
      PROVE  3 * i > c
  BY <1>4
<1> QED
  BY <1>1, <1>2, <1>3, <1>4

\* A fork between nodes that did not propose its blocks takes the votes of more
\* than a third of the committee for both blocks, in every network.
THEOREM ForkCorrect == Spec => []ForkNeedsDoubleVotes
<1>1. TypeOK /\ QuorumBacked => ForkNeedsDoubleVotes
  <2> SUFFICES ASSUME TypeOK, QuorumBacked,
                      NEW m \in Node, NEW n \in Node, NEW h \in Height,
                      chain[m][h] # None, chain[n][h] # None,
                      Proposer[chain[m][h]] # m, Proposer[chain[n][h]] # n
               PROVE  3 * Cardinality(Voters(chain[m][h]) \cap Voters(chain[n][h]))
                          > Cardinality(Committee)
    BY DEF ForkNeedsDoubleVotes
  <2>1. /\ 3 * Cardinality(Voters(chain[m][h])) > 2 * Cardinality(Committee)
        /\ 3 * Cardinality(Voters(chain[n][h])) > 2 * Cardinality(Committee)
    BY DEF QuorumBacked
  <2>2. /\ Voters(chain[m][h]) \in SUBSET Committee
        /\ Voters(chain[n][h]) \in SUBSET Committee
    BY DEF Voters
  <2>3. IsFiniteSet(Committee)
    BY NetworkAssumption, FS_Subset
  <2> QED
    BY <2>1, <2>2, <2>3, QuorumsIntersect
<1> QED
  BY <1>1, TypeCorrect, QuorumCorrect, PTL

-----------------------------------------------------------------------------
(* The network implements the voted chain *)

\* What travels, is awaited or is stored was created.
CreatedOnly ==
    \A n \in Node :
        /\ blocks[n] \subseteq created
        /\ pending[n] \subseteq created
        /\ \A h \in Height : chain[n][h] # None => chain[n][h] \in created

\* Publishing adds nothing but the messages published.
LEMMA PublishAdds ==
    ASSUME NEW inbox \in [Node -> SUBSET Block], NEW n \in Node,
           NEW msgs \in SUBSET Block, NEW m \in Node
    PROVE  Publish(inbox, n, msgs)[m] \subseteq inbox[m] \cup msgs
  BY DEF Publish

\* Every step keeps CreatedOnly.
LEMMA CreatedStep == TypeOK /\ CreatedOnly /\ [Next]_vars => CreatedOnly'
<1> SUFFICES ASSUME TypeOK, CreatedOnly, [Next]_vars PROVE CreatedOnly'
  OBVIOUS
<1> USE NetworkAssumption DEF TypeOK, CreatedOnly
<1>1. CASE UNCHANGED vars
  BY <1>1 DEF vars, chainVars, approvalVars, netVars
<1>2. ASSUME NEW n \in Node, Connect(n) PROVE CreatedOnly'
  BY <1>2 DEF Connect, chainVars, approvalVars, netVars
<1>3. ASSUME NEW n \in Node, PerformBlockSync(n) PROVE CreatedOnly'
  BY <1>3 DEF PerformBlockSync, chainVars, approvalVars
<1>4. ASSUME NEW n \in Node, NEW h \in Height, HandleBlockRequest(n, h) PROVE CreatedOnly'
  <2>1. CASE GetBlockByHeight(n, h) = None
    BY <1>4, <2>1 DEF HandleBlockRequest, chainVars, approvalVars
  <2>2. CASE GetBlockByHeight(n, h) # None
    <3>1. GetBlockByHeight(n, h) \in created /\ {GetBlockByHeight(n, h)} \in SUBSET Block
      BY <2>2 DEF GetBlockByHeight
    <3>2. \A m \in Node : blocks'[m] \subseteq blocks[m] \cup {GetBlockByHeight(n, h)}
      BY <1>4, <2>2, <3>1, PublishAdds DEF HandleBlockRequest
    <3> QED
      BY <1>4, <3>1, <3>2 DEF HandleBlockRequest, chainVars, approvalVars
  <2> QED
    BY <2>1, <2>2
<1>5. ASSUME NEW n \in Node, NEW b \in Block, Propose(n, b) PROVE CreatedOnly'
  <2>1. {b} \in SUBSET Block
    OBVIOUS
  <2>2. \A m \in Node : blocks'[m] \subseteq blocks[m] \cup {b}
    BY <1>5, <2>1, PublishAdds DEF Propose
  <2>3. \A m \in Node, h \in Height : chain'[m][h] = chain[m][h] \/ chain'[m][h] = b
    BY <1>5 DEF Propose, AddBlock, Height
  <2> QED
    BY <1>5, <2>2, <2>3 DEF Propose, approvalVars
<1>6. ASSUME NEW n \in Node, NEW b \in Block, ReceiveBlock(n, b) PROVE CreatedOnly'
  <2>1. b \in created /\ \A m \in Node : blocks'[m] \subseteq blocks[m]
    BY <1>6 DEF ReceiveBlock, Receive
  <2>2. \A m \in Node : pending'[m] \subseteq pending[m] \cup {b}
    <3>1. CASE UNCHANGED pending
      BY <3>1
    <3>2. CASE pending' = [pending EXCEPT ![n] = @ \cup {b}]
      BY <3>2
    <3> QED
      BY <1>6, <3>1, <3>2 DEF ReceiveBlock, StartApproval, approvalVars
  <2> QED
    BY <1>6, <2>1, <2>2 DEF ReceiveBlock, chainVars
<1>7. ASSUME NEW n \in Node, NEW b \in Block, Finalize(n, b) PROVE CreatedOnly'
  <2>1. b \in created /\ \A m \in Node : pending'[m] \subseteq pending[m]
    BY <1>7 DEF Finalize, Drop
  <2>2. \A m \in Node, h \in Height : chain'[m][h] = chain[m][h] \/ chain'[m][h] = b
    BY <1>7 DEF Finalize, AddBlock, Height
  <2> QED
    BY <1>7, <2>1, <2>2 DEF Finalize, netVars
<1>8. ASSUME NEW n \in Node, NEW b \in Block, WatchTimeout(n, b) PROVE CreatedOnly'
  BY <1>8 DEF WatchTimeout, Drop, chainVars, netVars
<1>9. ASSUME NEW n \in Node, NEW b \in Block, NEW a \in Node, ReceiveApproval(n, a, b)
      PROVE CreatedOnly'
  BY <1>9 DEF ReceiveApproval, chainVars
<1> QED
  BY <1>1, <1>2, <1>3, <1>4, <1>5, <1>6, <1>7, <1>8, <1>9 DEF Next

\* Steps that change neither chains, votes nor the set of blocks are invisible.
LEMMA Invisible ==
    ASSUME UNCHANGED <<chain, voted, created>>
    PROVE  UNCHANGED VC!vars
  BY DEF VC!vars, Voters

\* Every step of the network is a step of the voted chain or invisible.
LEMMA RefinementStep ==
    TypeOK /\ VotesReal /\ CreatedOnly /\ [Next]_vars => [VC!Next]_(VC!vars)
<1> SUFFICES ASSUME TypeOK, VotesReal, CreatedOnly, [Next]_vars
             PROVE  VC!Next \/ UNCHANGED VC!vars
  OBVIOUS
<1>1. CASE UNCHANGED vars
  BY <1>1, Invisible DEF vars, chainVars, approvalVars
<1>2. ASSUME NEW n \in Node, Connect(n) PROVE UNCHANGED VC!vars
  BY <1>2, Invisible DEF Connect, chainVars, approvalVars
<1>3. ASSUME NEW n \in Node, PerformBlockSync(n) PROVE UNCHANGED VC!vars
  BY <1>3, Invisible DEF PerformBlockSync, chainVars, approvalVars
<1>4. ASSUME NEW n \in Node, NEW h \in Height, HandleBlockRequest(n, h)
      PROVE UNCHANGED VC!vars
  BY <1>4, Invisible DEF HandleBlockRequest, chainVars, approvalVars
<1>5. ASSUME NEW n \in Node, NEW b \in Block, Propose(n, b) PROVE VC!Create(n, b)
  BY <1>5 DEF Propose, AddBlock, VC!Create, VC!Store, Voters, approvalVars
<1>6. ASSUME NEW n \in Node, NEW b \in Block, ReceiveBlock(n, b)
      PROVE VC!Vote(n, b) \/ UNCHANGED VC!vars
  <2>1. CASE ~ Accepted(n, b)
    BY <1>6, <2>1, Invisible DEF ReceiveBlock, chainVars, approvalVars
  <2>2. CASE Accepted(n, b)
    <3>1. /\ voted' = [voted EXCEPT ![n] = @ \cup {b}]
          /\ chain' = chain /\ created' = created /\ b \in created
      BY <1>6, <2>2 DEF ReceiveBlock, chainVars, CreatedOnly
    <3>2. CASE n \in Committee
      <4>1. ASSUME NEW c \in Block
            PROVE  Voters(c)' = IF c = b THEN Voters(b) \cup {n} ELSE Voters(c)
        BY <3>1, <3>2, NetworkAssumption DEF Voters, TypeOK
      <4>2. [c \in Block |-> Voters(c)]' =
               [[c \in Block |-> Voters(c)] EXCEPT ![b] = @ \cup {n}]
        BY <4>1
      <4> QED
        BY <3>1, <3>2, <4>2 DEF VC!Vote
    <3>3. CASE n \notin Committee
      <4>1. ASSUME NEW c \in Block PROVE Voters(c)' = Voters(c)
        BY <3>1, <3>3, NetworkAssumption DEF Voters, TypeOK
      <4> QED
        BY <3>1, <4>1 DEF VC!vars
    <3> QED
      BY <3>2, <3>3
  <2> QED
    BY <2>1, <2>2
<1>7. ASSUME NEW n \in Node, NEW b \in Block, Finalize(n, b) PROVE VC!Take(n, b)
  <2>1. 3 * Cardinality(Voters(b)) > 2 * Cardinality(Committee)
    BY <1>7, ApprovedMeansQuorum DEF Finalize
  <2>2. b \in created
    BY <1>7 DEF Finalize, CreatedOnly
  <2>3. Voters(b) \in {S \in SUBSET Committee :
                        3 * Cardinality(S) > 2 * Cardinality(Committee)}
    BY <2>1 DEF Voters
  <2>4. [c \in Block |-> Voters(c)]' = [c \in Block |-> Voters(c)]
    BY <1>7 DEF Finalize, Voters
  <2> QED
    BY <1>7, <2>2, <2>3, <2>4 DEF Finalize, AddBlock, VC!Take, VC!Store
<1>8. ASSUME NEW n \in Node, NEW b \in Block, WatchTimeout(n, b) PROVE UNCHANGED VC!vars
  BY <1>8, Invisible DEF WatchTimeout, chainVars
<1>9. ASSUME NEW n \in Node, NEW b \in Block, NEW a \in Node, ReceiveApproval(n, a, b)
      PROVE UNCHANGED VC!vars
  BY <1>9, Invisible DEF ReceiveApproval, chainVars
<1> QED
  BY <1>1, <1>2, <1>3, <1>4, <1>5, <1>6, <1>7, <1>8, <1>9 DEF Next, VC!Next

\* Every network of nodes, with its losses, delays, time-outs and retries,
\* behaves like the voted chain.
THEOREM Refinement == Spec => ImplementsVotedChain
<1>1. Init => VC!Init
  <2> SUFFICES ASSUME Init PROVE VC!Init
    OBVIOUS
  <2>1. \A b \in Block : Voters(b) = {}
    BY NetworkAssumption DEF Init, Voters
  <2> QED
    BY <2>1 DEF Init, VC!Init, Height
<1>2. Init => TypeOK /\ VotesReal /\ CreatedOnly
  <2>1. Init => TypeOK
    BY NetworkAssumption DEF Init, TypeOK, Height
  <2>2. Init => VotesReal /\ CreatedOnly
    BY DEF Init, VotesReal, CreatedOnly
  <2> QED
    BY <2>1, <2>2
<1>3. TypeOK /\ VotesReal /\ CreatedOnly /\ [Next]_vars
         => (TypeOK /\ VotesReal /\ CreatedOnly)'
  BY TypeStep, VotesStep, CreatedStep
<1> QED
  BY <1>1, <1>2, <1>3, RefinementStep, PTL DEF Spec, ImplementsVotedChain, VC!Spec
=============================================================================
