---------------------- MODULE TransactionGossipProofs -----------------------
(* Machine-checked proofs about TransactionGossip. *)
EXTENDS TransactionGossip, FiniteSetTheorems, TLAPS

(* What makes the type invariant inductive: the numbering of transactions. *)
GossipInv == TypeOK /\ IsFiniteSet(made)

(* A sequence over a set is one over a larger set. *)
LEMMA SeqGrows ==
    ASSUME NEW S, NEW T, S \subseteq T, NEW s \in Seq(S)
    PROVE  s \in Seq(T)
OBVIOUS

(* A charge keeps the types of the books. *)
LEMMA BooksTyped ==
    ASSUME BookTypeOK, NEW n \in Node, NEW p \in Node,
           UpdatePOMScore(n, p, 1, round[n]), UNCHANGED round
    PROVE  BookTypeOK'
<1> USE GossipAssumption
<1>1. pom' \in [Node -> [Peer -> Nat]]
  BY DEF UpdatePOMScore, BookTypeOK
<1>2. record' \in [Node -> [Peer -> Nat \cup {-1}]]
  BY DEF UpdatePOMScore, BookTypeOK, DemoteToGreylist, BanPeer
<1>3. \/ UNCHANGED <<white, grey, banned>>
      \/ DemoteToGreylist(n, p)
      \/ BanPeer(n, p, round[n])
  BY DEF UpdatePOMScore
<1>4. /\ white' \in [Node -> SUBSET Peer]
      /\ grey' \in [Node -> SUBSET Peer]
      /\ banned' \in [Node -> SUBSET Peer]
  <2>1. CASE UNCHANGED <<white, grey, banned>>
    BY <2>1 DEF BookTypeOK
  <2>2. CASE DemoteToGreylist(n, p)
    BY <2>2 DEF BookTypeOK, DemoteToGreylist, Include, Exclude
  <2>3. CASE BanPeer(n, p, round[n])
    BY <2>3 DEF BookTypeOK, BanPeer, Include, Exclude
  <2> QED
    BY <1>3, <2>1, <2>2, <2>3
<1> QED
  BY <1>1, <1>2, <1>4 DEF BookTypeOK

(* The network starts well typed. *)
LEMMA GossipInit == Init => GossipInv
<1> SUFFICES ASSUME Init PROVE GossipInv
  OBVIOUS
<1> USE GossipAssumption, BookAssumption
<1>1. BookTypeOK
  BY DEF Init, BookTypeOK
<1>2. IsFiniteSet(made)
  BY FS_EmptySet DEF Init
<1>3. balance \in [Node -> [Node -> Nat]]
  BY DEF Init
<1>4. mined \in Seq(made) /\ done \in [Node -> 0..Len(mined)]
  BY DEF Init
<1> QED
  BY <1>1, <1>2, <1>3, <1>4 DEF Init, GossipInv, TypeOK

(* A made transaction gets the next number, and its copies go to the links. *)
LEMMA MakeTyped ==
    ASSUME GossipInv, NEW n \in Node, NEW k \in Nat,
           NEW via \in {"api", "cli", "test"}, Make(n, k, via),
           pool' \in [Node -> SUBSET made'], tests' \in [Node -> 0..TestTxs]
    PROVE  GossipInv'
<1> DEFINE x == [id |-> Cardinality(made) + 1, from |-> n, nonce |-> k, via |-> via]
<1> USE DEF GossipInv, TypeOK
<1>1. Cardinality(made) \in Nat /\ Cardinality(made) < MaxTx
  BY FS_CardinalityType DEF Make
<1>2. made' = made \cup {x} /\ Publish(n, x)
  BY DEF Make
<1>3. x \in Transaction
  BY <1>1, GossipAssumption DEF Transaction
<1> HIDE DEF x
<1>4. IsFiniteSet(made')
  BY <1>2, FS_AddElement
<1>5. made \subseteq made' /\ x \in made' /\ made' \subseteq Transaction
  BY <1>2, <1>3
<1>6. flight' \subseteq [tx : made', to : Node, by : Node]
  <2>1. \A p \in Links(n) : [tx |-> x, to |-> p, by |-> n] \in
                                 [tx : made', to : Node, by : Node]
    BY <1>5 DEF Links
  <2>2. flight \subseteq [tx : made', to : Node, by : Node]
    BY <1>5
  <2> QED
    BY <1>2, <2>1, <2>2 DEF Publish
<1>7. seen' \in [Node -> SUBSET made']
  BY <1>2, <1>5 DEF Publish
<1>8. mined' \in Seq(made') /\ done' \in [Node -> 0..Len(mined')]
  BY <1>5, SeqGrows DEF Make, chainVars
<1>9. BookTypeOK' /\ UNCHANGED <<balance, nonce>>
  BY DEF Make, BookTypeOK, bookVars, accountVars
<1>10. refused' \in [Node -> SUBSET made']
  BY <1>5 DEF Make
<1> QED
  BY <1>4, <1>5, <1>6, <1>7, <1>8, <1>9, <1>10

(* Applying a transaction keeps the accounts and the pool typed. *)
LEMMA ApplyTyped ==
    ASSUME GossipInv, NEW n \in Node, NEW x \in made, Apply(n, x)
    PROVE  /\ balance' \in [Node -> [Node -> Nat]]
           /\ nonce' \in [Node -> [Node -> Nat]]
           /\ pool' \in [Node -> SUBSET made]
<1> USE DEF GossipInv, TypeOK
<1>1. x.from \in Node
  BY DEF Transaction
<1>2. CASE ~ Admissible(n, x)
  BY <1>2 DEF Apply, accountVars
<1>3. CASE Admissible(n, x)
  <2>1. balance[n][x.from] \in Nat /\ balance[n][x.from] >= 1
    BY <1>1, <1>3 DEF Admissible
  <2>2. balance' = [balance EXCEPT ![n][x.from] = @ - 1]
    BY <1>3 DEF Apply
  <2>3. nonce' = [nonce EXCEPT ![n][x.from] = @ + 1]
    BY <1>3 DEF Apply
  <2>4. pool' = [pool EXCEPT ![n] = @ \ {x}]
    BY <1>3 DEF Apply
  <2>5. balance' \in [Node -> [Node -> Nat]]
    <3>1. balance[n][x.from] - 1 \in Nat
      BY <2>1
    <3> QED
      BY <2>2, <3>1
  <2>6. nonce[n][x.from] + 1 \in Nat
    BY <1>1
  <2>7. nonce' \in [Node -> [Node -> Nat]]
    BY <2>3, <2>6
  <2> QED
    BY <2>4, <2>5, <2>7
<1> QED
  BY <1>2, <1>3

(* Every step keeps the types. *)
LEMMA GossipStep == GossipInv /\ [Next]_vars => GossipInv'
<1> SUFFICES ASSUME GossipInv, [Next]_vars PROVE GossipInv'
  OBVIOUS
<1> USE GossipAssumption
<1>1. CASE UNCHANGED vars
  BY <1>1 DEF GossipInv, TypeOK, BookTypeOK, vars, bookVars, accountVars,
              gossipVars, chainVars
<1>2. ASSUME NEW n \in Node, CreateTransaction(n) PROVE GossipInv'
  <2> DEFINE x == [id |-> Cardinality(made) + 1, from |-> n,
                   nonce |-> nonce[n][n] + 1, via |-> "api"]
  <2>1. nonce[n][n] + 1 \in Nat
    BY DEF GossipInv, TypeOK
  <2>2. Make(n, nonce[n][n] + 1, "api")
    BY <1>2 DEF CreateTransaction
  <2>3. made' = made \cup {x}
    BY <2>2 DEF Make
  <2>4. pool' \in [Node -> SUBSET made'] /\ tests' \in [Node -> 0..TestTxs]
    BY <1>2, <2>3 DEF CreateTransaction, GossipInv, TypeOK
  <2> QED
    BY <2>1, <2>2, <2>4, MakeTyped
<1>3. ASSUME NEW n \in Node, CmdSend(n) \/ CmdDelegate(n) PROVE GossipInv'
  <2>1. nonce[n][n] + 1 \in Nat
    BY DEF GossipInv, TypeOK
  <2>2. Make(n, nonce[n][n] + 1, "cli") /\ UNCHANGED <<pool, tests>>
    BY <1>3 DEF CmdSend, CmdDelegate
  <2>3. made \subseteq made'
    BY <2>2 DEF Make
  <2>4. pool' \in [Node -> SUBSET made'] /\ tests' \in [Node -> 0..TestTxs]
    BY <2>2, <2>3 DEF GossipInv, TypeOK
  <2> QED
    BY <2>1, <2>2, <2>4, MakeTyped
<1>4. ASSUME NEW n \in Node, AddTestTransaction(n) PROVE GossipInv'
  <2>1. tests[n] + 1 \in Nat /\ tests' \in [Node -> 0..TestTxs]
    BY <1>4 DEF AddTestTransaction, GossipInv, TypeOK
  <2>2. Make(n, tests[n] + 1, "test") /\ UNCHANGED pool
    BY <1>4 DEF AddTestTransaction
  <2>3. made \subseteq made'
    BY <2>2 DEF Make
  <2>4. pool' \in [Node -> SUBSET made']
    BY <2>2, <2>3 DEF GossipInv, TypeOK
  <2> QED
    BY <2>1, <2>2, <2>4, MakeTyped
<1>5. ASSUME NEW n \in Node, Mine(n) PROVE GossipInv'
  <2>1. PICK x \in pool[n] : Apply(n, x) /\ mined' = Append(mined, x)
    BY <1>5 DEF Mine
  <2>2. x \in made
    BY <2>1 DEF GossipInv, TypeOK
  <2>3. /\ balance' \in [Node -> [Node -> Nat]]
        /\ nonce' \in [Node -> [Node -> Nat]]
        /\ pool' \in [Node -> SUBSET made]
    BY <2>1, <2>2, ApplyTyped
  <2>4. mined \in Seq(made) /\ mined' \in Seq(made) /\ Len(mined') = Len(mined) + 1
    BY <2>1, <2>2 DEF GossipInv, TypeOK
  <2>5. done' \in [Node -> 0..Len(mined')]
    BY <1>5, <2>4 DEF Mine, GossipInv, TypeOK
  <2> QED
    BY <1>5, <2>3, <2>4, <2>5 DEF Mine, GossipInv, TypeOK, BookTypeOK, bookVars,
                                  gossipVars
<1>6. ASSUME NEW n \in Node, Finalize(n) PROVE GossipInv'
  <2>1. mined \in Seq(made) /\ done[n] \in 0..Len(mined) /\ done[n] < Len(mined)
    BY <1>6 DEF Finalize, GossipInv, TypeOK
  <2>2. mined[done[n] + 1] \in made
    BY <2>1
  <2>3. /\ balance' \in [Node -> [Node -> Nat]]
        /\ nonce' \in [Node -> [Node -> Nat]]
        /\ pool' \in [Node -> SUBSET made]
    BY <1>6, <2>2, ApplyTyped DEF Finalize
  <2>4. done' \in [Node -> 0..Len(mined)]
    BY <1>6, <2>1 DEF Finalize, GossipInv, TypeOK
  <2> QED
    BY <1>6, <2>3, <2>4 DEF Finalize, GossipInv, TypeOK, BookTypeOK, bookVars,
                            gossipVars
<1>7. ASSUME NEW m \in flight, HandleTransaction(m) PROVE GossipInv'
  <2>1. m.tx \in made /\ m.to \in Node /\ m.by \in Node
    BY DEF GossipInv, TypeOK
  <2>2. seen' \in [Node -> SUBSET made]
    BY <1>7, <2>1 DEF HandleTransaction, Gossip, GossipInv, TypeOK
  <2>3. flight' \subseteq [tx : made, to : Node, by : Node]
    <3>1. \A p \in Links(m.to) : [tx |-> m.tx, to |-> p, by |-> m.to] \in
                                      [tx : made, to : Node, by : Node]
      BY <2>1 DEF Links
    <3>2. flight \subseteq [tx : made, to : Node, by : Node]
      BY DEF GossipInv, TypeOK
    <3>3. Gossip(m)
      BY <1>7 DEF HandleTransaction
    <3> QED
      BY <3>1, <3>2, <3>3 DEF Gossip
  <2>4. pool' \in [Node -> SUBSET made]
    <3>0. pool \in [Node -> SUBSET made]
      BY DEF GossipInv, TypeOK
    <3>1. \/ UNCHANGED pool
          \/ pool' = [pool EXCEPT ![m.to] = @ \cup {m.tx}]
      BY <1>7 DEF HandleTransaction
    <3> QED
      BY <2>1, <3>0, <3>1
  <2>6. refused' \in [Node -> SUBSET made]
    <3>0. refused \in [Node -> SUBSET made]
      BY DEF GossipInv, TypeOK
    <3>1. \/ UNCHANGED refused
          \/ refused' = [refused EXCEPT ![m.to] = @ \cup {m.tx}]
      BY <1>7 DEF HandleTransaction
    <3> QED
      BY <2>1, <3>0, <3>1
  <2>5. BookTypeOK'
    <3>1. CASE UNCHANGED bookVars
      BY <3>1 DEF bookVars, GossipInv, TypeOK, BookTypeOK
    <3>2. CASE Charge(m)
      BY <3>2, <2>1, BooksTyped DEF Charge, GossipInv, TypeOK
    <3> QED
      BY <1>7, <3>1, <3>2 DEF HandleTransaction
  <2> QED
    BY <1>7, <2>2, <2>3, <2>4, <2>5, <2>6
    DEF HandleTransaction, GossipInv, TypeOK, accountVars, chainVars
<1>8. ASSUME NEW n \in Node, NEW a \in Node, HandleValidatorRegistration(n, a)
      PROVE  GossipInv'
  <2>1. balance' \in [Node -> [Node -> Nat]]
    BY <1>8 DEF HandleValidatorRegistration, GossipInv, TypeOK
  <2> QED
    BY <1>8, <2>1 DEF HandleValidatorRegistration, GossipInv, TypeOK, BookTypeOK,
                      bookVars, gossipVars, chainVars
<1> QED
  BY <1>1, <1>2, <1>3, <1>4, <1>5, <1>6, <1>7, <1>8 DEF Next

(* The type invariant, for any network and any number of transactions. *)
THEOREM GossipTypeCorrect == Spec => []TypeOK
<1>1. GossipInv => TypeOK
  BY DEF GossipInv
<1> QED
  BY <1>1, GossipInit, GossipStep, PTL DEF Spec

-----------------------------------------------------------------------------
(* Nonces *)

(* The transaction a node applies is the block after those it has processed. *)
LEMMA NoncesAfter ==
    ASSUME GossipInv, GossipInv', NoncesBacked, NEW n \in Node, NEW x \in made,
           Apply(n, x), done[n] + 1 <= Len(mined'), mined'[done[n] + 1] = x,
           \A i \in 1..Len(mined) : mined'[i] = mined[i],
           done' = [done EXCEPT ![n] = @ + 1]
    PROVE  NoncesBacked'
<1> SUFFICES ASSUME NEW m \in Node, NEW a \in Node, NEW k \in 1..nonce'[m][a]
             PROVE  \E i \in 1..done'[m] : mined'[i].from = a /\ mined'[i].nonce = k
  BY DEF NoncesBacked
<1> USE DEF GossipInv, TypeOK
<1>1. x.from \in Node /\ nonce[m][a] \in Nat /\ nonce'[m][a] \in Nat
  BY DEF Transaction
<1>2. /\ mined \in Seq(made) /\ Len(mined) \in Nat
      /\ done[m] \in Nat /\ done[m] <= Len(mined)
      /\ done'[m] = IF m = n THEN done[m] + 1 ELSE done[m]
  <2>1. mined \in Seq(made) /\ done \in [Node -> 0..Len(mined)]
    OBVIOUS
  <2>2. Len(mined) \in Nat
    BY <2>1
  <2> QED
    BY <2>1, <2>2
<1> HIDE DEF GossipInv, TypeOK
<1>3. CASE k \in 1..nonce[m][a]
  <2>1. PICK i \in 1..done[m] : mined[i].from = a /\ mined[i].nonce = k
    BY <1>3 DEF NoncesBacked
  <2>2. i \in 1..done'[m] /\ i \in 1..Len(mined)
    BY <1>2
  <2> QED
    BY <2>1, <2>2
<1>4. CASE k \notin 1..nonce[m][a]
  <2>1. Admissible(n, x)
    BY <1>4 DEF Apply, accountVars
  <2>2. nonce' = [nonce EXCEPT ![n][x.from] = @ + 1]
    BY <2>1 DEF Apply
  <2>3. m = n /\ a = x.from /\ k = nonce[n][a] + 1
    BY <1>1, <1>4, <2>2
  <2>4. x.nonce = k
    BY <2>1, <2>3 DEF Admissible
  <2>5. done[n] + 1 \in 1..done'[m]
    BY <1>2, <2>3
  <2> QED
    BY <2>3, <2>4, <2>5
<1> QED
  BY <1>3, <1>4

(* Every step keeps nonces backed by processed blocks. *)
LEMMA NoncesStep ==
    ASSUME GossipInv, GossipInv', NoncesBacked, [Next]_vars
    PROVE  NoncesBacked'
<1>1. CASE UNCHANGED <<nonce, mined, done>>
  BY <1>1 DEF NoncesBacked
<1>2. ASSUME NEW n \in Node, Mine(n) PROVE NoncesBacked'
  <2>1. PICK x \in pool[n] : Apply(n, x) /\ mined' = Append(mined, x)
    BY <1>2 DEF Mine
  <2>2. x \in made /\ mined \in Seq(made) /\ done[n] = Len(mined)
    BY <1>2 DEF Mine, GossipInv, TypeOK
  <2>3. /\ done[n] + 1 <= Len(mined') /\ mined'[done[n] + 1] = x
        /\ \A i \in 1..Len(mined) : mined'[i] = mined[i]
    BY <2>1, <2>2
  <2>4. done' = [done EXCEPT ![n] = @ + 1]
    BY <1>2 DEF Mine
  <2> QED
    BY <2>1, <2>2, <2>3, <2>4, NoncesAfter
<1>3. ASSUME NEW n \in Node, Finalize(n) PROVE NoncesBacked'
  <2>1. mined \in Seq(made) /\ done[n] \in 0..Len(mined) /\ done[n] < Len(mined)
    BY <1>3 DEF Finalize, GossipInv, TypeOK
  <2>2. mined[done[n] + 1] \in made /\ done[n] + 1 <= Len(mined)
    BY <2>1
  <2>3. /\ Apply(n, mined[done[n] + 1]) /\ mined' = mined
        /\ done' = [done EXCEPT ![n] = @ + 1]
    BY <1>3 DEF Finalize
  <2> QED
    BY <2>2, <2>3, NoncesAfter
<1>4. \/ UNCHANGED <<nonce, mined, done>>
      \/ \E n \in Node : Mine(n) \/ Finalize(n)
  BY DEF Next, vars, accountVars, chainVars, CreateTransaction, CmdSend,
         CmdDelegate, AddTestTransaction, Make, HandleTransaction,
         HandleValidatorRegistration
<1> QED
  BY <1>1, <1>2, <1>3, <1>4

(* For any network, however the nodes' accounts have drifted apart: a nonce a  *)
(* node has passed was spent by a transaction of a block it has processed.     *)
THEOREM NoncesCorrect == Spec => []NoncesBacked
<1>1. Init => GossipInv /\ NoncesBacked
  BY GossipInit DEF Init, NoncesBacked
<1>2. GossipInv /\ NoncesBacked /\ [Next]_vars => GossipInv' /\ NoncesBacked'
  BY GossipStep, NoncesStep
<1> QED
  BY <1>1, <1>2, PTL DEF Spec

-----------------------------------------------------------------------------
(* Charges *)

ChargeInv ==
    /\ OwnSeen
    /\ \A n \in Node : IsFiniteSet(Points(n))
    /\ ChargesBacked

(* One more element is one more in number, or it was there. *)
LEMMA OneMore ==
    ASSUME NEW A, NEW B, NEW z, IsFiniteSet(A), B = A \cup {z}
    PROVE  /\ IsFiniteSet(B) /\ Cardinality(A) \in Nat
           /\ Cardinality(B) <= Cardinality(A) + 1
           /\ z \notin A => Cardinality(B) = Cardinality(A) + 1
<1>1. Cardinality(A) \in Nat
  BY FS_CardinalityType
<1>2. /\ IsFiniteSet(B)
      /\ Cardinality(B) = IF z \in A THEN Cardinality(A) ELSE Cardinality(A) + 1
  BY FS_AddElement
<1> QED
  BY <1>1, <1>2

(* A step that charges nobody and hands no node a transaction of another one   *)
(* keeps the account of the charges.                                           *)
LEMMA ChargesUndisturbed ==
    ASSUME ChargeInv, OwnSeen', UNCHANGED pom,
           \A n \in Node : FromOthers(n)' = FromOthers(n)
    PROVE  ChargeInv'
<1>1. \A n \in Node : Points(n)' = Points(n)
  BY DEF Points
<1> QED
  BY <1>1 DEF ChargeInv, ChargesBacked

(* A charge adds one point at one node, or none. *)
LEMMA OnePoint ==
    ASSUME BookTypeOK, NEW n \in Node, NEW p \in Node,
           UpdatePOMScore(n, p, 1, round[n])
    PROVE  /\ \A k \in Node \ {n} : Points(k)' = Points(k)
           /\ \E z : Points(n)' \in {Points(n), Points(n) \cup {z}}
<1> USE GossipAssumption DEF BookTypeOK
<1>1. CASE pom' = pom
  BY <1>1 DEF Points
<1>2. CASE pom' = [pom EXCEPT ![n][p] = pom[n][p] + 1]
  <2> DEFINE c == pom[n][p]
  <2>1. /\ c \in Nat /\ pom'[n][p] = c + 1
        /\ \A q \in Peer \ {p} : pom'[n][q] = pom[n][q]
        /\ \A k \in Node \ {n} : pom'[k] = pom[k]
    BY <1>2
  <2>2. \A k \in Node \ {n} : Points(k)' = Points(k)
    BY <2>1 DEF Points
  <2>3. 1..(c + 1) = (1..c) \cup {c + 1}
    <3> HIDE DEF BookTypeOK, c
    <3> QED
      BY <2>1
  <2>4. Points(n)' = Points(n) \cup {<<p, c + 1>>}
    <3>1. ASSUME NEW z \in Points(n)' PROVE z \in Points(n) \cup {<<p, c + 1>>}
      <4>1. PICK q \in Peer : z \in {q} \X (1..pom'[n][q])
        BY DEF Points
      <4>2. CASE q = p
        BY <2>1, <2>3, <4>1, <4>2 DEF Points
      <4>3. CASE q # p
        BY <2>1, <4>1, <4>3 DEF Points
      <4> QED
        BY <4>2, <4>3
    <3>2. ASSUME NEW z \in Points(n) PROVE z \in Points(n)'
      <4>1. PICK q \in Peer : z \in {q} \X (1..pom[n][q])
        BY DEF Points
      <4>2. z \in {q} \X (1..pom'[n][q])
        BY <2>1, <2>3, <4>1
      <4> QED
        BY <4>2 DEF Points
    <3>3. <<p, c + 1>> \in Points(n)'
      BY <2>1, <2>3 DEF Points
    <3> QED
      BY <3>1, <3>2, <3>3
  <2> QED
    BY <2>2, <2>4
<1> QED
  BY <1>1, <1>2 DEF UpdatePOMScore

(* Every step keeps the charges backed by transactions of others. *)
LEMMA ChargeStep ==
    ASSUME GossipInv, GossipInv', ChargeInv, [Next]_vars
    PROVE  ChargeInv'
<1> USE DEF GossipInv, TypeOK
<1>1. CASE UNCHANGED <<made, seen, pom>>
  <2>1. OwnSeen' /\ \A n \in Node : FromOthers(n)' = FromOthers(n)
    BY <1>1 DEF ChargeInv, OwnSeen, FromOthers
  <2> QED
    BY <1>1, <2>1, ChargesUndisturbed
<1>2. ASSUME NEW n \in Node, NEW k \in Nat, NEW via, Make(n, k, via)
      PROVE  ChargeInv'
  <2> DEFINE x == [id |-> Cardinality(made) + 1, from |-> n, nonce |-> k, via |-> via]
  <2>1. /\ made' = made \cup {x}
        /\ seen' = [seen EXCEPT ![n] = @ \cup {x}]
        /\ UNCHANGED pom
    BY <1>2 DEF Make, Publish, bookVars
  <2>2. x.from = n
    OBVIOUS
  <2> HIDE DEF x
  <2>3. \A y \in made : y.from \in Node
    BY DEF Transaction
  <2>4. OwnSeen'
    BY <2>1, <2>2, <2>3 DEF ChargeInv, OwnSeen
  <2>5. \A m \in Node : FromOthers(m)' = FromOthers(m)
    BY <2>1, <2>2 DEF FromOthers
  <2> QED
    BY <2>1, <2>4, <2>5, ChargesUndisturbed
<1>3. ASSUME NEW m \in flight, HandleTransaction(m) PROVE ChargeInv'
  <2> DEFINE n == m.to
  <2>1. m.tx \in made /\ n \in Node /\ m.by \in Node
    OBVIOUS
  <2>2. /\ m.tx \notin seen[n]
        /\ seen' = [seen EXCEPT ![n] = @ \cup {m.tx}]
        /\ made' = made
    BY <1>3 DEF HandleTransaction, Gossip
  <2>3. OwnSeen'
    BY <2>1, <2>2 DEF ChargeInv, OwnSeen, Transaction
  <2>4. m.tx.from # n
    BY <2>1, <2>2 DEF ChargeInv, OwnSeen
  <2>5. /\ FromOthers(n)' = FromOthers(n) \cup {m.tx} /\ m.tx \notin FromOthers(n)
        /\ \A k \in Node \ {n} : FromOthers(k)' = FromOthers(k)
    BY <2>1, <2>2, <2>4 DEF FromOthers
  <2>6. IsFiniteSet(FromOthers(n))
    <3>1. FromOthers(n) \in SUBSET made
      BY <2>1 DEF FromOthers
    <3> QED
      BY <3>1, FS_Subset
  <2>7. /\ Cardinality(FromOthers(n)') = Cardinality(FromOthers(n)) + 1
        /\ Cardinality(FromOthers(n)) \in Nat
    <3> DEFINE A == FromOthers(n)
               B == FromOthers(n)'
    <3>1. IsFiniteSet(A) /\ B = A \cup {m.tx} /\ m.tx \notin A
      BY <2>5, <2>6
    <3> HIDE DEF A, B
    <3>2. Cardinality(A) \in Nat /\ Cardinality(B) = Cardinality(A) + 1
      BY <3>1, OneMore
    <3> QED
      BY <3>2 DEF A, B
  <2>8. /\ \A k \in Node \ {n} : Points(k)' = Points(k)
        /\ \E z : Points(n)' \in {Points(n), Points(n) \cup {z}}
    <3>1. CASE UNCHANGED bookVars
      BY <3>1 DEF bookVars, Points
    <3>2. CASE Charge(m)
      BY <2>1, <3>2, OnePoint DEF Charge
    <3> QED
      BY <1>3, <3>1, <3>2 DEF HandleTransaction
  <2>9. PICK z : Points(n)' \in {Points(n), Points(n) \cup {z}}
    BY <2>8
  <2>10. IsFiniteSet(Points(n)) /\ Cardinality(Points(n)) \in Nat
    BY <2>1, FS_CardinalityType DEF ChargeInv
  <2>11. /\ IsFiniteSet(Points(n)')
         /\ Cardinality(Points(n)') <= Cardinality(Points(n)) + 1
    <3>1. CASE Points(n)' = Points(n)
      BY <2>10, <3>1
    <3>2. CASE Points(n)' = Points(n) \cup {z}
      <4> DEFINE A == Points(n)
                 B == Points(n)'
      <4>1. IsFiniteSet(A) /\ B = A \cup {z}
        BY <2>10, <3>2
      <4> HIDE DEF A, B
      <4>2. IsFiniteSet(B) /\ Cardinality(B) <= Cardinality(A) + 1
        BY <4>1, OneMore
      <4> QED
        BY <4>2 DEF A, B
    <3> QED
      BY <2>9, <3>1, <3>2
  <2>12. Cardinality(Points(n)') \in Nat
    BY <2>11, FS_CardinalityType
  <2>13. Cardinality(Points(n)) <= Cardinality(FromOthers(n))
    BY <2>1 DEF ChargeInv, ChargesBacked
  <2>14. Cardinality(Points(n)') <= Cardinality(FromOthers(n)')
    BY <2>7, <2>10, <2>11, <2>12, <2>13
  <2> HIDE DEF n
  <2>15. \A k \in Node : IsFiniteSet(Points(k)')
    BY <2>8, <2>11 DEF ChargeInv
  <2>16. \A k \in Node : Cardinality(Points(k)') <= Cardinality(FromOthers(k)')
    BY <2>5, <2>8, <2>14 DEF ChargeInv, ChargesBacked
  <2> QED
    BY <2>3, <2>15, <2>16 DEF ChargeInv, ChargesBacked
<1>4. ASSUME NEW n \in Node,
             CreateTransaction(n) \/ CmdSend(n) \/ CmdDelegate(n)
                \/ AddTestTransaction(n)
      PROVE  ChargeInv'
  <2>1. nonce[n][n] + 1 \in Nat /\ tests[n] + 1 \in Nat
    BY GossipAssumption
  <2> QED
    BY <1>2, <1>4, <2>1
    DEF CreateTransaction, CmdSend, CmdDelegate, AddTestTransaction
<1>5. \/ UNCHANGED <<made, seen, pom>>
      \/ \E n \in Node : \/ CreateTransaction(n) \/ CmdSend(n) \/ CmdDelegate(n)
                         \/ AddTestTransaction(n)
      \/ \E m \in flight : HandleTransaction(m)
  BY DEF Next, vars, bookVars, gossipVars, Mine, Finalize,
         HandleValidatorRegistration
<1> QED
  BY <1>1, <1>3, <1>4, <1>5

(* For any network: however a transaction is duplicated and whatever detours   *)
(* it takes, a node charges its peers at most one point for it, and none for   *)
(* its own.                                                                    *)
THEOREM ChargesCorrect == Spec => []ChargesBacked
<1>1. Init => ChargeInv
  <2> SUFFICES ASSUME Init PROVE ChargeInv
    OBVIOUS
  <2>1. \A n \in Node : Points(n) = {} /\ FromOthers(n) = {}
    BY DEF Init, Points, FromOthers
  <2>2. OwnSeen
    BY DEF Init, OwnSeen
  <2> QED
    BY <2>1, <2>2, FS_EmptySet DEF ChargeInv, ChargesBacked
<1>2. GossipInv /\ ChargeInv /\ [Next]_vars => GossipInv' /\ ChargeInv'
  BY GossipStep, ChargeStep
<1>3. ChargeInv => ChargesBacked
  BY DEF ChargeInv
<1> QED
  BY <1>1, <1>2, <1>3, GossipInit, PTL DEF Spec
=============================================================================
