-------------------------- MODULE ProductionProofs --------------------------
(***************************************************************************)
(* Proofs about what a node does to produce a block.  TransactionPool:     *)
(* type correctness, and that every used nonce belongs to exactly one      *)
(* execution, for any transactions, balances, batch limits and received    *)
(* blocks.  ProposerRotation: type correctness of the two racing elections *)
(* and the fair sharing of an epoch, for any validators, weights, lengths  *)
(* and shuffle.                                                            *)
(***************************************************************************)
EXTENDS TransactionPool, ProposerRotation, FiniteSetTheorems, TLAPS

-----------------------------------------------------------------------------
(* TransactionPool *)

\* A batch is a sequence of transactions of the pool.
LEMMA BatchTyped ==
    ASSUME TypeOK, NEW b \in CreateOptimizedBatch
    PROVE  b \in Seq(Tx)
<1>1. PICK m \in 0..MaxBatchSize : b \in [1..m -> Selectable]
  BY DEF CreateOptimizedBatch, BoundedSeq, SeqOf
<1>2. Selectable \subseteq Tx
  BY DEF Selectable, TypeOK
<1> QED BY <1>1, <1>2, PoolAssumption

\* A transaction the accounts can pay for leaves no balance negative.
LEMMA PayTyped ==
    ASSUME TypeOK, NEW x \in Tx, Applicable(x)
    PROVE  Pay(x) \in [Addr -> Nat]
<1> USE PoolAssumption
<1> DEFINE debited == [balance EXCEPT ![TxFrom[x]] = @ - Cost(x)]
<1>1. balance \in [Addr -> Nat] /\ TxFrom[x] \in Addr /\ TxTo[x] \in Addr
  BY DEF TypeOK
<1>2. Cost(x) \in Nat /\ Cost(x) <= balance[TxFrom[x]] /\ TxValue[x] \in Nat
  BY DEF Applicable, Affordable, Cost
<1>3. debited \in [Addr -> Nat]
  BY <1>1, <1>2
<1>4. [debited EXCEPT ![TxTo[x]] = @ + TxValue[x]] \in [Addr -> Nat]
  BY <1>1, <1>2, <1>3
<1> QED BY <1>3, <1>4 DEF Pay

-----------------------------------------------------------------------------
(* Type correctness *)

\* The empty pool and the initial accounts are well typed.
LEMMA TypeInit == Init => TypeOK
<1>1. <<>> \in Seq(Tx)
  OBVIOUS
<1> SUFFICES ASSUME Init PROVE TypeOK
  OBVIOUS
<1>2. block \in [Thread -> Seq(Tx)]
  BY <1>1 DEF Init
<1>3. balance \in [Addr -> Nat] /\ nonce \in [Addr -> Nat] /\ executed \in [Tx -> Nat]
  BY PoolAssumption DEF Init
<1>4. pc \in [Thread -> {"idle", "apply", "remove"}] /\ applied \in [Thread -> Nat]
  BY DEF Init
<1> QED BY <1>2, <1>3, <1>4 DEF Init, TypeOK

\* Admission, production, application and removal keep the types.
LEMMA TypeStep == TypeOK /\ [Next]_vars => TypeOK'
<1> SUFFICES ASSUME TypeOK, [Next]_vars PROVE TypeOK'
  OBVIOUS
<1> USE PoolAssumption
<1>1. ASSUME NEW x \in Tx, AddTransaction(x) PROVE TypeOK'
  BY <1>1 DEF AddTransaction, TypeOK
<1>2. ASSUME NEW t \in Thread, NEW b \in Seq(Tx), Begin(t, b) PROVE TypeOK'
  BY <1>2 DEF Begin, TypeOK
<1>3. CASE Propose
  BY <1>2, <1>3, BatchTyped DEF Propose, Thread
<1>4. CASE Finalize
  BY <1>2, <1>4 DEF Finalize, Thread
<1>5. ASSUME NEW t \in Thread, Apply(t) PROVE TypeOK'
  <2> DEFINE x == block[t][applied[t] + 1]
  <2>1. x \in Tx
    BY <1>5 DEF Apply, TypeOK
  <2>2. /\ Applicable(x)
        /\ balance' = Pay(x)
        /\ nonce' = [nonce EXCEPT ![TxFrom[x]] = @ + 1]
        /\ executed' = [executed EXCEPT ![x] = @ + 1]
        /\ applied' = [applied EXCEPT ![t] = @ + 1]
        /\ UNCHANGED <<pool, pc, block, withheld>>
    BY <1>5 DEF Apply
  <2> HIDE DEF x
  <2>3. balance' \in [Addr -> Nat]
    BY <2>1, <2>2, PayTyped
  <2>4. nonce' \in [Addr -> Nat] /\ executed' \in [Tx -> Nat]
    BY <2>1, <2>2 DEF TypeOK
  <2>5. applied' \in [Thread -> Nat]
    BY <2>2 DEF TypeOK
  <2> QED BY <2>2, <2>3, <2>4, <2>5 DEF TypeOK
<1>6. ASSUME NEW t \in Thread, ApplyFails(t) PROVE TypeOK'
  <2>1. <<>> \in Seq(Tx)
    OBVIOUS
  <2> QED BY <1>6, <2>1 DEF ApplyFails, TypeOK
<1>7. ASSUME NEW t \in Thread, Applied(t) PROVE TypeOK'
  BY <1>7 DEF Applied, TypeOK
<1>8. ASSUME NEW t \in Thread, RemoveTransaction(t) PROVE TypeOK'
  <2>1. block[t] \in Seq(Tx)
    BY DEF TypeOK
  <2>2. CASE block[t] = <<>>
    BY <1>8, <2>2 DEF RemoveTransaction, TypeOK
  <2>3. CASE block[t] # <<>>
    <3>1. Tail(block[t]) \in Seq(Tx)
      BY <2>1, <2>3
    <3> QED BY <1>8, <3>1 DEF RemoveTransaction, TypeOK
  <2> QED BY <2>2, <2>3
<1>9. CASE UNCHANGED vars
  BY <1>9 DEF vars, TypeOK
<1> QED
  BY <1>1, <1>3, <1>4, <1>5, <1>6, <1>7, <1>8, <1>9 DEF Next, Step

\* The pool, the accounts and the goroutines' blocks keep their shape.
THEOREM TypeCorrect == Spec => []TypeOK
BY TypeInit, TypeStep, PTL DEF Spec

-----------------------------------------------------------------------------
(* Nonces *)

\* Applying a transaction gives the next nonce to it and to no other.
LEMMA ApplyAccounts ==
    ASSUME TypeOK, NoncesAccounted, NEW x \in Tx, Applicable(x),
           nonce' = [nonce EXCEPT ![TxFrom[x]] = @ + 1],
           executed' = [executed EXCEPT ![x] = @ + 1]
    PROVE  NoncesAccounted'
<1> USE PoolAssumption
<1> DEFINE Of(a, k) == {y \in Tx : TxFrom[y] = a /\ TxNonce[y] = k /\ executed[y] > 0}
           OfP(a, k) == {y \in Tx : TxFrom[y] = a /\ TxNonce[y] = k /\ executed'[y] > 0}
<1>1. /\ nonce \in [Addr -> Nat] /\ executed \in [Tx -> Nat]
      /\ TxFrom[x] \in Addr /\ TxNonce[x] = nonce[TxFrom[x]] + 1
  BY DEF TypeOK, Applicable, NonceIsNext
<1>2. executed[x] = 0 /\ executed'[x] = 1 /\ \A y \in Tx : y # x => executed'[y] = executed[y]
  BY <1>1 DEF NoncesAccounted
<1>3. \A a \in Addr : nonce'[a] = IF a = TxFrom[x] THEN nonce[a] + 1 ELSE nonce[a]
  BY <1>1
<1> SUFFICES ASSUME NEW a \in Addr
             PROVE  /\ \A k \in 1..nonce'[a] :
                          \E y \in OfP(a, k) : executed'[y] = 1 /\ OfP(a, k) = {y}
                    /\ \A y \in Tx : TxFrom[y] = a /\ executed'[y] > 0 =>
                                        TxNonce[y] <= nonce'[a]
  BY DEF NoncesAccounted
<1>4. /\ \A k \in 1..nonce[a] : \E y \in Of(a, k) : executed[y] = 1 /\ Of(a, k) = {y}
      /\ \A y \in Tx : TxFrom[y] = a /\ executed[y] > 0 => TxNonce[y] <= nonce[a]
  BY DEF NoncesAccounted
<1>5. ASSUME NEW y \in Tx, TxFrom[y] = a, executed'[y] > 0
      PROVE  TxNonce[y] <= nonce'[a]
  <2>1. CASE y = x
    BY <1>1, <1>3, <1>5, <2>1
  <2>2. CASE y # x
    BY <1>1, <1>2, <1>3, <1>4, <1>5, <2>2
  <2> QED BY <2>1, <2>2
<1>6. ASSUME NEW k \in 1..nonce'[a]
      PROVE  \E y \in OfP(a, k) : executed'[y] = 1 /\ OfP(a, k) = {y}
  <2>1. CASE a = TxFrom[x] /\ k = nonce[a] + 1
    <3>1. x \in OfP(a, k)
      BY <1>1, <1>2, <2>1
    <3>2. \A y \in OfP(a, k) : y = x
      BY <1>1, <1>2, <1>4, <2>1
    <3>3. OfP(a, k) = {x}
      <4> HIDE DEF OfP
      <4> QED BY <3>1, <3>2
    <3> HIDE DEF OfP
    <3> QED BY <1>2, <3>1, <3>3
  <2>2. CASE ~ (a = TxFrom[x] /\ k = nonce[a] + 1)
    <3>1. k \in 1..nonce[a]
      BY <1>1, <1>3, <2>2
    <3>2. PICK y \in Of(a, k) : executed[y] = 1 /\ Of(a, k) = {y}
      BY <1>4, <3>1
    <3>3. OfP(a, k) = Of(a, k)
      BY <1>1, <1>2, <3>1
    <3>4. executed'[y] = 1
      BY <1>2, <3>2
    <3> QED BY <3>2, <3>3, <3>4
  <2> QED BY <2>1, <2>2
<1> QED BY <1>5, <1>6

\* Every step keeps the account of nonces; only Apply changes what it counts.
LEMMA AccountStep == TypeOK /\ NoncesAccounted /\ [Next]_vars => NoncesAccounted'
<1> SUFFICES ASSUME TypeOK, NoncesAccounted, [Next]_vars PROVE NoncesAccounted'
  OBVIOUS
<1>1. ASSUME NEW t \in Thread, Apply(t) PROVE NoncesAccounted'
  <2> DEFINE x == block[t][applied[t] + 1]
  <2>1. x \in Tx
    BY <1>1 DEF Apply, TypeOK
  <2>2. /\ Applicable(x)
        /\ nonce' = [nonce EXCEPT ![TxFrom[x]] = @ + 1]
        /\ executed' = [executed EXCEPT ![x] = @ + 1]
    BY <1>1 DEF Apply
  <2> HIDE DEF x
  <2> QED BY <2>1, <2>2, ApplyAccounts
<1>2. CASE UNCHANGED <<nonce, executed>>
  BY <1>2 DEF NoncesAccounted
<1> QED
  BY <1>1, <1>2 DEF Next, Step, AddTransaction, Propose, Finalize, Begin,
                    ApplyFails, Applied, RemoveTransaction, vars

\* The nonce check of ApplyTransaction, with own and received blocks applied by
\* two goroutines and transactions arriving at any time, lets each nonce of an
\* account be used by exactly one execution.
THEOREM AccountCorrect == Spec => []NoncesAccounted
<1>1. Init => NoncesAccounted
  BY PoolAssumption DEF Init, NoncesAccounted
<1> QED BY <1>1, TypeCorrect, AccountStep, PTL DEF Spec

-----------------------------------------------------------------------------
(* ProposerRotation *)

-----------------------------------------------------------------------------
(* The election *)

\* The participating validators are finitely many numbers with weights.
LEMMA ParticipatingFinite ==
    ASSUME RotationTypeOK
    PROVE  /\ Participating \subseteq Validator /\ IsFiniteSet(Participating)
           /\ Cardinality(Participating) \in Nat
           /\ \A a \in Participating : a \in Nat /\ weight[a] \in Nat
<1>1. Participating \in SUBSET Validator
  BY DEF Participating
<1>2. IsFiniteSet(Participating)
  BY <1>1, FS_Subset, RotationAssumption
<1>3. \A a \in Participating : a \in Nat /\ weight[a] \in Nat
  BY RotationAssumption DEF Participating, RotationTypeOK
<1> QED
  BY <1>1, <1>2, <1>3, FS_CardinalityType

\* Whoever comes before another has a smaller rank: the comparison of
\* SelectCommittee is a strict order.
LEMMA RankGrows ==
    ASSUME RotationTypeOK, NEW a \in Participating, NEW b \in Participating,
           Before(a, b)
    PROVE  Rank(a) < Rank(b)
<1> DEFINE Ahead(c) == {d \in Participating : Before(d, c)}
<1>1. /\ IsFiniteSet(Participating)
      /\ \A c \in Participating : c \in Nat /\ weight[c] \in Nat
  BY ParticipatingFinite
<1>2. Ahead(a) \subseteq Ahead(b)
  BY <1>1 DEF Before
<1>3. a \in Ahead(b) /\ a \notin Ahead(a)
  BY <1>1 DEF Before
<1>4. Rank(a) = Cardinality(Ahead(a)) /\ Rank(b) = Cardinality(Ahead(b))
  BY DEF Rank
<1>5. Ahead(a) \in SUBSET Participating /\ Ahead(b) \in SUBSET Participating
  OBVIOUS
<1> HIDE DEF Ahead
<1>6. IsFiniteSet(Ahead(a)) /\ IsFiniteSet(Ahead(b))
  BY <1>1, <1>5, FS_Subset
<1>7. /\ Cardinality(Ahead(a)) <= Cardinality(Ahead(b))
      /\ Cardinality(Ahead(b)) = Cardinality(Ahead(a)) => Ahead(b) = Ahead(a)
  BY <1>2, <1>6, FS_Subset
<1>8. Cardinality(Ahead(a)) \in Nat /\ Cardinality(Ahead(b)) \in Nat
  BY <1>6, FS_CardinalityType
<1> QED
  BY <1>3, <1>4, <1>7, <1>8

\* Ranks number the participating validators from 0 without gaps: so the
\* sorted list exists and is unique.
LEMMA RankBijective ==
    ASSUME RotationTypeOK
    PROVE  /\ \A a \in Participating : Rank(a) \in 0..(Cardinality(Participating) - 1)
           /\ \A a, b \in Participating : Rank(a) = Rank(b) => a = b
           /\ \A i \in 0..(Cardinality(Participating) - 1) :
                  \E a \in Participating : Rank(a) = i
<1> DEFINE P == Participating
           n == Cardinality(P)
           f == [a \in P |-> Rank(a)]
<1>1. /\ IsFiniteSet(P) /\ n \in Nat
      /\ \A c \in P : c \in Nat /\ weight[c] \in Nat
  BY ParticipatingFinite
<1>2. ASSUME NEW a \in P PROVE Rank(a) \in 0..(n - 1)
  <2> DEFINE A == {d \in P : Before(d, a)}
  <2>1. A \in SUBSET P /\ a \notin A
    BY <1>1 DEF Before
  <2>2. Rank(a) = Cardinality(A)
    BY DEF Rank
  <2> HIDE DEF A
  <2>3. /\ IsFiniteSet(A) /\ Cardinality(A) <= n
        /\ n = Cardinality(A) => P = A
    BY <1>1, <2>1, FS_Subset
  <2>4. Cardinality(A) \in Nat
    BY <2>3, FS_CardinalityType
  <2>5. n # Cardinality(A)
    BY <2>1, <2>3
  <2> HIDE DEF n
  <2> QED
    BY <1>1, <2>2, <2>3, <2>4, <2>5
<1>3. ASSUME NEW a \in P, NEW b \in P, Rank(a) = Rank(b) PROVE a = b
  <2>1. Before(a, b) \/ Before(b, a) \/ a = b
    BY <1>1 DEF Before
  <2>2. Rank(a) \in Int /\ Rank(b) \in Int
    BY <1>1, <1>2
  <2>3. Before(a, b) => Rank(a) < Rank(b)
    BY RankGrows
  <2>4. Before(b, a) => Rank(b) < Rank(a)
    BY RankGrows
  <2> QED
    BY <1>3, <2>1, <2>2, <2>3, <2>4
<1>4. f \in Injection(P, 0..(n - 1))
  BY <1>2, <1>3 DEF Injection, IsInjective
<1>5. IsFiniteSet(0..(n - 1)) /\ Cardinality(0..(n - 1)) = n
  <2> HIDE DEF n
  <2>1. 0 \in Int /\ n - 1 \in Int
    BY <1>1
  <2>2. /\ IsFiniteSet(0..(n - 1))
        /\ Cardinality(0..(n - 1)) = IF 0 > n - 1 THEN 0 ELSE (n - 1) - 0 + 1
    BY <2>1, FS_Interval
  <2> QED
    BY <1>1, <2>2
<1>6. f \in Surjection(P, 0..(n - 1))
  <2> HIDE DEF f, P
  <2> QED
    BY <1>1, <1>4, <1>5, FS_Injection
<1>7. \A i \in 0..(n - 1) : \E a \in P : Rank(a) = i
  BY <1>6 DEF Surjection
<1> QED
  BY <1>2, <1>3, <1>7

\* SelectCommittee elects at most n validators, each of them once and somebody
\* if anybody participates: the ones the comparison puts first.
LEMMA SelectCommitteeElects ==
    ASSUME RotationTypeOK, Participating # {}
    PROVE  /\ Elected(SelectCommittee(CommitteeSize))
           /\ ToSet(SelectCommittee(CommitteeSize)) = Top
<1> DEFINE n == CommitteeSize
           all == Cardinality(Participating)
           k == IF all < n THEN all ELSE n
           s == SelectCommittee(n)
<1>1. all \in Nat \ {0} /\ n \in Nat \ {0} /\ Participating \subseteq Validator
  BY ParticipatingFinite, FS_EmptySet, RotationAssumption
<1>2. \A i \in 0..(all - 1) : AtRank(i) \in Participating /\ Rank(AtRank(i)) = i
  BY RankBijective DEF AtRank
<1>3. s = [i \in 1..k |-> AtRank(i - 1)]
  BY DEF SelectCommittee
<1> HIDE DEF all, s
<1>4. k \in 1..n /\ k <= all /\ (k = n \/ k = all)
  BY <1>1
<1> HIDE DEF k, n
<1>5. \A i \in 1..k : i - 1 \in 0..(all - 1)
  BY <1>1, <1>4
<1>6. \A i \in 1..k : s[i] \in Participating /\ Rank(s[i]) = i - 1
  BY <1>2, <1>3, <1>5
<1>7. s \in [1..k -> Validator]
  BY <1>1, <1>3, <1>6
<1>8. s \in Members
  BY <1>1, <1>4, <1>7 DEF Members, BoundedSeq, SeqOf, n
<1>9. s # <<>>
  <2>1. 1 \in DOMAIN s
    BY <1>1, <1>4, <1>7
  <2> QED
    BY <2>1
<1>10. \A i, j \in 1..k : s[i] = s[j] => i = j
  BY <1>1, <1>4, <1>6
<1>11. Elected(s)
  BY <1>7, <1>8, <1>9, <1>10 DEF Elected
<1>12. ToSet(s) = Top
  <2>1. ToSet(s) = {s[i] : i \in 1..k}
    BY <1>7 DEF ToSet
  <2>2. ASSUME NEW i \in 1..k PROVE s[i] \in Top
    <3>1. i - 1 < n
      BY <1>1, <1>4
    <3> QED
      BY <1>6, <3>1 DEF Top, n
  <2>3. ASSUME NEW a \in Top PROVE \E i \in 1..k : s[i] = a
    <3>1. a \in Participating /\ Rank(a) < n /\ Rank(a) \in 0..(all - 1)
      BY RankBijective DEF Top, all, n
    <3>2. Rank(a) + 1 \in 1..k
      BY <1>1, <1>4, <3>1
    <3>3. Rank(s[Rank(a) + 1]) = Rank(a) /\ s[Rank(a) + 1] \in Participating
      BY <1>1, <1>6, <3>1, <3>2
    <3>4. s[Rank(a) + 1] = a
      BY <3>1, <3>3, RankBijective
    <3> QED
      BY <3>2, <3>4
  <2> QED
    BY <2>1, <2>2, <2>3
<1> QED
  BY <1>11, <1>12 DEF s, n

-----------------------------------------------------------------------------
(* Slots *)

\* A committee is a sequence of at most CommitteeSize validators.
LEMMA ElectedSize ==
    ASSUME NEW m, Elected(m)
    PROVE  /\ Len(m) \in 1..CommitteeSize
           /\ m \in [1..Len(m) -> Validator]
           /\ ToSet(m) = {m[i] : i \in 1..Len(m)}
           /\ \A i, j \in 1..Len(m) : m[i] = m[j] => i = j
<1>1. PICK k \in 0..CommitteeSize : m \in [1..k -> Validator]
  BY DEF Elected, Members, BoundedSeq, SeqOf
<1>2. k \in Nat /\ CommitteeSize \in Nat
  BY RotationAssumption
<1>3. Len(m) = k /\ DOMAIN m = 1..k
  BY <1>1, <1>2
<1>4. k # 0
  BY <1>1, <1>3 DEF Elected
<1> QED
  BY <1>1, <1>2, <1>3, <1>4 DEF Elected, ToSet

\* The quotient of a position by the length of a run.
LEMMA RunOf ==
    ASSUME NEW i \in Nat, NEW s \in Nat \ {0}
    PROVE  /\ i \div s \in Nat
           /\ s * (i \div s) <= i /\ i < s * (i \div s) + s
<1>1. i = s * (i \div s) + (i % s) /\ i % s \in 0..(s - 1) /\ i \div s \in Int
  OBVIOUS
<1>2. i \div s >= 0
  OBVIOUS
<1> QED
  BY <1>1, <1>2

\* Which positions have a given quotient.
LEMMA RunIs ==
    ASSUME NEW i \in Nat, NEW s \in Nat \ {0}, NEW q \in Nat
    PROVE  i \div s = q <=> (s * q <= i /\ i < s * q + s)
<1> DEFINE d == i \div s
<1>1. d \in Nat /\ s * d <= i /\ i < s * d + s
  BY RunOf
<1> HIDE DEF d
<1>2. ASSUME s * q <= i, i < s * q + s PROVE d = q
  <2>1. CASE d < q
    <3>1. s * (d + 1) <= s * q
      BY <1>1, <2>1
    <3>2. s * (d + 1) = s * d + s
      BY <1>1
    <3> QED
      BY <1>1, <1>2, <3>1, <3>2
  <2>2. CASE q < d
    <3>1. s * (q + 1) <= s * d
      BY <1>1, <2>2
    <3>2. s * (q + 1) = s * q + s
      BY <1>1
    <3> QED
      BY <1>1, <1>2, <3>1, <3>2
  <2> QED
    BY <1>1, <2>1, <2>2
<1> QED
  BY <1>1, <1>2 DEF d

\* Every height of the selector's epoch is given to a member.
LEMMA SlotGiven ==
    ASSUME NEW sel, Elected(sel.members), sel.start \in Nat,
           NEW h \in sel.start..(sel.start + EpochLength - 1)
    PROVE  ProposerForBlock(sel, h) \in ToSet(sel.members)
<1> DEFINE m == sel.members
           n == Len(m)
           i == h - sel.start
<1>1. /\ n \in 1..CommitteeSize /\ m \in [1..n -> Validator]
      /\ ToSet(m) = {m[j] : j \in 1..n}
  BY ElectedSize
<1>2. /\ n \in Nat \ {0} /\ SlotLength \in Nat \ {0} /\ EpochLength \in Nat \ {0}
  BY <1>1, RotationAssumption
<1>3. i \in 0..(EpochLength - 1) /\ i \in Nat
  BY <1>2
<1>4. ProposerForBlock(sel, h) = IF i < SlotLength * n
                                 THEN m[Perm[n][(i \div SlotLength) + 1]]
                                 ELSE m[(i % n) + 1]
  BY <1>2, <1>3 DEF ProposerForBlock
<1> HIDE DEF i, n, m
<1>5. CASE i < SlotLength * n
  <2> DEFINE q == i \div SlotLength
  <2>1. q \in Nat /\ SlotLength * q <= i
    BY <1>2, <1>3, RunOf
  <2> HIDE DEF q
  <2>2. q < n
    <3>1. SUFFICES ASSUME q >= n PROVE FALSE
      BY <1>2, <2>1
    <3>2. SlotLength * n <= SlotLength * q
      BY <1>2, <2>1, <3>1
    <3> QED
      BY <1>2, <1>3, <1>5, <2>1, <3>2
  <2>3. q + 1 \in 1..n
    BY <1>2, <2>1, <2>2
  <2>4. Perm[n][q + 1] \in 1..n
    BY <1>1, <2>3, RotationAssumption
  <2> QED
    BY <1>1, <1>4, <1>5, <2>4 DEF q, m
<1>6. CASE ~ (i < SlotLength * n)
  <2>1. (i % n) + 1 \in 1..n
    BY <1>2, <1>3
  <2> QED
    BY <1>1, <1>4, <1>6, <2>1 DEF m
<1> QED
  BY <1>5, <1>6

\* No height outside the epoch is given to anybody.
LEMMA NoSlotOutside ==
    ASSUME NEW sel, Elected(sel.members), sel.start \in Nat, NEW h \in Int,
           h \notin sel.start..(sel.start + EpochLength - 1)
    PROVE  ProposerForBlock(sel, h) \notin ToSet(sel.members)
<1>1. \A a \in ToSet(sel.members) : a \in Nat
  <2> DEFINE m == sel.members
  <2>1. m \in [1..Len(m) -> Validator] /\ ToSet(m) = {m[j] : j \in 1..Len(m)}
    BY ElectedSize
  <2> HIDE DEF m
  <2>2. \A a \in ToSet(m) : a \in Validator
    BY <2>1
  <2> QED
    BY <2>2, RotationAssumption DEF m
<1>2. EpochLength \in Nat
  BY RotationAssumption
<1>3. h - sel.start \notin 0..(EpochLength - 1)
  BY <1>2
<1>4. ProposerForBlock(sel, h) = Nobody
  BY <1>3 DEF ProposerForBlock
<1> QED
  BY <1>1, <1>4 DEF Nobody

\* When the runs fill the epoch, each member's slots are the run at the place
\* the shuffle gives it.
LEMMA OneRunEach ==
    ASSUME NEW sel, Elected(sel.members), sel.start \in Nat,
           Len(sel.members) * SlotLength = EpochLength,
           NEW a \in ToSet(sel.members)
    PROVE  \E lo \in sel.start..(sel.start + EpochLength - SlotLength) :
              \A h \in Int : ProposerForBlock(sel, h) = a <=> h \in lo..(lo + SlotLength - 1)
<1> DEFINE m == sel.members
           n == Len(m)
           p == Perm[n]
           st == sel.start
           s == SlotLength
<1>1. /\ n \in 1..CommitteeSize /\ m \in [1..n -> Validator]
      /\ ToSet(m) = {m[j] : j \in 1..n}
      /\ \A i, j \in 1..n : m[i] = m[j] => i = j
  BY ElectedSize
<1>2. /\ n \in Nat \ {0} /\ s \in Nat \ {0} /\ EpochLength \in Nat \ {0}
  BY <1>1, RotationAssumption
<1>3. p \in [1..n -> 1..n] /\ ToSet(p) = 1..n
  BY <1>1, RotationAssumption
<1>4. \A i, j \in 1..n : p[i] = p[j] => i = j
  <2>1. p \in Surjection(1..n, 1..n)
    BY <1>3 DEF Surjection, ToSet
  <2>2. IsFiniteSet(1..n)
    BY <1>2, FS_Interval
  <2> HIDE DEF p, n
  <2>3. p \in Injection(1..n, 1..n)
    BY <2>1, <2>2, FS_SurjSameCardinalityImpliesInj
  <2> QED
    BY <2>3 DEF Injection, IsInjective
<1>5. PICK j \in 1..n : m[j] = a
  BY <1>1
<1>6. PICK q \in 1..n : p[q] = j
  BY <1>3 DEF ToSet
<1> DEFINE lo == st + s * (q - 1)
<1>7. q - 1 \in Nat /\ q \in Nat /\ st \in Nat /\ lo \in Nat
  BY <1>2
<1>8. EpochLength = n * s
  OBVIOUS
<1>9. ASSUME NEW h \in Int, h \in st..(st + EpochLength - 1)
      PROVE  ProposerForBlock(sel, h) = a <=> h \in lo..(lo + s - 1)
  <2> DEFINE i == h - st
             d == i \div s
  <2>1. i \in 0..(EpochLength - 1) /\ i \in Nat
    BY <1>2, <1>7, <1>9
  <2>2. i < s * n
    BY <1>2, <1>8, <2>1
  <2>3. ProposerForBlock(sel, h) = m[p[d + 1]]
    BY <1>2, <2>1, <2>2 DEF ProposerForBlock
  <2>4. d = q - 1 <=> s * (q - 1) <= i /\ i < s * (q - 1) + s
    BY <1>2, <1>7, <2>1, RunIs
  <2>5. d \in Nat /\ s * d <= i
    BY <1>2, <2>1, RunOf
  <2> HIDE DEF p, n, m, d, s
  <2>6. d < n
    <3>1. SUFFICES ASSUME d >= n PROVE FALSE
      BY <1>2, <2>5
    <3>2. s * n <= s * d
      BY <1>2, <2>5, <3>1
    <3> QED
      BY <1>2, <2>1, <2>2, <2>5, <3>2
  <2>7. d + 1 \in 1..n
    BY <1>2, <2>5, <2>6
  <2>8. m[p[d + 1]] = a <=> d + 1 = q
    BY <1>1, <1>3, <1>4, <1>5, <1>6, <2>7
  <2>9. d + 1 = q <=> d = q - 1
    BY <1>7, <2>5
  <2>10. s * (q - 1) \in Nat
    BY <1>2, <1>7
  <2>11. (s * (q - 1) <= i /\ i < s * (q - 1) + s) <=> h \in lo..(lo + s - 1)
    BY <1>2, <1>7, <2>10
  <2> QED
    BY <2>3, <2>4, <2>8, <2>9, <2>11
<1> HIDE DEF p, n, m
<1>10. s * (q - 1) \in Nat /\ s * (q - 1) + s <= EpochLength
  <2>1. s * (q - 1) + s = s * q /\ s * q <= s * n /\ s * n = n * s
    BY <1>2, <1>7
  <2>2. s * (q - 1) \in Nat /\ s * q \in Nat
    BY <1>2, <1>7
  <2> QED
    BY <1>2, <1>8, <2>1, <2>2
<1>11. lo \in st..(st + EpochLength - s)
  BY <1>2, <1>7, <1>10
<1>12. ASSUME NEW h \in Int, h \notin st..(st + EpochLength - 1)
       PROVE  ProposerForBlock(sel, h) # a /\ h \notin lo..(lo + s - 1)
  <2>1. ProposerForBlock(sel, h) # a
    BY <1>12, NoSlotOutside
  <2>2. h \notin lo..(lo + s - 1)
    BY <1>2, <1>7, <1>11, <1>12
  <2> QED
    BY <2>1, <2>2
<1>13. \A h \in Int : ProposerForBlock(sel, h) = a <=> h \in lo..(lo + s - 1)
  BY <1>9, <1>12
<1> HIDE DEF lo
<1> QED
  BY <1>11, <1>13

-----------------------------------------------------------------------------
(* The invariant *)

\* The first height of an epoch is not after a height of the epoch.
LEMMA EpochStartTyped ==
    /\ \A h \in 0..MaxHeight : EpochStart(h) \in EpochStarts
    /\ EpochStarts \subseteq 0..MaxHeight
<1>1. EpochLength \in Nat \ {0} /\ MaxHeight \in Nat
  BY RotationAssumption
<1>2. ASSUME NEW h \in 0..MaxHeight PROVE EpochStart(h) \in 0..MaxHeight
  <2>1. h \in Nat
    BY <1>1
  <2>2. h \div EpochLength \in Nat /\ EpochLength * (h \div EpochLength) <= h
    BY <1>1, <2>1, RunOf
  <2> DEFINE d == h \div EpochLength
  <2> HIDE DEF d
  <2>3. d * EpochLength = EpochLength * d /\ d * EpochLength \in Nat
    BY <1>1, <2>2 DEF d
  <2>4. d * EpochLength \in 0..MaxHeight
    BY <1>1, <2>1, <2>2, <2>3 DEF d
  <2> QED
    BY <2>4 DEF EpochStart, d
<1> QED
  BY <1>2 DEF EpochStarts

\* The empty committee is a committee for the types.
LEMMA NoMembers == <<>> \in Members
<1>1. 0 \in 0..CommitteeSize /\ <<>> \in [1..0 -> Validator]
  BY RotationAssumption
<1> QED
  BY <1>1 DEF Members, BoundedSeq, SeqOf

\* A node starts registered, with nobody elected.
LEMMA RotationInvInit == RotationInit => RotationInv
<1> SUFFICES ASSUME RotationInit PROVE RotationInv
  OBVIOUS
<1> USE RotationAssumption
<1>1. PICK w \in Weight : weight = [a \in Validator |-> IF a = Self THEN w ELSE -1]
  BY DEF RotationInit
<1>2. weight \in [Validator -> Weight \cup {-1}] /\ Self \in Participating
  BY <1>1 DEF Participating
<1>3. 0 \in EpochStarts
  <2>1. 0 \div EpochLength = 0
    OBVIOUS
  <2>2. EpochStart(0) = 0 /\ 0 \in 0..MaxHeight
    BY <2>1 DEF EpochStart
  <2> QED
    BY <2>2, EpochStartTyped
<1>4. committee \in Members /\ new \in [Elector -> Members]
  BY NoMembers DEF RotationInit
<1>5. selector \in [members : Members, start : EpochStarts \cup {-1}]
  BY NoMembers DEF RotationInit, NoSelector
<1>6. /\ epc \in [Elector -> {"idle", "elect", "setCommittee", "setSelector",
                               "decide", "create"}]
      /\ start \in [Elector -> EpochStarts]
      /\ \A t \in Elector : epc[t] = "idle"
  BY <1>3 DEF RotationInit
<1>7. height \in 0..MaxHeight /\ nWeigh \in 0..MaxWeigh /\ nReceive \in 0..MaxReceive
  BY DEF RotationInit
<1>8. RotationTypeOK
  BY <1>2, <1>4, <1>5, <1>6, <1>7 DEF RotationTypeOK
<1> QED
  BY <1>2, <1>6, <1>8 DEF RotationInit, RotationInv

\* Registrations, blocks, ticks and every step of the two elections keep it.
LEMMA RotationInvStep == RotationInv /\ [RotationNext]_rotationVars => RotationInv'
<1> SUFFICES ASSUME RotationInv, [RotationNext]_rotationVars PROVE RotationInv'
  OBVIOUS
<1> USE RotationAssumption
<1>t. RotationTypeOK
  BY DEF RotationInv
<1>s. EpochStart(height) \in EpochStarts
  BY <1>t, EpochStartTyped DEF RotationTypeOK
<1>1. ASSUME NEW a \in Validator, NEW w \in Weight, HandleValidatorRegistration(a, w)
      PROVE  RotationInv'
  <2>1. RotationTypeOK'
    BY <1>1, <1>t, <1>s DEF HandleValidatorRegistration, BeginForce, Goto, RotationTypeOK,
       forceVars, Elector
  <2>2. (Self \in Participating)'
    BY <1>1, <1>t DEF HandleValidatorRegistration, RotationInv, Participating,
       RotationTypeOK
  <2> QED
    BY <1>1, <1>t, <2>1, <2>2 DEF HandleValidatorRegistration, BeginForce, Goto, RotationInv,
       RotationTypeOK, forceVars, Elected, Elector
<1>2. ASSUME NEW a \in Validator, NEW w \in Weight, ApplyStake(a, w)
      PROVE  RotationInv'
  <2>1. RotationTypeOK'
    BY <1>2, <1>t DEF ApplyStake, RotationTypeOK, forceVars, localVars
  <2>2. (Self \in Participating)'
    <3>1. w # -1
      OBVIOUS
    <3> QED
      BY <1>2, <1>t, <3>1 DEF ApplyStake, RotationInv, Participating, RotationTypeOK
  <2> QED
    BY <1>2, <2>1, <2>2 DEF ApplyStake, RotationInv, forceVars, localVars, Elected
<1>3. ASSUME NEW h \in 1..MaxHeight, ReceiveBlock(h) PROVE RotationInv'
  <2>1. RotationTypeOK'
    BY <1>3, <1>t DEF ReceiveBlock, RotationTypeOK, forceVars, localVars
  <2> QED
    BY <1>3, <2>1 DEF ReceiveBlock, RotationInv, forceVars, localVars, Participating,
       Elected
<1>4. CASE Tick
  <2>1. RotationTypeOK'
    BY <1>4, <1>t, <1>s DEF Tick, BeginForce, Goto, RotationTypeOK, forceVars, countVars,
       Elector
  <2> QED
    BY <1>4, <1>t, <2>1 DEF Tick, BeginForce, Goto, RotationInv, RotationTypeOK, forceVars,
       Participating, Elected, Elector
<1>5. ASSUME NEW t \in Elector, Elect(t) PROVE RotationInv'
  <2>1. Elected(SelectCommittee(CommitteeSize))
    BY <1>t, SelectCommitteeElects DEF RotationInv
  <2>2. SelectCommittee(CommitteeSize) \in Members
    BY <2>1 DEF Elected
  <2>3. RotationTypeOK'
    BY <1>5, <1>t, <2>2 DEF Elect, Goto, After, RotationTypeOK, forceVars, countVars
  <2>4. \A u \in Elector : epc'[u] \in {"setCommittee", "setSelector"} =>
            Elected(new'[u])
    <3>1. ASSUME NEW u \in Elector, u # t, epc'[u] \in {"setCommittee", "setSelector"}
          PROVE  Elected(new'[u])
      BY <1>5, <1>t, <3>1 DEF Elect, Goto, RotationInv, RotationTypeOK
    <3>2. ASSUME epc'[t] \in {"setCommittee", "setSelector"} PROVE Elected(new'[t])
      BY <1>5, <1>t, <2>1, <3>2 DEF Elect, Goto, After, RotationTypeOK
    <3> QED
      BY <3>1, <3>2
  <2> QED
    BY <1>5, <2>3, <2>4 DEF Elect, RotationInv, forceVars, Participating, Elected
<1>6. ASSUME NEW t \in Elector, SetCommittee(t) PROVE RotationInv'
  <2>1. RotationTypeOK'
    BY <1>6, <1>t DEF SetCommittee, Goto, RotationTypeOK, localVars, countVars
  <2> QED
    BY <1>6, <1>t, <2>1 DEF SetCommittee, Goto, RotationInv, RotationTypeOK, localVars,
       Participating, Elected
<1>7. ASSUME NEW t \in Elector, SetSelector(t) PROVE RotationInv'
  <2>1. Elected(new[t]) /\ new[t] \in Members /\ start[t] \in EpochStarts
    BY <1>7, <1>t DEF SetSelector, RotationInv, RotationTypeOK, Elected
  <2>2. start[t] # -1
    BY <2>1, EpochStartTyped
  <2>3. RotationTypeOK'
    BY <1>7, <1>t, <2>1, NoMembers DEF SetSelector, Goto, After, RotationTypeOK, countVars
  <2>4. Elected(selector'.members) /\ selector'.start # -1
    BY <1>7, <2>1, <2>2 DEF SetSelector
  <2>5. \A u \in Elector : epc'[u] \in {"setCommittee", "setSelector"} =>
            Elected(new'[u])
    BY <1>7, <1>t DEF SetSelector, Goto, After, RotationInv, RotationTypeOK
  <2> QED
    BY <1>7, <2>3, <2>4, <2>5 DEF SetSelector, RotationInv, Participating, Elected
<1>8. CASE Decide
  <2>1. RotationTypeOK'
    BY <1>8, <1>t DEF Decide, Goto, RotationTypeOK, forceVars, localVars, countVars
  <2> QED
    BY <1>8, <1>t, <2>1 DEF Decide, Goto, RotationInv, RotationTypeOK, forceVars,
       localVars, Participating, Elected
<1>9. CASE Create
  <2>0. height' \in 0..MaxHeight
    BY <1>9, <1>t DEF Create, RotationTypeOK
  <2>1. RotationTypeOK'
    BY <1>9, <1>t, <2>0 DEF Create, Goto, RotationTypeOK, forceVars, localVars, countVars
  <2> QED
    BY <1>9, <1>t, <2>1 DEF Create, Goto, RotationInv, RotationTypeOK, forceVars,
       localVars, Participating, Elected
<1>10. CASE UNCHANGED rotationVars
  BY <1>10, <1>t DEF rotationVars, forceVars, localVars, countVars, RotationInv,
     RotationTypeOK, Participating, Elected
<1> QED
  BY <1>1, <1>2, <1>3, <1>4, <1>5, <1>6, <1>7, <1>8, <1>9, <1>10
  DEF RotationNext, ThreadStep

-----------------------------------------------------------------------------
(* Theorems *)

\* A selector built from an elected committee shares out its epoch fairly.
LEMMA InvIsFair == RotationInv => RotationFair
<1> SUFFICES ASSUME RotationInv, selector # NoSelector
             PROVE  /\ UNION {SlotsOf(a) : a \in ToSet(selector.members)} =
                          selector.start..(selector.start + EpochLength - 1)
                    /\ Len(selector.members) * SlotLength = EpochLength =>
                          \A a \in ToSet(selector.members) :
                              /\ Cardinality(SlotsOf(a)) = SlotLength
                              /\ Consecutive(SlotsOf(a))
  BY DEF RotationFair
<1> DEFINE st == selector.start
           M == ToSet(selector.members)
<1>1. Elected(selector.members) /\ st \in 0..MaxHeight
  <2>1. st \in EpochStarts \cup {-1} /\ st # -1
    BY DEF RotationInv, RotationTypeOK
  <2> QED
    BY <2>1, EpochStartTyped DEF RotationInv
<1>2. /\ MaxHeight \in Nat /\ EpochLength \in Nat \ {0} /\ SlotLength \in Nat \ {0}
      /\ st \in Nat
  BY <1>1, RotationAssumption
<1>3. st..(st + EpochLength - 1) \subseteq 0..(MaxHeight + EpochLength)
  BY <1>1, <1>2
<1>4. UNION {SlotsOf(a) : a \in M} = st..(st + EpochLength - 1)
  <2>1. ASSUME NEW h \in st..(st + EpochLength - 1)
        PROVE  \E a \in M : h \in SlotsOf(a)
    <3>1. ProposerForBlock(selector, h) \in M
      BY <1>1, <1>2, SlotGiven
    <3> QED
      BY <1>3, <3>1 DEF SlotsOf
  <2>2. ASSUME NEW a \in M, NEW h \in SlotsOf(a)
        PROVE  h \in st..(st + EpochLength - 1)
    <3>1. h \in Int /\ ProposerForBlock(selector, h) = a
      BY <1>2 DEF SlotsOf
    <3> QED
      BY <1>1, <1>2, <3>1, NoSlotOutside
  <2> HIDE DEF M, st
  <2> QED
    BY <2>1, <2>2
<1>5. ASSUME Len(selector.members) * SlotLength = EpochLength, NEW a \in M
      PROVE  Cardinality(SlotsOf(a)) = SlotLength /\ Consecutive(SlotsOf(a))
  <2>1. PICK lo \in st..(st + EpochLength - SlotLength) :
            \A h \in Int : ProposerForBlock(selector, h) = a
                             <=> h \in lo..(lo + SlotLength - 1)
    BY <1>1, <1>2, <1>5, OneRunEach
  <2>2. lo \in Nat /\ lo..(lo + SlotLength - 1) \subseteq st..(st + EpochLength - 1)
    BY <1>2
  <2>3. SlotsOf(a) = lo..(lo + SlotLength - 1)
    BY <1>2, <1>3, <2>1, <2>2 DEF SlotsOf
  <2>4. lo + SlotLength - 1 \in Int /\ lo \in Int /\ lo <= lo + SlotLength - 1
    BY <1>2, <2>2
  <2>5. Cardinality(lo..(lo + SlotLength - 1)) = (lo + SlotLength - 1) - lo + 1
    BY <2>4, FS_Interval
  <2>6. (lo + SlotLength - 1) - lo + 1 = SlotLength
    BY <1>2, <2>2
  <2>7. Consecutive(lo..(lo + SlotLength - 1))
    BY <2>4 DEF Consecutive
  <2> QED
    BY <2>3, <2>5, <2>6, <2>7
<1> QED
  BY <1>4, <1>5

\* Whatever is registered, delegated, received and elected, in whatever order
\* the steps of the two elections fall, the committee, the selector and the
\* locals of ForceCommitteeAndProposer keep their types.
THEOREM RotationTypeCorrect == RotationSpec => []RotationTypeOK
<1>1. RotationInv => RotationTypeOK
  BY DEF RotationInv
<1> QED
  BY <1>1, RotationInvInit, RotationInvStep, PTL DEF RotationSpec

\* For any validators, weights, committee size, epoch and slot length and any
\* shuffle: the slots of every selector cover its epoch exactly and with
\* members only, and a full committee shares it out in equal, unbroken runs.
THEOREM RotationFairCorrect == RotationSpec => []RotationFair
  BY RotationInvInit, RotationInvStep, InvIsFair, PTL DEF RotationSpec
=============================================================================
