--------------------------- MODULE TransactionPool ---------------------------
(***************************************************************************)
(* The life of a transaction in one node: admission to the pool            *)
(* (transaction_pool.go), the batch producerLoop takes for its block, the  *)
(* application of own and of received blocks to the accounts, and removal  *)
(* from the pool.  Own blocks are applied by the producer goroutine and    *)
(* received ones by a finalizing goroutine; transactions arrive meanwhile. *)
(*                                                                         *)
(* Applying one transaction is one step here (module Ledger has the finer  *)
(* grain and the fixed-width arithmetic).  Priorities depend on the age of *)
(* a transaction, so the batch is taken in any order.  The Used mark is    *)
(* set by TransactionBatcher only, which the node never calls.             *)
(***************************************************************************)
EXTENDS Integers, Sequences, FiniteSets, SequencesExt

CONSTANTS
    Addr,            \* addresses
    Tx,              \* transactions, told apart by their hashes
    TxFrom, TxTo,    \* [Tx -> Addr]
    TxType,          \* [Tx -> transaction type]
    TxValue, TxFee, TxNonce,  \* [Tx -> Nat]
    InitBalance,     \* [Addr -> Nat]
    Received,        \* the blocks of other nodes: sequences of transactions
    MaxBatchSize,    \* transactions in a batch, 100 in the code
    MaxBatchFee      \* total fee of a batch, 1000 in the code

AppliedTypes == {"participation", "register_validator", "delegate", "transfer"}

ASSUME PoolAssumption ==
    /\ TxFrom \in [Tx -> Addr] /\ TxTo \in [Tx -> Addr]
    /\ TxValue \in [Tx -> Nat] /\ TxFee \in [Tx -> Nat]
    /\ TxNonce \in [Tx -> Nat \ {0}]
    /\ InitBalance \in [Addr -> Nat]
    /\ Received \subseteq Seq(Tx)
    /\ MaxBatchSize \in Nat \ {0} /\ MaxBatchFee \in Nat

Thread == {"producer", "finalizer"}

VARIABLES
    pool,           \* transactions in the pool
    balance, nonce, \* [Addr -> Nat]
    pc,             \* [Thread -> "idle", "apply" or "remove"]
    block,          \* [Thread -> the block's transactions]
    applied,        \* [Thread -> how many of them are applied]
    executed,       \* [Tx -> times the transaction changed the accounts]
    withheld        \* an own block was added to the chain and never broadcast

vars == <<pool, balance, nonce, pc, block, applied, executed, withheld>>

Init ==
    /\ pool = {}
    /\ balance = InitBalance
    /\ nonce = [a \in Addr |-> 0]
    /\ pc = [t \in Thread |-> "idle"]
    /\ block = [t \in Thread |-> <<>>]
    /\ applied = [t \in Thread |-> 0]
    /\ executed = [x \in Tx |-> 0]
    /\ withheld = FALSE

Cost(x) == TxValue[x] + TxFee[x]

\* Mutants: gaps in the nonces are allowed; the fee is not counted.
NonceIsLater(x) == TxNonce[x] > nonce[TxFrom[x]]
AffordableValue(x) == TxValue[x] <= balance[TxFrom[x]]

\* The checks that admission, selection and application have in common.
NonceIsNext(x) == TxNonce[x] = nonce[TxFrom[x]] + 1
Affordable(x) == Cost(x) <= balance[TxFrom[x]]

\* A participation transaction is admitted unchecked; types that no block can
\* apply take the default branch.
Admissible(x) ==
    \/ TxType[x] = "participation"
    \/ /\ NonceIsNext(x) /\ Affordable(x)
       /\ TxType[x] \in {"register_validator", "delegate"} => TxValue[x] # 0

\* AddTransaction, called by handleTransaction and by the API.
AddTransaction(x) ==
    /\ x \notin pool
    /\ Admissible(x)
    /\ pool' = pool \cup {x}
    /\ UNCHANGED <<balance, nonce, pc, block, applied, executed, withheld>>

\* The greedy choice of CreateOptimizedBatch along one order of the
\* transactions that are valid now.
Selectable == {x \in pool : NonceIsNext(x) /\ Affordable(x)}

TotalFee(b) == FoldLeft(LAMBDA sum, x : sum + TxFee[x], 0, b)

\* Mutant: the total fee must stay below the limit.
GreedyBelow(order) ==
    FoldLeft(LAMBDA b, x : IF /\ Len(b) < MaxBatchSize
                              /\ TotalFee(b) + TxFee[x] < MaxBatchFee
                           THEN Append(b, x) ELSE b,
             <<>>, order)

Greedy(order) ==
    FoldLeft(LAMBDA b, x : IF /\ Len(b) < MaxBatchSize
                              /\ TotalFee(b) + TxFee[x] <= MaxBatchFee
                           THEN Append(b, x) ELSE b,
             <<>>, order)

CreateOptimizedBatch ==
    BoundedSeq(Selectable, MaxBatchSize)
        \cap {Greedy(order) : order \in SetToSeqs(Selectable)}

Begin(t, b) ==
    /\ pc[t] = "idle"
    /\ pc' = [pc EXCEPT ![t] = "apply"]
    /\ block' = [block EXCEPT ![t] = b]
    /\ UNCHANGED <<pool, balance, nonce, applied, executed, withheld>>

\* The node's turn: the block is created and added to the chain.
Propose == \E b \in CreateOptimizedBatch : Begin("producer", b)

\* A received block is approved and added to the chain.
Finalize == \E b \in Received : Begin("finalizer", b)

\* ApplyTransaction on the accounts; only a transfer has a recipient.
Pay(x) ==
    LET debited == [balance EXCEPT ![TxFrom[x]] = @ - Cost(x)] IN
    IF TxType[x] = "transfer" /\ TxTo[x] # TxFrom[x]
    THEN [debited EXCEPT ![TxTo[x]] = @ + TxValue[x]] ELSE debited

Applicable(x) ==
    /\ NonceIsNext(x) /\ Affordable(x)
    /\ TxType[x] \in AppliedTypes
    /\ TxType[x] \in {"register_validator", "delegate"} => TxValue[x] # 0

Apply(t) ==
    /\ pc[t] = "apply" /\ applied[t] < Len(block[t])
    /\ LET x == block[t][applied[t] + 1] IN
       /\ Applicable(x)
       /\ balance' = Pay(x)
       /\ nonce' = [nonce EXCEPT ![TxFrom[x]] = @ + 1]
       /\ executed' = [executed EXCEPT ![x] = @ + 1]
    /\ applied' = [applied EXCEPT ![t] = @ + 1]
    /\ UNCHANGED <<pool, pc, block, withheld>>

\* The first transaction that cannot be applied ends the work on the block: what
\* came before stays, nothing leaves the pool, an own block is not broadcast.
ApplyFails(t) ==
    /\ pc[t] = "apply" /\ applied[t] < Len(block[t])
    /\ ~ Applicable(block[t][applied[t] + 1])
    /\ pc' = [pc EXCEPT ![t] = "idle"]
    /\ block' = [block EXCEPT ![t] = <<>>]
    /\ applied' = [applied EXCEPT ![t] = 0]
    /\ withheld' = (withheld \/ t = "producer")
    /\ UNCHANGED <<pool, balance, nonce, executed>>

\* All applied: the block's transactions leave the pool, one lock at a time.
Applied(t) ==
    /\ pc[t] = "apply" /\ applied[t] = Len(block[t])
    /\ pc' = [pc EXCEPT ![t] = IF block[t] = <<>> THEN "idle" ELSE "remove"]
    /\ applied' = [applied EXCEPT ![t] = 0]
    /\ UNCHANGED <<pool, balance, nonce, block, executed, withheld>>

RemoveTransaction(t) ==
    /\ pc[t] = "remove"
    /\ pool' = pool \ {Head(block[t])}
    /\ block' = [block EXCEPT ![t] = Tail(@)]
    /\ pc' = [pc EXCEPT ![t] = IF Len(block[t]) = 1 THEN "idle" ELSE "remove"]
    /\ UNCHANGED <<balance, nonce, applied, executed, withheld>>

Step(t) == Apply(t) \/ ApplyFails(t) \/ Applied(t) \/ RemoveTransaction(t)

Next ==
    \/ \E x \in Tx : AddTransaction(x)
    \/ Propose
    \/ Finalize
    \/ \E t \in Thread : Step(t)

Spec == Init /\ [][Next]_vars

\* The node gets its turn as proposer again and again, and a goroutine that
\* works on a block finishes.
FairSpec ==
    /\ Spec
    /\ WF_vars(Propose)
    /\ \A t \in Thread : WF_vars(Step(t))

-----------------------------------------------------------------------------
(* Properties *)

\* The type invariant.
TypeOK ==
    /\ pool \subseteq Tx
    /\ balance \in [Addr -> Nat]
    /\ nonce \in [Addr -> Nat]
    /\ pc \in [Thread -> {"idle", "apply", "remove"}]
    /\ block \in [Thread -> Seq(Tx)]
    /\ applied \in [Thread -> Nat]
    /\ executed \in [Tx -> Nat]
    /\ withheld \in BOOLEAN

\* Whatever is gossiped again, sits in two blocks or is left over in the pool,
\* every nonce an account has used was used by exactly one execution of one
\* transaction, and no transaction of a nonce not yet reached was executed.
NoncesAccounted ==
    \A a \in Addr :
        LET Of(k) == {x \in Tx : TxFrom[x] = a /\ TxNonce[x] = k /\ executed[x] > 0}
        IN  /\ \A k \in 1..nonce[a] :
                  \E x \in Of(k) : executed[x] = 1 /\ Of(k) = {x}
            /\ \A x \in Tx : TxFrom[x] = a /\ executed[x] > 0 => TxNonce[x] <= nonce[a]

Waiting(x) == x \in Selectable /\ Applicable(x)

\* A transaction that could be executed now and whose fee fits a batch is not
\* overtaken for ever: it is executed, or it stops being executable.
FittingServed ==
    \A x \in Tx : Waiting(x) /\ TxFee[x] <= MaxBatchFee ~> ~ Waiting(x)

(* What documents and comments say and the code does not have: TLC refutes *)
(* these (README.md, section 6).                                           *)

\* docs/TECHNICAL_SPEC.md: "Valid transactions from the pool are included".
ValidIncluded == \A x \in Tx : Waiting(x) ~> ~ Waiting(x)

\* docs/TECHNICAL_SPEC.md: "Current proposer creates and broadcasts a block": no
\* block of the proposer's chain is kept from the others.
ProposedIsBroadcast == ~ withheld

\* docs/TECHNICAL.md: "RemoveTransaction: Removes included or invalid
\* transactions": when no block is in work, the pool holds no transaction whose
\* nonce is spent.
SpentLeavesPool ==
    (\A t \in Thread : pc[t] = "idle") =>
        \A x \in pool : TxNonce[x] > nonce[TxFrom[x]]
=============================================================================
