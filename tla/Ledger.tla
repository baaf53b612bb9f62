------------------------------- MODULE Ledger -------------------------------
(***************************************************************************)
(* Accounts and validator registry of one node: ApplyBlockWithRegistry     *)
(* (blockchain.go), ApplyTransaction (state.go) and the registration       *)
(* handler with its initial balances (node.go).                            *)
(*                                                                         *)
(* State has no lock.  The goroutines that change it are the appliers      *)
(* (finalizeApprovedBlock, any number, and producerLoop) and the minters   *)
(* (handleValidatorRegistration and the start-up goroutine of Start).      *)
(* ApplyTransaction works on a copy of the sender's account that it writes *)
(* back at the end: between the two it has a window open, and so has a     *)
(* minter between GetAccount and PutAccount.  A registry update is one     *)
(* step here, as is the credit of a recipient.                             *)
(*                                                                         *)
(* Amounts are unsigned integers of the code's fixed width: 0..MaxU with   *)
(* addition modulo MaxU + 1.                                               *)
(***************************************************************************)
EXTENDS Integers, Sequences, FiniteSets

CONSTANTS
    Addr,         \* addresses
    Tx,           \* transactions
    TxFrom, TxTo, \* [Tx -> Addr]
    TxType,       \* [Tx -> transaction type]
    TxValue, TxFee, TxNonce,  \* [Tx -> 0..MaxU]
    Blocks,       \* the blocks (sequences of transactions) to be applied
    Applier,      \* goroutines that apply blocks
    Minter,       \* goroutines that give a zero account its first balance
    InitBalance,  \* [Addr -> 0..MaxU]: balances at the start
    InitStake,    \* the stake a node announces for itself, 100 in the code
    Grant,        \* the first balance of a validator, 1000 in the code
    MaxU,         \* the largest amount, 2^64 - 1 in the code
    Sequential,   \* TRUE: accounts are changed by one goroutine at a time, which
                  \* the code does not enforce; FALSE: as the code has it
    MaxApply,     \* bound: blocks handed to appliers
    MaxRegister   \* bound: registration messages handled

KnownTypes == {"participation", "register_validator", "delegate", "transfer"}

ASSUME LedgerAssumption ==
    /\ MaxU \in Nat
    /\ Addr # {} /\ IsFiniteSet(Addr)
    /\ Sequential \in BOOLEAN
    /\ TxFrom \in [Tx -> Addr] /\ TxTo \in [Tx -> Addr]
    /\ TxValue \in [Tx -> 0..MaxU] /\ TxFee \in [Tx -> 0..MaxU]
    /\ TxNonce \in [Tx -> 1..MaxU]
    /\ Blocks \subseteq Seq(Tx)
    /\ InitBalance \in [Addr -> 0..MaxU]
    /\ Grant \in 1..MaxU /\ InitStake \in 0..MaxU
    /\ MaxApply \in Nat /\ MaxRegister \in Nat

VARIABLES
    balance, nonce,   \* [Addr -> 0..MaxU]: the accounts in the trie
    validator,        \* [Addr -> registered?]
    stake, delegated, \* [Addr -> 0..MaxU]: the registry's records
    todo,             \* [Applier -> transactions of the block still to apply]
    apc,              \* [Applier -> program counter]
    copyBalance, copyNonce,  \* [Applier -> the sender's account being changed]
    mpc, mwho, mNonce,       \* [Minter -> pc, account, the nonce it read]
    nApply, nRegister,
    applied,          \* [Tx -> times its effects were written back]
    credited,         \* stake the transactions gave to registry records
    locked,           \* value those transactions took from their senders
    spent,            \* value that left the accounts for good
    minted            \* value created by minters and at the start

accountVars == <<balance, nonce>>
registryVars == <<validator, stake, delegated>>
applierVars == <<todo, apc, copyBalance, copyNonce>>
minterVars == <<mpc, mwho, mNonce>>
ghostVars == <<applied, credited, locked, spent, minted>>
vars == <<accountVars, registryVars, applierVars, minterVars, ghostVars,
          nApply, nRegister>>

Add(x, y) == (x + y) % (MaxU + 1)
Sub(x, y) == (x - y) % (MaxU + 1)

\* The sum of f over S, as the number of the units in piles of f[x].
Units(f, S) == UNION {{x} \X (1..f[x]) : x \in S}
Total(f, S) == Cardinality(Units(f, S))

\* The goroutines in the middle of a read-modify-write of an account.
OpenApplier == {p \in Applier : apc[p] \in {"credit", "write"}}
OpenMinter == {m \in Minter : mpc[m] = "put"}

Quiet == OpenApplier = {} /\ OpenMinter = {}

\* With Sequential, another goroutine reads an account only when none is in
\* the middle: what a mutex would give, and what happens when blocks and
\* registrations are far enough apart.
MayRead == Sequential => Quiet

Init ==
    /\ balance = InitBalance
    /\ nonce = [a \in Addr |-> 0]
    /\ validator = [a \in Addr |-> FALSE]
    /\ stake = [a \in Addr |-> 0]
    /\ delegated = [a \in Addr |-> 0]
    /\ todo = [p \in Applier |-> <<>>]
    /\ apc = [p \in Applier |-> "idle"]
    /\ copyBalance = [p \in Applier |-> 0]
    /\ copyNonce = [p \in Applier |-> 0]
    /\ mpc = [m \in Minter |-> "idle"]
    /\ mwho = [m \in Minter |-> CHOOSE a \in Addr : TRUE]
    /\ mNonce = [m \in Minter |-> 0]
    /\ nApply = 0
    /\ nRegister = 0
    /\ applied = [t \in Tx |-> 0]
    /\ credited = 0
    /\ locked = 0
    /\ spent = 0
    /\ minted = Total(InitBalance, Addr)

-----------------------------------------------------------------------------
(* ApplyBlockWithRegistry *)

Goto(p, pc) == apc' = [apc EXCEPT ![p] = pc]

Begin(p, block) ==
    /\ apc[p] = "idle"
    /\ block # <<>>
    /\ nApply < MaxApply
    /\ nApply' = nApply + 1
    /\ todo' = [todo EXCEPT ![p] = block]
    /\ Goto(p, "registry")
    /\ UNCHANGED <<accountVars, registryVars, copyBalance, copyNonce,
                   minterVars, ghostVars, nRegister>>

\* Mutant: an error does not end the work on the block.
AbortGoesOn(p) ==
    /\ todo' = [todo EXCEPT ![p] = <<>>]
    /\ Goto(p, "registry")

\* The rest of the block is given up; nothing done so far is undone.
Abort(p) ==
    /\ todo' = [todo EXCEPT ![p] = <<>>]
    /\ Goto(p, "idle")

\* The registry is changed before the transaction is checked.  Every record a
\* node makes has Participating set, so a participation changes nothing.
RegistryNone(t) ==
    /\ TxType[t] \notin {"register_validator", "delegate"}
    /\ UNCHANGED <<registryVars, credited>>

\* The record of a is written as a whole.
RegisterValidator(a, own, given) ==
    /\ validator' = [validator EXCEPT ![a] = TRUE]
    /\ stake' = [stake EXCEPT ![a] = own]
    /\ delegated' = [delegated EXCEPT ![a] = given]

RegistryRegister(t) ==
    LET a == TxFrom[t] IN
    /\ TxType[t] = "register_validator"
    /\ IF validator[a]
       THEN RegisterValidator(a, Add(stake[a], TxValue[t]), delegated[a])
       ELSE RegisterValidator(a, TxValue[t], 0)
    /\ credited' = credited + TxValue[t]

RegistryDelegate(t) ==
    LET a == TxTo[t] IN
    /\ TxType[t] = "delegate"
    /\ validator[a]
    /\ RegisterValidator(a, stake[a], Add(delegated[a], TxValue[t]))
    /\ credited' = credited + TxValue[t]

\* Delegating to an unregistered validator ends the block here.
RegistryStep(p) ==
    LET t == Head(todo[p]) IN
    /\ apc[p] = "registry"
    /\ \/ /\ RegistryNone(t) \/ RegistryRegister(t) \/ RegistryDelegate(t)
          /\ Goto(p, "check")
          /\ UNCHANGED todo
       \/ /\ TxType[t] = "delegate" /\ ~ validator[TxTo[t]]
          /\ Abort(p)
          /\ UNCHANGED <<registryVars, credited>>
    /\ UNCHANGED <<accountVars, copyBalance, copyNonce, minterVars, applied,
                   locked, spent, minted, nApply, nRegister>>

-----------------------------------------------------------------------------
(* ApplyTransaction *)

\* Mutant: the fee is not charged.
CostWithoutFee(t) == TxValue[t]

Cost(t) == Add(TxValue[t], TxFee[t])

\* Mutant: the account's current nonce is accepted too.
NonceAcceptedAgain(t) == TxNonce[t] \in {nonce[TxFrom[t]], Add(nonce[TxFrom[t]], 1)}

NonceAccepted(t) == Add(nonce[TxFrom[t]], 1) = TxNonce[t]

Accepted(t) ==
    /\ NonceAccepted(t)
    /\ Cost(t) <= balance[TxFrom[t]]
    /\ TxType[t] \in KnownTypes
    /\ TxType[t] \in {"register_validator", "delegate"} => TxValue[t] # 0

\* The sender's account is read, checked and changed in a local copy.
Check(p) ==
    LET t == Head(todo[p])
        a == TxFrom[t]
    IN
    /\ apc[p] = "check"
    /\ MayRead
    /\ \/ /\ ~ Accepted(t)
          /\ Abort(p)
          /\ UNCHANGED <<copyBalance, copyNonce>>
       \/ /\ Accepted(t)
          /\ copyBalance' = [copyBalance EXCEPT ![p] = Sub(balance[a], Cost(t))]
          /\ copyNonce' = [copyNonce EXCEPT ![p] = Add(nonce[a], 1)]
          /\ Goto(p, IF TxType[t] = "transfer" THEN "credit" ELSE "write")
          /\ UNCHANGED todo
    /\ UNCHANGED <<accountVars, registryVars, minterVars, ghostVars, nApply,
                   nRegister>>

Credit(p) ==
    LET t == Head(todo[p]) IN
    /\ apc[p] = "credit"
    /\ balance' = [balance EXCEPT ![TxTo[t]] = Add(@, TxValue[t])]
    /\ Goto(p, "write")
    /\ UNCHANGED <<nonce, registryVars, todo, copyBalance, copyNonce,
                   minterVars, ghostVars, nApply, nRegister>>

\* A transfer to oneself loses the value: the copy overwrites the credit.
Leaves(t) ==
    TxFee[t] + (IF TxType[t] = "transfer" /\ TxTo[t] # TxFrom[t]
                THEN 0 ELSE TxValue[t])

Write(p) ==
    LET t == Head(todo[p])
        a == TxFrom[t]
    IN
    /\ apc[p] = "write"
    /\ balance' = [balance EXCEPT ![a] = copyBalance[p]]
    /\ nonce' = [nonce EXCEPT ![a] = copyNonce[p]]
    /\ applied' = [applied EXCEPT ![t] = @ + 1]
    /\ spent' = spent + Leaves(t)
    /\ locked' = IF TxType[t] \in {"register_validator", "delegate"}
                 THEN locked + TxValue[t] ELSE locked
    /\ todo' = [todo EXCEPT ![p] = Tail(@)]
    /\ Goto(p, IF Len(todo[p]) = 1 THEN "idle" ELSE "registry")
    /\ copyBalance' = [copyBalance EXCEPT ![p] = 0]
    /\ copyNonce' = [copyNonce EXCEPT ![p] = 0]
    /\ UNCHANGED <<registryVars, minterVars, credited, minted, nApply,
                   nRegister>>

-----------------------------------------------------------------------------
(* Registrations and first balances *)

\* GetAccount and the test for a zero balance.
ReadForGrant(m, a) ==
    \/ /\ balance[a] # 0
       /\ UNCHANGED minterVars
    \/ /\ balance[a] = 0
       /\ mpc' = [mpc EXCEPT ![m] = "put"]
       /\ mwho' = [mwho EXCEPT ![m] = a]
       /\ mNonce' = [mNonce EXCEPT ![m] = nonce[a]]

\* The record is replaced by a fresh one, whatever was delegated to it.
HandleValidatorRegistration(m, a) ==
    /\ mpc[m] = "idle"
    /\ MayRead
    /\ nRegister < MaxRegister
    /\ nRegister' = nRegister + 1
    /\ RegisterValidator(a, InitStake, 0)
    /\ ReadForGrant(m, a)
    /\ UNCHANGED <<accountVars, applierVars, ghostVars, nApply>>

\* The goroutine started by Start does the same for every known validator.
InitializeAccount(m, a) ==
    /\ mpc[m] = "idle"
    /\ MayRead
    /\ validator[a]
    /\ ReadForGrant(m, a)
    /\ UNCHANGED <<accountVars, registryVars, applierVars, ghostVars, nApply,
                   nRegister>>

PutGrant(m) ==
    /\ mpc[m] = "put"
    /\ balance' = [balance EXCEPT ![mwho[m]] = Grant]
    /\ nonce' = [nonce EXCEPT ![mwho[m]] = mNonce[m]]
    /\ minted' = minted + Grant
    /\ mpc' = [mpc EXCEPT ![m] = "idle"]
    /\ UNCHANGED <<registryVars, applierVars, mwho, mNonce, applied, credited,
                   locked, spent, nApply, nRegister>>

-----------------------------------------------------------------------------
Next ==
    \/ \E p \in Applier :
          \/ \E block \in Blocks : Begin(p, block)
          \/ RegistryStep(p)
          \/ Check(p)
          \/ Credit(p)
          \/ Write(p)
    \/ \E m \in Minter :
          \/ \E a \in Addr : HandleValidatorRegistration(m, a)
          \/ \E a \in Addr : InitializeAccount(m, a)
          \/ PutGrant(m)

Spec == Init /\ [][Next]_vars

-----------------------------------------------------------------------------
(* Properties *)

TypeAccounts ==
    /\ balance \in [Addr -> 0..MaxU]
    /\ nonce \in [Addr -> 0..MaxU]

TypeRegistry ==
    /\ validator \in [Addr -> BOOLEAN]
    /\ stake \in [Addr -> 0..MaxU]
    /\ delegated \in [Addr -> 0..MaxU]

TypeAppliers ==
    /\ todo \in [Applier -> Seq(Tx)]
    /\ apc \in [Applier -> {"idle", "registry", "check", "credit", "write"}]
    /\ \A p \in Applier : apc[p] # "idle" => todo[p] # <<>>
    /\ copyBalance \in [Applier -> 0..MaxU]
    /\ copyNonce \in [Applier -> 0..MaxU]

TypeMinters ==
    /\ mpc \in [Minter -> {"idle", "put"}]
    /\ mwho \in [Minter -> Addr]
    /\ mNonce \in [Minter -> 0..MaxU]

TypeCounters ==
    /\ nApply \in 0..MaxApply
    /\ nRegister \in 0..MaxRegister
    /\ applied \in [Tx -> Nat]

\* The type invariant of accounts, registry records and goroutine locals.
TypeOK ==
    /\ TypeAccounts
    /\ TypeRegistry
    /\ TypeAppliers
    /\ TypeMinters
    /\ TypeCounters

\* docs/TECHNICAL_SPEC.md: "Double Spending: Prevented by nonce validation and
\* state consistency".  ApplyTransaction spends a sender's nonce at most once,
\* whichever transactions carry it and however often their blocks are applied.
NonceSpentOnce ==
    \A t, u \in Tx :
        TxFrom[t] = TxFrom[u] /\ TxNonce[t] = TxNonce[u] =>
            IF t = u THEN applied[t] <= 1 ELSE applied[t] = 0 \/ applied[u] = 0

\* Between transactions, the balances are exactly what was granted less the
\* fees and the values that transactions took out of circulation: no step of
\* ApplyTransaction creates or loses anything else, half-applied blocks and
\* repeated blocks included.
SupplyConserved == Quiet => Total(balance, Addr) + spent = minted

(* What documents and comments say and the code does not have: TLC refutes *)
(* these (README.md, section 6).                                           *)

\* state.go: "Validator registration - stake is locked from sender's balance",
\* "Delegation - stake is transferred from delegator to validator".  The
\* registry never holds more stake than the transactions took.
StakeBacked ==
    (\A p \in Applier : apc[p] \in {"idle", "registry"}) => credited <= locked

DelegatedTo(a) ==
    Total([t \in Tx |-> applied[t] * TxValue[t]],
          {t \in Tx : TxType[t] = "delegate" /\ TxTo[t] = a})

\* validator_registration_test.go: "Verify validator has received all delegated
\* stake".  What applied delegations gave to a validator stays in its record.
DelegationKept == \A a \in Addr : delegated[a] >= DelegatedTo(a)

(* What has to hold besides for NonceSpentOnce to be inductive. *)

\* With Sequential, at most one goroutine is in the middle.
Serial ==
    /\ \A p, q \in OpenApplier : p = q
    /\ \A m, k \in OpenMinter : m = k
    /\ OpenApplier = {} \/ OpenMinter = {}

\* A spent nonce is behind the account.
SpentBehind == \A t \in Tx : applied[t] > 0 => TxNonce[t] <= nonce[TxFrom[t]]

\* An applier in the middle holds the nonce of its transaction, which is the
\* account's next one.
HoldsNext ==
    \A p \in OpenApplier :
        LET t == Head(todo[p]) IN
        /\ copyNonce[p] = TxNonce[t]
        /\ TxNonce[t] = nonce[TxFrom[t]] + 1

\* A minter in the middle holds the account's nonce.
HoldsSame == \A m \in OpenMinter : mNonce[m] = nonce[mwho[m]]

NonceInv ==
    /\ TypeOK
    /\ Serial
    /\ SpentBehind
    /\ HoldsNext
    /\ HoldsSame
    /\ NonceSpentOnce

(* What has to hold besides for SupplyConserved to be inductive. *)

\* No transaction's value and fee exceed the width together: otherwise their
\* sum wraps to a small cost.
CostsFit == \A t \in Tx : TxValue[t] + TxFee[t] <= MaxU

\* The accounts once p has written its copy back.
WrittenBack(p) == [balance EXCEPT ![TxFrom[Head(todo[p])]] = copyBalance[p]]

\* The books are balanced but for the transaction about to be written.
Balanced ==
    (\A p \in Applier : apc[p] # "write") => Total(balance, Addr) + spent = minted

\* An applier in the middle holds what the write needs for the books to be
\* balanced again.
HoldsRest ==
    \A p \in Applier :
        LET t == Head(todo[p]) IN
        /\ apc[p] = "credit" =>
              /\ TxType[t] = "transfer"
              /\ copyBalance[p] + Cost(t) = balance[TxFrom[t]]
        /\ apc[p] = "write" =>
              Total(WrittenBack(p), Addr) + spent + Leaves(t) = minted

\* A minter in the middle fills an account that is still empty.
FillsEmpty == \A m \in OpenMinter : balance[mwho[m]] = 0

SupplyInv ==
    /\ NonceInv
    /\ spent \in Nat /\ minted \in Nat
    /\ FillsEmpty
    /\ minted <= MaxU => Balanced /\ HoldsRest

=============================================================================
