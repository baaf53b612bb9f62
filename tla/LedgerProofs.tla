---------------------------- MODULE LedgerProofs ----------------------------
(* Machine-checked proofs about Ledger. *)
EXTENDS Ledger, SequenceTheorems, FiniteSetTheorems, TLAPS

(* Unsigned addition and subtraction stay in range. *)
LEMMA ArithType ==
    ASSUME NEW x \in 0..MaxU, NEW y \in 0..MaxU
    PROVE  Add(x, y) \in 0..MaxU /\ Sub(x, y) \in 0..MaxU
<1>1. MaxU \in Nat
  BY LedgerAssumption
<1>2. \A z \in Int, n \in Nat : n > 0 => z % n \in 0..(n - 1)
  OBVIOUS
<1>3. x + y \in Int /\ x - y \in Int /\ MaxU + 1 \in Nat /\ MaxU + 1 > 0
  BY <1>1
<1>4. /\ (x + y) % (MaxU + 1) \in 0..((MaxU + 1) - 1)
      /\ (x - y) % (MaxU + 1) \in 0..((MaxU + 1) - 1)
  BY <1>2, <1>3
<1> QED
  BY <1>1, <1>4 DEF Add, Sub

(* The nonce check accepts exactly the successor: at the top of the range the  *)
(* sum wraps to 0, which is no transaction's nonce.                            *)
LEMMA NonceSuccessor ==
    ASSUME NEW x \in 0..MaxU, NEW n \in 1..MaxU, Add(x, 1) = n
    PROVE  n = x + 1
<1>1. MaxU \in Nat
  BY LedgerAssumption
<1>2. CASE x = MaxU
  <2>1. (MaxU + 1) % (MaxU + 1) = 0
    BY <1>1
  <2> QED
    BY <1>2, <2>1 DEF Add
<1>3. CASE x < MaxU
  <2>1. \A z \in Nat, k \in Nat : z < k => z % k = z
    OBVIOUS
  <2>2. (x + 1) % (MaxU + 1) = x + 1
    BY <1>1, <1>3, <2>1
  <2> QED
    BY <2>2 DEF Add
<1> QED
  BY <1>1, <1>2, <1>3

-----------------------------------------------------------------------------
(* Type correctness *)

(* A working applier has a transaction at hand. *)
LEMMA HeadType ==
    ASSUME TypeAppliers, NEW p \in Applier, apc[p] # "idle"
    PROVE  /\ Head(todo[p]) \in Tx
           /\ Tail(todo[p]) \in Seq(Tx)
           /\ Len(todo[p]) # 1 => Tail(todo[p]) # <<>>
<1>1. todo[p] \in Seq(Tx) /\ todo[p] # <<>>
  BY DEF TypeAppliers
<1> DEFINE s == todo[p]
<1>2. s \in Seq(Tx) /\ s # <<>>
  BY <1>1
<1> HIDE DEF s
<1>3. /\ Head(s) \in Tx
      /\ Tail(s) \in Seq(Tx)
      /\ Len(Tail(s)) = Len(s) - 1
  BY <1>2, HeadTailProperties
<1>4. Len(s) \in Nat /\ (Tail(s) = <<>> => Len(Tail(s)) = 0)
  BY <1>2, <1>3, EmptySeq, LenProperties
<1> QED
  BY <1>3, <1>4 DEF s

(* A block handed over or given up leaves the appliers well typed. *)
LEMMA MoveType ==
    ASSUME TypeAppliers, NEW p \in Applier, NEW s \in Seq(Tx),
           NEW pc \in {"idle", "registry", "check", "credit", "write"},
           pc # "idle" => s # <<>>,
           todo' = [todo EXCEPT ![p] = s], apc' = [apc EXCEPT ![p] = pc],
           UNCHANGED <<copyBalance, copyNonce>>
    PROVE  TypeAppliers'
<1>1. \A q \in Applier : apc'[q] # "idle" => todo'[q] # <<>>
  BY DEF TypeAppliers
<1> QED
  BY <1>1 DEF TypeAppliers

\* A node starts with accounts, records and goroutines of their types.
LEMMA TypeInit == Init => TypeOK
<1> SUFFICES ASSUME Init PROVE TypeOK
  OBVIOUS
<1> USE LedgerAssumption
<1>1. <<>> \in Seq(Tx)
  BY EmptySeq
<1>2. 0 \in 0..MaxU /\ 0 \in 0..MaxApply /\ 0 \in 0..MaxRegister
  OBVIOUS
<1>3. TypeAccounts /\ TypeRegistry /\ TypeCounters
  BY <1>2 DEF Init, TypeAccounts, TypeRegistry, TypeCounters
<1>4. TypeAppliers
  BY <1>1, <1>2 DEF Init, TypeAppliers
<1>5. (CHOOSE a \in Addr : TRUE) \in Addr
  OBVIOUS
<1>6. TypeMinters
  BY <1>2, <1>5 DEF Init, TypeMinters
<1> QED
  BY <1>3, <1>4, <1>6 DEF TypeOK

\* A record written with amounts of the code's width keeps the registry's type.
LEMMA RecordType ==
    ASSUME TypeOK, NEW a \in Addr, NEW own \in 0..MaxU, NEW given \in 0..MaxU,
           RegisterValidator(a, own, given)
    PROVE  TypeRegistry'
BY DEF RegisterValidator, TypeOK, TypeRegistry

\* The registry's update keeps its records in their types.
LEMMA RegistryType ==
    ASSUME TypeOK, NEW t \in Tx, RegistryRegister(t) \/ RegistryDelegate(t)
    PROVE  TypeRegistry'
<1>1. TxFrom[t] \in Addr /\ TxTo[t] \in Addr /\ TxValue[t] \in 0..MaxU
  BY LedgerAssumption
<1>2. 0 \in 0..MaxU
  BY LedgerAssumption
<1>3. ASSUME NEW a \in Addr
      PROVE  /\ stake[a] \in 0..MaxU /\ delegated[a] \in 0..MaxU
             /\ Add(stake[a], TxValue[t]) \in 0..MaxU
             /\ Add(delegated[a], TxValue[t]) \in 0..MaxU
  <2>1. stake[a] \in 0..MaxU /\ delegated[a] \in 0..MaxU
    BY DEF TypeOK, TypeRegistry
  <2> QED BY <1>1, <2>1, ArithType
<1>4. CASE RegistryRegister(t)
  BY <1>1, <1>2, <1>3, <1>4, RecordType DEF RegistryRegister
<1>5. CASE RegistryDelegate(t)
  BY <1>1, <1>3, <1>5, RecordType DEF RegistryDelegate
<1> QED BY <1>4, <1>5

(* A minter's read leaves the minters well typed. *)
LEMMA MinterType ==
    ASSUME TypeOK, NEW m \in Minter, NEW a \in Addr, ReadForGrant(m, a)
    PROVE  TypeMinters'
<1>1. CASE UNCHANGED minterVars
  BY <1>1 DEF minterVars, TypeOK, TypeMinters
<1>2. CASE /\ mpc' = [mpc EXCEPT ![m] = "put"]
           /\ mwho' = [mwho EXCEPT ![m] = a]
           /\ mNonce' = [mNonce EXCEPT ![m] = nonce[a]]
  <2>1. nonce[a] \in 0..MaxU
    BY DEF TypeOK, TypeAccounts
  <2> QED
    BY <1>2, <2>1 DEF TypeOK, TypeMinters
<1> QED
  BY <1>1, <1>2 DEF ReadForGrant

(* Every step keeps accounts, records and locals in their types. *)
LEMMA TypeStep == TypeOK /\ [Next]_vars => TypeOK'
<1> SUFFICES ASSUME TypeOK, [Next]_vars PROVE TypeOK'
  OBVIOUS
<1> USE DEF accountVars, registryVars, applierVars, minterVars, ghostVars
<1>1. CASE UNCHANGED vars
  BY <1>1 DEF vars, TypeOK, TypeAccounts, TypeRegistry, TypeAppliers,
              TypeMinters, TypeCounters
<1>2. ASSUME NEW p \in Applier, NEW block \in Blocks, Begin(p, block)
      PROVE  TypeOK'
  <2>1. TypeAppliers'
    <3>1. block \in Seq(Tx) /\ block # <<>>
      BY <1>2, LedgerAssumption DEF Begin
    <3> QED
      BY <1>2, <3>1, MoveType DEF Begin, Goto, TypeOK
  <2>2. TypeCounters'
    BY <1>2, LedgerAssumption DEF Begin, TypeOK, TypeCounters
  <2> QED
    BY <1>2, <2>1, <2>2
    DEF Begin, TypeOK, TypeAccounts, TypeRegistry, TypeMinters
<1>3. ASSUME NEW p \in Applier, RegistryStep(p) PROVE TypeOK'
  <2> DEFINE t == Head(todo[p])
  <2>1. t \in Tx
    BY <1>3, HeadType DEF RegistryStep, TypeOK
  <2> HIDE DEF t
  <2>2. \/ UNCHANGED registryVars
        \/ RegistryRegister(t) \/ RegistryDelegate(t)
    BY <1>3 DEF RegistryStep, RegistryNone, t
  <2>3. TypeRegistry'
    <3>1. CASE UNCHANGED registryVars
      BY <3>1 DEF TypeOK, TypeRegistry
    <3> QED
      BY <2>1, <2>2, <3>1, RegistryType
  <2>4. TypeAppliers'
    <3>1. CASE Goto(p, "check") /\ UNCHANGED todo
      BY <1>3, <3>1 DEF RegistryStep, Goto, TypeOK, TypeAppliers
    <3>2. CASE Abort(p)
      BY <1>3, <3>2, MoveType, EmptySeq DEF RegistryStep, Abort, Goto, TypeOK
    <3> QED
      BY <1>3, <3>1, <3>2 DEF RegistryStep
  <2> QED
    BY <1>3, <2>3, <2>4
    DEF RegistryStep, TypeOK, TypeAccounts, TypeMinters, TypeCounters
<1>4. ASSUME NEW p \in Applier, Check(p) PROVE TypeOK'
  <2> DEFINE t == Head(todo[p])
             a == TxFrom[t]
  <2>1. t \in Tx /\ a \in Addr /\ TxValue[t] \in 0..MaxU /\ TxFee[t] \in 0..MaxU
    BY <1>4, HeadType, LedgerAssumption DEF Check, TypeOK
  <2> HIDE DEF t, a
  <2>2. balance[a] \in 0..MaxU /\ nonce[a] \in 0..MaxU /\ 1 \in 0..MaxU
    BY <2>1, LedgerAssumption DEF TypeOK, TypeAccounts
  <2>3. Sub(balance[a], Cost(t)) \in 0..MaxU /\ Add(nonce[a], 1) \in 0..MaxU
    BY <2>1, <2>2, ArithType DEF Cost
  <2>4. TypeAppliers'
    <3>1. CASE Abort(p) /\ UNCHANGED <<copyBalance, copyNonce>>
      BY <3>1, MoveType, EmptySeq DEF Abort, Goto, TypeOK
    <3>2. CASE /\ copyBalance' = [copyBalance EXCEPT ![p] = Sub(balance[a], Cost(t))]
               /\ copyNonce' = [copyNonce EXCEPT ![p] = Add(nonce[a], 1)]
               /\ Goto(p, IF TxType[t] = "transfer" THEN "credit" ELSE "write")
               /\ UNCHANGED todo
      BY <1>4, <2>3, <3>2 DEF Check, Goto, TypeOK, TypeAppliers
    <3> QED
      BY <1>4, <3>1, <3>2 DEF Check, t, a
  <2> QED
    BY <1>4, <2>4
    DEF Check, TypeOK, TypeAccounts, TypeRegistry, TypeMinters, TypeCounters
<1>5. ASSUME NEW p \in Applier, Credit(p) PROVE TypeOK'
  <2> DEFINE t == Head(todo[p])
  <2>1. t \in Tx /\ TxTo[t] \in Addr /\ TxValue[t] \in 0..MaxU
    BY <1>5, HeadType, LedgerAssumption DEF Credit, TypeOK
  <2> HIDE DEF t
  <2>2. Add(balance[TxTo[t]], TxValue[t]) \in 0..MaxU
    BY <2>1, ArithType DEF TypeOK, TypeAccounts
  <2>3. TypeAccounts'
    BY <1>5, <2>1, <2>2 DEF Credit, TypeOK, TypeAccounts, t
  <2>4. TypeAppliers'
    BY <1>5 DEF Credit, Goto, TypeOK, TypeAppliers
  <2> QED
    BY <1>5, <2>3, <2>4
    DEF Credit, TypeOK, TypeRegistry, TypeMinters, TypeCounters
<1>6. ASSUME NEW p \in Applier, Write(p) PROVE TypeOK'
  <2> DEFINE t == Head(todo[p])
  <2>1. /\ t \in Tx /\ Tail(todo[p]) \in Seq(Tx)
        /\ Len(todo[p]) # 1 => Tail(todo[p]) # <<>>
        /\ TxFrom[t] \in Addr
    BY <1>6, HeadType, LedgerAssumption DEF Write, TypeOK
  <2> HIDE DEF t
  <2>2. TypeAccounts'
    BY <1>6, <2>1 DEF Write, TypeOK, TypeAccounts, TypeAppliers, t
  <2>3. TypeAppliers'
    <3>1. 0 \in 0..MaxU
      BY LedgerAssumption
    <3>2. \A q \in Applier : apc'[q] # "idle" => todo'[q] # <<>>
      BY <1>6, <2>1 DEF Write, Goto, TypeOK, TypeAppliers
    <3> QED
      BY <1>6, <2>1, <3>1, <3>2 DEF Write, Goto, TypeOK, TypeAppliers
  <2>4. TypeCounters'
    BY <1>6, <2>1 DEF Write, TypeOK, TypeCounters, t
  <2> QED
    BY <1>6, <2>2, <2>3, <2>4 DEF Write, TypeOK, TypeRegistry, TypeMinters
<1>7. ASSUME NEW m \in Minter, NEW a \in Addr, HandleValidatorRegistration(m, a)
      PROVE  TypeOK'
  <2>1. TypeMinters'
    BY <1>7, MinterType DEF HandleValidatorRegistration
  <2>2. TypeRegistry'
    BY <1>7, RecordType, LedgerAssumption DEF HandleValidatorRegistration
  <2>3. TypeCounters'
    BY <1>7, LedgerAssumption
    DEF HandleValidatorRegistration, TypeOK, TypeCounters
  <2> QED
    BY <1>7, <2>1, <2>2, <2>3
    DEF HandleValidatorRegistration, TypeOK, TypeAccounts, TypeAppliers
<1>8. ASSUME NEW m \in Minter, NEW a \in Addr, InitializeAccount(m, a)
      PROVE  TypeOK'
  <2>1. TypeMinters'
    BY <1>8, MinterType DEF InitializeAccount
  <2> QED
    BY <1>8, <2>1
    DEF InitializeAccount, TypeOK, TypeAccounts, TypeRegistry, TypeAppliers,
        TypeCounters
<1>9. ASSUME NEW m \in Minter, PutGrant(m) PROVE TypeOK'
  <2>1. TypeAccounts'
    BY <1>9, LedgerAssumption DEF PutGrant, TypeOK, TypeAccounts, TypeMinters
  <2>2. TypeMinters'
    BY <1>9 DEF PutGrant, TypeOK, TypeMinters
  <2> QED
    BY <1>9, <2>1, <2>2
    DEF PutGrant, TypeOK, TypeRegistry, TypeAppliers, TypeCounters
<1> QED
  BY <1>1, <1>2, <1>3, <1>4, <1>5, <1>6, <1>7, <1>8, <1>9 DEF Next

(* Accounts, registry records and the goroutines' locals keep their types,    *)
(* for all blocks, any number of appliers and minters, raced or not.          *)
THEOREM TypeCorrect == Spec => []TypeOK
<1>1. Init => TypeOK
  BY TypeInit
<1>2. TypeOK /\ [Next]_vars => TypeOK'
  BY TypeStep
<1> QED
  BY <1>1, <1>2, PTL DEF Spec

-----------------------------------------------------------------------------
(* No nonce is spent twice *)

(* A step that opens or closes no read-modify-write and changes no nonce       *)
(* keeps the invariant.                                                        *)
LEMMA Undisturbed ==
    ASSUME NonceInv,
           OpenApplier' = OpenApplier, OpenMinter' = OpenMinter,
           \A p \in OpenApplier : todo'[p] = todo[p],
           UNCHANGED <<nonce, applied, copyNonce, mwho, mNonce>>
    PROVE  /\ Serial' /\ SpentBehind' /\ HoldsNext' /\ HoldsSame'
           /\ NonceSpentOnce'
<1>1. Serial'
  BY DEF NonceInv, Serial
<1>2. SpentBehind'
  BY DEF NonceInv, SpentBehind
<1>3. HoldsNext'
  BY DEF NonceInv, HoldsNext
<1>4. HoldsSame'
  BY DEF NonceInv, HoldsSame
<1>5. NonceSpentOnce'
  BY DEF NonceInv, NonceSpentOnce
<1> QED
  BY <1>1, <1>2, <1>3, <1>4, <1>5

(* With one goroutine at a time in the middle of a read-modify-write, every    *)
(* step keeps the nonces of spent transactions behind their account.           *)
LEMMA NonceStep ==
    ASSUME Sequential, NonceInv, [Next]_vars
    PROVE  NonceInv'
<1> USE DEF accountVars, registryVars, applierVars, minterVars, ghostVars
<1>0. TypeOK'
  BY TypeStep DEF NonceInv
<1>t. TypeOK /\ TypeAppliers /\ TypeMinters /\ TypeAccounts /\ TypeCounters
  BY DEF NonceInv, TypeOK
<1> DEFINE Kept == /\ Serial' /\ SpentBehind' /\ HoldsNext' /\ HoldsSame'
                   /\ NonceSpentOnce'
<1> SUFFICES Kept
  BY <1>0 DEF NonceInv
<1>1. CASE UNCHANGED vars
  <2>1. OpenApplier' = OpenApplier /\ OpenMinter' = OpenMinter
    BY <1>1 DEF vars, OpenApplier, OpenMinter
  <2> QED
    BY <1>1, <2>1, Undisturbed DEF vars
<1>2. ASSUME NEW p \in Applier, NEW block \in Blocks, Begin(p, block)
      PROVE  Kept
  <2>1. OpenApplier' = OpenApplier /\ OpenMinter' = OpenMinter
    BY <1>2, <1>t DEF Begin, Goto, OpenApplier, OpenMinter, TypeAppliers
  <2>2. \A q \in OpenApplier : todo'[q] = todo[q]
    BY <1>2, <1>t DEF Begin, OpenApplier, TypeAppliers
  <2> QED
    BY <1>2, <2>1, <2>2, Undisturbed DEF Begin
<1>3. ASSUME NEW p \in Applier, RegistryStep(p) PROVE Kept
  <2>1. /\ apc[p] = "registry" /\ mpc' = mpc
        /\ \/ apc' = [apc EXCEPT ![p] = "check"] /\ todo' = todo
           \/ apc' = [apc EXCEPT ![p] = "idle"] /\ todo' = [todo EXCEPT ![p] = <<>>]
    BY <1>3 DEF RegistryStep, Goto, Abort
  <2>2. OpenApplier' = OpenApplier /\ OpenMinter' = OpenMinter
    BY <2>1, <1>t DEF OpenApplier, OpenMinter, TypeAppliers
  <2>3. \A q \in OpenApplier : todo'[q] = todo[q]
    BY <2>1, <1>t DEF OpenApplier, TypeAppliers
  <2> QED
    BY <1>3, <2>2, <2>3, Undisturbed DEF RegistryStep
<1>4. ASSUME NEW p \in Applier, Check(p) PROVE Kept
  <2> DEFINE t == Head(todo[p])
  <2>1. OpenApplier = {} /\ OpenMinter = {}
    BY <1>4 DEF Check, MayRead, Quiet
  <2>2. OpenMinter' = {}
    BY <1>4, <2>1 DEF Check, OpenMinter
  <2>3. t \in Tx /\ TxFrom[t] \in Addr /\ TxNonce[t] \in 1..MaxU
    BY <1>4, <1>t, HeadType, LedgerAssumption DEF Check
  <2>4. SpentBehind' /\ NonceSpentOnce'
    BY <1>4 DEF Check, NonceInv, SpentBehind, NonceSpentOnce
  <2>5. OpenApplier' \subseteq {p}
    BY <1>4, <2>1, <1>t DEF Check, Abort, Goto, OpenApplier, TypeAppliers
  <2>6. HoldsNext'
    <3>1. CASE ~ Accepted(t)
      <4>1. OpenApplier' = {}
        BY <1>4, <3>1, <2>1, <1>t DEF Check, Abort, Goto, OpenApplier, TypeAppliers
      <4> QED
        BY <4>1 DEF HoldsNext
    <3>2. CASE Accepted(t)
      <4>1. /\ copyNonce' = [copyNonce EXCEPT ![p] = Add(nonce[TxFrom[t]], 1)]
            /\ todo' = todo /\ nonce' = nonce
        BY <1>4, <3>2 DEF Check
      <4>2. Add(nonce[TxFrom[t]], 1) = TxNonce[t]
        BY <3>2 DEF Accepted, NonceAccepted
      <4>3. nonce[TxFrom[t]] \in 0..MaxU
        BY <2>3, <1>t DEF TypeAccounts
      <4>4. TxNonce[t] = nonce[TxFrom[t]] + 1
        BY <2>3, <4>2, <4>3, NonceSuccessor
      <4>5. copyNonce'[p] = TxNonce[t]
        BY <4>1, <4>2, <1>t DEF TypeAppliers
      <4> QED
        BY <4>1, <4>4, <4>5, <2>5 DEF HoldsNext
    <3> QED
      BY <3>1, <3>2
  <2>7. Serial' /\ HoldsSame'
    BY <2>2, <2>5 DEF Serial, HoldsSame
  <2> QED
    BY <2>4, <2>6, <2>7
<1>5. ASSUME NEW p \in Applier, Credit(p) PROVE Kept
  <2>1. OpenApplier' = OpenApplier /\ OpenMinter' = OpenMinter
    BY <1>5, <1>t DEF Credit, Goto, OpenApplier, OpenMinter, TypeAppliers
  <2> QED
    BY <1>5, <2>1, Undisturbed DEF Credit
<1>6. ASSUME NEW p \in Applier, Write(p) PROVE Kept
  <2> DEFINE t == Head(todo[p])
             a == TxFrom[t]
  <2>1. t \in Tx /\ a \in Addr
    BY <1>6, <1>t, HeadType, LedgerAssumption DEF Write
  <2>2. p \in OpenApplier
    BY <1>6 DEF Write, OpenApplier
  <2>3. OpenApplier = {p} /\ OpenMinter = {}
    BY <2>2 DEF NonceInv, Serial
  <2>4. OpenApplier' = {} /\ OpenMinter' = {}
    BY <1>6, <2>3, <1>t DEF Write, Goto, OpenApplier, OpenMinter, TypeAppliers
  <2>5. Serial' /\ HoldsNext' /\ HoldsSame'
    BY <2>4 DEF Serial, HoldsNext, HoldsSame
  <2>6. copyNonce[p] = TxNonce[t] /\ TxNonce[t] = nonce[a] + 1
    BY <2>2 DEF NonceInv, HoldsNext
  <2>7. /\ nonce' = [nonce EXCEPT ![a] = TxNonce[t]]
        /\ applied' = [applied EXCEPT ![t] = @ + 1]
    BY <1>6, <2>6 DEF Write
  <2> HIDE DEF t, a
  <2>8. \A u \in Tx : applied[u] \in Nat /\ TxNonce[u] \in Int
    BY <1>t, LedgerAssumption DEF TypeCounters
  <2>9. \A c \in Addr : nonce[c] \in Int
    BY <1>t, LedgerAssumption DEF TypeAccounts
  <2>10. \A u \in Tx : TxFrom[u] = a /\ TxNonce[u] = TxNonce[t] => applied[u] = 0
    BY <2>1, <2>6, <2>8, <2>9 DEF NonceInv, SpentBehind
  <2>11. applied \in [Tx -> Nat] /\ nonce \in [Addr -> 0..MaxU]
    BY <1>t DEF TypeCounters, TypeAccounts
  <2>12. a = TxFrom[t]
    BY DEF a
  <2>13. SpentBehind'
    <3> SUFFICES ASSUME NEW u \in Tx, applied'[u] > 0
                 PROVE  TxNonce[u] <= nonce'[TxFrom[u]]
      BY DEF SpentBehind
    <3>1. TxFrom[u] \in Addr
      BY LedgerAssumption
    <3>2. CASE u = t
      BY <3>2, <2>1, <2>7, <2>8, <2>11, <2>12
    <3>3. CASE u # t
      <4>1. TxNonce[u] <= nonce[TxFrom[u]]
        BY <3>3, <2>7, <2>11 DEF NonceInv, SpentBehind
      <4>2. nonce[TxFrom[u]] <= nonce'[TxFrom[u]]
        BY <3>1, <2>1, <2>6, <2>7, <2>9, <2>11
      <4>3. nonce'[TxFrom[u]] \in Int
        BY <3>1, <2>1, <2>7, <2>8, <2>9, <2>11
      <4> QED
        BY <4>1, <4>2, <4>3, <3>1, <2>8, <2>9
    <3> QED
      BY <3>2, <3>3
  <2>14. NonceSpentOnce'
    <3> SUFFICES ASSUME NEW u \in Tx, NEW w \in Tx, TxFrom[u] = TxFrom[w],
                        TxNonce[u] = TxNonce[w]
                 PROVE  IF u = w THEN applied'[u] <= 1
                                 ELSE applied'[u] = 0 \/ applied'[w] = 0
      BY DEF NonceSpentOnce
    <3>1. IF u = w THEN applied[u] <= 1 ELSE applied[u] = 0 \/ applied[w] = 0
      BY DEF NonceInv, NonceSpentOnce
    <3>2. CASE u = t \/ w = t
      <4>1. applied[u] = 0 /\ applied[w] = 0
        BY <3>2, <2>10, <2>12
      <4> QED
        BY <4>1, <2>7, <2>11
    <3>3. CASE u # t /\ w # t
      BY <3>1, <3>3, <2>7, <2>11
    <3> QED
      BY <3>2, <3>3
  <2> QED
    BY <2>5, <2>13, <2>14
<1>7. ASSUME NEW m \in Minter, NEW a \in Addr,
             MayRead, mpc[m] = "idle", ReadForGrant(m, a),
             UNCHANGED <<accountVars, applierVars, ghostVars>>
      PROVE  Kept
  <2>1. OpenApplier = {} /\ OpenMinter = {}
    BY <1>7 DEF MayRead, Quiet
  <2>2. OpenApplier' = {}
    BY <1>7, <2>1 DEF OpenApplier
  <2>3. CASE UNCHANGED minterVars
    <3>1. OpenMinter' = {}
      BY <2>1, <2>3 DEF OpenMinter
    <3> QED
      BY <1>7, <2>1, <2>2, <2>3, <3>1, Undisturbed
  <2>4. CASE /\ mpc' = [mpc EXCEPT ![m] = "put"]
             /\ mwho' = [mwho EXCEPT ![m] = a]
             /\ mNonce' = [mNonce EXCEPT ![m] = nonce[a]]
    <3>1. OpenMinter' \subseteq {m}
      BY <2>1, <2>4, <1>t DEF OpenMinter, TypeMinters
    <3>2. mNonce'[m] = nonce[a] /\ mwho'[m] = a
      BY <2>4, <1>t DEF TypeMinters
    <3>3. HoldsSame'
      BY <1>7, <3>1, <3>2 DEF HoldsSame
    <3>4. Serial' /\ HoldsNext'
      BY <2>2, <3>1 DEF Serial, HoldsNext
    <3>5. SpentBehind' /\ NonceSpentOnce'
      BY <1>7 DEF NonceInv, SpentBehind, NonceSpentOnce
    <3> QED
      BY <3>3, <3>4, <3>5
  <2> QED
    BY <1>7, <2>3, <2>4 DEF ReadForGrant
<1>8. ASSUME NEW m \in Minter, PutGrant(m) PROVE Kept
  <2>1. m \in OpenMinter
    BY <1>8 DEF PutGrant, OpenMinter
  <2>2. OpenMinter = {m} /\ OpenApplier = {}
    BY <2>1 DEF NonceInv, Serial
  <2>3. OpenMinter' = {} /\ OpenApplier' = {}
    BY <1>8, <2>2, <1>t DEF PutGrant, OpenMinter, OpenApplier, TypeMinters
  <2>4. nonce' = nonce
    BY <1>8, <2>1, <1>t DEF PutGrant, NonceInv, HoldsSame, TypeAccounts
  <2>5. Serial' /\ HoldsNext' /\ HoldsSame'
    BY <2>3 DEF Serial, HoldsNext, HoldsSame
  <2>6. SpentBehind' /\ NonceSpentOnce'
    BY <1>8, <2>4 DEF PutGrant, NonceInv, SpentBehind, NonceSpentOnce
  <2> QED
    BY <2>5, <2>6
<1>9. ASSUME NEW m \in Minter, NEW a \in Addr, HandleValidatorRegistration(m, a)
      PROVE  Kept
  BY <1>9, <1>7 DEF HandleValidatorRegistration
<1>10. ASSUME NEW m \in Minter, NEW a \in Addr, InitializeAccount(m, a)
       PROVE  Kept
  BY <1>10, <1>7 DEF InitializeAccount
<1> QED
  BY <1>1, <1>2, <1>3, <1>4, <1>5, <1>6, <1>8, <1>9, <1>10 DEF Next

(* No nonce is spent, and nobody in the middle, at the start. *)
LEMMA NonceInit == Init => NonceInv
<1> SUFFICES ASSUME Init PROVE NonceInv
  OBVIOUS
<1>1. TypeOK
  BY TypeInit
<1>2. OpenApplier = {} /\ OpenMinter = {}
  BY DEF Init, OpenApplier, OpenMinter
<1>3. Serial /\ HoldsNext /\ HoldsSame
  BY <1>2 DEF Serial, HoldsNext, HoldsSame
<1>4. SpentBehind /\ NonceSpentOnce
  BY DEF Init, SpentBehind, NonceSpentOnce
<1> QED
  BY <1>1, <1>3, <1>4 DEF NonceInv

(* When the node's goroutines change accounts one at a time, ApplyTransaction  *)
(* spends every nonce of a sender at most once, for all blocks, repeated and   *)
(* conflicting ones included, and all registrations and grants.  (Without that *)
(* hypothesis it is false: the run ledger_race.)                               *)
THEOREM NonceCorrect ==
    ASSUME Sequential
    PROVE  Spec => []NonceSpentOnce
<1>1. NonceInv /\ [Next]_vars => NonceInv'
  BY NonceStep
<1>2. NonceInv => NonceSpentOnce
  BY DEF NonceInv
<1> QED
  BY <1>1, <1>2, NonceInit, PTL DEF Spec

-----------------------------------------------------------------------------
(* Nothing is created or lost *)

(* A pile of k units has k units. *)
LEMMA PileSize ==
    ASSUME NEW x, NEW k \in Nat
    PROVE  IsFiniteSet({x} \X (1..k)) /\ Cardinality({x} \X (1..k)) = k
<1>1. IsFiniteSet(1..k) /\ Cardinality(1..k) = k
  BY FS_Interval
<1>2. IsFiniteSet({x}) /\ Cardinality({x}) = 1
  BY FS_Singleton
<1> QED
  BY <1>1, <1>2, FS_Product

(* A change of one account changes the total by the difference. *)
LEMMA TotalUpdate ==
    ASSUME NEW f \in [Addr -> 0..MaxU], NEW a \in Addr, NEW v \in 0..MaxU
    PROVE  /\ Total(f, Addr) \in Nat
           /\ Total([f EXCEPT ![a] = v], Addr) \in Nat
           /\ Total([f EXCEPT ![a] = v], Addr) + f[a] = Total(f, Addr) + v
<1> DEFINE rest == Units(f, Addr \ {a})
           g == [f EXCEPT ![a] = v]
<1>0. MaxU \in Nat /\ IsFiniteSet(Addr)
  BY LedgerAssumption
<1>1. f[a] \in Nat /\ v \in Nat
  BY <1>0
<1>2. Units(f, Addr) = rest \cup ({a} \X (1..f[a]))
  BY DEF Units
<1>3. Units(g, Addr) = rest \cup ({a} \X (1..v))
  BY DEF Units
<1>4. \A k \in Nat : rest \cap ({a} \X (1..k)) = {}
  BY DEF Units
<1>5. IsFiniteSet(rest)
  <2>1. IsFiniteSet(1..MaxU)
    BY <1>0, FS_Interval
  <2>2. IsFiniteSet(Addr \X (1..MaxU))
    BY <1>0, <2>1, FS_Product
  <2>3. rest \in SUBSET (Addr \X (1..MaxU))
    BY <1>0 DEF Units
  <2> QED
    BY <2>2, <2>3, FS_Subset
<1> HIDE DEF rest, g
<1>6. Cardinality(rest) \in Nat
  BY <1>5, FS_CardinalityType
<1>7. ASSUME NEW k \in Nat
      PROVE  Cardinality(rest \cup ({a} \X (1..k))) = Cardinality(rest) + k
  <2> DEFINE pile == {a} \X (1..k)
  <2>1. Cardinality(rest \cap pile) = 0
    BY <1>4, FS_EmptySet
  <2>2. IsFiniteSet(pile) /\ Cardinality(pile) = k
    BY PileSize
  <2> HIDE DEF pile
  <2>3. Cardinality(rest \cup pile) =
           Cardinality(rest) + Cardinality(pile) - Cardinality(rest \cap pile)
    BY <1>5, <2>2, FS_Union
  <2>4. Cardinality(rest \cup pile) = Cardinality(rest) + k
    BY <1>6, <2>1, <2>2, <2>3
  <2> QED
    BY <2>4 DEF pile
<1>8. /\ Total(f, Addr) = Cardinality(rest) + f[a]
      /\ Total(g, Addr) = Cardinality(rest) + v
  BY <1>1, <1>2, <1>3, <1>7 DEF Total
<1>9. /\ Total(f, Addr) \in Nat
      /\ Total(g, Addr) \in Nat
      /\ Total(g, Addr) + f[a] = Total(f, Addr) + v
  BY <1>1, <1>6, <1>8
<1> QED
  BY <1>9 DEF g

(* Two accounts hold no more than all of them. *)
LEMMA TotalOfTwo ==
    ASSUME NEW f \in [Addr -> 0..MaxU], NEW a \in Addr, NEW b \in Addr, a # b
    PROVE  f[a] + f[b] <= Total(f, Addr)
<1> DEFINE g == [f EXCEPT ![a] = 0]
           h == [g EXCEPT ![b] = 0]
<1>1. MaxU \in Nat /\ 0 \in 0..MaxU
  BY LedgerAssumption
<1>2. g \in [Addr -> 0..MaxU] /\ g[b] = f[b] /\ f[a] \in Nat /\ f[b] \in Nat
  BY <1>1
<1>3. Total(f, Addr) \in Nat /\ Total(g, Addr) + f[a] = Total(f, Addr) + 0
  BY <1>1, TotalUpdate
<1> HIDE DEF g
<1>4. /\ Total(g, Addr) \in Nat /\ Total(h, Addr) \in Nat
      /\ Total(h, Addr) + g[b] = Total(g, Addr) + 0
  BY <1>1, <1>2, TotalUpdate
<1> HIDE DEF h
<1> QED
  BY <1>2, <1>3, <1>4

(* Sums and differences that stay in range are exact. *)
LEMMA ArithExact ==
    ASSUME NEW x \in 0..MaxU, NEW y \in 0..MaxU
    PROVE  /\ x + y <= MaxU => Add(x, y) = x + y
           /\ y <= x => Sub(x, y) = x - y
<1>1. MaxU \in Nat
  BY LedgerAssumption
<1>2. \A z \in Nat, k \in Nat : z < k => z % k = z
  OBVIOUS
<1>3. x + y <= MaxU => x + y \in Nat /\ x + y < MaxU + 1
  BY <1>1
<1>4. y <= x => x - y \in Nat /\ x - y < MaxU + 1
  BY <1>1
<1> QED
  BY <1>1, <1>2, <1>3, <1>4 DEF Add, Sub

(* A transaction that fits costs its value and its fee, and what leaves the    *)
(* accounts with it is that less the value that reaches another account.       *)
LEMMA CostExact ==
    ASSUME CostsFit, NEW t \in Tx
    PROVE  /\ TxValue[t] \in 0..MaxU /\ TxFee[t] \in 0..MaxU
           /\ Cost(t) = TxValue[t] + TxFee[t]
           /\ Cost(t) \in 0..MaxU
           /\ Leaves(t) \in Nat
           /\ Leaves(t) + (IF TxType[t] = "transfer" /\ TxTo[t] # TxFrom[t]
                           THEN TxValue[t] ELSE 0) = Cost(t)
<1>1. MaxU \in Nat /\ TxValue[t] \in 0..MaxU /\ TxFee[t] \in 0..MaxU
  BY LedgerAssumption
<1>2. Cost(t) = TxValue[t] + TxFee[t]
  BY <1>1, ArithExact DEF Cost, CostsFit
<1>3. Cost(t) \in 0..MaxU
  BY <1>1, <1>2 DEF CostsFit
<1> QED
  BY <1>1, <1>2, <1>3 DEF Leaves

(* A step that touches neither the accounts nor what the goroutines in the     *)
(* middle hold keeps the books as they are.                                    *)
LEMMA BooksUndisturbed ==
    ASSUME SupplyInv, NonceInv',
           OpenMinter' = OpenMinter,
           \A p \in Applier : /\ apc'[p] \in {"credit", "write"} \/
                                 apc[p] \in {"credit", "write"} => apc'[p] = apc[p]
                              /\ apc[p] \in {"credit", "write"} => todo'[p] = todo[p],
           UNCHANGED <<balance, copyBalance, mwho, spent, minted>>
    PROVE  SupplyInv'
<1>1. FillsEmpty'
  BY DEF SupplyInv, FillsEmpty
<1>2. ASSUME Balanced PROVE Balanced'
  BY <1>2 DEF Balanced
<1>3. ASSUME HoldsRest PROVE HoldsRest'
  <2> SUFFICES ASSUME NEW p \in Applier, apc'[p] \in {"credit", "write"}
               PROVE  LET t == Head(todo'[p]) IN
                      /\ apc'[p] = "credit" =>
                            /\ TxType[t] = "transfer"
                            /\ copyBalance'[p] + Cost(t) = balance'[TxFrom[t]]
                      /\ apc'[p] = "write" =>
                            Total(WrittenBack(p)', Addr) + spent' + Leaves(t) = minted'
    BY DEF HoldsRest
  <2>1. apc'[p] = apc[p] /\ todo'[p] = todo[p]
    OBVIOUS
  <2>2. WrittenBack(p)' = WrittenBack(p)
    BY <2>1 DEF WrittenBack
  <2> QED
    BY <1>3, <2>1, <2>2 DEF HoldsRest
<1> QED
  BY <1>1, <1>2, <1>3 DEF SupplyInv

(* With one goroutine at a time in the middle of a read-modify-write, every    *)
(* step keeps the books.                                                       *)
LEMMA SupplyStep ==
    ASSUME Sequential, CostsFit, SupplyInv, [Next]_vars
    PROVE  SupplyInv'
<1> USE DEF accountVars, registryVars, applierVars, minterVars, ghostVars
<1>0. NonceInv /\ NonceInv'
  BY NonceStep DEF SupplyInv
<1>t. TypeAppliers /\ TypeMinters /\ TypeAccounts /\ Serial
  BY <1>0 DEF NonceInv, TypeOK
<1>u. /\ spent \in Nat /\ minted \in Nat /\ MaxU \in Nat
      /\ balance \in [Addr -> 0..MaxU] /\ copyBalance \in [Applier -> 0..MaxU]
  BY <1>t, LedgerAssumption DEF SupplyInv, TypeAccounts, TypeAppliers
<1>1. CASE UNCHANGED vars
  <2>1. OpenMinter' = OpenMinter
    BY <1>1 DEF vars, OpenMinter
  <2> QED
    BY <1>0, <1>1, <2>1, BooksUndisturbed DEF vars
<1>2. ASSUME NEW p \in Applier, NEW block \in Blocks, Begin(p, block)
      PROVE  SupplyInv'
  <2>1. OpenMinter' = OpenMinter
    BY <1>2 DEF Begin, OpenMinter
  <2> QED
    BY <1>0, <1>2, <1>t, <2>1, BooksUndisturbed DEF Begin, Goto, TypeAppliers
<1>3. ASSUME NEW p \in Applier, RegistryStep(p) PROVE SupplyInv'
  <2>1. OpenMinter' = OpenMinter
    BY <1>3 DEF RegistryStep, OpenMinter
  <2>2. /\ apc[p] = "registry"
        /\ \/ apc' = [apc EXCEPT ![p] = "check"] /\ todo' = todo
           \/ apc' = [apc EXCEPT ![p] = "idle"] /\ todo' = [todo EXCEPT ![p] = <<>>]
    BY <1>3 DEF RegistryStep, Goto, Abort
  <2>3. UNCHANGED <<balance, copyBalance, mwho, spent, minted>>
    BY <1>3 DEF RegistryStep
  <2> QED
    BY <1>0, <1>t, <2>1, <2>2, <2>3, BooksUndisturbed DEF TypeAppliers
<1>4. ASSUME NEW p \in Applier, Check(p) PROVE SupplyInv'
  <2> DEFINE t == Head(todo[p])
             a == TxFrom[t]
  <2>1. t \in Tx /\ a \in Addr
    BY <1>4, <1>t, HeadType, LedgerAssumption DEF Check
  <2>2. OpenApplier = {} /\ OpenMinter = {}
    BY <1>4 DEF Check, MayRead, Quiet
  <2>3. OpenMinter' = OpenMinter /\ UNCHANGED <<balance, mwho, spent, minted>>
    BY <1>4 DEF Check, OpenMinter
  <2>4. CASE ~ Accepted(t)
    <3>1. /\ apc' = [apc EXCEPT ![p] = "idle"] /\ todo' = [todo EXCEPT ![p] = <<>>]
          /\ apc[p] = "check" /\ copyBalance' = copyBalance
      BY <1>4, <2>4 DEF Check, Abort, Goto
    <3> QED
      BY <1>0, <1>t, <2>3, <3>1, BooksUndisturbed DEF TypeAppliers
  <2>5. CASE Accepted(t)
    <3>1. /\ copyBalance' = [copyBalance EXCEPT ![p] = Sub(balance[a], Cost(t))]
          /\ apc' = [apc EXCEPT ![p] =
                       IF TxType[t] = "transfer" THEN "credit" ELSE "write"]
          /\ todo' = todo
      BY <1>4, <2>5 DEF Check, Goto
    <3>2. Cost(t) <= balance[a]
      BY <2>5 DEF Accepted
    <3> HIDE DEF t, a
    <3>3. balance[a] \in 0..MaxU /\ Cost(t) \in 0..MaxU
      BY <1>u, <2>1, CostExact
    <3>4. /\ copyBalance'[p] = balance[a] - Cost(t)
          /\ copyBalance'[p] \in 0..MaxU
      BY <1>u, <3>1, <3>2, <3>3, ArithExact
    <3>5. FillsEmpty'
      BY <2>2, <2>3 DEF FillsEmpty
    <3>6. \A q \in Applier : apc[q] \notin {"credit", "write"}
      BY <2>2 DEF OpenApplier
    <3>7. \A q \in Applier : q # p => apc'[q] \notin {"credit", "write"}
      BY <1>t, <3>1, <3>6 DEF TypeAppliers
    <3>8. apc'[p] = IF TxType[t] = "transfer" THEN "credit" ELSE "write"
      BY <1>t, <3>1 DEF TypeAppliers
    <3>9. ASSUME minted' <= MaxU PROVE Balanced' /\ HoldsRest'
      <4>1. Total(balance, Addr) + spent = minted
        BY <2>3, <3>6, <3>9 DEF SupplyInv, Balanced
      <4>2. Balanced'
        BY <2>3, <4>1 DEF Balanced
      <4>3. WrittenBack(p)' = [balance EXCEPT ![a] = copyBalance'[p]]
        BY <2>3, <3>1 DEF WrittenBack, t, a
      <4>4. /\ Total(balance, Addr) \in Nat
            /\ Total(WrittenBack(p)', Addr) \in Nat
            /\ Total(WrittenBack(p)', Addr) + balance[a] =
                  Total(balance, Addr) + copyBalance'[p]
        <5> DEFINE c == copyBalance'[p]
        <5>1. c \in 0..MaxU
          BY <3>4
        <5> HIDE DEF c
        <5>2. /\ Total(balance, Addr) \in Nat
              /\ Total([balance EXCEPT ![a] = c], Addr) \in Nat
              /\ Total([balance EXCEPT ![a] = c], Addr) + balance[a] =
                    Total(balance, Addr) + c
          BY <1>u, <2>1, <5>1, TotalUpdate
        <5> QED
          BY <4>3, <5>2 DEF c
      <4>5. TxType[t] # "transfer" => Leaves(t) = Cost(t)
        BY <2>1, CostExact
      <4>6. TxType[t] # "transfer" =>
               Total(WrittenBack(p)', Addr) + spent' + Leaves(t) = minted'
        BY <1>u, <2>3, <3>3, <3>4, <4>1, <4>4, <4>5
      <4>7. copyBalance'[p] + Cost(t) = balance'[a]
        BY <2>3, <3>3, <3>4
      <4>8. t = Head(todo'[p]) /\ a = TxFrom[Head(todo'[p])]
        BY <3>1 DEF t, a
      <4>9. HoldsRest'
        BY <3>7, <3>8, <4>6, <4>7, <4>8 DEF HoldsRest
      <4> QED
        BY <4>2, <4>9
    <3> QED
      BY <1>0, <1>u, <2>3, <3>5, <3>9 DEF SupplyInv
  <2> QED
    BY <2>4, <2>5
<1>5. ASSUME NEW p \in Applier, Credit(p) PROVE SupplyInv'
  <2> DEFINE t == Head(todo[p])
             a == TxFrom[t]
             b == TxTo[t]
             v == Add(balance[b], TxValue[t])
  <2>1. t \in Tx /\ a \in Addr /\ b \in Addr
    BY <1>5, <1>t, HeadType, LedgerAssumption DEF Credit
  <2>2. p \in OpenApplier /\ apc[p] = "credit"
    BY <1>5 DEF Credit, OpenApplier
  <2>3. OpenApplier = {p} /\ OpenMinter = {}
    BY <2>2, <1>t DEF Serial
  <2>4. /\ balance' = [balance EXCEPT ![b] = v]
        /\ apc' = [apc EXCEPT ![p] = "write"]
        /\ UNCHANGED <<todo, copyBalance, spent, minted, mpc>>
    BY <1>5 DEF Credit, Goto
  <2>5. t = Head(todo'[p]) /\ a = TxFrom[Head(todo'[p])]
    BY <2>4
  <2>6. TxValue[t] \in 0..MaxU /\ v \in 0..MaxU
    BY <1>u, <2>1, CostExact, ArithType
  <2>7. WrittenBack(p)' = [balance' EXCEPT ![a] = copyBalance[p]]
    BY <2>4, <2>5 DEF WrittenBack
  <2> HIDE DEF t, a, b
  <2>8. FillsEmpty'
    BY <2>3, <2>4 DEF FillsEmpty, OpenMinter
  <2>9. \A q \in Applier : apc'[q] \in {"credit", "write"} => q = p
    BY <1>t, <2>3, <2>4 DEF OpenApplier, TypeAppliers
  <2>10. apc'[p] = "write"
    BY <1>t, <2>4 DEF TypeAppliers
  <2>11. ASSUME minted' <= MaxU PROVE Balanced' /\ HoldsRest'
    <3>1. Balanced /\ HoldsRest
      BY <2>4, <2>11 DEF SupplyInv
    <3>2. Total(balance, Addr) + spent = minted
      <4>1. \A q \in Applier : apc[q] # "write"
        BY <2>2, <2>3 DEF OpenApplier
      <4> QED
        BY <3>1, <4>1 DEF Balanced
    <3>3. TxType[t] = "transfer" /\ copyBalance[p] + Cost(t) = balance[a]
      BY <2>2, <3>1 DEF HoldsRest, t, a
    <3> DEFINE c == copyBalance[p]
               mid == [balance EXCEPT ![a] = c]
    <3>4. c \in 0..MaxU /\ mid \in [Addr -> 0..MaxU]
      BY <1>u, <2>1
    <3>5. balance[a] \in Nat /\ balance[b] \in Nat /\ c \in Nat /\ v \in Nat
      BY <1>u, <2>1, <2>6
    <3>6. /\ Total(balance, Addr) \in Nat /\ Total(mid, Addr) \in Nat
          /\ Total(mid, Addr) + balance[a] = Total(balance, Addr) + c
      BY <1>u, <2>1, <3>4, TotalUpdate
    <3>7. /\ TxValue[t] \in Nat /\ TxFee[t] \in Nat /\ Leaves(t) \in Nat
          /\ Cost(t) = TxValue[t] + TxFee[t]
          /\ Leaves(t) + (IF b # a THEN TxValue[t] ELSE 0) = Cost(t)
      BY <1>u, <2>1, <3>3, CostExact DEF a, b
    <3>8. CASE a = b
      <4>1. WrittenBack(p)' = mid
        BY <1>u, <2>1, <2>4, <2>7, <3>8
      <4> HIDE DEF mid, c
      <4>2. c + Cost(t) = balance[a]
        BY <3>3 DEF c
      <4>3. Total(mid, Addr) + spent + Leaves(t) = minted
        BY <1>u, <3>2, <3>5, <3>6, <3>7, <3>8, <4>2
      <4>4. HoldsRest'
        BY <2>4, <2>5, <2>9, <2>10, <4>1, <4>3 DEF HoldsRest
      <4> QED
        BY <2>10, <4>4 DEF Balanced
    <3>9. CASE a # b
      <4>1. mid[b] = balance[b] /\ WrittenBack(p)' = [mid EXCEPT ![b] = v]
        BY <1>u, <2>1, <2>4, <2>7, <3>9
      <4>2. balance[a] + balance[b] <= Total(balance, Addr)
        BY <1>u, <2>1, <3>9, TotalOfTwo
      <4>3. v = balance[b] + TxValue[t]
        <5>1. TxValue[t] <= balance[a]
          BY <3>3, <3>5, <3>7
        <5>2. balance[b] + TxValue[t] <= MaxU
          BY <1>u, <2>4, <2>11, <3>2, <3>5, <3>6, <3>7, <4>2, <5>1
        <5> QED
          BY <1>u, <2>1, <2>6, <5>2, ArithExact
      <4>4. /\ Total([mid EXCEPT ![b] = v], Addr) \in Nat
            /\ Total([mid EXCEPT ![b] = v], Addr) + mid[b] = Total(mid, Addr) + v
        BY <2>1, <2>6, <3>4, TotalUpdate
      <4> HIDE DEF mid, c, v
      <4>5. c + Cost(t) = balance[a]
        BY <3>3 DEF c
      <4>6. Total(WrittenBack(p)', Addr) + spent + Leaves(t) = minted
        BY <1>u, <3>2, <3>5, <3>6, <3>7, <3>9, <4>1, <4>3, <4>4, <4>5
      <4>7. HoldsRest'
        BY <2>4, <2>5, <2>9, <2>10, <4>6 DEF HoldsRest
      <4> QED
        BY <2>10, <4>7 DEF Balanced
    <3> QED
      BY <3>8, <3>9
  <2> QED
    BY <1>0, <1>u, <2>4, <2>8, <2>11 DEF SupplyInv
<1>6. ASSUME NEW p \in Applier, Write(p) PROVE SupplyInv'
  <2> DEFINE t == Head(todo[p])
  <2>1. t \in Tx
    BY <1>6, <1>t, HeadType DEF Write
  <2>2. p \in OpenApplier /\ apc[p] = "write"
    BY <1>6 DEF Write, OpenApplier
  <2>3. OpenApplier = {p} /\ OpenMinter = {}
    BY <2>2, <1>t DEF Serial
  <2>4. /\ balance' = WrittenBack(p)
        /\ spent' = spent + Leaves(t)
        /\ UNCHANGED <<minted, mpc>>
    BY <1>6 DEF Write, WrittenBack
  <2>5. apc' = [apc EXCEPT ![p] = IF Len(todo[p]) = 1 THEN "idle" ELSE "registry"]
    BY <1>6 DEF Write, Goto
  <2> HIDE DEF t
  <2>6. \A q \in Applier : apc'[q] \notin {"credit", "write"}
    BY <1>t, <2>3, <2>5 DEF OpenApplier, TypeAppliers
  <2>7. Leaves(t) \in Nat
    BY <2>1, CostExact
  <2>8. FillsEmpty'
    BY <2>3, <2>4 DEF FillsEmpty, OpenMinter
  <2>9. ASSUME minted' <= MaxU PROVE Balanced' /\ HoldsRest'
    <3>1. Total(WrittenBack(p), Addr) + spent + Leaves(t) = minted
      BY <2>2, <2>4, <2>9 DEF SupplyInv, HoldsRest, t
    <3>2. Total(WrittenBack(p), Addr) \in Nat
      <4>1. TxFrom[t] \in Addr /\ copyBalance[p] \in 0..MaxU
        BY <1>u, <2>1, LedgerAssumption
      <4> QED
        BY <1>u, <4>1, TotalUpdate DEF WrittenBack, t
    <3>3. Total(balance', Addr) + spent' = minted'
      BY <1>u, <2>4, <2>7, <3>1, <3>2
    <3> QED
      BY <2>6, <3>3 DEF Balanced, HoldsRest
  <2>10. spent' \in Nat /\ minted' \in Nat
    BY <1>u, <2>4, <2>7
  <2> QED
    BY <1>0, <2>8, <2>9, <2>10 DEF SupplyInv
<1>7. ASSUME NEW m \in Minter, NEW a \in Addr,
             MayRead, mpc[m] = "idle", ReadForGrant(m, a),
             UNCHANGED <<accountVars, applierVars, ghostVars>>
      PROVE  SupplyInv'
  <2>1. OpenMinter = {}
    BY <1>7 DEF MayRead, Quiet
  <2>2. CASE UNCHANGED minterVars
    <3>1. OpenMinter' = OpenMinter
      BY <2>2 DEF OpenMinter
    <3> QED
      BY <1>0, <1>7, <2>2, <3>1, BooksUndisturbed
  <2>3. CASE /\ balance[a] = 0
             /\ mpc' = [mpc EXCEPT ![m] = "put"]
             /\ mwho' = [mwho EXCEPT ![m] = a]
    <3>1. OpenMinter' \subseteq {m}
      BY <2>1, <2>3, <1>t DEF OpenMinter, TypeMinters
    <3>2. mwho'[m] = a
      BY <2>3, <1>t DEF TypeMinters
    <3>3. FillsEmpty'
      BY <1>7, <2>3, <3>1, <3>2 DEF FillsEmpty
    <3>4. Balanced => Balanced'
      BY <1>7 DEF Balanced
    <3>5. HoldsRest => HoldsRest'
      BY <1>7 DEF HoldsRest, WrittenBack
    <3> QED
      BY <1>0, <1>7, <3>3, <3>4, <3>5 DEF SupplyInv
  <2> QED
    BY <1>7, <2>2, <2>3 DEF ReadForGrant
<1>8. ASSUME NEW m \in Minter, PutGrant(m) PROVE SupplyInv'
  <2> DEFINE a == mwho[m]
  <2>1. m \in OpenMinter /\ a \in Addr
    BY <1>8, <1>t DEF PutGrant, OpenMinter, TypeMinters
  <2>2. OpenMinter = {m} /\ OpenApplier = {}
    BY <2>1, <1>t DEF Serial
  <2>3. OpenMinter' = {}
    BY <1>8, <2>2, <1>t DEF PutGrant, OpenMinter, TypeMinters
  <2>4. /\ balance' = [balance EXCEPT ![a] = Grant]
        /\ minted' = minted + Grant
        /\ UNCHANGED <<apc, spent>>
    BY <1>8 DEF PutGrant
  <2>5. balance[a] = 0
    BY <2>1 DEF SupplyInv, FillsEmpty
  <2> HIDE DEF a
  <2>6. Grant \in 0..MaxU /\ Grant \in Nat
    BY LedgerAssumption
  <2>7. FillsEmpty'
    BY <2>3 DEF FillsEmpty
  <2>8. \A q \in Applier : apc[q] \notin {"credit", "write"}
    BY <2>2 DEF OpenApplier
  <2>9. ASSUME minted' <= MaxU PROVE Balanced' /\ HoldsRest'
    <3>1. minted <= MaxU
      BY <1>u, <2>4, <2>6, <2>9
    <3>2. Total(balance, Addr) + spent = minted
      BY <2>8, <3>1 DEF SupplyInv, Balanced
    <3>3. /\ Total(balance, Addr) \in Nat /\ Total(balance', Addr) \in Nat
          /\ Total(balance', Addr) + balance[a] = Total(balance, Addr) + Grant
      BY <1>u, <2>1, <2>4, <2>6, TotalUpdate
    <3>4. Total(balance', Addr) + spent' = minted'
      BY <1>u, <2>4, <2>5, <2>6, <3>2, <3>3
    <3> QED
      BY <2>4, <2>8, <3>4 DEF Balanced, HoldsRest
  <2>10. spent' \in Nat /\ minted' \in Nat
    BY <1>u, <2>4, <2>6
  <2> QED
    BY <1>0, <2>7, <2>9, <2>10 DEF SupplyInv
<1>9. ASSUME NEW m \in Minter, NEW a \in Addr, HandleValidatorRegistration(m, a)
      PROVE  SupplyInv'
  BY <1>9, <1>7 DEF HandleValidatorRegistration
<1>10. ASSUME NEW m \in Minter, NEW a \in Addr, InitializeAccount(m, a)
       PROVE  SupplyInv'
  BY <1>10, <1>7 DEF InitializeAccount
<1> QED
  BY <1>1, <1>2, <1>3, <1>4, <1>5, <1>6, <1>8, <1>9, <1>10 DEF Next

(* The books are balanced at the start. *)
LEMMA SupplyInit == Init => SupplyInv
<1> SUFFICES ASSUME Init PROVE SupplyInv
  OBVIOUS
<1>1. NonceInv
  BY NonceInit
<1>2. Total(InitBalance, Addr) \in Nat
  <2>1. PICK a \in Addr : TRUE
    BY LedgerAssumption
  <2>2. InitBalance \in [Addr -> 0..MaxU] /\ 0 \in 0..MaxU
    BY LedgerAssumption
  <2> QED
    BY <2>1, <2>2, TotalUpdate
<1>3. balance = InitBalance /\ spent = 0 /\ minted = Total(InitBalance, Addr)
  BY DEF Init
<1>4. \A p \in Applier : apc[p] = "idle"
  BY DEF Init
<1>5. FillsEmpty
  BY DEF Init, FillsEmpty, OpenMinter
<1>6. Balanced /\ HoldsRest
  BY <1>2, <1>3, <1>4 DEF Balanced, HoldsRest
<1> QED
  BY <1>1, <1>2, <1>3, <1>5, <1>6 DEF SupplyInv

(* When the node's goroutines change accounts one at a time and no sum wraps   *)
(* round - the costs of single transactions, and the value ever created, fit   *)
(* the width - ApplyTransaction and the grants create and lose nothing: for    *)
(* all blocks, half-applied and repeated ones included, transfers to oneself   *)
(* and all registrations.                                                      *)
THEOREM SupplyCorrect ==
    ASSUME Sequential, CostsFit
    PROVE  Spec => [](minted <= MaxU => SupplyConserved)
<1>1. Init => SupplyInv
  BY SupplyInit
<1>2. SupplyInv /\ [Next]_vars => SupplyInv'
  BY SupplyStep
<1>3. SupplyInv => (minted <= MaxU => SupplyConserved)
  BY DEF SupplyInv, Balanced, SupplyConserved, Quiet, OpenApplier
<1> QED
  BY <1>1, <1>2, <1>3, PTL DEF Spec
=============================================================================
