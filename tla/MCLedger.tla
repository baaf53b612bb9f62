------------------------------ MODULE MCLedger ------------------------------
(* Instances of Ledger for TLC. *)
EXTENDS Ledger, FiniteSetsExt, TLC

CONSTANTS alice, bob, val

\* pay and pay2 compete for alice's first nonce; back returns value; own is a
\* transfer to oneself; join and lend are the registry transactions, lend with
\* more than bob can afford; odd has a type that ApplyTransaction does not know.
MCTx == {"pay", "pay2", "own", "back", "join", "lend", "odd"}

Body(from, to, type, value, fee, n) ==
    [from |-> from, to |-> to, type |-> type, value |-> value, fee |-> fee,
     nonce |-> n]

Txs == ("pay"  :> Body(alice, bob, "transfer", 2, 1, 1)) @@
       ("pay2" :> Body(alice, val, "transfer", 5, 0, 1)) @@
       ("own"  :> Body(alice, alice, "transfer", 1, 1, 2)) @@
       ("back" :> Body(bob, alice, "transfer", 2, 0, 1)) @@
       ("join" :> Body(alice, alice, "register_validator", 2, 0, 2)) @@
       ("lend" :> Body(bob, val, "delegate", 4, 0, 1)) @@
       ("odd"  :> Body(bob, alice, "stake", 1, 0, 2))

MCFrom == [t \in MCTx |-> Txs[t].from]
MCTo == [t \in MCTx |-> Txs[t].to]
MCType == [t \in MCTx |-> Txs[t].type]
MCValue == [t \in MCTx |-> Txs[t].value]
MCFee == [t \in MCTx |-> Txs[t].fee]
MCNonce == [t \in MCTx |-> Txs[t].nonce]

MCBlocks == {<<"pay", "own">>, <<"pay2", "join">>, <<"back", "odd">>,
             <<"lend">>, <<"join">>}
PayBlocks == {<<"pay">>, <<"pay2">>, <<"back">>}
StakeBlocks == {<<"pay", "lend">>, <<"lend">>}

MCBalance == (alice :> 5) @@ (bob :> 3) @@ (val :> 0)
RichBalance == (alice :> 5) @@ (bob :> 5) @@ (val :> 0)

\* The amounts of these instances never leave the range of an unsigned integer.
ASSUME NoWrap ==
    /\ \A t \in MCTx : MCValue[t] + MCFee[t] <= MaxU
    /\ 12 + (MaxRegister + 3) * Grant <= MaxU

\* Total is the sum.
ASSUME TotalIsSum ==
    \A f \in [Addr -> 0..3] : Total(f, Addr) = MapThenSumSet(LAMBDA x : f[x], Addr)
=============================================================================
