-------------------------- MODULE TransactionGossip --------------------------
(***************************************************************************)
(* How a transaction travels: the entry points of one node (the API, the   *)
(* CLI, the test transactions of Start), the gossip of the network, the    *)
(* admission by every other node with the points it charges to the peer    *)
(* that passed the message on (peer books of module BARNetwork), and the   *)
(* accounts every node keeps for itself, which admission is checked with.  *)
(*                                                                         *)
(* Every transaction costs one unit.  Batches and the pool's order are     *)
(* module TransactionPool, the agreement on blocks modules BlockSync and   *)
(* BlockFinalization: here the blocks have one transaction, are made by    *)
(* nodes that have all earlier ones, and reach every node in their order.  *)
(* Whitelists stay empty, as module Handshake shows for nodes of this code.*)
(***************************************************************************)
EXTENDS BARNetwork, Sequences

CONSTANTS
    Dialled,   \* pairs <<n, p>>: n dialled p and so has it in its book
    Grant,     \* the balance given to a new validator, 1000 in the code
    TestTxs,   \* test transactions a node sends, 6 in the code
    Testing,   \* nodes without DisableTestTransactions
    ApiUsers, CliUsers,  \* nodes whose users have that interface
    Fresh,     \* nodes whose first registration has not reached the others yet
    MaxTx      \* bound: transactions made

ASSUME GossipAssumption ==
    /\ Peer = Node
    /\ Dialled \subseteq Node \X Node
    /\ Grant \in Nat \ {0}
    /\ TestTxs \in Nat
    /\ ApiUsers \subseteq Node /\ CliUsers \subseteq Node /\ Testing \subseteq Node
    /\ Fresh \subseteq Node
    /\ MaxTx \in Nat

VARIABLES
    balance, nonce,  \* [Node -> [Node -> Nat]]: the accounts each node keeps
    pool,     \* [Node -> transactions in its pool]
    made,     \* transactions made so far
    tests,    \* [Node -> test transactions sent]
    flight,   \* copies of published transactions: [tx, to, by]
    seen,     \* [Node -> transactions gossip has handed to it, or its own]
    mined,    \* the transactions of the blocks, in their order
    done,     \* [Node -> blocks processed]
    refused   \* [Node -> transactions dropped although they were admissible]

accountVars == <<balance, nonce>>
gossipVars == <<flight, seen>>
chainVars == <<mined, done>>
vars == <<bookVars, accountVars, pool, made, tests, gossipVars, chainVars, refused>>

\* The timestamp makes every transaction a new one; via is its entry point.
Transaction ==
    [id : 1..MaxTx, from : Node, nonce : Nat, via : {"api", "cli", "test"}]

Init ==
    /\ white = [n \in Node |-> {}]
    /\ grey = [n \in Node |-> {p \in Node : <<n, p>> \in Dialled}]
    /\ banned = [n \in Node |-> {}]
    /\ pom = [n \in Node |-> [p \in Peer |-> 0]]
    /\ record = [n \in Node |-> [p \in Peer |-> -1]]
    /\ round = [n \in Node |-> 0]
    /\ balance = [n \in Node |-> [a \in Node |->
                    IF a = n \/ a \notin Fresh THEN Grant ELSE 0]]
    /\ nonce = [n \in Node |-> [a \in Node |-> 0]]
    /\ pool = [n \in Node |-> {}]
    /\ made = {}
    /\ tests = [n \in Node |-> 0]
    /\ flight = {}
    /\ seen = [n \in Node |-> {}]
    /\ mined = <<>>
    /\ done = [n \in Node |-> 0]
    /\ refused = [n \in Node |-> {}]

Links(n) == {p \in Node \ {n} : <<n, p>> \in Dialled \/ <<p, n>> \in Dialled}

\* Mutants: a nonce may be skipped; the balance is not checked.
AdmissibleLater(n, x) == x.nonce > nonce[n][x.from] /\ balance[n][x.from] >= 1

AdmissibleUnpaid(n, x) == x.nonce = nonce[n][x.from] + 1

\* The checks of AddTransaction and of ApplyTransaction, in node n's accounts.
Admissible(n, x) == x.nonce = nonce[n][x.from] + 1 /\ balance[n][x.from] >= 1

\* Node n publishes x to the peers it is linked with.
Publish(n, x) ==
    /\ flight' = flight \cup {[tx |-> x, to |-> p, by |-> n] : p \in Links(n)}
    /\ seen' = [seen EXCEPT ![n] = @ \cup {x}]

Make(n, k, via) ==
    LET x == [id |-> Cardinality(made) + 1, from |-> n, nonce |-> k, via |-> via] IN
    /\ Cardinality(made) < MaxTx
    /\ made' = made \cup {x}
    /\ Publish(n, x)
    /\ UNCHANGED <<bookVars, accountVars, chainVars, refused>>

\* Mutant: the transaction is published only, as by the CLI.
CreateWithoutPool(n) ==
    /\ n \in ApiUsers
    /\ balance[n][n] >= 1
    /\ Make(n, nonce[n][n] + 1, "api")
    /\ UNCHANGED <<pool, tests>>

\* handleCreateTransaction: the node's own pool gets the transaction, the topic
\* gets its bare encoding.
CreateTransaction(n) ==
    LET x == [id |-> Cardinality(made) + 1, from |-> n,
              nonce |-> nonce[n][n] + 1, via |-> "api"] IN
    /\ n \in ApiUsers
    /\ Admissible(n, x)
    /\ pool' = [pool EXCEPT ![n] = @ \cup {x}]
    /\ Make(n, x.nonce, x.via)
    /\ UNCHANGED tests

\* The send and create commands: BroadcastTransaction, without the own pool.
CmdSend(n) ==
    /\ n \in CliUsers
    /\ balance[n][n] >= 1
    /\ Make(n, nonce[n][n] + 1, "cli")
    /\ UNCHANGED <<pool, tests>>

\* The delegate and register commands do not look at the balance.
CmdDelegate(n) ==
    /\ n \in CliUsers
    /\ Make(n, nonce[n][n] + 1, "cli")
    /\ UNCHANGED <<pool, tests>>

\* Test transactions have the nonces 1, 2, ... whatever the account says.
AddTestTransaction(n) ==
    /\ n \in Testing /\ tests[n] < TestTxs
    /\ Make(n, tests[n] + 1, "test")
    /\ tests' = [tests EXCEPT ![n] = @ + 1]
    /\ UNCHANGED pool

\* Gossip hands the first copy of a message to the handler and passes it on;
\* further copies are dropped.
Gossip(m) ==
    /\ m \in flight
    /\ m.tx \notin seen[m.to]
    /\ seen' = [seen EXCEPT ![m.to] = @ \cup {m.tx}]
    /\ flight' = {f \in flight : f.tx # m.tx \/ f.to # m.to}
                 \cup {[tx |-> m.tx, to |-> p, by |-> m.to] :
                          p \in {q \in Links(m.to) : m.tx \notin seen[q]}}

\* Mutant: a transaction costs as much as a malformed block.
ChargeTwice(m) ==
    /\ UpdatePOMScore(m.to, m.by, 2, round[m.to])
    /\ UNCHANGED round

Charge(m) == UpdatePOMScore(m.to, m.by, 1, round[m.to]) /\ UNCHANGED round

\* handleTransaction: an encoding without the envelope has no transaction in it.
HandleTransaction(m) ==
    /\ Gossip(m)
    /\ \/ /\ m.tx.via # "api" /\ Admissible(m.to, m.tx)
          /\ pool' = [pool EXCEPT ![m.to] = @ \cup {m.tx}]
          /\ UNCHANGED <<bookVars, refused>>
       \/ /\ m.tx.via = "api" \/ ~ Admissible(m.to, m.tx)
          /\ Charge(m)
          /\ refused' = IF Admissible(m.to, m.tx)
                        THEN [refused EXCEPT ![m.to] = @ \cup {m.tx}] ELSE refused
          /\ UNCHANGED pool
    /\ UNCHANGED <<accountVars, made, tests, chainVars>>

\* Every node publishes its registration again and again from its start on, so
\* that one of them may arrive at any time; an empty account is given Grant.
HandleValidatorRegistration(n, a) ==
    /\ a # n
    /\ balance' = [balance EXCEPT ![n][a] = IF @ = 0 THEN Grant ELSE @]
    /\ UNCHANGED <<bookVars, nonce, pool, made, tests, gossipVars, chainVars,
                   refused>>

\* A block's transaction is applied to n's accounts and leaves its pool, or
\* fails and changes nothing.
Apply(n, x) ==
    IF Admissible(n, x)
    THEN /\ balance' = [balance EXCEPT ![n][x.from] = @ - 1]
         /\ nonce' = [nonce EXCEPT ![n][x.from] = @ + 1]
         /\ pool' = [pool EXCEPT ![n] = @ \ {x}]
    ELSE UNCHANGED <<accountVars, pool>>

\* The turn of a node that has all blocks.
Mine(n) ==
    /\ done[n] = Len(mined)
    /\ \E x \in pool[n] :
          /\ Admissible(n, x)
          /\ Apply(n, x)
          /\ mined' = Append(mined, x)
    /\ done' = [done EXCEPT ![n] = @ + 1]
    /\ UNCHANGED <<bookVars, made, tests, gossipVars, refused>>

\* Another node finalizes the next block.
Finalize(n) ==
    /\ done[n] < Len(mined)
    /\ Apply(n, mined[done[n] + 1])
    /\ done' = [done EXCEPT ![n] = @ + 1]
    /\ UNCHANGED <<bookVars, made, tests, gossipVars, mined, refused>>

Next ==
    \/ \E n \in Node : \/ CreateTransaction(n)
                       \/ CmdSend(n)
                       \/ CmdDelegate(n)
                       \/ AddTestTransaction(n)
                       \/ Mine(n)
                       \/ Finalize(n)
    \/ \E m \in flight : HandleTransaction(m)
    \/ \E n, a \in Node : HandleValidatorRegistration(n, a)

Spec == Init /\ [][Next]_vars

\* Nodes get their turns, and the blocks of others reach them.
FairSpec ==
    /\ Spec
    /\ \A n \in Node : WF_vars(Mine(n)) /\ WF_vars(Finalize(n))

\* Transactions and registrations arrive as well.
DeliverySpec ==
    /\ FairSpec
    /\ \A n, a \in Node : WF_vars(HandleValidatorRegistration(n, a))
    /\ WF_vars(\E m \in flight : HandleTransaction(m))

-----------------------------------------------------------------------------
(* Properties *)

\* The type invariant of the network.
TypeOK ==
    /\ BookTypeOK
    /\ balance \in [Node -> [Node -> Nat]]
    /\ nonce \in [Node -> [Node -> Nat]]
    /\ pool \in [Node -> SUBSET made]
    /\ made \subseteq Transaction
    /\ tests \in [Node -> 0..TestTxs]
    /\ flight \subseteq [tx : made, to : Node, by : Node]
    /\ seen \in [Node -> SUBSET made]
    /\ mined \in Seq(made)
    /\ done \in [Node -> 0..Len(mined)]
    /\ refused \in [Node -> SUBSET made]

\* The points node n has charged, each one as the peer and its number.
Points(n) == UNION {{p} \X (1..pom[n][p]) : p \in Peer}

FromOthers(n) == {x \in seen[n] : x.from # n}

\* What a node charges for transactions, summed over its peers, never exceeds
\* the transactions of others that reached it: duplicates and detours of a
\* message are not charged again.
ChargesBacked ==
    \A n \in Node : Cardinality(Points(n)) <= Cardinality(FromOthers(n))

\* Gossip hands no node its own transactions: it has seen them.
OwnSeen == \A x \in made : x \in seen[x.from]

\* However the accounts of the nodes have drifted apart, a nonce that a node has
\* passed was spent by a transaction of a block the node has processed.
NoncesBacked ==
    \A n, a \in Node : \A k \in 1..nonce[n][a] :
        \E i \in 1..done[n] : mined[i].from = a /\ mined[i].nonce = k

Settled(x) == nonce[x.from][x.from] >= x.nonce

\* A transaction made with the API is in its node's own pool: its nonce is
\* spent in the end, by it or by another one of the account.
CreatedSettles ==
    \A i \in 1..MaxTx :
        (\E x \in made : x.id = i /\ x.via = "api")
            ~> (\E x \in made : x.id = i /\ Settled(x))

(* What documents and comments say and the code does not have: TLC refutes *)
(* these (README.md, section 6).                                           *)

\* docs/TECHNICAL.md, "Transaction Propagation": the submitting node too adds the
\* transaction to its pool, so the same holds of one sent with the CLI.
SentSettles ==
    \A i \in 1..MaxTx :
        (\E x \in made : x.id = i /\ x.via = "cli")
            ~> (\E x \in made : x.id = i /\ Settled(x))

\* docs/TECHNICAL.md, "Transaction Propagation": the receiving node verifies the
\* transaction and adds it to its pool; none that its accounts admit is dropped.
ValidAccepted == \A n \in Node : refused[n] = {}

\* docs/TECHNICAL_SPEC.md: "Double Spending: Prevented by nonce validation and
\* state consistency": nodes that processed the same blocks have the same nonces.
AccountsAgree ==
    \A n, m \in Node : done[n] = done[m] => nonce[n] = nonce[m]
=============================================================================
