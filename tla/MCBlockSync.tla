---------------------------- MODULE MCBlockSync ----------------------------
(* Instances of BlockSync for TLC. *)
EXTENDS BlockSync, TLC

CONSTANTS n1, n2, n3, n4, b1, b2

\* One block, by n1.
MCNumber == [b \in Block |-> 1]
MCProposer == [b \in Block |-> n1]

\* Two blocks of height 1, by n1 and n2.
ForkProposer == [b \in Block |-> IF b = b1 THEN n1 ELSE n2]

\* Nodes that propose nothing are interchangeable.
MCSymmetry == Permutations({n3, n4})

\* The committee has finalized b1 and nothing is on its way; the approvals that
\* reached the proposer stay in its buffer.
FinalizedInit ==
    /\ chain = [n \in Node |-> [h \in Height |-> IF n \in Late THEN None ELSE b1]]
    /\ height = [n \in Node |-> IF n \in Late THEN 0 ELSE 1]
    /\ pending = [n \in Node |-> {}]
    /\ sigs = [n \in Node |-> [b \in Block |-> {}]]
    /\ buffer = [n \in Node |-> [b \in Block |->
                    IF n = n1 THEN Committee \ {n1} ELSE {}]]
    /\ connected = Node \ Late
    /\ created = {b1}
    /\ voted = [n \in Node |-> IF n \in Committee \ {n1} THEN {b1} ELSE {}]
    /\ blocks = [n \in Node |-> {}]
    /\ approvals = [n \in Node |-> {}]
    /\ requests = [n \in Node |-> {}]

FinalizedSpec == FinalizedInit /\ [][Next]_vars /\ Fairness
=============================================================================
