-------------------------- MODULE ProposerRotation --------------------------
(***************************************************************************)
(* Election of the committee and rotation of the proposer on one node:     *)
(* SelectCommittee and NewProposerSelectorWithRotation (committee.go),     *)
(* ForceCommitteeAndProposer and the proposer check of producerLoop        *)
(* (node.go).                                                              *)
(*                                                                         *)
(* ForceCommitteeAndProposer runs in two goroutines, producerLoop and the  *)
(* handler of validator registrations, and locks nothing: reading the      *)
(* height, reading the registry, and the two assignments are separate      *)
(* steps here.  Addresses are numbers, ordered as their bytes are.  Every  *)
(* record a node writes has Participating set, so a registered validator   *)
(* is a participating one.                                                 *)
(***************************************************************************)
EXTENDS Integers, Sequences, FiniteSets, SequencesExt

CONSTANTS
    Validator,      \* addresses, a set of naturals
    Self,           \* this node's address
    Weight,         \* possible weights: stake + delegated stake + reputation
    CommitteeSize,  \* 30 in the code
    EpochLength,    \* 270 in the code
    SlotLength,     \* consecutive blocks per validator, 9 in the code
    Perm,           \* [1..CommitteeSize -> the shuffle of that many indices]
    MaxHeight,      \* bound: the largest height
    MaxWeigh,       \* bound: registrations and delegations
    MaxReceive      \* bound: blocks received

Elector == {"producer", "registration"}

ASSUME RotationAssumption ==
    /\ Validator \subseteq Nat /\ IsFiniteSet(Validator) /\ Self \in Validator
    /\ Weight \subseteq Nat
    /\ CommitteeSize \in Nat \ {0} /\ EpochLength \in Nat \ {0}
    /\ SlotLength \in Nat \ {0}
    /\ \A k \in 1..CommitteeSize :
           Perm[k] \in [1..k -> 1..k] /\ ToSet(Perm[k]) = 1..k
    /\ MaxHeight \in Nat /\ MaxWeigh \in Nat /\ MaxReceive \in Nat

VARIABLES
    weight,      \* [Validator -> weight of the registered validator, or -1]
    height,      \* n.bc.currentHeight
    committee,   \* n.committee
    selector,    \* n.proposerSelector: its committee and its EpochStart
    epc,         \* [Elector -> idle, elect, setCommittee, setSelector,
                 \*            decide, create]
    start, new,  \* [Elector -> locals epochStartHeight and newCommittee]
    nWeigh, nReceive

forceVars == <<committee, selector>>
localVars == <<start, new>>
countVars == <<nWeigh, nReceive>>
rotationVars == <<weight, height, forceVars, epc, localVars, countVars>>

Nobody == -1
NoSelector == [members |-> <<>>, start |-> -1]

Participating == {a \in Validator : weight[a] # -1}

-----------------------------------------------------------------------------
(* committee.go *)

\* Heavier validators first, then the smaller address.
Before(a, b) ==
    \/ weight[a] > weight[b]
    \/ weight[a] = weight[b] /\ a < b

\* The position of a in the sorted list, from 0.
Rank(a) == Cardinality({b \in Participating : Before(b, a)})

AtRank(i) == CHOOSE a \in Participating : Rank(a) = i

\* Mutant: the committee is not cut to its size.
SelectEveryone(n) == [i \in 1..Cardinality(Participating) |-> AtRank(i - 1)]

\* The first n of the participating validators, sorted.
SelectCommittee(n) ==
    LET all == Cardinality(Participating) IN
    [i \in 1..(IF all < n THEN all ELSE n) |-> AtRank(i - 1)]

\* Mutant: the proposer changes with every block.
ProposerByTurns(sel, h) ==
    LET n == Len(sel.members)
        i == h - sel.start
    IN
    IF n = 0 \/ i \notin 0..(EpochLength - 1) THEN Nobody
    ELSE sel.members[(i % n) + 1]

\* The slots given out by NewProposerSelectorWithRotation: SlotLength blocks in
\* a row to each member in shuffled order, then one by one what is left.
ProposerForBlock(sel, h) ==
    LET n == Len(sel.members)
        i == h - sel.start
    IN
    IF n = 0 \/ i \notin 0..(EpochLength - 1) THEN Nobody
    ELSE IF i < SlotLength * n THEN sel.members[Perm[n][(i \div SlotLength) + 1]]
    ELSE sel.members[(i % n) + 1]

-----------------------------------------------------------------------------
RotationInit ==
    /\ \E w \in Weight : weight = [a \in Validator |-> IF a = Self THEN w ELSE -1]
    /\ height = 0
    /\ committee = <<>>
    /\ selector = NoSelector
    /\ epc = [t \in Elector |-> "idle"]
    /\ start = [t \in Elector |-> 0]
    /\ new = [t \in Elector |-> <<>>]
    /\ nWeigh = 0
    /\ nReceive = 0

Goto(t, label) == epc' = [epc EXCEPT ![t] = label]

\* Where a thread goes on after ForceCommitteeAndProposer.
After(t) == IF t = "producer" THEN "decide" ELSE "idle"

EpochStart(h) == (h \div EpochLength) * EpochLength

\* The first line of ForceCommitteeAndProposer reads the height.
BeginForce(t) ==
    /\ start' = [start EXCEPT ![t] = EpochStart(height)]
    /\ Goto(t, "elect")

HandleValidatorRegistration(a, w) ==
    /\ epc["registration"] = "idle"
    /\ a # Self
    /\ nWeigh < MaxWeigh
    /\ nWeigh' = nWeigh + 1
    /\ weight' = [weight EXCEPT ![a] = w]
    /\ BeginForce("registration")
    /\ UNCHANGED <<height, forceVars, new, nReceive>>

\* A delegation or a registration transaction of an applied block changes a
\* record without an election.
ApplyStake(a, w) ==
    /\ a \in Participating
    /\ w # weight[a]
    /\ nWeigh < MaxWeigh
    /\ nWeigh' = nWeigh + 1
    /\ weight' = [weight EXCEPT ![a] = w]
    /\ UNCHANGED <<height, forceVars, epc, localVars, nReceive>>

\* A finalized block of another node sets the height (module BlockFinalization
\* shows that it may skip heights and go back).
ReceiveBlock(h) ==
    /\ nReceive < MaxReceive
    /\ nReceive' = nReceive + 1
    /\ height' = h
    /\ UNCHANGED <<weight, forceVars, epc, localVars, nWeigh>>

Tick ==
    /\ epc["producer"] = "idle"
    /\ BeginForce("producer")
    /\ UNCHANGED <<weight, height, forceVars, new, countVars>>

\* Mutant: a validator outside a full committee is no reason to elect.
NeedWithoutNewcomers(t) ==
    \/ committee = <<>>
    \/ selector = NoSelector \/ selector.start # start[t]
    \/ Len(committee) < CommitteeSize

NeedReElection(t) ==
    \/ committee = <<>>
    \/ selector = NoSelector \/ selector.start # start[t]
    \/ Len(committee) < CommitteeSize
    \/ Participating \ ToSet(committee) # {}

\* The decision and SelectCommittee; this node is registered, so the new
\* committee is never empty.
Elect(t) ==
    /\ epc[t] = "elect"
    /\ \/ /\ ~ NeedReElection(t)
          /\ Goto(t, After(t))
          /\ UNCHANGED new
       \/ /\ NeedReElection(t)
          /\ new' = [new EXCEPT ![t] = SelectCommittee(CommitteeSize)]
          /\ Goto(t, "setCommittee")
    /\ UNCHANGED <<weight, height, forceVars, start, countVars>>

SetCommittee(t) ==
    /\ epc[t] = "setCommittee"
    /\ committee' = new[t]
    /\ Goto(t, "setSelector")
    /\ UNCHANGED <<weight, height, selector, localVars, countVars>>

SetSelector(t) ==
    /\ epc[t] = "setSelector"
    /\ selector' = [members |-> new[t], start |-> start[t]]
    /\ new' = [new EXCEPT ![t] = <<>>]
    /\ Goto(t, After(t))
    /\ UNCHANGED <<weight, height, committee, start, countVars>>

\* producerLoop reads the height and asks the selector.
Decide ==
    /\ epc["producer"] = "decide"
    /\ Goto("producer", IF ProposerForBlock(selector, height + 1) = Self
                        THEN "create" ELSE "idle")
    /\ UNCHANGED <<weight, height, forceVars, localVars, countVars>>

\* CreateBlock takes its number from the last block, not from the height that
\* was checked.  The steps between creating and adding are in module
\* BlockFinalization; a round that fails to create or add changes nothing here.
Create ==
    /\ epc["producer"] = "create"
    /\ height' = IF height < MaxHeight THEN height + 1 ELSE height
    /\ Goto("producer", "idle")
    /\ UNCHANGED <<weight, forceVars, localVars, countVars>>

ThreadStep(t) == Elect(t) \/ SetCommittee(t) \/ SetSelector(t)

RotationNext ==
    \/ \E a \in Validator, w \in Weight : HandleValidatorRegistration(a, w)
    \/ \E a \in Validator, w \in Weight : ApplyStake(a, w)
    \/ \E h \in 1..MaxHeight : ReceiveBlock(h)
    \/ Tick
    \/ \E t \in Elector : ThreadStep(t)
    \/ Decide
    \/ Create

RotationSpec == RotationInit /\ [][RotationNext]_rotationVars

\* The 2 s ticker keeps firing and ready goroutines keep being scheduled.
\* Nothing is assumed of the network.
Fairness ==
    /\ \A t \in Elector : WF_rotationVars(ThreadStep(t))
    /\ WF_rotationVars(Tick) /\ WF_rotationVars(Decide) /\ WF_rotationVars(Create)

FairRotation == RotationSpec /\ Fairness

-----------------------------------------------------------------------------
(* Properties *)

Members == BoundedSeq(Validator, CommitteeSize)
EpochStarts == {EpochStart(h) : h \in 0..MaxHeight}

\* The type invariant of the elected committee and the goroutines' locals.
RotationTypeOK ==
    /\ weight \in [Validator -> Weight \cup {-1}]
    /\ height \in 0..MaxHeight
    /\ committee \in Members
    /\ selector \in [members : Members, start : EpochStarts \cup {-1}]
    /\ epc \in [Elector -> {"idle", "elect", "setCommittee", "setSelector",
                            "decide", "create"}]
    /\ start \in [Elector -> EpochStarts]
    /\ new \in [Elector -> Members]
    /\ nWeigh \in 0..MaxWeigh /\ nReceive \in 0..MaxReceive

SlotsOf(a) == {h \in 0..(MaxHeight + EpochLength) : ProposerForBlock(selector, h) = a}

Consecutive(S) == \A x, y \in S : x..y \subseteq S

\* The committee the specification asks for: the validators with fewer than
\* CommitteeSize others before them.
Top == {a \in Participating : Rank(a) < CommitteeSize}

\* Whatever registrations, delegations and heights a selector was built from,
\* its slots cover its epoch exactly, with members only, and a full committee
\* shares the epoch out in equal runs of SlotLength consecutive blocks.
RotationFair ==
    selector # NoSelector =>
        /\ UNION {SlotsOf(a) : a \in ToSet(selector.members)} =
              selector.start..(selector.start + EpochLength - 1)
        /\ Len(selector.members) * SlotLength = EpochLength =>
              \A a \in ToSet(selector.members) :
                  Cardinality(SlotsOf(a)) = SlotLength /\ Consecutive(SlotsOf(a))

\* ForceCommitteeAndProposer skips the election when it sees no need for one
\* and its two callers race, yet once registrations stop the committee becomes
\* and stays the CommitteeSize heaviest validators.
CommitteeConverges == <>[](ToSet(committee) = Top)

(* What has to hold besides for RotationFair to be inductive. *)

\* An elected committee has members, each of them once.
Elected(members) ==
    /\ members \in Members /\ members # <<>>
    /\ \A i, j \in DOMAIN members : members[i] = members[j] => i = j

RotationInv ==
    /\ RotationTypeOK
    /\ Self \in Participating
    /\ \A t \in Elector : epc[t] \in {"setCommittee", "setSelector"} => Elected(new[t])
    /\ selector # NoSelector => Elected(selector.members) /\ selector.start # -1

(* What documents and comments say and the code does not have: TLC refutes *)
(* these (README.md, section 6).                                           *)

\* docs/NETWORK_TESTING.md, single node: "Node produces blocks every 2 seconds,
\* always as the proposer."
KeepsProducing == \A h \in 0..(MaxHeight - 1) : height = h ~> height > h

\* docs/TECHNICAL.md: "Round-robin rotation within the committee", "Proposer
\* creates and broadcasts block proposals": a node creates the blocks of its
\* own slots.
OwnSlotOnly ==
    [][Create => ProposerForBlock(selector, height + 1) = Self]_rotationVars

\* node.go: "Force committee re-selection to include the new validator": the
\* rotation follows the committee once registrations stop.
RotationFollowsCommittee ==
    <>[](ToSet(selector.members) = ToSet(committee))
=============================================================================
