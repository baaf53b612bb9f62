------------------------- MODULE InactivityMonitor --------------------------
(***************************************************************************)
(* The seed nodes' inactivity monitor (inactivity_monitor.go) over the     *)
(* peer books of module BARNetwork.  A seed reports the peers on its       *)
(* greylist to the peers on its whitelist; a seed that has reports enough  *)
(* takes the peer off its own whitelist.  Reports are gossiped: they may   *)
(* be delayed, reordered and lost.                                         *)
(*                                                                         *)
(* The report broadcast by markPeerAsInactive has an empty addressee,      *)
(* which no receiver can decode as a peer ID: handleInactivityReport is    *)
(* never reached, and each receiver charges the peer that passed the       *)
(* message on to it.  Connections and promotions are the environment's     *)
(* (modules Handshake and BARNetwork).                                     *)
(***************************************************************************)
EXTENDS BARNetwork

CONSTANTS
    Seed,           \* the nodes with isSeedNode
    Link,           \* <<n, p>>: the connections n makes
    Forward,        \* <<r, q>>: q gets the broadcasts of others from r
    SeedThreshold,  \* seedNodeThreshold, 3 in the code
    LongCount,      \* reports that suffice after a long time, 5 in the code
    MaxPromotions,  \* bound: promotions by handshakes
    MaxMarks,       \* bound: mark_inactive messages under way
    MaxLosses       \* bound: mark_inactive messages lost

ASSUME MonitorAssumption ==
    /\ Peer = Node
    /\ Seed \subseteq Node /\ IsFiniteSet(Seed)
    /\ Link \subseteq Node \X Node /\ Forward \subseteq Node \X Node
    /\ \A n \in Node : <<n, n>> \notin Link
    /\ SeedThreshold \in Nat \ {0} /\ LongCount \in Nat \ {0}
    /\ MaxPromotions \in Nat /\ MaxMarks \in Nat /\ MaxLosses \in Nat

VARIABLES
    marks,       \* mark_inactive messages under way, one copy of each
    broadcasts,  \* <<r, q>>: q is about to receive a broadcast from r
    count,       \* [Node -> [Node -> ReportCount, as far as LongCount]]
    reporters,   \* [Node -> [Node -> Reporters]]
    aged,        \* <<n, p>>: n's record of p is more than ten minutes old
    nPromotions, nLosses,
    saw          \* [Node -> peers it ever found inactive]

recordVars == <<count, reporters, aged>>
monitorVars == <<bookVars, marks, broadcasts, recordVars, nPromotions, nLosses, saw>>

Mark == [from : Seed, to : Node, target : Node]

\* Every node has dialled its peers (P2PNode.Connect, AddPeer) and the loops
\* start.
MonitorInit ==
    /\ white = [n \in Node |-> {}]
    /\ grey = [n \in Node |-> {p \in Node : <<n, p>> \in Link}]
    /\ banned = [n \in Node |-> {}]
    /\ pom = [n \in Node |-> [p \in Node |-> 0]]
    /\ record = [n \in Node |-> [p \in Node |-> -1]]
    /\ round = [n \in Node |-> 0]
    /\ marks = {}
    /\ broadcasts = {}
    /\ count = [n \in Node |-> [p \in Node |-> 0]]
    /\ reporters = [n \in Node |-> [p \in Node |-> {}]]
    /\ aged = {}
    /\ nPromotions = 0 /\ nLosses = 0
    /\ saw = [n \in Node |-> {}]

-----------------------------------------------------------------------------
(* The environment *)

Promote(n, p) ==
    /\ nPromotions < MaxPromotions
    /\ PromoteToWhitelist(n, p)
    /\ nPromotions' = nPromotions + 1
    /\ UNCHANGED <<marks, broadcasts, recordVars, nLosses, saw>>

TimePasses(n, p) ==
    /\ count[n][p] > 0
    /\ <<n, p>> \notin aged
    /\ aged' = aged \cup {<<n, p>>}
    /\ UNCHANGED <<bookVars, marks, broadcasts, count, reporters,
                   nPromotions, nLosses, saw>>

LoseMark(m) ==
    /\ nLosses < MaxLosses
    /\ m \in marks
    /\ marks' = marks \ {m}
    /\ nLosses' = nLosses + 1
    /\ UNCHANGED <<bookVars, broadcasts, recordVars, nPromotions, saw>>

LoseBroadcast(b) ==
    /\ b \in broadcasts
    /\ broadcasts' = broadcasts \ {b}
    /\ UNCHANGED <<bookVars, marks, recordVars, nPromotions, nLosses, saw>>

-----------------------------------------------------------------------------
(* Reporting *)

\* Whoever is on the greylist.
IsPeerInactive(n, p) == p \in grey[n]

Reports(n, p, to) == [from : {n}, to : to \ {n}, target : {p}]

Send(ms) ==
    /\ marks' = marks \cup ms
    /\ Cardinality(marks') <= MaxMarks

\* One peer of checkForInactivity's loop.  Publishing any of the messages may
\* fail, which is as good as losing it.
ReportInactivity(n, p) ==
    /\ n \in Seed
    /\ IsPeerInactive(n, p)
    /\ Send(Reports(n, p, white[n]))
    /\ saw' = [saw EXCEPT ![n] = @ \cup {p}]
    /\ UNCHANGED <<bookVars, broadcasts, recordVars, nPromotions, nLosses>>

\* The whitelist is read after the status, under another lock: a peer promoted
\* in between is told of its own inactivity.
ReportPromoted(n, p) ==
    /\ n \in Seed
    /\ IsPeerInactive(n, p)
    /\ nPromotions < MaxPromotions
    /\ PromoteToWhitelist(n, p)
    /\ nPromotions' = nPromotions + 1
    /\ Send(Reports(n, p, white'[n]))
    /\ saw' = [saw EXCEPT ![n] = @ \cup {p}]
    /\ UNCHANGED <<broadcasts, recordVars, nLosses>>

-----------------------------------------------------------------------------
(* Handling a mark *)

\* Mutant: target and reporter are swapped.
RecordSwapped(n, p, from) ==
    /\ count' = [count EXCEPT ![n][p] = IF @ < LongCount THEN @ + 1 ELSE @]
    /\ reporters' = [reporters EXCEPT ![n][p] = @ \cup {p}]
    /\ UNCHANGED aged

RecordInactivity(n, p, from) ==
    /\ count' = [count EXCEPT ![n][p] = IF @ < LongCount THEN @ + 1 ELSE @]
    /\ reporters' = [reporters EXCEPT ![n][p] = @ \cup {from}]
    /\ UNCHANGED aged

\* Mutant: reports are counted, not reporters.
ShouldMarkByCount(n, p) ==
    \/ count'[n][p] >= SeedThreshold
    \/ count'[n][p] >= LongCount /\ <<n, p>> \in aged

\* Mutant: more than the threshold is required.
ShouldMarkAbove(n, p) ==
    \/ Cardinality(reporters'[n][p]) > SeedThreshold
    \/ count'[n][p] >= LongCount /\ <<n, p>> \in aged

\* Evaluated after the report has been recorded.
ShouldMarkAsInactive(n, p) ==
    \/ Cardinality(reporters'[n][p]) >= SeedThreshold
    \/ count'[n][p] >= LongCount /\ <<n, p>> \in aged

\* DemoteToGreylist does nothing to a peer that is not whitelisted; the
\* broadcast goes out in either case.
MarkPeerAsInactive(n, p) ==
    /\ \/ DemoteToGreylist(n, p) /\ UNCHANGED <<pom, round>>
       \/ p \notin white[n] /\ UNCHANGED bookVars
    /\ broadcasts' = broadcasts \cup {f \in Forward : f[2] # n}

\* A receiver that is no seed charges the sender.
HandleMarkInactive(m) ==
    /\ m \in marks
    /\ marks' = marks \ {m}
    /\ \/ /\ m.to \notin Seed
          /\ UpdatePOMScore(m.to, m.from, 1, round[m.to])
          /\ UNCHANGED <<round, broadcasts, recordVars>>
       \/ /\ m.to \in Seed
          /\ RecordInactivity(m.to, m.target, m.from)
          /\ \/ /\ ShouldMarkAsInactive(m.to, m.target)
                /\ MarkPeerAsInactive(m.to, m.target)
             \/ /\ ~ ShouldMarkAsInactive(m.to, m.target)
                /\ UNCHANGED <<bookVars, broadcasts>>
    /\ UNCHANGED <<nPromotions, nLosses, saw>>

\* The message does not decode: who passed it on is charged.
HandleMalformed(b) ==
    /\ b \in broadcasts
    /\ broadcasts' = broadcasts \ {b}
    /\ UpdatePOMScore(b[2], b[1], 1, round[b[2]])
    /\ UNCHANGED <<round, marks, recordVars, nPromotions, nLosses, saw>>

MonitorNext ==
    \/ \E n, p \in Node : Promote(n, p)
    \/ \E n, p \in Node : TimePasses(n, p)
    \/ \E m \in marks : LoseMark(m)
    \/ \E b \in broadcasts : LoseBroadcast(b)
    \/ \E n, p \in Node : ReportInactivity(n, p)
    \/ \E n, p \in Node : ReportPromoted(n, p)
    \/ \E m \in marks : HandleMarkInactive(m)
    \/ \E b \in broadcasts : HandleMalformed(b)

MonitorSpec == MonitorInit /\ [][MonitorNext]_monitorVars

\* A seed checks every peer at each tick, and what the network has not lost
\* arrives.
FairMonitor ==
    /\ MonitorSpec
    /\ \A l \in Link : WF_monitorVars(ReportInactivity(l[1], l[2]))
    /\ \A m \in Mark : <<m.from, m.to>> \in Link => WF_monitorVars(HandleMarkInactive(m))

-----------------------------------------------------------------------------
(* Properties *)

\* The type invariant of the monitors.
MonitorTypeOK ==
    /\ BookTypeOK
    /\ marks \subseteq Mark
    /\ broadcasts \subseteq Forward
    /\ count \in [Node -> [Node -> 0..LongCount]]
    /\ reporters \in [Node -> [Node -> SUBSET Seed]]
    /\ aged \subseteq Node \X Node
    /\ nPromotions \in 0..MaxPromotions /\ nLosses \in 0..MaxLosses
    /\ saw \in [Node -> SUBSET Node]

\* However reports are lost, repeated or late, a seed takes a peer it did not
\* charge off its whitelist only if SeedThreshold seeds other than itself each
\* found that peer on their greylist, or LongCount reports of it came over a
\* long time.
MarkBacked ==
    [][\A n, p \in Node :
          p \in white[n] /\ p \in grey'[n] /\ pom'[n][p] = pom[n][p] =>
              \/ Cardinality({r \in Seed \ {n} : p \in saw[r]}) >= SeedThreshold
              \/ count'[n][p] >= LongCount /\ <<n, p>> \in aged]_monitorVars

\* If enough seeds keep a peer on their greylist and seed n on their whitelist,
\* n does not keep that peer on its own whitelist.
InactiveLeaves ==
    \A n \in Seed, p \in Node :
        <>[](Cardinality({r \in Seed \ {n} : p \in grey[r] /\ n \in white[r]})
                 >= SeedThreshold)
        => []<>(p \notin white[n])

(* What documents and comments say and the code does not have: TLC refutes *)
(* these (README.md, section 6).                                           *)

\* inactivity_monitor.go: "Get other seed nodes (whitelisted peers)": a mark is
\* sent to seeds only.
MarksToSeeds == \A m \in marks : m.to \in Seed

\* docs/BAR_IMPLEMENTATION_SUMMARY.md: "Misbehavior detection and automatic
\* penalties": nodes that only run the monitor are not banned.
MonitorsNotBanned == \A n \in Node : banned[n] = {}

(* What has to hold besides for MarkBacked to follow. *)

\* A report under way or recorded is of a peer its sender found inactive, and
\* no seed's own.
ReportsSeen ==
    /\ \A m \in marks : m.target \in saw[m.from] /\ m.from # m.to
    /\ \A n, p \in Node : \A r \in reporters[n][p] : r # n /\ p \in saw[r]
=============================================================================
