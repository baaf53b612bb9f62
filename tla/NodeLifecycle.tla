--------------------------- MODULE NodeLifecycle ----------------------------
(***************************************************************************)
(* The process around the chain: main (main.go) from the removal of the    *)
(* old database to the running node, the shutdown manager with its hooks   *)
(* (graceful_shutdown.go) and the requests that run them (api.go), over    *)
(* the chain on disk of module ChainStore.  A shutdown closes the store    *)
(* while the node's loops go on: AddBlock may be between two of its Puts.  *)
(* What ChainStore says of a look-up holds while the store is open; on a   *)
(* closed one every look-up but that of the genesis block is an error.     *)
(*                                                                         *)
(* The hooks that return nil without doing anything (handshake,            *)
(* optimistic-push, api-server) are left out.                              *)
(***************************************************************************)
EXTENDS ChainStore, Sequences

CONSTANTS
    Request     \* bound: the POST /shutdown requests of one process

ASSUME RequestAssumption == "signal" \notin Request

VARIABLES
    main,       \* the process: off, boot (until node.Start), up
    mode,       \* "cli" when started with -cli, else "service"
    closed,     \* the components whose hook has run
    at          \* [Stopper -> the hook it runs next, 0 before Shutdown]

processVars == <<main, mode, closed, at>>
nodeVars == <<vars, processVars>>

\* ListenAndServe's goroutine takes one signal; every request runs Shutdown.
Stopper == Request \cup {"signal"}

\* In the order of registration.
Hooks == <<"p2p", "blockchain", "validators", "inactivity-monitor">>
Components == {Hooks[i] : i \in 1..Len(Hooks)}

NodeInit ==
    /\ Init
    /\ main = "off"
    /\ mode = "service"
    /\ closed = {}
    /\ at = [s \in Stopper |-> 0]

-----------------------------------------------------------------------------
(* main *)

\* What the process held in memory goes with it.
ProcessEnds ==
    /\ main' = "off"
    /\ mode' = "service"
    /\ closed' = {}
    /\ at' = [s \in Stopper |-> 0]

\* The database of the last process is removed; when that fails the process
\* goes on with it.
Launch ==
    /\ main = "off"
    /\ main' = "boot"
    /\ mode' \in {"service", "cli"}
    /\ UNCHANGED <<closed, at>>
    /\ \/ /\ disk' = [h \in Height |-> None]
          /\ diskTip' = None /\ diskHeight' = None
          /\ last' = None /\ applied' = None
       \/ UNCHANGED <<diskVars, last, applied>>
    /\ UNCHANGED <<pc, blk, memVars, state>>

\* NewBlockchain, up to the genesis block in the store.
OpenChain ==
    /\ main = "boot"
    /\ \/ OpenExisting \/ OpenFresh \/ PutInitialTip \/ PutInitialHeight
    /\ UNCHANGED processVars

\* node.Start, the API server and, without -cli, the signal handler.
StartNode ==
    /\ main = "boot" /\ pc = "idle"
    /\ main' = "up"
    /\ UNCHANGED <<vars, mode, closed, at>>

\* The process ends: killed, by log.Fatal, or by returning from main after the
\* CLI.  No hook runs.
Die ==
    /\ main # "off"
    /\ Crash \/ (pc = "down" /\ UNCHANGED vars)
    /\ ProcessEnds

\* With -fast-sync-peer a new process imports the peer's accounts and asks for
\* /api/v1/node/status.  No server has that path: the answer does not decode
\* and main calls log.Fatalf.
FastSync ==
    /\ main = "boot" /\ pc = "idle"
    /\ currentHeight < 10
    /\ Crash
    /\ ProcessEnds

-----------------------------------------------------------------------------
(* The node at work *)

StoreOpen == "blockchain" \notin closed

\* A Put needs an open store.
WriteChain ==
    /\ StoreOpen
    /\ PutBlock \/ PutTip \/ PutHeight
    /\ UNCHANGED processVars

\* The error of NewBlockchain ends the process.
PutError ==
    /\ PutFails
    /\ IF pc' = "down" THEN ProcessEnds ELSE UNCHANGED processVars

NodeWork ==
    /\ main = "up"
    /\ (\E b \in Block : AddBlock(b)) \/ ApplyBlock
    /\ UNCHANGED processVars

-----------------------------------------------------------------------------
(* Shutdown *)

\* gs.cancel cancels a context nobody waits for.
Shutdown(s) ==
    /\ main = "up"
    /\ s = "signal" => mode = "service"
    /\ at[s] = 0
    /\ at' = [at EXCEPT ![s] = 1]
    /\ UNCHANGED <<vars, main, mode, closed>>

\* InactivityMonitor.Stop closes its channel: the second call panics.
Panics(c) == c = "inactivity-monitor" /\ c \in closed

\* Mutant: Shutdown leaves its loop at the first hook that returns an error.
RunHookStopsOnError(s) ==
    /\ main = "up" /\ at[s] \in 1..Len(Hooks)
    /\ ~ Panics(Hooks[at[s]])
    /\ closed' = closed \cup {Hooks[at[s]]}
    /\ \E next \in {at[s] + 1, Len(Hooks) + 1} : at' = [at EXCEPT ![s] = next]
    /\ UNCHANGED <<vars, main, mode>>

\* One iteration of Shutdown's loop.  A hook's error is recorded and ignored;
\* closing a closed store or host does nothing.
RunHook(s) ==
    /\ main = "up" /\ at[s] \in 1..Len(Hooks)
    /\ LET c == Hooks[at[s]] IN
       \/ /\ ~ Panics(c)
          /\ closed' = closed \cup {c}
          /\ at' = [at EXCEPT ![s] = @ + 1]
          /\ UNCHANGED <<vars, main, mode>>
       \/ /\ Panics(c)
          /\ Die

NodeNext ==
    \/ Launch
    \/ OpenChain
    \/ StartNode
    \/ Die
    \/ FastSync
    \/ WriteChain
    \/ PutError
    \/ NodeWork
    \/ \E s \in Stopper : Shutdown(s)
    \/ \E s \in Stopper : RunHook(s)

\* Shutdown's loop runs on.
NodeSpec ==
    /\ NodeInit /\ [][NodeNext]_nodeVars
    /\ \A s \in Stopper : WF_nodeVars(RunHook(s))

-----------------------------------------------------------------------------
(* Properties *)

ProcessTypeOK ==
    /\ main \in {"off", "boot", "up"}
    /\ mode \in {"service", "cli"}
    /\ closed \subseteq Components
    /\ at \in [Stopper -> 0..Len(Hooks) + 1]

\* The type invariant of the process and its chain.
NodeTypeOK == TypeOK /\ ProcessTypeOK

\* However many shutdowns overlap and whatever the hooks return, a shutdown
\* that has begun stops every component, unless the process ends before.
ShutdownCompletes ==
    \A s \in Stopper : at[s] > 0 /\ main = "up" ~> main = "off" \/ closed = Components

(* What documents and comments say and the code does not have: TLC refutes *)
(* these (README.md, section 6).                                           *)

\* docs/QUICKSTART.md: "Stop the node with Ctrl+C or SIGTERM; all components will
\* shut down cleanly and report status": stopping never panics.
StopsCleanly ==
    \A s \in Stopper :
        main = "up" /\ at[s] \in 1..Len(Hooks) => ~ Panics(Hooks[at[s]])

\* The same line: the process ends after a signal.
SignalEnds == at["signal"] > 0 ~> main = "off"

\* docs/CLI_USAGE.md of the command exit: "Exits the CLI and shuts down the node
\* gracefully": a running node does not end with a component still open.
EndsStopped == [][main = "up" /\ main' = "off" => closed = Components]_nodeVars

(* What has to hold besides for the invariants to be inductive. *)

\* A chain that is not open reports height 0.
ClosedAtZero ==
    \/ pc \in {"down", "initTip", "initHeight"}
    \/ pc \in {"block", "tip", "height"} /\ blk = Genesis
    => currentHeight = 0

OffDown == main = "off" => pc = "down"

NodeInv == ChainInv /\ NodeTypeOK /\ ClosedAtZero /\ OffDown
=============================================================================
