------------------------------- MODULE Shutdown -------------------------------
(***************************************************************************)
(* The end of start_ldk (main.rs:1177-1219) and of the process against the *)
(* tasks that are still running: the CLI, the background processor, the    *)
(* chain poll, and those that connect to peers,                            *)
(*                                                                         *)
(*   "listener"   accepts connections (Step 18),                           *)
(*   "reconnect"  connects to channel peers every second,                  *)
(*   "event"      is spawned for Event::ConnectionNeeded,                  *)
(*   "command"    is the CLI in connectpeer or openchannel.                *)
(*                                                                         *)
(* The first two look at stop_listen_connect before they connect, and the  *)
(* connection is made some time after they looked; the others never look.  *)
(* The channel manager is changed by peers, commands and events, which     *)
(* version counts, and by blocks, which height counts.                     *)
(***************************************************************************)
EXTENDS Naturals

CONSTANTS
  MaxVersion,  \* bound: changes by peers, commands and events
  MaxHeight    \* bound: blocks connected

ASSUME ConstantsAssumption == MaxVersion \in Nat /\ MaxHeight \in Nat

Connectors == {"listener", "reconnect", "event", "command"}

VARIABLES
  main,       \* where start_ldk is, or the process after it
  cli,        \* poll_for_user_input: "reading", "command" or "quit"
  bg,         \* process_events_async: "running", "stopped" (Ok) or "failed" (Err)
  stop,       \* stop_listen_connect
  exit,       \* bp_exit was sent
  connector,  \* what each connecting task is doing
  peers,      \* the connectors that have a peer connected
  late,       \* history: a peer connected after disconnect_all_peers
  version, persisted,  \* the channel manager in memory and on disk: version
  height, stored       \* and height

flags   == <<stop, exit>>
net     == <<connector, peers, late>>
manager == <<version, persisted, height, stored>>
vars    == <<main, cli, bg, flags, net, manager>>

Init ==
  /\ main = "select"
  /\ cli = "reading"
  /\ bg = "running"
  /\ stop = FALSE
  /\ exit = FALSE
  /\ connector = [c \in Connectors |-> "idle"]
  /\ peers = {}
  /\ late = FALSE
  /\ version = 0
  /\ persisted = 0
  /\ height = 0
  /\ stored = 0

Ended == main \in {"exited", "aborted"}

(* The runtime polls its tasks until main has returned and drops it.       *)
Running == ~Ended /\ main # "dropping"

-----------------------------------------------------------------------------
(* Connecting.                                                             *)

(* A connection is accepted, or the next channel peer is not connected; an *)
(* event or a command asks for one, and nobody looks at the flag.          *)
Check(c) ==
  /\ Running
  /\ connector[c] = "idle"
  /\ c = "event" => bg = "running"
  /\ c = "command" => cli = "command"
  /\ c \in {"listener", "reconnect"} => ~stop
  /\ connector' = [connector EXCEPT ![c] = "connecting"]
  /\ UNCHANGED <<main, cli, bg, flags, peers, late, manager>>

(* The flag is set: the task returns.                                      *)
Return(c) ==
  /\ Running
  /\ c \in {"listener", "reconnect"}
  /\ connector[c] = "idle"
  /\ stop
  /\ connector' = [connector EXCEPT ![c] = "returned"]
  /\ UNCHANGED <<main, cli, bg, flags, peers, late, manager>>

(* setup_inbound, or do_connect_peer.                                      *)
Connect(c) ==
  /\ Running
  /\ connector[c] = "connecting"
  /\ connector' = [connector EXCEPT ![c] = "idle"]
  /\ peers' = peers \cup {c}
  /\ late' = (late \/ main \notin {"select", "disconnect"})
  /\ UNCHANGED <<main, cli, bg, flags, manager>>

(* External: nobody answers.                                               *)
ConnectFails(c) ==
  /\ Running
  /\ connector[c] = "connecting"
  /\ connector' = [connector EXCEPT ![c] = "idle"]
  /\ UNCHANGED <<main, cli, bg, flags, peers, late, manager>>

(* External: the peer of c goes.                                           *)
Leave(c) ==
  /\ Running
  /\ c \in peers
  /\ peers' = peers \ {c}
  /\ UNCHANGED <<main, cli, bg, flags, connector, late, manager>>

-----------------------------------------------------------------------------
(* The channel manager.                                                    *)

(* External: a message of a peer, a command or the handling of an event.   *)
UpdateChannel ==
  /\ Running
  /\ peers # {} \/ cli = "command" \/ bg = "running"
  /\ version < MaxVersion
  /\ version' = version + 1
  /\ UNCHANGED <<main, cli, bg, flags, net, persisted, height, stored>>

(* poll_best_tip connects a block, with or without peers: the task watches *)
(* no flag and ends with the runtime.                                      *)
ConnectBlock ==
  /\ Running
  /\ height < MaxHeight
  /\ height' = height + 1
  /\ UNCHANGED <<main, cli, bg, flags, net, version, persisted, stored>>

(* External: process_events_async writes the manager as it is, or cannot.  *)
WriteManager(end) ==
  \/ persisted' = version /\ stored' = height /\ bg' = end
  \/ bg' = "failed" /\ UNCHANGED <<persisted, stored>>

(* External: process_events_async persists the channel manager, and ends   *)
(* with the error if it cannot.                                            *)
Persist ==
  /\ Running
  /\ bg = "running"
  /\ <<version, height>> # <<persisted, stored>>
  /\ WriteManager("running")
  /\ UNCHANGED <<main, cli, flags, net, version, height>>

(* Faulty variant: a sleep that begins after the signal does not see it.   *)
SignalMissed == FALSE

(* Each sleep watches a fresh clone of a receiver that never saw a value,  *)
(* so the signal is seen whenever it was sent (main.rs:1067-1075).         *)
ExitSignalled == exit

(* It persists once more before it returns.                                *)
StopProcessing ==
  /\ Running
  /\ bg = "running"
  /\ ExitSignalled
  /\ WriteManager("stopped")
  /\ UNCHANGED <<main, cli, flags, net, version, height>>

-----------------------------------------------------------------------------
(* The CLI.                                                                *)

(* next_line: a line with a command.                                       *)
ReadCommand ==
  /\ Running
  /\ cli = "reading"
  /\ cli' = "command"
  /\ UNCHANGED <<main, bg, flags, net, manager>>

EndCommand ==
  /\ Running
  /\ cli = "command"
  /\ connector["command"] = "idle"
  /\ cli' = "reading"
  /\ UNCHANGED <<main, bg, flags, net, manager>>

(* quit, exit, the end of the input or an error.  A line that comes while  *)
(* the runtime is dropped has nobody to run it, but ends the read.         *)
Quit ==
  /\ ~Ended
  /\ cli = "reading"
  /\ cli' = "quit"
  /\ UNCHANGED <<main, bg, flags, net, manager>>

-----------------------------------------------------------------------------
(* The end of start_ldk.                                                   *)

(* Faulty variant: the flag is not set.                                    *)
SelectWithoutStop ==
  /\ main = "select"
  /\ cli = "quit" \/ bg # "running"
  /\ main' = "disconnect"
  /\ UNCHANGED <<cli, bg, flags, net, manager>>

(* tokio::select! of the CLI and the background processor, and the store   *)
(* of the flag.                                                            *)
Select ==
  /\ main = "select"
  /\ cli = "quit" \/ bg # "running"
  /\ main' = "disconnect"
  /\ stop' = TRUE
  /\ UNCHANGED <<cli, bg, exit, net, manager>>

(* disconnect_all_peers.  bg_res is an Err only if the task was cancelled  *)
(* or panicked, which it cannot be: nobody cancels it, and a panic aborts. *)
(* Ok(Err(e)) passes, so the last-ditch persistence is never reached.      *)
Disconnect ==
  /\ main = "disconnect"
  /\ main' = "check"
  /\ peers' = {}
  /\ UNCHANGED <<cli, bg, flags, connector, late, manager>>

(* bp_exit.is_closed(): the receiver goes with the background processor.   *)
CheckClosed ==
  /\ main = "check"
  /\ main' = IF bg = "running" THEN "send" ELSE "returned"
  /\ UNCHANGED <<cli, bg, flags, net, manager>>

(* bp_exit.send(()).unwrap(): an error if the receiver went meanwhile.     *)
SendExit ==
  /\ main = "send"
  /\ IF bg = "running" THEN main' = "await" /\ exit' = TRUE
                       ELSE main' = "aborted" /\ UNCHANGED exit
  /\ UNCHANGED <<cli, bg, stop, net, manager>>

(* Faulty variant: the process does not wait for the background processor. *)
ExitAtOnce ==
  /\ main = "await"
  /\ main' = "returned"
  /\ UNCHANGED <<cli, bg, flags, net, manager>>

(* background_processor.await.unwrap().unwrap()                            *)
AwaitProcessor ==
  /\ main = "await"
  /\ bg # "running"
  /\ main' = IF bg = "stopped" THEN "returned" ELSE "aborted"
  /\ UNCHANGED <<cli, bg, flags, net, manager>>

(* start_ldk().await has returned: the runtime is dropped, and every task  *)
(* with it where it awaits something.                                      *)
DropRuntime ==
  /\ main = "returned"
  /\ main' = "dropping"
  /\ UNCHANGED <<cli, bg, flags, net, manager>>

(* The drop waits for the threads of the runtime, and one of them is in a  *)
(* blocking read of stdin if the CLI was reading.                          *)
Exit ==
  /\ main = "dropping"
  /\ cli # "reading"
  /\ main' = "exited"
  /\ UNCHANGED <<cli, bg, flags, net, manager>>

MainStep ==
  Select \/ Disconnect \/ CheckClosed \/ SendExit \/ AwaitProcessor \/ DropRuntime \/ Exit

Next ==
  \/ \E c \in Connectors : Check(c) \/ Return(c) \/ Connect(c) \/ ConnectFails(c) \/ Leave(c)
  \/ UpdateChannel \/ ConnectBlock
  \/ Persist \/ StopProcessing
  \/ ReadCommand \/ EndCommand \/ Quit
  \/ MainStep

Spec == Init /\ [][Next]_vars

(* start_ldk and the background processor are scheduled by the runtime.    *)
FairSpec == Spec /\ WF_vars(MainStep) /\ WF_vars(StopProcessing)

-----------------------------------------------------------------------------
(* Properties.                                                             *)

(* Every variable holds a value the program can put there, and no more is  *)
(* on disk than was in memory.                                             *)
TypeOK ==
  /\ main \in {"select", "disconnect", "check", "send", "await",
               "returned", "dropping", "exited", "aborted"}
  /\ cli \in {"reading", "command", "quit"}
  /\ bg \in {"running", "stopped", "failed"}
  /\ stop \in BOOLEAN
  /\ stop <=> main # "select"
  /\ exit \in BOOLEAN
  /\ connector \in [Connectors -> {"idle", "connecting", "returned"}]
  /\ peers \subseteq Connectors
  /\ late \in BOOLEAN
  /\ version \in 0..MaxVersion
  /\ persisted \in 0..version
  /\ height \in 0..MaxHeight
  /\ stored \in 0..height

(* A node whose disk works leaves with every change of peers, commands and *)
(* events on disk (main.rs:1185-1219), but for what a peer did that        *)
(* connected after all peers were disconnected.  Blocks are excepted: the  *)
(* poll goes on after the last write, and what it connected then is        *)
(* connected again by the next start (Startup, InStep).                    *)
QuitPersists ==
  main \in {"returned", "dropping", "exited"} /\ bg # "failed" =>
    version = persisted \/ late

(* Where a node is that leaves by itself while the user types nothing.     *)
AwaitsEnter == main = "dropping" /\ cli = "reading"

(* The node ends when it should: after a quit in any case, and when the    *)
(* background processor ended first it ends or waits for a line of input   *)
(* and for nothing else (main.rs:1177-1219, 1247-1248).                    *)
NodeEnds ==
  /\ cli = "quit" ~> Ended
  /\ bg # "running" ~> Ended \/ AwaitsEnter

(* "Disconnect our peers and stop accepting new connections. This ensures  *)
(* we don't continue updating our channel data after we've stopped the     *)
(* background processor" (main.rs:1187-1188): after it has stopped nothing *)
(* but a block changes the channel manager.                                *)
NoUpdateAfterStop == [][bg = "stopped" => version' = version]_vars

(* "Last-ditch ChannelManager persistence" (main.rs:1192-1213): a node     *)
(* whose background processor failed does not leave silently with changes  *)
(* that are not on disk.                                                   *)
FailureIsLastDitch == main = "exited" => version = persisted \/ bg # "failed"
=============================================================================
