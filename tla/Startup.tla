-------------------------------- MODULE Startup --------------------------------
(***************************************************************************)
(* How start_ldk brings the node up (main.rs, Steps 4 to 19): the seed of  *)
(* its keys, then everything that listens to the chain,                    *)
(*                                                                         *)
(*   the ChannelManager   read from disk, or made at the polled tip,       *)
(*   the OutputSweeper    read from disk, or made where the manager is,    *)
(*   the ChannelMonitors  read from disk, watched if there is a manager,   *)
(*                                                                         *)
(* brought to the same block, and from there on by the SpvClient's poll.   *)
(* Each is written to disk on its own, so a crash leaves each at a block   *)
(* of its own.  A block is its height: reorganisations are LDK's affair.   *)
(* A start that fails before the seed is read changes nothing and is left  *)
(* out.  A failed assertion or unwrap aborts the process (Cargo.toml).     *)
(***************************************************************************)
EXTENDS Naturals

CONSTANTS
  Monitors,   \* the channels' monitors
  MaxHeight,  \* bound: blocks
  MaxCrashes  \* bound: deaths of the process not caused by itself

Listeners == {"manager", "sweeper"} \cup Monitors

ASSUME ConstantsAssumption ==
  /\ {"manager", "sweeper"} \cap Monitors = {}
  /\ MaxHeight \in Nat \ {0}
  /\ MaxCrashes \in Nat

VARIABLES
  seed,        \* the file keys_seed: "absent", "short" (created, not written) or "whole"
  disk,        \* the block each listener was written at, 0 if it never was
  best,        \* the best block of each listener in memory, 0 if it is not there
  watched,     \* the monitors given to the ChainMonitor
  restarting,  \* restarting_node
  tip,         \* polled_chain_tip, then chain_tip, then the SpvClient's
  pc,          \* where start_ldk is; "running" from Step 19 on
  height,      \* external: the best block of bitcoind, at most MaxHeight
  crashes      \* at most MaxCrashes

vars == <<seed, disk, best, watched, restarting, tip, pc, height, crashes>>

Nothing == [l \in Listeners |-> 0]

Init ==
  /\ seed = "absent"
  /\ disk = Nothing
  /\ best = Nothing
  /\ watched = {}
  /\ restarting = FALSE
  /\ tip = 0
  /\ pc = "down"
  /\ height = 1
  /\ crashes = 0

Goto(here, there) == pc = here /\ pc' = there

(* What is in memory is gone.                                              *)
Die ==
  /\ pc' = "down"
  /\ best' = Nothing
  /\ watched' = {}
  /\ restarting' = FALSE
  /\ tip' = 0
  /\ UNCHANGED <<seed, disk, height>>

-----------------------------------------------------------------------------
Start ==
  /\ Goto("down", "seed")
  /\ UNCHANGED <<seed, disk, best, watched, restarting, tip, height, crashes>>

ReadSeed ==
  /\ seed = "whole"
  /\ Goto("seed", "monitors")
  /\ UNCHANGED <<seed, disk, best, watched, restarting, tip, height, crashes>>

(* assert_eq!(seed.len(), 32)                                              *)
SeedAssertionFails == pc = "seed" /\ seed = "short" /\ Die /\ UNCHANGED crashes

(* Faulty variant: a node with a fresh seed does not write it.             *)
CreateSeedInMemory ==
  /\ seed = "absent"
  /\ Goto("seed", "monitors")
  /\ UNCHANGED <<seed, disk, best, watched, restarting, tip, height, crashes>>

(* File::create, and write_all with sync_all.                              *)
CreateSeed ==
  /\ seed = "absent"
  /\ Goto("seed", "writeSeed")
  /\ seed' = "short"
  /\ UNCHANGED <<disk, best, watched, restarting, tip, height, crashes>>

WriteSeed ==
  /\ Goto("writeSeed", "monitors")
  /\ seed' = "whole"
  /\ UNCHANGED <<disk, best, watched, restarting, tip, height, crashes>>

ReadMonitors ==
  /\ Goto("monitors", "poll")
  /\ best' = [l \in Listeners |-> IF l \in Monitors THEN disk[l] ELSE 0]
  /\ UNCHANGED <<seed, disk, watched, restarting, tip, height, crashes>>

(* Faulty variant: the tip is off by one.                                  *)
PollNextTip ==
  /\ Goto("poll", "manager")
  /\ tip' = height + 1
  /\ UNCHANGED <<seed, disk, best, watched, restarting, height, crashes>>

PollChainTip ==
  /\ Goto("poll", "manager")
  /\ tip' = height
  /\ UNCHANGED <<seed, disk, best, watched, restarting, height, crashes>>

(* Faulty variant: a node that was restarted is taken for a fresh one.     *)
ReadManagerAsFresh ==
  /\ disk["manager"] # 0
  /\ Goto("manager", "sweeper")
  /\ best' = [best EXCEPT !["manager"] = tip]
  /\ UNCHANGED <<seed, disk, watched, restarting, tip, height, crashes>>

ReadManager ==
  /\ disk["manager"] # 0
  /\ Goto("manager", "sweeper")
  /\ best' = [best EXCEPT !["manager"] = disk["manager"]]
  /\ restarting' = TRUE
  /\ UNCHANGED <<seed, disk, watched, tip, height, crashes>>

FreshManager ==
  /\ disk["manager"] = 0
  /\ Goto("manager", "sweeper")
  /\ best' = [best EXCEPT !["manager"] = tip]
  /\ UNCHANGED <<seed, disk, watched, restarting, tip, height, crashes>>

(* Faulty variant: a manager without a sweeper is an error.                *)
ReadStoredSweeper ==
  /\ disk["sweeper"] # 0 \/ ~restarting
  /\ Goto("sweeper", "sync")
  /\ best' = [best EXCEPT !["sweeper"] =
                IF disk["sweeper"] = 0 THEN best["manager"] ELSE disk["sweeper"]]
  /\ UNCHANGED <<seed, disk, watched, restarting, tip, height, crashes>>

ReadSweeper ==
  /\ Goto("sweeper", "sync")
  /\ best' = [best EXCEPT !["sweeper"] =
                IF disk["sweeper"] = 0 THEN best["manager"] ELSE disk["sweeper"]]
  /\ UNCHANGED <<seed, disk, watched, restarting, tip, height, crashes>>

(* Faulty variant: the sweeper is not among the listeners.                 *)
SynchronizeWithoutSweeper ==
  /\ restarting
  /\ Goto("sync", "load")
  /\ best' = [l \in Listeners |-> IF best[l] = 0 \/ l = "sweeper" THEN best[l] ELSE height]
  /\ tip' = height
  /\ UNCHANGED <<seed, disk, watched, restarting, height, crashes>>

(* Faulty variant: the client goes on from the tip that was polled first.  *)
SynchronizeAfterPoll ==
  /\ restarting
  /\ Goto("sync", "load")
  /\ best' = [l \in Listeners |-> IF best[l] = 0 THEN 0 ELSE height]
  /\ UNCHANGED <<seed, disk, watched, restarting, tip, height, crashes>>

(* init::synchronize_listeners; a fresh node is where it polled the tip.   *)
SynchronizeListeners ==
  /\ restarting
  /\ Goto("sync", "load")
  /\ best' = [l \in Listeners |-> IF best[l] = 0 THEN 0 ELSE height]
  /\ tip' = height
  /\ UNCHANGED <<seed, disk, watched, restarting, height, crashes>>

SkipSynchronization ==
  /\ ~restarting
  /\ Goto("sync", "load")
  /\ UNCHANGED <<seed, disk, best, watched, restarting, tip, height, crashes>>

(* load_existing_monitor for each monitor that was synchronised: a fresh   *)
(* node has none, whatever it has read.                                    *)
LoadMonitors ==
  /\ Goto("load", "running")
  /\ watched' = IF restarting THEN {m \in Monitors : best[m] # 0} ELSE {}
  /\ UNCHANGED <<seed, disk, best, restarting, tip, height, crashes>>

-----------------------------------------------------------------------------
(* The poll: main.rs:967-977.  LDK connects the blocks after the client's  *)
(* tip to each listener, and the listener asserts that it was at that tip. *)
Active == {"manager", "sweeper"} \cup watched

PollBestTip ==
  /\ pc = "running"
  /\ tip # height
  /\ \A l \in Active : best[l] = tip
  /\ best' = [l \in Listeners |-> IF l \in Active THEN height ELSE best[l]]
  /\ tip' = height
  /\ UNCHANGED <<seed, disk, watched, restarting, pc, height, crashes>>

PollAborts ==
  /\ pc = "running"
  /\ tip # height
  /\ \E l \in Active : best[l] # tip
  /\ Die
  /\ UNCHANGED crashes

-----------------------------------------------------------------------------
(* External.                                                               *)

NewBlock ==
  /\ height < MaxHeight
  /\ height' = height + 1
  /\ UNCHANGED <<seed, disk, best, watched, restarting, tip, pc, crashes>>

(* The background processor and the persister of the monitors write each   *)
(* listener when it has changed, in no order.                              *)
Persist(l) ==
  /\ pc = "running"
  /\ l \in Active
  /\ disk[l] # best[l]
  /\ disk' = [disk EXCEPT ![l] = best[l]]
  /\ UNCHANGED <<seed, best, watched, restarting, tip, pc, height, crashes>>

(* A channel is opened: its monitor is written first.  By then the manager *)
(* has been written, for it was changed when the negotiation began.        *)
OpenChannel(m) ==
  /\ pc = "running"
  /\ disk["manager"] # 0
  /\ disk[m] = 0
  /\ disk' = [disk EXCEPT ![m] = best["manager"]]
  /\ best' = [best EXCEPT ![m] = best["manager"]]
  /\ watched' = watched \cup {m}
  /\ UNCHANGED <<seed, restarting, tip, pc, height, crashes>>

Crash ==
  /\ pc # "down"
  /\ crashes < MaxCrashes
  /\ crashes' = crashes + 1
  /\ Die

StartStep ==
  \/ ReadSeed \/ SeedAssertionFails \/ CreateSeed \/ WriteSeed
  \/ ReadMonitors \/ PollChainTip
  \/ ReadManager \/ FreshManager \/ ReadSweeper
  \/ SynchronizeListeners \/ SkipSynchronization \/ LoadMonitors

PollStep == PollBestTip \/ PollAborts

Next ==
  \/ Start
  \/ StartStep
  \/ PollStep
  \/ NewBlock
  \/ \E l \in Listeners : Persist(l)
  \/ \E m \in Monitors : OpenChannel(m)
  \/ Crash

Spec == Init /\ [][Next]_vars

(* The node is started again, start_ldk goes on, and the poll runs every   *)
(* second.                                                                 *)
FairSpec == Spec /\ WF_vars(Start) /\ WF_vars(StartStep) /\ WF_vars(PollStep)

-----------------------------------------------------------------------------
(* Properties.                                                             *)

(* Every variable holds a value the program can put there.                 *)
TypeOK ==
  /\ seed \in {"absent", "short", "whole"}
  /\ disk \in [Listeners -> 0..height]
  /\ best \in [Listeners -> 0..height]
  /\ watched \subseteq Monitors
  /\ restarting \in BOOLEAN
  /\ tip \in 0..height
  /\ pc \in {"down", "seed", "writeSeed", "monitors", "poll", "manager", "sweeper",
             "sync", "load", "running"}
  /\ height \in 1..MaxHeight
  /\ crashes \in 0..MaxCrashes

(* Nothing is made, read or stored under keys that a restart would not     *)
(* find again (main.rs:646-667).                                           *)
SeedIsDurable ==
  pc \notin {"down", "seed", "writeSeed"} \/ disk # Nothing => seed = "whole"

(* While the node runs, everything that was synchronised is at the tip     *)
(* from which the SpvClient goes on, however far apart a crash has left    *)
(* the files and however many blocks came meanwhile (main.rs:833-868).     *)
(* The sweeper of a node without a manager is the exception: PollAborts.   *)
InStep ==
  pc = "running" =>
    \A l \in Active : (l = "sweeper" => restarting) => best[l] = tip

(* No channel is left unwatched: every stored monitor is given to the      *)
(* ChainMonitor (main.rs:844-851, 870-880).                                *)
NoMonitorLeftOut ==
  pc = "running" => \A m \in Monitors : disk[m] # 0 => m \in watched

(* Seen from outside, the node comes up at a block that is not behind its  *)
(* files, with every stored channel watched, and from then on what it      *)
(* stores is the block from which the SpvClient goes on: no file ever goes *)
(* back, whatever crashes and however the chain grows during a start       *)
(* (main.rs:714-880, 967-977).                                             *)
View == INSTANCE ChainView WITH
  chain <- height,
  at    <- IF pc = "running" THEN tip ELSE 0,
  saved <- disk

ImplementsChainView == View!Spec

(* A node that once got its seed and its manager on disk comes up and      *)
(* follows the chain, whenever it crashed before.                          *)
KeepsUp ==
  <>[](seed = "whole" /\ disk["manager"] # 0)
    => <>[](pc = "running" /\ tip = height)
=============================================================================
