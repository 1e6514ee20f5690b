---------------------------- MODULE Startup_proofs ----------------------------
(***************************************************************************)
(* Theorems about Startup, for every set of monitors, any number of blocks *)
(* and any number of crashes.                                              *)
(*                                                                         *)
(* Every step of start_ldk relies on what an earlier one has read, so the  *)
(* invariant follows the listeners through it: what is in memory is what   *)
(* is stored until it is synchronised (Loaded), and from then on it is at  *)
(* the tip (AtTip), which no file is ahead of (NotBehind): ChainView.      *)
(***************************************************************************)
EXTENDS Startup, TLAPS

(* What was read, and whether the node is restarting.                      *)
Loaded ==
  /\ pc \in {"poll", "manager", "sweeper", "sync"} => \A m \in Monitors : best[m] = disk[m]
  /\ pc = "load" => \A m \in Monitors : best[m] = 0 <=> disk[m] = 0
  /\ pc \in {"down", "seed", "writeSeed", "monitors", "poll", "manager"} => ~restarting
  /\ pc \in {"sweeper", "sync", "load"} => (restarting <=> disk["manager"] # 0)
  /\ \A m \in Monitors : disk[m] # 0 \/ m \in watched => disk["manager"] # 0
  /\ pc \in {"manager", "sweeper", "sync"} => tip # 0
  /\ pc \in {"sweeper", "sync", "load", "running"} => best["manager"] # 0

(* Where the listeners are.                                                *)
AtTip ==
  /\ pc \in {"sweeper", "sync"} /\ ~restarting => best["manager"] = tip
  /\ pc = "sync" => best["sweeper"] # 0
  /\ pc = "load" => best["manager"] = tip
  /\ pc = "load" /\ restarting =>
       best["sweeper"] = tip /\ \A m \in Monitors : best[m] \in {0, tip}

LEMMA ListenersAre ==
  /\ "manager" \in Listeners /\ "sweeper" \in Listeners /\ "manager" # "sweeper"
  /\ \A m \in Monitors : m \in Listeners /\ m # "manager" /\ m # "sweeper"
  /\ \A l \in Listeners : l = "manager" \/ l = "sweeper" \/ l \in Monitors
  BY ConstantsAssumption DEF Listeners

LEMMA BoundsAre == MaxHeight \in Nat \ {0} /\ MaxCrashes \in Nat
  BY ConstantsAssumption

LEMMA NothingIs == \A h \in Nat : Nothing \in [Listeners -> 0..h]
  BY DEF Nothing

LEMMA TypeInit == Init => TypeOK
<1> SUFFICES ASSUME Init PROVE TypeOK
  OBVIOUS
<1>1. disk \in [Listeners -> 0..height] /\ best \in [Listeners -> 0..height]
  BY NothingIs DEF Init
<1>2. 1 \in 1..MaxHeight
  BY BoundsAre
<1>3. 0 \in 0..MaxCrashes /\ 0 \in 0..1
  BY BoundsAre
<1> QED  BY <1>1, <1>2, <1>3 DEF Init, TypeOK

LEMMA TypeDie == TypeOK /\ Die /\ crashes' \in 0..MaxCrashes => TypeOK'
<1> SUFFICES ASSUME TypeOK, Die, crashes' \in 0..MaxCrashes PROVE TypeOK'
  OBVIOUS
<1>1. best' \in [Listeners -> 0..height']
  BY NothingIs DEF TypeOK, Die
<1>2. tip' \in 0..height'
  BY DEF TypeOK, Die
<1> QED  BY <1>1, <1>2 DEF TypeOK, Die

(* A step of start_ldk keeps the types.                                    *)
LEMMA TypeNext == TypeOK /\ [Next]_vars => TypeOK'
<1> SUFFICES ASSUME TypeOK, [Next]_vars PROVE TypeOK'
  OBVIOUS
<1> USE ListenersAre, BoundsAre DEF TypeOK
<1>1. CASE Start
  BY <1>1 DEF Start, Goto
<1>2. CASE ReadSeed
  BY <1>2 DEF ReadSeed, Goto
<1>3. CASE SeedAssertionFails
  BY <1>3, TypeDie DEF SeedAssertionFails
<1>4. CASE CreateSeed
  BY <1>4 DEF CreateSeed, Goto
<1>5. CASE WriteSeed
  BY <1>5 DEF WriteSeed, Goto
<1>6. CASE ReadMonitors
  BY <1>6 DEF ReadMonitors, Goto
<1>7. CASE PollChainTip
  BY <1>7 DEF PollChainTip, Goto
<1>8. CASE ReadManager
  BY <1>8 DEF ReadManager, Goto
<1>9. CASE FreshManager
  BY <1>9 DEF FreshManager, Goto
<1>10. CASE ReadSweeper
  BY <1>10 DEF ReadSweeper, Goto
<1>11. CASE SynchronizeListeners
  BY <1>11 DEF SynchronizeListeners, Goto
<1>12. CASE SkipSynchronization
  BY <1>12 DEF SkipSynchronization, Goto
<1>13. CASE LoadMonitors
  BY <1>13 DEF LoadMonitors, Goto
<1>14. CASE PollBestTip
  BY <1>14 DEF PollBestTip, Active
<1>15. CASE PollAborts
  BY <1>15, TypeDie DEF PollAborts
<1>16. CASE NewBlock
  BY <1>16 DEF NewBlock
<1>17. ASSUME NEW l \in Listeners, Persist(l) PROVE TypeOK'
  BY <1>17 DEF Persist, Active
<1>18. ASSUME NEW m \in Monitors, OpenChannel(m) PROVE TypeOK'
  BY <1>18 DEF OpenChannel
<1>19. CASE Crash
  BY <1>19, TypeDie DEF Crash
<1>20. CASE UNCHANGED vars
  BY <1>20 DEF vars
<1> QED  BY <1>1, <1>2, <1>3, <1>4, <1>5, <1>6, <1>7, <1>8, <1>9,
            <1>10, <1>11, <1>12, <1>13, <1>14, <1>15, <1>16, <1>17, <1>18,
            <1>19, <1>20 DEF Next, StartStep, PollStep

(* Every variable holds a value the program can put there (main.rs:646-977). *)
THEOREM TypeCorrect == Spec => []TypeOK
  BY TypeInit, TypeNext, PTL DEF Spec

-----------------------------------------------------------------------------
LEMMA SeedNext == TypeOK /\ SeedIsDurable /\ [Next]_vars => SeedIsDurable'
<1> SUFFICES ASSUME TypeOK, SeedIsDurable, [Next]_vars PROVE SeedIsDurable'
  OBVIOUS
<1> USE DEF TypeOK, SeedIsDurable
<1>1. CASE Start
  BY <1>1 DEF Start, Goto
<1>2. CASE ReadSeed
  BY <1>2 DEF ReadSeed, Goto
<1>3. CASE SeedAssertionFails
  BY <1>3 DEF SeedAssertionFails, Die
<1>4. CASE CreateSeed
  BY <1>4 DEF CreateSeed, Goto
<1>5. CASE WriteSeed
  BY <1>5 DEF WriteSeed, Goto
<1>6. CASE ReadMonitors
  BY <1>6 DEF ReadMonitors, Goto
<1>7. CASE PollChainTip
  BY <1>7 DEF PollChainTip, Goto
<1>8. CASE ReadManager
  BY <1>8 DEF ReadManager, Goto
<1>9. CASE FreshManager
  BY <1>9 DEF FreshManager, Goto
<1>10. CASE ReadSweeper
  BY <1>10 DEF ReadSweeper, Goto
<1>11. CASE SynchronizeListeners
  BY <1>11 DEF SynchronizeListeners, Goto
<1>12. CASE SkipSynchronization
  BY <1>12 DEF SkipSynchronization, Goto
<1>13. CASE LoadMonitors
  BY <1>13 DEF LoadMonitors, Goto
<1>14. CASE PollBestTip
  BY <1>14 DEF PollBestTip, Active
<1>15. CASE PollAborts
  BY <1>15 DEF PollAborts, Die
<1>16. CASE NewBlock
  BY <1>16 DEF NewBlock
<1>17. ASSUME NEW l \in Listeners, Persist(l) PROVE SeedIsDurable'
  BY <1>17 DEF Persist, Active
<1>18. ASSUME NEW m \in Monitors, OpenChannel(m) PROVE SeedIsDurable'
  BY <1>18 DEF OpenChannel
<1>19. CASE Crash
  BY <1>19 DEF Crash, Die
<1>20. CASE UNCHANGED vars
  BY <1>20 DEF vars
<1> QED  BY <1>1, <1>2, <1>3, <1>4, <1>5, <1>6, <1>7, <1>8, <1>9,
            <1>10, <1>11, <1>12, <1>13, <1>14, <1>15, <1>16, <1>17, <1>18,
            <1>19, <1>20 DEF Next, StartStep, PollStep

(* Whatever the node stores, and whatever it makes of its keys, is made     *)
(* under a seed that every later start finds again (main.rs:646-667).       *)
THEOREM SeedIsDurableCorrect == Spec => []SeedIsDurable
<1>1. Init => SeedIsDurable
  BY DEF Init, SeedIsDurable
<1> QED  BY <1>1, TypeCorrect, SeedNext, PTL DEF Spec

-----------------------------------------------------------------------------
LEMMA LoadedNext == TypeOK /\ Loaded /\ [Next]_vars => Loaded'
<1> SUFFICES ASSUME TypeOK, Loaded, [Next]_vars PROVE Loaded'
  OBVIOUS
<1> USE ListenersAre, BoundsAre DEF TypeOK, Loaded, Nothing
<1>1. CASE Start
  BY <1>1 DEF Start, Goto
<1>2. CASE ReadSeed
  BY <1>2 DEF ReadSeed, Goto
<1>3. CASE SeedAssertionFails
  BY <1>3 DEF SeedAssertionFails, Die
<1>4. CASE CreateSeed
  BY <1>4 DEF CreateSeed, Goto
<1>5. CASE WriteSeed
  BY <1>5 DEF WriteSeed, Goto
<1>6. CASE ReadMonitors
  BY <1>6 DEF ReadMonitors, Goto
<1>7. CASE PollChainTip
  BY <1>7 DEF PollChainTip, Goto
<1>8. CASE ReadManager
  BY <1>8 DEF ReadManager, Goto
<1>9. CASE FreshManager
  BY <1>9 DEF FreshManager, Goto
<1>10. CASE ReadSweeper
  BY <1>10 DEF ReadSweeper, Goto
<1>11. CASE SynchronizeListeners
  BY <1>11 DEF SynchronizeListeners, Goto
<1>12. CASE SkipSynchronization
  BY <1>12 DEF SkipSynchronization, Goto
<1>13. CASE LoadMonitors
  BY <1>13 DEF LoadMonitors, Goto
<1>14. CASE PollBestTip
  BY <1>14 DEF PollBestTip, Active
<1>15. CASE PollAborts
  BY <1>15 DEF PollAborts, Die
<1>16. CASE NewBlock
  BY <1>16 DEF NewBlock
<1>17. ASSUME NEW l \in Listeners, Persist(l) PROVE Loaded'
  BY <1>17 DEF Persist, Active
<1>18. ASSUME NEW m \in Monitors, OpenChannel(m) PROVE Loaded'
  BY <1>18 DEF OpenChannel
<1>19. CASE Crash
  BY <1>19 DEF Crash, Die
<1>20. CASE UNCHANGED vars
  BY <1>20 DEF vars
<1> QED  BY <1>1, <1>2, <1>3, <1>4, <1>5, <1>6, <1>7, <1>8, <1>9,
            <1>10, <1>11, <1>12, <1>13, <1>14, <1>15, <1>16, <1>17, <1>18,
            <1>19, <1>20 DEF Next, StartStep, PollStep

LEMMA LoadedAlways == Spec => []Loaded
<1>1. Init => Loaded
  BY ListenersAre DEF Init, Loaded, Nothing
<1> QED  BY <1>1, TypeCorrect, LoadedNext, PTL DEF Spec

LEMMA NoMonitorLeftOutNext ==
  TypeOK /\ Loaded /\ NoMonitorLeftOut /\ [Next]_vars => NoMonitorLeftOut'
<1> SUFFICES ASSUME TypeOK, Loaded, NoMonitorLeftOut, [Next]_vars PROVE NoMonitorLeftOut'
  OBVIOUS
<1> USE ListenersAre, BoundsAre DEF TypeOK, Loaded, NoMonitorLeftOut
<1>1. CASE Start
  BY <1>1 DEF Start, Goto
<1>2. CASE ReadSeed
  BY <1>2 DEF ReadSeed, Goto
<1>3. CASE SeedAssertionFails
  BY <1>3 DEF SeedAssertionFails, Die
<1>4. CASE CreateSeed
  BY <1>4 DEF CreateSeed, Goto
<1>5. CASE WriteSeed
  BY <1>5 DEF WriteSeed, Goto
<1>6. CASE ReadMonitors
  BY <1>6 DEF ReadMonitors, Goto
<1>7. CASE PollChainTip
  BY <1>7 DEF PollChainTip, Goto
<1>8. CASE ReadManager
  BY <1>8 DEF ReadManager, Goto
<1>9. CASE FreshManager
  BY <1>9 DEF FreshManager, Goto
<1>10. CASE ReadSweeper
  BY <1>10 DEF ReadSweeper, Goto
<1>11. CASE SynchronizeListeners
  BY <1>11 DEF SynchronizeListeners, Goto
<1>12. CASE SkipSynchronization
  BY <1>12 DEF SkipSynchronization, Goto
<1>13. CASE LoadMonitors
  BY <1>13 DEF LoadMonitors, Goto
<1>14. CASE PollBestTip
  BY <1>14 DEF PollBestTip, Active
<1>15. CASE PollAborts
  BY <1>15 DEF PollAborts, Die
<1>16. CASE NewBlock
  BY <1>16 DEF NewBlock
<1>17. ASSUME NEW l \in Listeners, Persist(l) PROVE NoMonitorLeftOut'
  BY <1>17 DEF Persist, Active
<1>18. ASSUME NEW m \in Monitors, OpenChannel(m) PROVE NoMonitorLeftOut'
  BY <1>18 DEF OpenChannel
<1>19. CASE Crash
  BY <1>19 DEF Crash, Die
<1>20. CASE UNCHANGED vars
  BY <1>20 DEF vars
<1> QED  BY <1>1, <1>2, <1>3, <1>4, <1>5, <1>6, <1>7, <1>8, <1>9,
            <1>10, <1>11, <1>12, <1>13, <1>14, <1>15, <1>16, <1>17, <1>18,
            <1>19, <1>20 DEF Next, StartStep, PollStep

(* Every channel whose monitor is stored is watched while the node runs    *)
(* (main.rs:844-851, 870-880).                                             *)
THEOREM NoMonitorLeftOutCorrect == Spec => []NoMonitorLeftOut
<1>1. Init => NoMonitorLeftOut
  BY DEF Init, NoMonitorLeftOut
<1> QED  BY <1>1, TypeCorrect, LoadedAlways, NoMonitorLeftOutNext, PTL DEF Spec

-----------------------------------------------------------------------------
LEMMA AtTipNext == TypeOK /\ Loaded /\ AtTip /\ [Next]_vars => AtTip'
<1> SUFFICES ASSUME TypeOK, Loaded, AtTip, [Next]_vars PROVE AtTip'
  OBVIOUS
<1> USE ListenersAre, BoundsAre DEF TypeOK, Loaded, AtTip
<1>1. CASE Start
  BY <1>1 DEF Start, Goto
<1>2. CASE ReadSeed
  BY <1>2 DEF ReadSeed, Goto
<1>3. CASE SeedAssertionFails
  BY <1>3 DEF SeedAssertionFails, Die
<1>4. CASE CreateSeed
  BY <1>4 DEF CreateSeed, Goto
<1>5. CASE WriteSeed
  BY <1>5 DEF WriteSeed, Goto
<1>6. CASE ReadMonitors
  BY <1>6 DEF ReadMonitors, Goto
<1>7. CASE PollChainTip
  BY <1>7 DEF PollChainTip, Goto
<1>8. CASE ReadManager
  BY <1>8 DEF ReadManager, Goto
<1>9. CASE FreshManager
  BY <1>9 DEF FreshManager, Goto
<1>10. CASE ReadSweeper
  BY <1>10 DEF ReadSweeper, Goto
<1>11. CASE SynchronizeListeners
  BY <1>11 DEF SynchronizeListeners, Goto
<1>12. CASE SkipSynchronization
  BY <1>12 DEF SkipSynchronization, Goto
<1>13. CASE LoadMonitors
  BY <1>13 DEF LoadMonitors, Goto
<1>14. CASE PollBestTip
  BY <1>14 DEF PollBestTip, Active
<1>15. CASE PollAborts
  BY <1>15 DEF PollAborts, Die
<1>16. CASE NewBlock
  BY <1>16 DEF NewBlock
<1>17. ASSUME NEW l \in Listeners, Persist(l) PROVE AtTip'
  BY <1>17 DEF Persist, Active
<1>18. ASSUME NEW m \in Monitors, OpenChannel(m) PROVE AtTip'
  BY <1>18 DEF OpenChannel
<1>19. CASE Crash
  BY <1>19 DEF Crash, Die
<1>20. CASE UNCHANGED vars
  BY <1>20 DEF vars
<1> QED  BY <1>1, <1>2, <1>3, <1>4, <1>5, <1>6, <1>7, <1>8, <1>9,
            <1>10, <1>11, <1>12, <1>13, <1>14, <1>15, <1>16, <1>17, <1>18,
            <1>19, <1>20 DEF Next, StartStep, PollStep

LEMMA AtTipAlways == Spec => []AtTip
<1>1. Init => AtTip
  BY DEF Init, AtTip
<1> QED  BY <1>1, TypeCorrect, LoadedAlways, AtTipNext, PTL DEF Spec

LEMMA InStepNext == TypeOK /\ AtTip /\ InStep /\ [Next]_vars => InStep'
<1> SUFFICES ASSUME TypeOK, AtTip, InStep, [Next]_vars PROVE InStep'
  OBVIOUS
<1> USE ListenersAre, BoundsAre DEF TypeOK, AtTip, InStep, Active
<1>1. CASE Start
  BY <1>1 DEF Start, Goto
<1>2. CASE ReadSeed
  BY <1>2 DEF ReadSeed, Goto
<1>3. CASE SeedAssertionFails
  BY <1>3 DEF SeedAssertionFails, Die
<1>4. CASE CreateSeed
  BY <1>4 DEF CreateSeed, Goto
<1>5. CASE WriteSeed
  BY <1>5 DEF WriteSeed, Goto
<1>6. CASE ReadMonitors
  BY <1>6 DEF ReadMonitors, Goto
<1>7. CASE PollChainTip
  BY <1>7 DEF PollChainTip, Goto
<1>8. CASE ReadManager
  BY <1>8 DEF ReadManager, Goto
<1>9. CASE FreshManager
  BY <1>9 DEF FreshManager, Goto
<1>10. CASE ReadSweeper
  BY <1>10 DEF ReadSweeper, Goto
<1>11. CASE SynchronizeListeners
  BY <1>11 DEF SynchronizeListeners, Goto
<1>12. CASE SkipSynchronization
  BY <1>12 DEF SkipSynchronization, Goto
<1>13. CASE LoadMonitors
  BY <1>13 DEF LoadMonitors, Goto
<1>14. CASE PollBestTip
  BY <1>14 DEF PollBestTip, Active
<1>15. CASE PollAborts
  BY <1>15 DEF PollAborts, Die
<1>16. CASE NewBlock
  BY <1>16 DEF NewBlock
<1>17. ASSUME NEW l \in Listeners, Persist(l) PROVE InStep'
  BY <1>17 DEF Persist, Active
<1>18. ASSUME NEW m \in Monitors, OpenChannel(m) PROVE InStep'
  BY <1>18 DEF OpenChannel
<1>19. CASE Crash
  BY <1>19 DEF Crash, Die
<1>20. CASE UNCHANGED vars
  BY <1>20 DEF vars
<1> QED  BY <1>1, <1>2, <1>3, <1>4, <1>5, <1>6, <1>7, <1>8, <1>9,
            <1>10, <1>11, <1>12, <1>13, <1>14, <1>15, <1>16, <1>17, <1>18,
            <1>19, <1>20 DEF Next, StartStep, PollStep

(* The SpvClient starts from the block where every synchronised listener   *)
(* is, and takes them forward together (main.rs:833-868, 967-977).         *)
THEOREM InStepCorrect == Spec => []InStep
<1>1. Init => InStep
  BY DEF Init, InStep
<1> QED  BY <1>1, TypeCorrect, AtTipAlways, InStepNext, PTL DEF Spec

-----------------------------------------------------------------------------
(* What the node stores is where it is, and where it comes up is not behind *)
(* what it has stored: the refinement of ChainView.                        *)
NotBehind ==
  /\ pc \in {"manager", "sweeper", "sync", "load", "running"} =>
       tip # 0 /\ \A l \in Listeners : disk[l] <= tip
  /\ pc \in {"sync", "load"} /\ ~restarting => best["sweeper"] \in {tip, disk["sweeper"]}
  /\ pc = "running" => best["sweeper"] \in {tip, disk["sweeper"]}
  /\ pc # "running" => watched = {}

LEMMA NotBehindNext ==
  TypeOK /\ Loaded /\ AtTip /\ InStep /\ NotBehind /\ [Next]_vars => NotBehind'
<1> SUFFICES ASSUME TypeOK, Loaded, AtTip, InStep, NotBehind, [Next]_vars PROVE NotBehind'
  OBVIOUS
<1> USE ListenersAre, BoundsAre DEF TypeOK, NotBehind
<1>1. CASE Start
  BY <1>1 DEF Start, Goto
<1>2. CASE ReadSeed
  BY <1>2 DEF ReadSeed, Goto
<1>3. CASE SeedAssertionFails
  BY <1>3 DEF SeedAssertionFails, Die
<1>4. CASE CreateSeed
  BY <1>4 DEF CreateSeed, Goto
<1>5. CASE WriteSeed
  BY <1>5 DEF WriteSeed, Goto
<1>6. CASE ReadMonitors
  BY <1>6 DEF ReadMonitors, Goto
<1>7. CASE PollChainTip
  BY <1>7 DEF PollChainTip, Goto
<1>8. CASE ReadManager
  BY <1>8 DEF ReadManager, Goto
<1>9. CASE FreshManager
  BY <1>9 DEF FreshManager, Goto
<1>10. CASE ReadSweeper
  BY <1>10 DEF ReadSweeper, Goto, AtTip
<1>11. CASE SynchronizeListeners
  BY <1>11 DEF SynchronizeListeners, Goto
<1>12. CASE SkipSynchronization
  BY <1>12 DEF SkipSynchronization, Goto
<1>13. CASE LoadMonitors
  BY <1>13 DEF LoadMonitors, Goto, AtTip
<1>14. CASE PollBestTip
  BY <1>14 DEF PollBestTip, Active
<1>15. CASE PollAborts
  BY <1>15 DEF PollAborts, Die
<1>16. CASE NewBlock
  BY <1>16 DEF NewBlock
<1>17. ASSUME NEW l \in Listeners, Persist(l) PROVE NotBehind'
  BY <1>17 DEF Persist, Active, InStep
<1>18. ASSUME NEW m \in Monitors, OpenChannel(m) PROVE NotBehind'
  BY <1>18 DEF OpenChannel, InStep, Active
<1>19. CASE Crash
  BY <1>19 DEF Crash, Die
<1>20. CASE UNCHANGED vars
  BY <1>20 DEF vars
<1> QED  BY <1>1, <1>2, <1>3, <1>4, <1>5, <1>6, <1>7, <1>8, <1>9,
            <1>10, <1>11, <1>12, <1>13, <1>14, <1>15, <1>16, <1>17, <1>18,
            <1>19, <1>20 DEF Next, StartStep, PollStep

LEMMA NotBehindAlways == Spec => []NotBehind
<1>1. Init => NotBehind
  BY DEF Init, NotBehind
<1> QED  BY <1>1, TypeCorrect, LoadedAlways, AtTipAlways, InStepCorrect, NotBehindNext,
            PTL DEF Spec

(* The block of the running node.                                          *)
At == IF pc = "running" THEN tip ELSE 0

LEMMA ViewDown == UNCHANGED <<height, disk>> /\ At' = 0 /\ watched' = {} => View!Down
  BY DEF At, View!Down

LEMMA DieIsDown == Die => View!Down
  BY ViewDown DEF Die, At

(* Coming up: what was read is what is watched, and the tip is not behind. *)
LEMMA LoadIsComeUp ==
  ASSUME TypeOK, Loaded, NotBehind, LoadMonitors
  PROVE  View!ComeUp
<1> USE ListenersAre DEF TypeOK
<1>1. pc = "load" /\ pc' = "running" /\ UNCHANGED <<disk, best, restarting, tip, height>>
  BY DEF LoadMonitors, Goto
<1>2. At = 0 /\ At' = tip
  BY <1>1 DEF At
<1>3. tip \in 1..height /\ \A l \in Listeners : disk[l] <= tip
  BY <1>1 DEF NotBehind
<1>4. watched' = {m \in Monitors : disk[m] # 0}
  <2>1. CASE restarting
    <3>1. \A m \in Monitors : best[m] = 0 <=> disk[m] = 0
      BY <1>1 DEF Loaded
    <3> QED  BY <2>1, <3>1 DEF LoadMonitors
  <2>2. CASE ~restarting
    <3>1. \A m \in Monitors : disk[m] = 0
      BY <1>1, <2>2 DEF Loaded
    <3> QED  BY <2>2, <3>1 DEF LoadMonitors
  <2> QED  BY <2>1, <2>2
<1> QED  BY <1>1, <1>2, <1>3, <1>4 DEF View!ComeUp, At

(* What is written is at the tip, or is not written at all.                *)
LEMMA PersistIsSave ==
  ASSUME TypeOK, InStep, NotBehind, NEW l \in Listeners, Persist(l)
  PROVE  View!Save(l)
<1> USE ListenersAre DEF TypeOK
<1>1. best[l] = tip
  BY DEF Persist, InStep, NotBehind, Active
<1> QED  BY <1>1 DEF Persist, View!Save, NotBehind, Active

LEMMA ChainViewStep ==
  TypeOK /\ Loaded /\ InStep /\ NotBehind /\ [Next]_vars => [View!Next]_(View!chainVars)
<1> SUFFICES ASSUME TypeOK, Loaded, InStep, NotBehind, [Next]_vars
             PROVE  View!Next \/ UNCHANGED <<height, At, disk, watched>>
  BY DEF View!chainVars, At
<1> USE ListenersAre, BoundsAre DEF TypeOK
<1>1. CASE Start \/ ReadSeed \/ CreateSeed \/ WriteSeed
  BY <1>1 DEF Start, ReadSeed, CreateSeed, WriteSeed, Goto, At
<1>2. CASE ReadMonitors \/ PollChainTip \/ ReadManager \/ FreshManager \/ ReadSweeper
  BY <1>2 DEF ReadMonitors, PollChainTip, ReadManager, FreshManager, ReadSweeper, Goto, At
<1>3. CASE SynchronizeListeners \/ SkipSynchronization
  BY <1>3 DEF SynchronizeListeners, SkipSynchronization, Goto, At
<1>4. CASE SeedAssertionFails \/ PollAborts \/ Crash
  BY <1>4, DieIsDown DEF SeedAssertionFails, PollAborts, Crash, View!Next
<1>5. CASE LoadMonitors
  BY <1>5, LoadIsComeUp DEF View!Next
<1>6. CASE PollBestTip
  <2>1. View!Follow
    BY <1>6 DEF PollBestTip, View!Follow, NotBehind
  <2> QED  BY <2>1 DEF View!Next
<1>7. CASE NewBlock
  <2>1. View!Grow
    BY <1>7 DEF NewBlock, View!Grow
  <2> QED  BY <2>1 DEF View!Next
<1>8. ASSUME NEW l \in Listeners, Persist(l) PROVE View!Next
  BY <1>8, PersistIsSave DEF View!Next
<1>9. ASSUME NEW m \in Monitors, OpenChannel(m) PROVE View!Next
  <2>1. best["manager"] = tip
    BY <1>9 DEF OpenChannel, InStep, Active
  <2>2. View!OpenChannel(m)
    BY <1>9, <2>1 DEF OpenChannel, View!OpenChannel, NotBehind
  <2> QED  BY <2>2 DEF View!Next
<1>10. CASE UNCHANGED vars
  BY <1>10 DEF vars, At
<1> QED  BY <1>1, <1>2, <1>3, <1>4, <1>5, <1>6, <1>7, <1>8, <1>9, <1>10
         DEF Next, StartStep, PollStep

(* The start and the poll do what ChainView promises: the node comes up at *)
(* a block that is not behind its files, with every stored channel         *)
(* watched, and no file ever goes back (main.rs:714-880, 967-977).         *)
THEOREM ImplementsChainViewCorrect == Spec => ImplementsChainView
<1>1. Init => View!Init
  BY DEF Init, View!Init, Nothing
<1> QED  BY <1>1, TypeCorrect, LoadedAlways, InStepCorrect, NotBehindAlways, ChainViewStep,
            PTL DEF Spec, ImplementsChainView, View!Spec
=============================================================================
