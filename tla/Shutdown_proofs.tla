---------------------------- MODULE Shutdown_proofs ----------------------------
(***************************************************************************)
(* Theorems about Shutdown, for any number of changes and of blocks.       *)
(*                                                                         *)
(* A background processor that was stopped has persisted everything; a     *)
(* later change needs a peer, for the CLI has quit, and peers are          *)
(* disconnected before it is stopped: who is connected then came late.     *)
(* Stopped keeps these in order.                                           *)
(***************************************************************************)
EXTENDS Shutdown, TLAPS

Stopped ==
  /\ exit => main \in {"await", "returned", "dropping", "exited", "aborted"}
  /\ main # "select" /\ bg = "running" => cli = "quit"
  /\ bg = "stopped" => exit /\ cli = "quit"
  /\ main \notin {"select", "disconnect"} /\ peers # {} => late
  /\ bg = "stopped" => version = persisted \/ late
  /\ main \in {"returned", "dropping", "exited"} => bg # "running"

LEMMA TypeNext == TypeOK /\ [Next]_vars => TypeOK'
<1> SUFFICES ASSUME TypeOK, [Next]_vars PROVE TypeOK'
  OBVIOUS
<1> USE ConstantsAssumption DEF TypeOK, flags, net, manager
<1>1. ASSUME NEW c \in Connectors, Check(c) PROVE TypeOK'
  BY <1>1 DEF Check, Running, Ended
<1>2. ASSUME NEW c \in Connectors, Return(c) PROVE TypeOK'
  BY <1>2 DEF Return
<1>3. ASSUME NEW c \in Connectors, Connect(c) PROVE TypeOK'
  BY <1>3 DEF Connect, Running, Ended
<1>4. ASSUME NEW c \in Connectors, ConnectFails(c) PROVE TypeOK'
  BY <1>4 DEF ConnectFails
<1>5. ASSUME NEW c \in Connectors, Leave(c) PROVE TypeOK'
  BY <1>5 DEF Leave
<1>6. CASE UpdateChannel
  BY <1>6 DEF UpdateChannel, Running, Ended
<1>7. CASE ConnectBlock
  BY <1>7 DEF ConnectBlock, Running, Ended
<1>8. CASE Persist
  BY <1>8 DEF Persist, WriteManager
<1>9. CASE StopProcessing
  BY <1>9 DEF StopProcessing, WriteManager, ExitSignalled
<1>10. CASE ReadCommand
  BY <1>10 DEF ReadCommand
<1>11. CASE EndCommand
  BY <1>11 DEF EndCommand
<1>12. CASE Quit
  BY <1>12 DEF Quit
<1>13. CASE Select
  BY <1>13 DEF Select
<1>14. CASE Disconnect
  BY <1>14 DEF Disconnect
<1>15. CASE CheckClosed
  BY <1>15 DEF CheckClosed
<1>16. CASE SendExit
  BY <1>16 DEF SendExit
<1>17. CASE AwaitProcessor
  BY <1>17 DEF AwaitProcessor
<1>18. CASE DropRuntime
  BY <1>18 DEF DropRuntime
<1>19. CASE Exit
  BY <1>19 DEF Exit
<1>20. CASE UNCHANGED vars
  BY <1>20 DEF vars
<1> QED  BY <1>1, <1>2, <1>3, <1>4, <1>5, <1>6, <1>7, <1>8, <1>9, <1>10,
            <1>11, <1>12, <1>13, <1>14, <1>15, <1>16, <1>17, <1>18, <1>19, <1>20
         DEF Next, MainStep

(* Every variable holds a value the program can put there (main.rs:1177-1219). *)
THEOREM TypeCorrect == Spec => []TypeOK
<1>1. Init => TypeOK
  <2>1. 0 \in 0..MaxVersion /\ 0 \in 0..MaxHeight /\ 0 \in 0..0
    BY ConstantsAssumption
  <2> QED  BY <2>1 DEF Init, TypeOK
<1> QED  BY <1>1, TypeNext, PTL DEF Spec

-----------------------------------------------------------------------------
LEMMA StoppedNext == TypeOK /\ Stopped /\ [Next]_vars => Stopped'
<1> SUFFICES ASSUME TypeOK, Stopped, [Next]_vars PROVE Stopped'
  OBVIOUS
<1> USE DEF TypeOK, Stopped, flags, net, manager
<1>1. ASSUME NEW c \in Connectors, Check(c) PROVE Stopped'
  BY <1>1 DEF Check, Running, Ended
<1>2. ASSUME NEW c \in Connectors, Return(c) PROVE Stopped'
  BY <1>2 DEF Return
<1>3. ASSUME NEW c \in Connectors, Connect(c) PROVE Stopped'
  BY <1>3 DEF Connect, Running, Ended
<1>4. ASSUME NEW c \in Connectors, ConnectFails(c) PROVE Stopped'
  BY <1>4 DEF ConnectFails
<1>5. ASSUME NEW c \in Connectors, Leave(c) PROVE Stopped'
  BY <1>5 DEF Leave
<1>6. CASE UpdateChannel
  BY <1>6 DEF UpdateChannel, Running, Ended
<1>7. CASE ConnectBlock
  BY <1>7 DEF ConnectBlock, Running, Ended
<1>8. CASE Persist
  BY <1>8 DEF Persist, WriteManager
<1>9. CASE StopProcessing
  BY <1>9 DEF StopProcessing, WriteManager, ExitSignalled
<1>10. CASE ReadCommand
  BY <1>10 DEF ReadCommand
<1>11. CASE EndCommand
  BY <1>11 DEF EndCommand
<1>12. CASE Quit
  BY <1>12 DEF Quit
<1>13. CASE Select
  BY <1>13 DEF Select
<1>14. CASE Disconnect
  BY <1>14 DEF Disconnect
<1>15. CASE CheckClosed
  BY <1>15 DEF CheckClosed
<1>16. CASE SendExit
  BY <1>16 DEF SendExit
<1>17. CASE AwaitProcessor
  BY <1>17 DEF AwaitProcessor
<1>18. CASE DropRuntime
  BY <1>18 DEF DropRuntime
<1>19. CASE Exit
  BY <1>19 DEF Exit
<1>20. CASE UNCHANGED vars
  BY <1>20 DEF vars
<1> QED  BY <1>1, <1>2, <1>3, <1>4, <1>5, <1>6, <1>7, <1>8, <1>9, <1>10,
            <1>11, <1>12, <1>13, <1>14, <1>15, <1>16, <1>17, <1>18, <1>19, <1>20
         DEF Next, MainStep

(* A node that leaves, and whose disk works, has every change of peers,    *)
(* commands and events on disk, whatever blocks the chain poll connects    *)
(* meanwhile (main.rs:968-977, 1185-1219), but for what a peer did that    *)
(* connected too late.                                                     *)
THEOREM QuitPersistsCorrect == Spec => []QuitPersists
<1>1. Init => Stopped
  BY DEF Init, Stopped
<1>2. TypeOK /\ Stopped => QuitPersists
  BY DEF TypeOK, Stopped, QuitPersists
<1> QED  BY <1>1, <1>2, TypeCorrect, StoppedNext, PTL DEF Spec
=============================================================================
