------------------------- MODULE SweepMigration_proofs -------------------------
(***************************************************************************)
(* Theorems about SweepMigration, for every set of outputs and every       *)
(* number of crashes.                                                      *)
(*                                                                         *)
(* NothingLost is not inductive: a directory may be removed only because   *)
(* of what an earlier step has put elsewhere.  Handover says, for each     *)
(* place of the task, which of the copies cover which.  AllAtOnce is what  *)
(* Custody needs besides, Unhindered what cannot fail without a crash.     *)
(***************************************************************************)
EXTENDS SweepMigration, TLAPS

Handover ==
  /\ files["processing"] # {} => "pending" \in dirs
  /\ pc \in {"write", "rename"} => files["processing"] \subseteq outputs
  /\ pc = "dropProcessing" => files["processing"] \subseteq files["spendables"]
  /\ pc = "track" => files["spendables"] \subseteq outputs
  /\ pc = "dropSpendables" => files["spendables"] \subseteq sweeper
  /\ pc \in {"write", "rename", "dropProcessing"} => files["pending"] = {}
  /\ pc \in {"read", "track", "dropSpendables", "dropPending", "done"} =>
       files["pending"] = {} /\ files["processing"] = {}
  /\ pc \in {"dropPending", "done"} => files["spendables"] = {}

(* The files of a type, and a directory to rename into.                    *)
Placed == TypeOK /\ (pc = "rename" => "spendables" \in dirs)

(* NothingLost, output by output.                                          *)
Kept(o) == o \in sweeper \/ \E d \in Dirs : o \in files[d]

LEMMA KeptIsNothingLost ==
  ASSUME TypeOK
  PROVE  (sweeper \cup UNION {files[d] : d \in Dirs} = Outputs) <=> \A o \in Outputs : Kept(o)
  BY DEF TypeOK, Kept

(* The directories are three.                                              *)
LEMMA DirsAre ==
  /\ "pending" \in Dirs /\ "processing" \in Dirs /\ "spendables" \in Dirs
  /\ \A d \in Dirs : d = "pending" \/ d = "processing" \/ d = "spendables"
  BY DEF Dirs

(* Every variable holds a value the program can put there (sweep.rs:21-104). *)
LEMMA PlacedInit == Init => Placed
<1> SUFFICES ASSUME Init PROVE Placed
  OBVIOUS
<1>1. dirs \subseteq Dirs
  BY DEF Init
<1>2. crashes \in 0..MaxCrashes
  BY ConstantsAssumption DEF Init
<1> QED  BY <1>1, <1>2 DEF Init, Placed, TypeOK

LEMMA PlacedRemoveAll ==
  ASSUME Placed, NEW d \in Dirs, NEW here, NEW there,
         there \in {"read", "dropPending", "done"},
         RemoveAll(d, here, there)
  PROVE  Placed'
<1>1. CASE /\ pc = here
           /\ \E o \in files[d] : files' = [files EXCEPT ![d] = @ \ {o}]
           /\ UNCHANGED <<dirs, torn, sweeper, pc, outputs, crashes>>
  BY <1>1 DEF Placed, TypeOK
<1>2. CASE /\ d \in dirs
           /\ files[d] = {}
           /\ Goto(here, there)
           /\ dirs' = dirs \ {d}
           /\ UNCHANGED <<files, torn, sweeper, outputs, crashes>>
  BY <1>2 DEF Placed, TypeOK, Goto
<1>3. CASE d \notin dirs /\ Abort(here)
  BY <1>3 DEF Placed, TypeOK, Abort, Goto
<1> QED  BY <1>1, <1>2, <1>3 DEF RemoveAll

LEMMA PlacedNext == Placed /\ [Next]_vars => Placed'
<1> SUFFICES ASSUME Placed, [Next]_vars PROVE Placed'
  OBVIOUS
<1> USE DirsAre
<1>1. CASE Start
  BY <1>1 DEF Start, Placed, TypeOK
<1>2. CASE NothingToDo
  BY <1>2 DEF NothingToDo, Goto, Placed, TypeOK
<1>3. CASE OpenPending
  BY <1>3 DEF OpenPending, Goto, Placed, TypeOK
<1>4. CASE CreateProcessing
  BY <1>4 DEF CreateProcessing, Placed, TypeOK
<1>5. CASE MoveFile
  BY <1>5 DEF MoveFile, Placed, TypeOK
<1>6. CASE Concatenate
  BY <1>6 DEF Concatenate, Goto, Placed, TypeOK
<1>7. CASE WriteTemporary
  BY <1>7 DEF WriteTemporary, Goto, Placed, TypeOK
<1>8. CASE RenameTemporary
  BY <1>8 DEF RenameTemporary, Goto, Placed, TypeOK
<1>9. CASE DropProcessing
  BY <1>9, PlacedRemoveAll DEF DropProcessing
<1>10. CASE ReadSpendables
  BY <1>10 DEF ReadSpendables, Goto, Placed, TypeOK
<1>11. CASE ReadTorn
  BY <1>11 DEF ReadTorn, Abort, Goto, Placed, TypeOK
<1>12. CASE Track
  BY <1>12 DEF Track, Goto, Placed, TypeOK
<1>13. CASE DropSpendables
  BY <1>13, PlacedRemoveAll DEF DropSpendables
<1>14. CASE DropPending
  BY <1>14, PlacedRemoveAll DEF DropPending
<1>15. CASE Crash
  <2>1. torn \in BOOLEAN /\ (pc = "rename") \in BOOLEAN
    BY DEF Placed, TypeOK
  <2>2. torn' \in BOOLEAN
    BY <1>15, <2>1, Zenon DEF Crash
  <2> QED  BY <1>15, <2>2, ConstantsAssumption DEF Crash, Placed, TypeOK
<1>16. CASE UNCHANGED vars
  BY <1>16 DEF vars, Placed, TypeOK
<1> QED  BY <1>1, <1>2, <1>3, <1>4, <1>5, <1>6, <1>7, <1>8, <1>9, <1>10, <1>11,
            <1>12, <1>13, <1>14, <1>15, <1>16 DEF Next, Step

(* Every variable holds a value the program can put there (sweep.rs:21-104). *)
THEOREM TypeCorrect == Spec => []TypeOK
<1>1. Placed => TypeOK
  BY DEF Placed
<1> QED  BY <1>1, PlacedInit, PlacedNext, PTL DEF Spec

-----------------------------------------------------------------------------
(* The whole invariant.                                                    *)
Safe == Placed /\ Handover /\ \A o \in Outputs : Kept(o)

LEMMA SafeInit == Init => Safe
<1> SUFFICES ASSUME Init PROVE Safe
  OBVIOUS
<1>1. Placed
  BY PlacedInit
<1>2. Handover
  BY <1>1, DirsAre DEF Init, Handover, Placed, TypeOK
<1>3. \A o \in Outputs : Kept(o)
  BY DEF Init, Kept
<1> QED  BY <1>1, <1>2, <1>3 DEF Safe

(* An output whose file is moved or renamed is still somewhere.            *)
LEMMA KeptByMove ==
  ASSUME Placed, MoveFile
  PROVE  \A o \in Outputs : Kept(o) => Kept(o)'
  BY DirsAre DEF MoveFile, Kept, Placed, TypeOK

(* Removing the files of a directory is harmless when the outputs have     *)
(* another place.                                                          *)
LEMMA KeptByRemoveAll ==
  ASSUME Placed, NEW d \in Dirs, NEW here, NEW there, RemoveAll(d, here, there),
         \A o \in files[d] : o \in sweeper \/ \E e \in Dirs \ {d} : o \in files[e]
  PROVE  \A o \in Outputs : Kept(o) => Kept(o)'
<1>1. CASE /\ pc = here
           /\ \E o \in files[d] : files' = [files EXCEPT ![d] = @ \ {o}]
           /\ UNCHANGED <<dirs, torn, sweeper, pc, outputs, crashes>>
  <2>1. \A e \in Dirs \ {d} : files'[e] = files[e]
    BY <1>1 DEF Placed, TypeOK
  <2> QED  BY <1>1, <2>1 DEF Kept
<1>2. CASE UNCHANGED <<files, sweeper>>
  BY <1>2 DEF Kept
<1> QED  BY <1>1, <1>2 DEF RemoveAll, Abort

(* One step keeps the copies that the place of the task relies on.         *)
LEMMA HandoverNext == Placed /\ Handover /\ [Next]_vars => Handover'
<1> SUFFICES ASSUME Placed, Handover, [Next]_vars PROVE Handover'
  OBVIOUS
<1> USE DirsAre DEF Placed, TypeOK, Handover
<1>1. CASE Start
  BY <1>1 DEF Start
<1>2. CASE NothingToDo
  BY <1>2 DEF NothingToDo, Goto
<1>3. CASE OpenPending
  BY <1>3 DEF OpenPending, Goto
<1>4. CASE CreateProcessing
  BY <1>4 DEF CreateProcessing
<1>5. CASE MoveFile
  BY <1>5 DEF MoveFile
<1>6. CASE Concatenate
  BY <1>6 DEF Concatenate, Goto
<1>7. CASE WriteTemporary
  BY <1>7 DEF WriteTemporary, Goto
<1>8. CASE RenameTemporary
  BY <1>8 DEF RenameTemporary, Goto
<1>9. CASE DropProcessing
  BY <1>9 DEF DropProcessing, RemoveAll, Abort, Goto
<1>10. CASE ReadSpendables
  BY <1>10 DEF ReadSpendables, Goto
<1>11. CASE ReadTorn
  BY <1>11 DEF ReadTorn, Abort, Goto
<1>12. CASE Track
  BY <1>12 DEF Track, Goto
<1>13. CASE DropSpendables
  BY <1>13 DEF DropSpendables, RemoveAll, Abort, Goto
<1>14. CASE DropPending
  BY <1>14 DEF DropPending, RemoveAll, Abort, Goto
<1>15. CASE Crash
  BY <1>15 DEF Crash
<1>16. CASE UNCHANGED vars
  BY <1>16 DEF vars
<1> QED  BY <1>1, <1>2, <1>3, <1>4, <1>5, <1>6, <1>7, <1>8,
            <1>9, <1>10, <1>11, <1>12, <1>13, <1>14, <1>15, <1>16 DEF Next, Step

(* One step loses no output.                                               *)
LEMMA KeptNext ==
  ASSUME Placed, Handover, [Next]_vars
  PROVE  \A o \in Outputs : Kept(o) => Kept(o)'
<1>1. CASE UNCHANGED <<files, sweeper>>
  BY <1>1 DEF Kept
<1>2. CASE MoveFile
  BY <1>2, KeptByMove
<1>3. CASE RenameTemporary
  BY <1>3, DirsAre DEF RenameTemporary, Goto, Kept, Placed, TypeOK
<1>4. CASE DropProcessing
  <2>1. pc = "dropProcessing"
    BY <1>4 DEF DropProcessing, RemoveAll, Abort, Goto
  <2>2. files["processing"] \subseteq files["spendables"]
    BY <2>1 DEF Handover
  <2> QED  BY <1>4, <2>2, DirsAre, KeptByRemoveAll DEF DropProcessing
<1>5. CASE DropSpendables
  <2>1. pc = "dropSpendables"
    BY <1>5 DEF DropSpendables, RemoveAll, Abort, Goto
  <2>2. files["spendables"] \subseteq sweeper
    BY <2>1 DEF Handover
  <2> QED  BY <1>5, <2>2, DirsAre, KeptByRemoveAll DEF DropSpendables
<1>6. CASE DropPending
  <2>1. pc = "dropPending"
    BY <1>6 DEF DropPending, RemoveAll, Abort, Goto
  <2>2. files["pending"] = {}
    BY <2>1 DEF Handover
  <2> QED  BY <1>6, <2>2, DirsAre, KeptByRemoveAll DEF DropPending
<1>7. CASE Track
  BY <1>7 DEF Track, Kept
<1> QED  BY <1>1, <1>2, <1>3, <1>4, <1>5, <1>6, <1>7
         DEF Next, Step, vars, Start, NothingToDo, OpenPending, CreateProcessing,
             Concatenate, WriteTemporary, ReadSpendables, ReadTorn, Abort, Crash

LEMMA SafeNext == Safe /\ [Next]_vars => Safe'
<1> SUFFICES ASSUME Safe, [Next]_vars PROVE Safe'
  OBVIOUS
<1>1. Placed'
  BY PlacedNext DEF Safe
<1>2. Handover'
  BY HandoverNext DEF Safe
<1>3. \A o \in Outputs : Kept(o)'
  BY KeptNext DEF Safe
<1> QED  BY <1>1, <1>2, <1>3 DEF Safe

LEMMA SafeAlways == Spec => []Safe
  BY SafeInit, SafeNext, PTL DEF Spec

(* No output is ever lost, wherever the task is interrupted and however    *)
(* often the node starts again, and a migration that ends has given every  *)
(* output to the sweeper (sweep.rs:39-97).                                 *)
THEOREM NothingLostCorrect == Spec => []NothingLost
<1>1. Safe => NothingLost
  <2> SUFFICES ASSUME Safe, pc = "done" PROVE sweeper = Outputs
    BY KeptIsNothingLost DEF Safe, Placed, NothingLost
  <2>1. \A d \in Dirs : files[d] = {}
    BY DirsAre DEF Safe, Handover
  <2> QED  BY <2>1 DEF Safe, Placed, TypeOK, Kept
<1> QED  BY <1>1, SafeAlways, PTL

-----------------------------------------------------------------------------
(* The sweeper is handed all the outputs at once.                          *)

(* What is written and what is tracked comes from the files that are there, *)
(* and the sweeper has nothing or everything.                              *)
AllAtOnce ==
  /\ pc \in {"write", "rename"} => outputs \subseteq files["processing"]
  /\ pc = "track" => outputs \subseteq files["spendables"]
  /\ sweeper = {} \/ sweeper = Outputs

Held == UNION {files[d] : d \in Dirs}

LEMMA HeldIs == Held = files["pending"] \cup files["processing"] \cup files["spendables"]
  BY DEF Held, Dirs

(* What the last place before the sweeper has read is all there is.        *)
LEMMA TrackTakesAll ==
  ASSUME Safe, AllAtOnce, Track
  PROVE  sweeper' = Outputs /\ (sweeper = {} => Held = Outputs)
<1>1. outputs = Held
  BY HeldIs DEF Safe, Handover, AllAtOnce, Track, Goto, Placed, TypeOK
<1>2. sweeper \cup Held = Outputs
  BY KeptIsNothingLost DEF Safe, Placed, NothingLost, Held
<1> QED  BY <1>1, <1>2 DEF Track, Goto

LEMMA AllAtOnceInit == Init => AllAtOnce
  BY DEF Init, AllAtOnce

LEMMA AllAtOnceNext == Safe /\ AllAtOnce /\ [Next]_vars => AllAtOnce'
<1> SUFFICES ASSUME Safe, AllAtOnce, [Next]_vars PROVE AllAtOnce'
  OBVIOUS
<1> USE DirsAre DEF Safe, Placed, TypeOK, AllAtOnce
<1>1. CASE Track
  BY <1>1, TrackTakesAll DEF Track, Goto
<1>2. CASE MoveFile
  BY <1>2 DEF MoveFile
<1>3. CASE Concatenate
  BY <1>3 DEF Concatenate, Goto
<1>4. CASE WriteTemporary
  BY <1>4 DEF WriteTemporary, Goto
<1>5. CASE RenameTemporary
  BY <1>5 DEF RenameTemporary, Goto
<1>6. CASE ReadSpendables
  BY <1>6 DEF ReadSpendables, Goto
<1>7. CASE DropProcessing
  BY <1>7 DEF DropProcessing, RemoveAll, Abort, Goto
<1>8. CASE DropSpendables
  BY <1>8 DEF DropSpendables, RemoveAll, Abort, Goto
<1>9. CASE DropPending
  BY <1>9 DEF DropPending, RemoveAll, Abort, Goto
<1>10. CASE Start \/ NothingToDo \/ OpenPending \/ ReadTorn \/ Crash
  BY <1>10 DEF Start, NothingToDo, OpenPending, ReadTorn, Crash, Abort, Goto
<1>11. CASE CreateProcessing \/ UNCHANGED vars
  BY <1>11 DEF CreateProcessing, vars
<1> QED  BY <1>1, <1>2, <1>3, <1>4, <1>5, <1>6, <1>7, <1>8, <1>9, <1>10, <1>11
         DEF Next, Step

(* Removing files lets them go, once the sweeper has them all.             *)
LEMMA LetGoByRemoveAll ==
  ASSUME Safe, AllAtOnce, NEW d \in Dirs, NEW here, NEW there, RemoveAll(d, here, there),
         files[d] # {} => sweeper = Outputs
  PROVE  [Handed!Next]_<<Held, sweeper>>
<1>1. CASE /\ pc = here
           /\ \E o \in files[d] : files' = [files EXCEPT ![d] = @ \ {o}]
           /\ UNCHANGED <<dirs, torn, sweeper, pc, outputs, crashes>>
  <2>1. \A e \in Dirs : files'[e] \subseteq files[e]
    BY <1>1 DEF Safe, Placed, TypeOK
  <2>2. Held' \in SUBSET Held
    BY <2>1 DEF Held
  <2> QED  BY <1>1, <2>2 DEF Handed!Next, Handed!LetGo, Held
<1>2. CASE UNCHANGED <<files, sweeper>>
  BY <1>2 DEF Held
<1> QED  BY <1>1, <1>2 DEF RemoveAll, Abort

(* A step of the task, a start or a crash is a step of Custody or none.    *)
LEMMA CustodyStep ==
  ASSUME Safe, AllAtOnce, [Next]_vars
  PROVE  [Handed!Next]_<<Held, sweeper>>
<1>1. CASE UNCHANGED <<files, sweeper>>
  BY <1>1 DEF Held
<1>2. CASE MoveFile
  <2>1. UNCHANGED <<Held, sweeper>>
    BY <1>2, HeldIs DEF MoveFile, Held, Safe, Placed, TypeOK, Dirs
  <2> QED  BY <2>1
<1>3. CASE RenameTemporary
  <2>1. /\ UNCHANGED sweeper
        /\ files' = [files EXCEPT !["spendables"] = @ \cup outputs]
        /\ outputs \subseteq files["processing"]
    BY <1>3 DEF RenameTemporary, Goto, AllAtOnce
  <2>2. Held' = Held
    BY <2>1, DirsAre DEF Held, Safe, Placed, TypeOK, Dirs
  <2> QED  BY <2>1, <2>2
<1>4. CASE Track
  <2>1. CASE sweeper = {}
    BY <1>4, <2>1, TrackTakesAll DEF Track, Handed!Next, Handed!Take, Held
  <2>2. CASE sweeper = Outputs
    BY <1>4, <2>2, TrackTakesAll DEF Track, Held
  <2> QED  BY <2>1, <2>2 DEF AllAtOnce
<1>5. CASE DropProcessing
  <2>1. pc = "dropProcessing" /\ UNCHANGED sweeper
    BY <1>5 DEF DropProcessing, RemoveAll, Abort, Goto
  <2>2. files["processing"] \subseteq files["spendables"]
    BY <2>1 DEF Safe, Handover
  <2>3. files["spendables"] \subseteq files'["spendables"]
    BY <1>5, DirsAre DEF DropProcessing, RemoveAll, Abort, Safe, Placed, TypeOK
  <2>4. \A d \in Dirs \ {"processing"} : files'[d] = files[d]
    BY <1>5, DirsAre DEF DropProcessing, RemoveAll, Abort, Safe, Placed, TypeOK
  <2>5. files'["processing"] \subseteq files["processing"]
    BY <1>5, DirsAre DEF DropProcessing, RemoveAll, Abort, Safe, Placed, TypeOK
  <2>6. Held' = Held
    BY <2>2, <2>4, <2>5, DirsAre DEF Held
  <2> QED  BY <2>1, <2>6
<1>6. CASE DropSpendables
  <2>1. pc = "dropSpendables"
    BY <1>6 DEF DropSpendables, RemoveAll, Abort, Goto
  <2>2. files["spendables"] \subseteq sweeper
    BY <2>1 DEF Safe, Handover
  <2> QED  BY <1>6, <2>2, DirsAre, LetGoByRemoveAll DEF DropSpendables, AllAtOnce
<1>7. CASE DropPending
  <2>1. pc = "dropPending"
    BY <1>7 DEF DropPending, RemoveAll, Abort, Goto
  <2>2. files["pending"] = {}
    BY <2>1 DEF Safe, Handover
  <2> QED  BY <1>7, <2>2, DirsAre, LetGoByRemoveAll DEF DropPending
<1> QED  BY <1>1, <1>2, <1>3, <1>4, <1>5, <1>6, <1>7
         DEF Next, Step, vars, Start, NothingToDo, OpenPending, CreateProcessing,
             Concatenate, WriteTemporary, ReadSpendables, ReadTorn, Abort, Crash

LEMMA AllAtOnceAlways == Spec => [](Safe /\ AllAtOnce)
<1>1. Init => Safe /\ AllAtOnce
  BY SafeInit, AllAtOnceInit
<1>2. (Safe /\ AllAtOnce) /\ [Next]_vars => (Safe /\ AllAtOnce)'
  BY SafeNext, AllAtOnceNext
<1> QED  BY <1>1, <1>2, PTL DEF Spec

(* The migration does what Custody promises, with three directories, their *)
(* files and any number of crashes: the sweeper is handed nothing or       *)
(* everything, files go only after that, and what was removed is never     *)
(* stored again (sweep.rs:39-97).                                          *)
THEOREM ImplementsCustodyCorrect == Spec => ImplementsCustody
<1>1. Init => Handed!Init
  BY DEF Init, Handed!Init
<1>2. Safe /\ AllAtOnce /\ [Next]_vars => [Handed!Next]_(Handed!custodyVars)
  BY CustodyStep DEF Handed!custodyVars, Held
<1> QED  BY <1>1, <1>2, AllAtOnceAlways, PTL DEF Spec, ImplementsCustody, Handed!Spec

-----------------------------------------------------------------------------
(* An uninterrupted migration only goes forward.                           *)

(* The directories that the places ahead of the task will remove, but for  *)
(* spendables, which may not be there.                                     *)
Unhindered ==
  /\ pc \in {"down", "check"} /\ dirs # {} => "pending" \in dirs
  /\ pc \in {"move", "write", "rename", "dropProcessing", "read", "track",
            "dropSpendables", "dropPending"} => "pending" \in dirs
  /\ pc \in {"write", "rename", "dropProcessing"} => "processing" \in dirs

Undisturbed == crashes = 0 => Unhindered

LEMMA UndisturbedInit == Init => Undisturbed
  BY DEF Init, Undisturbed, Unhindered

LEMMA UndisturbedNext == Safe /\ AllAtOnce /\ Undisturbed /\ [Next]_vars => Undisturbed'
<1> SUFFICES ASSUME Safe, AllAtOnce, Undisturbed, [Next]_vars, crashes' = 0
             PROVE  Unhindered'
  BY DEF Undisturbed
<1>a. crashes = 0 /\ ~Crash
  BY ConstantsAssumption DEF Safe, Placed, TypeOK, Next, Step, vars, Start, NothingToDo,
     OpenPending, CreateProcessing, MoveFile, Concatenate, WriteTemporary, RenameTemporary,
     DropProcessing, ReadSpendables, ReadTorn, Track, DropSpendables, DropPending,
     RemoveAll, Abort, Crash
<1>b. Unhindered
  BY <1>a DEF Undisturbed
<1> USE <1>b, DirsAre DEF Unhindered, Safe, Placed, TypeOK
<1>1. CASE Start
  BY <1>1 DEF Start
<1>2. CASE NothingToDo
  BY <1>2 DEF NothingToDo, Goto
<1>3. CASE OpenPending
  BY <1>3 DEF OpenPending, Goto
<1>4. CASE CreateProcessing
  BY <1>4 DEF CreateProcessing
<1>5. CASE MoveFile
  BY <1>5 DEF MoveFile
<1>6. CASE Concatenate
  BY <1>6 DEF Concatenate, Goto
<1>7. CASE WriteTemporary
  BY <1>7 DEF WriteTemporary, Goto
<1>8. CASE RenameTemporary
  BY <1>8 DEF RenameTemporary, Goto
<1>9. CASE DropProcessing
  BY <1>9 DEF DropProcessing, RemoveAll, Abort, Goto
<1>10. CASE ReadSpendables
  BY <1>10 DEF ReadSpendables, Goto
<1>11. CASE ReadTorn
  BY <1>11 DEF ReadTorn, Abort, Goto
<1>12. CASE Track
  BY <1>12 DEF Track, Goto
<1>13. CASE DropSpendables
  BY <1>13 DEF DropSpendables, RemoveAll, Abort, Goto
<1>14. CASE DropPending
  BY <1>14 DEF DropPending, RemoveAll, Abort, Goto
<1>15. CASE UNCHANGED vars
  BY <1>15 DEF vars
<1> QED  BY <1>a, <1>1, <1>2, <1>3, <1>4, <1>5, <1>6, <1>7, <1>8, <1>9, <1>10,
            <1>11, <1>12, <1>13, <1>14, <1>15 DEF Next, Step

LEMMA RankIs ==
  /\ Rank("down") = 0 /\ Rank("check") = 1 /\ Rank("move") = 2 /\ Rank("write") = 3
  /\ Rank("rename") = 4 /\ Rank("dropProcessing") = 5 /\ Rank("read") = 6
  /\ Rank("track") = 7 /\ Rank("dropSpendables") = 8 /\ Rank("dropPending") = 9
  /\ Rank("done") = 10
  BY DEF Rank

Forward ==
  \/ Rank(pc') > Rank(pc)
  \/ pc' = pc /\ (FewerFiles \/ ProcessingMade)
  \/ GivesUp

(* Removing a directory that exists is removing a file or going on.        *)
LEMMA RemoveAllForward ==
  ASSUME Safe, NEW d \in dirs, NEW here, NEW there, RemoveAll(d, here, there),
         Rank(there) > Rank(here)
  PROVE  Forward
<1>1. CASE /\ pc = here
           /\ \E o \in files[d] : files' = [files EXCEPT ![d] = @ \ {o}]
           /\ UNCHANGED <<dirs, torn, sweeper, pc, outputs, crashes>>
  <2>1. d \in Dirs
    BY DEF Safe, Placed, TypeOK
  <2>2. files'[d] # files[d] /\ files'[d] \subseteq files[d]
    BY <1>1, <2>1 DEF Safe, Placed, TypeOK
  <2> QED  BY <1>1, <2>1, <2>2 DEF Forward, FewerFiles
<1>2. CASE Goto(here, there)
  BY <1>2 DEF Forward, Goto
<1> QED  BY <1>1, <1>2 DEF RemoveAll

LEMMA StepForward ==
  ASSUME Safe, Unhindered, Next \/ UNCHANGED vars, ~Crash, ~UNCHANGED vars
  PROVE  Forward
<1>1. CASE MoveFile
  <2>1. files'["pending"] # files["pending"] /\ files'["pending"] \subseteq files["pending"]
    BY <1>1, DirsAre DEF MoveFile, Safe, Placed, TypeOK
  <2> QED  BY <1>1, <2>1, DirsAre DEF MoveFile, Forward, FewerFiles
<1>2. CASE CreateProcessing
  BY <1>2 DEF CreateProcessing, Forward, ProcessingMade
<1>3. CASE DropProcessing
  <2>1. pc = "dropProcessing"
    BY <1>3 DEF DropProcessing, RemoveAll, Abort, Goto
  <2>2. "processing" \in dirs
    BY <2>1 DEF Unhindered
  <2> QED  BY <1>3, <2>2, RankIs, RemoveAllForward DEF DropProcessing
<1>4. CASE DropSpendables
  <2>1. pc = "dropSpendables"
    BY <1>4 DEF DropSpendables, RemoveAll, Abort, Goto
  <2>2. CASE "spendables" \in dirs
    BY <1>4, <2>2, RankIs, RemoveAllForward DEF DropSpendables
  <2>3. CASE "spendables" \notin dirs
    BY <1>4, <2>1, <2>3, DirsAre
       DEF DropSpendables, RemoveAll, Abort, Goto, Forward, GivesUp, Safe, Placed, TypeOK
  <2> QED  BY <2>2, <2>3
<1>5. CASE DropPending
  <2>1. pc = "dropPending"
    BY <1>5 DEF DropPending, RemoveAll, Abort, Goto
  <2>2. "pending" \in dirs
    BY <2>1 DEF Unhindered
  <2> QED  BY <1>5, <2>2, RankIs, RemoveAllForward DEF DropPending
<1>6. CASE ReadTorn
  BY <1>6 DEF ReadTorn, Abort, Goto, Forward, GivesUp
<1>7. CASE \/ Start \/ NothingToDo \/ OpenPending \/ Concatenate \/ WriteTemporary
           \/ RenameTemporary \/ ReadSpendables \/ Track
  BY <1>7, RankIs DEF Forward, Start, NothingToDo, OpenPending, Concatenate,
     WriteTemporary, RenameTemporary, ReadSpendables, Track, Goto
<1> QED  BY <1>1, <1>2, <1>3, <1>4, <1>5, <1>6, <1>7 DEF Next, Step

(* A migration that nothing interrupts moves to a later place, or has      *)
(* fewer files to move or remove, with every step: of its unwraps only two *)
(* can fail, on half a descriptor and on spendables that are not there     *)
(* (sweep.rs:47, 51, 68, 88, 96-97), whatever older versions left.         *)
THEOREM GoesForwardCorrect == Spec => GoesForward
<1>1. Init => Safe /\ AllAtOnce /\ Undisturbed
  BY SafeInit, AllAtOnceInit, UndisturbedInit
<1>2. /\ Safe /\ AllAtOnce /\ Undisturbed
      /\ [Next]_vars
      => (Safe /\ AllAtOnce /\ Undisturbed)'
  BY SafeNext, AllAtOnceNext, UndisturbedNext
<1>3. /\ Safe /\ AllAtOnce /\ Undisturbed
      /\ [Next]_vars
      => [crashes' = 0 =>
            \/ Rank(pc') > Rank(pc)
            \/ pc' = pc /\ (FewerFiles \/ ProcessingMade)
            \/ GivesUp]_vars
  <2> SUFFICES ASSUME Safe, Undisturbed, [Next]_vars, ~UNCHANGED vars, crashes' = 0
               PROVE  Forward
    BY DEF Forward
  <2>1. crashes = 0 /\ ~Crash
    BY ConstantsAssumption DEF Safe, Placed, TypeOK, Next, Step, vars, Start, NothingToDo,
       OpenPending, CreateProcessing, MoveFile, Concatenate, WriteTemporary, RenameTemporary,
       DropProcessing, ReadSpendables, ReadTorn, Track, DropSpendables, DropPending,
       RemoveAll, Abort, Crash
  <2> QED  BY <2>1, StepForward DEF Undisturbed
<1> QED  BY <1>1, <1>2, <1>3, PTL DEF Spec, GoesForward
=============================================================================
