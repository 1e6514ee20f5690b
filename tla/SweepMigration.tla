---------------------------- MODULE SweepMigration ----------------------------
(***************************************************************************)
(* sweep.rs: what older versions of the node left in three directories is  *)
(* handed to LDK's OutputSweeper at every start, as a task of its own:     *)
(*                                                                         *)
(*   pending_spendable_outputs     one file for each output                *)
(*   processing_spendable_outputs  the files being put together            *)
(*   spendable_outputs             files with any number of outputs        *)
(*                                                                         *)
(* Every filesystem call is a step, and remove_dir_all is one step for     *)
(* each output it deletes and one for the directory.  An unwrap of an      *)
(* error ends the process: both profiles of Cargo.toml abort on panic.     *)
(***************************************************************************)
EXTENDS Naturals, FiniteSets

CONSTANTS
  Outputs,    \* the spendable outputs older versions have stored
  MaxCrashes  \* bound: deaths of the process not caused by the task itself

ASSUME ConstantsAssumption == MaxCrashes \in Nat

Dirs == {"pending", "processing", "spendables"}

VARIABLES
  dirs,     \* the directories that exist
  files,    \* the outputs stored in each
  torn,     \* spendable_outputs holds a temporary file with half a descriptor
  sweeper,  \* external: the outputs the OutputSweeper has made durable
  pc,       \* where migrate_deprecated_spendable_outputs is
  outputs,  \* its local variable
  crashes   \* at most MaxCrashes

vars == <<dirs, files, torn, sweeper, pc, outputs, crashes>>

(* What older versions leave: outputs arrive in pending, which they never  *)
(* remove, and go on to spendables through processing, which they remove.  *)
(* They may have died in the middle of that: before the first file of a    *)
(* directory was whole, or after the last one was moved, so that any       *)
(* directory may be empty, or hold nothing but a temporary file.  Such a   *)
(* file in pending is passed over (sweep.rs:44-46) and not in the model;   *)
(* one in spendables is read (torn).  If they left no output at all, what  *)
(* there is was given to the sweeper by this version itself.               *)
Init ==
  /\ dirs \in {D \in SUBSET Dirs : D # {} => "pending" \in D}
  /\ files \in [Dirs -> SUBSET Outputs]
  /\ \A d \in Dirs \ dirs : files[d] = {}
  /\ UNION {files[d] : d \in Dirs} \in {{}, Outputs}
  /\ torn \in BOOLEAN
  /\ torn => "spendables" \in dirs
  /\ sweeper = IF UNION {files[d] : d \in Dirs} = Outputs THEN {} ELSE Outputs
  /\ pc = "down"
  /\ outputs = {}
  /\ crashes = 0

(* tokio::spawn(migrate_deprecated_spendable_outputs(..)) at each start.    *)
Start ==
  /\ pc = "down"
  /\ pc' = "check"
  /\ outputs' = {}
  /\ UNCHANGED <<dirs, files, torn, sweeper, crashes>>

Goto(here, there) == pc = here /\ pc' = there

(* A panic in any task aborts the process.                                 *)
Abort(here) == Goto(here, "down") /\ UNCHANGED <<dirs, files, torn, sweeper, outputs, crashes>>

-----------------------------------------------------------------------------
NothingToDo ==
  /\ dirs = {}
  /\ Goto("check", "done")
  /\ UNCHANGED <<dirs, files, torn, sweeper, outputs, crashes>>

(* Without the pending directory the processing one is not looked at.      *)
OpenPending ==
  /\ dirs # {}
  /\ Goto("check", IF "pending" \in dirs THEN "move" ELSE "read")
  /\ UNCHANGED <<dirs, files, torn, sweeper, outputs, crashes>>

(* create_dir_all, then rename.                                            *)
CreateProcessing ==
  /\ pc = "move"
  /\ files["pending"] # {}
  /\ "processing" \notin dirs
  /\ dirs' = dirs \cup {"processing"}
  /\ UNCHANGED <<files, torn, sweeper, pc, outputs, crashes>>

(* Faulty variant: the directory is not created.                           *)
MoveWithoutCreate ==
  /\ pc = "move"
  /\ \E o \in files["pending"] :
       files' = [files EXCEPT !["pending"] = @ \ {o}, !["processing"] = @ \cup {o}]
  /\ UNCHANGED <<dirs, torn, sweeper, pc, outputs, crashes>>

MoveFile ==
  /\ pc = "move"
  /\ "processing" \in dirs
  /\ \E o \in files["pending"] :
       files' = [files EXCEPT !["pending"] = @ \ {o}, !["processing"] = @ \cup {o}]
  /\ UNCHANGED <<dirs, torn, sweeper, pc, outputs, crashes>>

(* Faulty variant: the processing directory is dropped before the write.   *)
ConcatenateAndDrop ==
  /\ files["pending"] = {}
  /\ outputs' = files["processing"]
  /\ Goto("move", IF outputs' = {} THEN "read" ELSE "write")
  /\ files' = [files EXCEPT !["processing"] = {}]
  /\ UNCHANGED <<dirs, torn, sweeper, crashes>>

(* Faulty variant: an empty concatenation is written like any other.       *)
ConcatenateAlways ==
  /\ files["pending"] = {}
  /\ outputs' = files["processing"]
  /\ Goto("move", "write")
  /\ UNCHANGED <<dirs, files, torn, sweeper, crashes>>

(* The files of processing are concatenated, if there are any.             *)
Concatenate ==
  /\ files["pending"] = {}
  /\ outputs' = files["processing"]
  /\ Goto("move", IF outputs' = {} THEN "read" ELSE "write")
  /\ UNCHANGED <<dirs, files, torn, sweeper, crashes>>

(* persister.write: a temporary file beside the others, then its rename.   *)
WriteTemporary ==
  /\ Goto("write", "rename")
  /\ dirs' = dirs \cup {"spendables"}
  /\ UNCHANGED <<files, torn, sweeper, outputs, crashes>>

RenameTemporary ==
  /\ Goto("rename", "dropProcessing")
  /\ files' = [files EXCEPT !["spendables"] = @ \cup outputs]
  /\ UNCHANGED <<dirs, torn, sweeper, outputs, crashes>>

-----------------------------------------------------------------------------
(* fs::remove_dir_all(..).unwrap()                                         *)
RemoveAll(d, here, there) ==
  \/ /\ pc = here
     /\ \E o \in files[d] : files' = [files EXCEPT ![d] = @ \ {o}]
     /\ UNCHANGED <<dirs, torn, sweeper, pc, outputs, crashes>>
  \/ /\ d \in dirs
     /\ files[d] = {}
     /\ Goto(here, there)
     /\ dirs' = dirs \ {d}
     /\ UNCHANGED <<files, torn, sweeper, outputs, crashes>>
  \/ d \notin dirs /\ Abort(here)

DropProcessing == RemoveAll("processing", "dropProcessing", "read")

(* Faulty variant: reading ends with the first descriptor.                 *)
ReadFirst ==
  /\ ~torn
  /\ Goto("read", "track")
  /\ IF files["spendables"] = {} THEN outputs' = {}
     ELSE \E o \in files["spendables"] : outputs' = {o}
  /\ UNCHANGED <<dirs, files, torn, sweeper, crashes>>

(* Every file is read to its end; half a descriptor is an error.  Without  *)
(* the directory there is nothing to read.                                 *)
ReadSpendables ==
  /\ ~torn
  /\ Goto("read", "track")
  /\ outputs' = files["spendables"]
  /\ UNCHANGED <<dirs, files, torn, sweeper, crashes>>

ReadTorn == torn /\ Abort("read")

(* sweeper.track_spendable_outputs(..).await: durable once it returns.     *)
Track ==
  /\ Goto("track", "dropSpendables")
  /\ sweeper' = sweeper \cup outputs
  /\ UNCHANGED <<dirs, files, torn, outputs, crashes>>

(* Faulty variant: the pending directory is left behind.                   *)
KeepPending ==
  Goto("dropPending", "done") /\ UNCHANGED <<dirs, files, torn, sweeper, outputs, crashes>>

DropSpendables == RemoveAll("spendables", "dropSpendables", "dropPending")
DropPending    == RemoveAll("pending", "dropPending", "done")

-----------------------------------------------------------------------------
(* The process dies anywhere; a temporary file stays, cut short or whole.  *)
Crash ==
  /\ pc # "down"
  /\ crashes < MaxCrashes
  /\ crashes' = crashes + 1
  /\ pc' = "down"
  /\ torn' \in {torn, torn \/ pc = "rename"}
  /\ UNCHANGED <<dirs, files, sweeper, outputs>>

Step ==
  \/ NothingToDo \/ OpenPending
  \/ CreateProcessing \/ MoveFile \/ Concatenate
  \/ WriteTemporary \/ RenameTemporary \/ DropProcessing
  \/ ReadSpendables \/ ReadTorn \/ Track
  \/ DropSpendables \/ DropPending

Next == Start \/ Step \/ Crash

Spec == Init /\ [][Next]_vars

(* The node is started again after it died, and its task is scheduled.     *)
FairSpec == Spec /\ WF_vars(Start) /\ WF_vars(Step)

-----------------------------------------------------------------------------
(* Properties.                                                             *)

(* Only what exists holds files, and the program counter is a place of the *)
(* task.                                                                   *)
TypeOK ==
  /\ dirs \subseteq Dirs
  /\ files \in [Dirs -> SUBSET Outputs]
  /\ \A d \in Dirs \ dirs : files[d] = {}
  /\ torn \in BOOLEAN
  /\ sweeper \subseteq Outputs
  /\ pc \in {"down", "check", "move", "write", "rename", "dropProcessing", "read",
             "track", "dropSpendables", "dropPending", "done"}
  /\ outputs \subseteq Outputs
  /\ crashes \in 0..MaxCrashes

(* No output is ever lost: at each step, whatever crashes, it is in one of *)
(* the directories or with the sweeper, and with the sweeper when the      *)
(* migration ends.  In particular, what an older version left in the       *)
(* processing directory is not forgotten (sweep.rs:39-97).                 *)
NothingLost ==
  /\ sweeper \cup UNION {files[d] : d \in Dirs} = Outputs
  /\ pc = "done" => sweeper = Outputs

(* The sweeper is handed all the outputs at once and the files go only     *)
(* after that: an interrupted migration leaves it with nothing or with     *)
(* everything, and no output that was removed is stored again, whichever   *)
(* of the directories a repetition begins with (sweep.rs:39-97).           *)
Handed == INSTANCE Custody WITH
  Things <- Outputs,
  held   <- UNION {files[d] : d \in Dirs},
  taken  <- sweeper

ImplementsCustody == Handed!Spec

(* The places of the task in the order of the code.                        *)
Rank(place) ==
  CASE place = "down"           -> 0
    [] place = "check"          -> 1
    [] place = "move"           -> 2
    [] place = "write"          -> 3
    [] place = "rename"         -> 4
    [] place = "dropProcessing" -> 5
    [] place = "read"           -> 6
    [] place = "track"          -> 7
    [] place = "dropSpendables" -> 8
    [] place = "dropPending"    -> 9
    [] place = "done"           -> 10

(* A directory has fewer files, or processing has just been made.          *)
FewerFiles ==
  /\ \E d \in Dirs : files'[d] # files[d] /\ files'[d] \subseteq files[d]
  /\ dirs' = dirs
ProcessingMade == dirs' = dirs \cup {"processing"} /\ dirs' # dirs /\ files' = files

(* Two of the unwraps fail on what older versions may have left: half a   *)
(* descriptor in spendables (sweep.rs:88), and no spendables at all beside *)
(* a pending directory without outputs (sweep.rs:96).                      *)
GivesUp ==
  /\ pc' = "down"
  /\ \/ pc = "read" /\ torn
     \/ pc = "dropSpendables" /\ "spendables" \notin dirs

(* As long as nothing interrupts it the task only goes forward, to a later *)
(* place, or with fewer files to move or remove where it is, or gives up   *)
(* at one of those two.  No other unwrap fails (sweep.rs:47, 51, 68, 97),  *)
(* for the panic would put it back to the start.                           *)
GoesForward ==
  [][crashes' = 0 =>
       \/ Rank(pc') > Rank(pc)
       \/ pc' = pc /\ (FewerFiles \/ ProcessingMade)
       \/ GivesUp]_vars

(* What the task can deal with: whole files, an output or spendables       *)
(* beside pending, and a processing directory only if it is moved into or  *)
(* emptied.  Otherwise the first start, or the next one, gives up.         *)
Manageable ==
  /\ ~torn
  /\ "pending" \in dirs =>
       "spendables" \in dirs \/ files["pending"] # {} \/ files["processing"] # {}
  /\ "processing" \in dirs => files["pending"] # {} \/ files["processing"] # {}

Migrated == dirs = {} /\ sweeper = Outputs

(* A migration that nothing interrupts ends, and from then on there is     *)
(* nothing left to migrate, if the task can deal with what it finds at the *)
(* first start, and only then: from anything else it never gets there,     *)
(* however often the node is started (sweep.rs:31-97).                     *)
UninterruptedEnds ==
  [](crashes = 0) => \/ Manageable /\ <>[]Migrated
                     \/ ~Manageable /\ []~Migrated

(* "migrate away from the old sweep persistence" (sweep.rs:19-20): the     *)
(* migration of what the task can deal with ends, interrupted or not.      *)
MigrationEnds == Manageable => <>[]Migrated
=============================================================================
