------------------------------- MODULE KVStore -------------------------------
(***************************************************************************)
(* One key of the FilesystemStore, as the node uses it.                    *)
(*                                                                         *)
(* fs_store.write(...) takes its place in the order of writes when it is   *)
(* CALLED; the future it returns does the work when it is awaited, later   *)
(* and on another thread.  The callers rely on that: they call write while *)
(* they hold the mutex of the map they encode and await the future after   *)
(* they have released it (main.rs:316-336, cli.rs:411-421).  A write that  *)
(* finishes after a later one has finished changes nothing.                *)
(*                                                                         *)
(* The store itself is a library (lightning-persister): this module is the *)
(* contract its callers in src/ assume.  A file is replaced by a rename,   *)
(* so a crash leaves the old or the new contents, never a mixture.         *)
(***************************************************************************)
EXTENDS Naturals, Sequences

VARIABLES
  stored,   \* the contents of the key on disk
  writes    \* the calls of write that are not finished, in the order of the calls

storeVars == <<stored, writes>>

(* The writes that w has called and that no later write has overtaken.     *)
PendingOf(w) == {i \in DOMAIN writes : writes[i].by = w}

(* w calls write with value v.                                             *)
IssueWrite(w, v) ==
  /\ writes' = Append(writes, [by |-> w, val |-> v])
  /\ UNCHANGED stored

(* The write of w reaches the disk: the writes called before it are stale  *)
(* from now on.                                                            *)
CommitWrite(w) ==
  \E i \in PendingOf(w) :
    /\ stored' = writes[i].val
    /\ writes' = SubSeq(writes, i + 1, Len(writes))

(* The write of w finds a later one already on disk and is skipped.        *)
SkipWrite(w) ==
  /\ PendingOf(w) = {}
  /\ UNCHANGED storeVars

FinishWrite(w) == CommitWrite(w) \/ SkipWrite(w)

(* The process dies: what has not reached the disk is lost.                *)
LoseWrites ==
  /\ writes' = <<>>
  /\ UNCHANGED stored
=============================================================================
