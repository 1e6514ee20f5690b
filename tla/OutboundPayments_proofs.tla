----------------------- MODULE OutboundPayments_proofs -----------------------
(***************************************************************************)
(* Theorems about OutboundPayments, for every set of payments and every    *)
(* bound: the types; that LDK's payments are in the file, and stay in it;  *)
(* and, without offers and names, that the file is a PaymentLedger.        *)
(***************************************************************************)
EXTENDS OutboundPayments, KVStore_proofs

Tasks == {"cli", "bg", "main"}
Entry == [type : {"Sent", "Failed"}, id : PaymentIds]
Recent == {"none", "registered", "inflight", "fulfilled", "forgotten"}

LEMMA WritesType == Writes(Tasks, Ledgers) = Seq([by : {"cli", "bg", "main"}, val : Ledgers])
  BY DEF Writes, Tasks

(* The store's part of the type invariant.                                 *)
StoreOK == stored \in Ledgers /\ writes \in Writes(Tasks, Ledgers)

LEMMA StoreSteps ==
  ASSUME StoreOK, NEW w \in Tasks
  PROVE  /\ FinishWrite(w) => StoreOK'
         /\ \A v \in Ledgers : IssueWrite(w, v) => StoreOK'
         /\ LoseWrites => StoreOK'
<1>1. ASSUME FinishWrite(w) PROVE StoreOK'
  BY <1>1, FinishType DEF StoreOK
<1>2. ASSUME NEW v \in Ledgers, IssueWrite(w, v) PROVE StoreOK'
  BY <1>2, IssueProperties DEF StoreOK
<1>3. ASSUME LoseWrites PROVE StoreOK'
  BY <1>3 DEF StoreOK, LoseWrites, Writes
<1> QED  BY <1>1, <1>2, <1>3

LEMMA NoPaymentsType == NoPayments \in Ledgers
  BY DEF NoPayments, Ledgers, Status

LEMMA LedgerUpdate ==
  ASSUME NEW l \in Ledgers, NEW p, NEW s \in Status
  PROVE  [l EXCEPT ![p] = s] \in Ledgers
  BY DEF Ledgers

(* Type correctness.                                                       *)
LEMMA TypeInit == Init => TypeOK
  BY NoPaymentsType DEF Init, TypeOK

LEMMA TypeNext == TypeOK /\ [Next]_vars => TypeOK'
<1> SUFFICES ASSUME TypeOK, [Next]_vars PROVE TypeOK'
  OBVIOUS
<1> USE ConstantsAssumption
<1>0. StoreOK
  BY WritesType DEF TypeOK, StoreOK
<1>s. ASSUME StoreOK' PROVE stored' \in Ledgers /\ writes' \in Seq([by : {"cli", "bg", "main"}, val : Ledgers])
  BY <1>s, WritesType DEF StoreOK
<1>t. "cli" \in Tasks /\ "bg" \in Tasks /\ "main" \in Tasks
  BY DEF Tasks
<1>p. /\ payments \in Ledgers /\ snapshot \in Ledgers /\ stored \in Ledgers
      /\ recent \in [PaymentIds -> Recent] /\ events \in Seq(Entry)
      /\ handled \in 0..Len(events) /\ Len(events) \in Nat
  BY LenProperties DEF TypeOK, Recent, Entry
<1>1. CASE Start
  <2>1. payments' \in Ledgers
    BY <1>1, <1>p DEF Start, FailUnknown, Ledgers, Status
  <2>2. StoreOK'
    BY <1>0, <1>1, <1>t, <2>1, StoreSteps DEF Start
  <2> QED  BY <1>1, <2>1, <2>2, <1>s DEF Start, TypeOK, ldkVars, boundVars
<1>2. CASE StartDone
  <2>1. StoreOK'
    BY <1>0, <1>2, <1>t, StoreSteps DEF StartDone
  <2> QED  BY <1>2, <2>1, <1>s DEF StartDone, TypeOK, memoryVars, ldkVars, boundVars
<1>3. ASSUME NEW p \in PaymentIds, NEW pc \in {"inserted", "writing"}, BeginCommand(p, pc)
      PROVE  payments' \in Ledgers /\ (StoreOK' => TypeOK')
  <2>1. payments' \in Ledgers
    BY <1>3, <1>p, LedgerUpdate DEF BeginCommand, InsertPending, Status
  <2>2. p # None
    BY <1>3
  <2> QED  BY <1>3, <2>1, <2>2, <1>s DEF BeginCommand, TypeOK, ldkVars
<1>4. ASSUME NEW p \in PaymentIds, SendPayment(p) \/ Keysend(p)
      PROVE  TypeOK'
  <2>1. BeginCommand(p, "writing") /\ IssueWrite("cli", payments')
    BY <1>4 DEF SendPayment, Keysend
  <2>2. payments' \in Ledgers /\ (StoreOK' => TypeOK')
    BY <1>3, <2>1
  <2> QED  BY <1>0, <1>t, <2>1, <2>2, StoreSteps
<1>5. ASSUME NEW p \in PaymentIds, PayOffer(p) \/ PayName(p)
      PROVE  TypeOK'
  <2>1. BeginCommand(p, "inserted") /\ UNCHANGED storeVars
    BY <1>5 DEF PayOffer, PayName
  <2>2. StoreOK' => TypeOK'
    BY <1>3, <2>1
  <2> QED  BY <1>0, <2>1, <2>2 DEF StoreOK, storeVars
<1>6. CASE EncodeOffer
  BY <1>6, <1>p DEF EncodeOffer, TypeOK, storeVars, ldkVars, boundVars
<1>7. CASE WriteOffer
  <2>1. StoreOK'
    BY <1>0, <1>7, <1>t, <1>p, StoreSteps DEF WriteOffer
  <2> QED  BY <1>7, <2>1, <1>s, NoPaymentsType DEF WriteOffer, TypeOK, ldkVars, boundVars
<1>8. CASE AwaitWrite
  <2>1. StoreOK'
    BY <1>0, <1>8, <1>t, StoreSteps DEF AwaitWrite
  <2> QED  BY <1>8, <2>1, <1>s DEF AwaitWrite, TypeOK, ldkVars, boundVars
<1>9. CASE PayOk
  BY <1>9, <1>p DEF PayOk, CommandEnds, TypeOK, storeVars, boundVars
<1>10. CASE PayErr
  BY <1>10 DEF PayErr, CommandEnds, TypeOK, storeVars, ldkVars, boundVars
<1>11. CASE MarkFailed
  <2>1. payments' \in Ledgers
    BY <1>11, <1>p, LedgerUpdate DEF MarkFailed, Status
  <2>2. StoreOK'
    BY <1>0, <1>11, <1>t, <2>1, StoreSteps DEF MarkFailed
  <2> QED  BY <1>11, <2>1, <2>2, <1>s DEF MarkFailed, TypeOK, ldkVars, boundVars
<1>12. CASE AwaitFailedWrite
  <2>1. StoreOK'
    BY <1>0, <1>12, <1>t, StoreSteps DEF AwaitFailedWrite
  <2> QED  BY <1>12, <2>1, <1>s DEF AwaitFailedWrite, CommandEnds, TypeOK, ldkVars, boundVars
<1>13. ASSUME NEW t, NEW s \in {"Succeeded", "Failed"}, HandleEvent(t, s)
       PROVE  TypeOK'
  <2>1. payments' \in Ledgers
    BY <1>13, <1>p DEF HandleEvent, Outcome, Ledgers, Status
  <2>2. StoreOK'
    BY <1>0, <1>13, <1>t, <2>1, StoreSteps DEF HandleEvent
  <2> QED  BY <1>13, <2>1, <2>2, <1>s DEF HandleEvent, IsNext, TypeOK, ldkVars, boundVars
<1>14. CASE PaymentSent \/ PaymentFailed
  BY <1>13, <1>14 DEF PaymentSent, PaymentFailed
<1>15. CASE EventHandled
  <2>1. StoreOK'
    BY <1>0, <1>15, <1>t, StoreSteps DEF EventHandled
  <2>2. handled' \in 0..Len(events')
    BY <1>15, <1>p DEF EventHandled, TypeOK, ldkVars
  <2> QED  BY <1>15, <2>1, <2>2, <1>s DEF EventHandled, TypeOK, ldkVars, boundVars
<1>16. ASSUME NEW p \in PaymentIds, NEW t \in {"Sent", "Failed"}, NEW r \in Recent,
              events' = Append(events, Event(t, p)),
              recent' = [recent EXCEPT ![p] = r],
              UNCHANGED <<storeVars, memoryVars, node, boundVars>>
       PROVE  TypeOK'
  <2>1. Event(t, p) \in Entry
    BY <1>16 DEF Event, Entry
  <2>2. events' \in Seq(Entry) /\ Len(events') = Len(events) + 1
    BY <1>16, <1>p, <2>1, AppendProperties
  <2>3. handled' \in 0..Len(events') /\ (bg' = "writing" => handled' < Len(events'))
    BY <1>16, <1>p, <2>2 DEF TypeOK, memoryVars
  <2>4. recent' \in [PaymentIds -> Recent]
    BY <1>16, <1>p
  <2> QED  BY <1>16, <2>2, <2>3, <2>4 DEF TypeOK, Entry, Recent, storeVars, memoryVars, boundVars
<1>17. ASSUME NEW p \in PaymentIds, SendHtlc(p) \/ Forget(p)
       PROVE  TypeOK'
  <2>1. recent' \in [PaymentIds -> Recent]
    BY <1>17, <1>p DEF SendHtlc, Forget, Recent
  <2> QED  BY <1>17, <2>1 DEF SendHtlc, Forget, TypeOK, Recent, storeVars, memoryVars, boundVars
<1>18. ASSUME NEW p \in PaymentIds, Settle(p) \/ GiveUp(p)
       PROVE  TypeOK'
  BY <1>16, <1>18 DEF Settle, GiveUp, Emit, Recent
<1>19. CASE PersistManager
  <2>1. events' \in Seq(Entry)
    <3>1. \A i \in (handled + 1)..Len(events) : events[i] \in Entry
      BY <1>p, ElementOfSeq
    <3> QED  BY <1>19, <1>p, <3>1, SubSeqProperties DEF PersistManager, DropHandled
  <2>2. handled' \in 0..Len(events')
    BY <1>19, <2>1, LenProperties DEF PersistManager, DropHandled
  <2> QED  BY <1>19, <2>1, <2>2 DEF PersistManager, DropHandled, TypeOK, Entry, storeVars, boundVars
<1>20. CASE Crash
  <2>1. StoreOK'
    BY <1>0, <1>20, <1>t, StoreSteps DEF Crash
  <2>2. recent' \in [PaymentIds -> Recent]
    BY <1>20, <1>p DEF Crash, Recent
  <2> QED  BY <1>20, <2>1, <2>2, <1>s, <1>p, NoPaymentsType DEF Crash, TypeOK, Recent, Entry
<1>21. CASE UNCHANGED vars
  BY <1>21 DEF TypeOK, vars
<1> QED
  BY <1>1, <1>2, <1>4, <1>5, <1>6, <1>7, <1>8, <1>9, <1>10, <1>11, <1>12, <1>14, <1>15,
     <1>17, <1>18, <1>19, <1>20, <1>21
     DEF Next, CliStep, BgStep

(* Every reachable state is typed, for any payments and any bounds.        *)
THEOREM TypeCorrect == Spec => []TypeOK
  BY TypeInit, TypeNext, PTL DEF Spec

-----------------------------------------------------------------------------
(* Write-ahead.  WriteAhead is not inductive: what the CLI awaits may      *)
(* never reach the disk, because a later write overtook it.  The invariant *)
(* says why that is as good: entries are only ever added, so every later   *)
(* value of the map has them too.                                          *)

(* No entry of a is missing in b.                                          *)
Keeps == {r \in Ledgers \X Ledgers :
            \A p \in PaymentIds : r[1][p] # "Absent" => r[2][p] # "Absent"}

(* The file, the writes under way and the map: none loses an entry.        *)
EntriesKept == node # "down" => Ordered(Keeps, stored, writes, payments)

(* A node that is not up runs neither of its tasks.                        *)
TasksRun ==
  /\ node # "up" => cli = "idle" /\ bg = "idle"
  /\ node = "down" => writes = <<>>

(* p is in the file, or in every write of the CLI that is under way.       *)
Has(p) == {l \in Ledgers : l[p] # "Absent"}
OnItsWay(p) == Carried(Has(p), stored, writes, "cli")

(* The entry of the command under way, from the map into the file.         *)
CommandEntry ==
  /\ cli # "idle" => payments[paying] # "Absent"
  /\ cli = "encoded" => <<payments, snapshot>> \in Keeps /\ <<snapshot, payments>> \in Keeps
  /\ cli = "writing" => OnItsWay(paying)
  /\ cli \in {"pay", "failing", "failwriting"} => stored[paying] # "Absent"

(* The CLI has at most one write under way, and awaits it.                 *)
NoCliWrite  == NoneOf(writes, "cli")
OneCliWrite ==
  /\ AtMostOne(writes, "cli")
  /\ cli \notin {"writing", "failwriting"} => NoCliWrite

WriteAheadInv ==
  TypeOK /\ WriteAhead /\ EntriesKept /\ TasksRun /\ CommandEntry /\ OneCliWrite

LEMMA KeepsOrder ==
  /\ \A a \in Ledgers : <<a, a>> \in Keeps
  /\ \A a, b, c : <<a, b>> \in Keeps /\ <<b, c>> \in Keeps => <<a, c>> \in Keeps
  /\ \A a, b : \A p \in PaymentIds :
        <<a, b>> \in Keeps /\ a[p] # "Absent" => b[p] # "Absent"
  BY DEF Keeps

LEMMA KeepsUpdate ==
  ASSUME NEW l \in Ledgers, NEW p, NEW s \in Status \ {"Absent"}
  PROVE  <<l, [l EXCEPT ![p] = s]>> \in Keeps
<1>1. [l EXCEPT ![p] = s] \in Ledgers
  BY LedgerUpdate
<1>2. \A q \in PaymentIds : l[q] # "Absent" => [l EXCEPT ![p] = s][q] # "Absent"
  BY DEF Ledgers
<1> QED  BY <1>1, <1>2 DEF Keeps

(* The map changes and is written under the same lock.                     *)
LEMMA KeepAndIssue ==
  ASSUME StoreOK, payments' \in Ledgers, NEW w \in Tasks,
         Ordered(Keeps, stored, writes, payments), <<payments, payments'>> \in Keeps,
         IssueWrite(w, payments')
  PROVE  Ordered(Keeps, stored', writes', payments')
<1>1. Ordered(Keeps, stored, writes, payments')
  BY KeepsOrder, OrderedLater
<1> QED  BY <1>1, KeepsOrder, OrderedIssue DEF StoreOK

LEMMA KeepAndFinish ==
  ASSUME StoreOK, NEW w \in Tasks, FinishWrite(w),
         Ordered(Keeps, stored, writes, payments)
  PROVE  Ordered(Keeps, stored', writes', payments) /\ <<stored, stored'>> \in Keeps
  BY KeepsOrder, OrderedFinish DEF StoreOK

(* No write that finishes stops it, and the CLI's own brings it there.     *)
LEMMA OnItsWayFinish ==
  ASSUME StoreOK, NEW p \in PaymentIds, NEW w \in Tasks, FinishWrite(w),
         Ordered(Keeps, stored, writes, payments), OnItsWay(p)
  PROVE  /\ Carried(Has(p), stored', writes', "cli")
         /\ w = "cli" => stored'[p] # "Absent"
<1>1. "cli" \in Tasks /\ <<stored, stored>> \in Keeps
  BY KeepsOrder DEF Tasks, StoreOK
<1>2. \A a, b : <<a, b>> \in Keeps /\ a \in Has(p) => b \in Has(p)
  BY DEF Keeps, Has
<1>3. Carried(Has(p), stored', writes', "cli") /\ (w = "cli" => stored' \in Has(p))
  BY <1>1, <1>2, CarriedFinish DEF StoreOK, OnItsWay
<1> QED  BY <1>3 DEF Has

(* Nor does a call of write, if what the CLI writes has the entry.         *)
LEMMA OnItsWayIssue ==
  ASSUME StoreOK, NEW p \in PaymentIds, NEW w \in Tasks, NEW v \in Ledgers, IssueWrite(w, v),
         v[p] # "Absent", OnItsWay(p) \/ (w = "cli" /\ NoCliWrite)
  PROVE  Carried(Has(p), stored', writes', "cli")
<1>1. "cli" \in Tasks /\ v \in Has(p)
  BY DEF Tasks, Has
<1> QED  BY <1>1, CarriedIssue DEF StoreOK, OnItsWay, NoCliWrite

LEMMA CliWriteFinish ==
  ASSUME StoreOK, NEW w \in Tasks, FinishWrite(w), AtMostOne(writes, "cli")
  PROVE  AtMostOne(writes', "cli") /\ (w = "cli" \/ NoCliWrite => NoCliWrite')
<1>1. "cli" \in Tasks
  BY DEF Tasks
<1> QED  BY <1>1, OneFinish DEF StoreOK, NoCliWrite

LEMMA CliWriteIssue ==
  ASSUME StoreOK, NEW w \in Tasks, NEW v \in Ledgers, IssueWrite(w, v),
         AtMostOne(writes, "cli"), w # "cli" \/ NoCliWrite
  PROVE  AtMostOne(writes', "cli") /\ (w # "cli" /\ NoCliWrite => NoCliWrite')
<1>1. "cli" \in Tasks
  BY DEF Tasks
<1> QED  BY <1>1, OneIssue DEF StoreOK, NoCliWrite

-----------------------------------------------------------------------------
LEMMA WriteAheadInit == Init => WriteAheadInv
  BY TypeInit DEF Init, WriteAheadInv, WriteAhead, EntriesKept, TasksRun, CommandEntry,
     OneCliWrite, NoCliWrite, NoneOf, AtMostOne, Queued

(* Nothing is reported or worked on anew, and the file keeps its entries.  *)
LEMMA WriteAheadFrame ==
  ASSUME WriteAhead, <<stored, stored'>> \in Keeps, UNCHANGED <<recent, events>>
  PROVE  WriteAhead'
  BY KeepsOrder DEF WriteAhead, Queued

LEMMA WriteAheadNext == WriteAheadInv /\ [Next]_vars => WriteAheadInv'
<1> SUFFICES ASSUME WriteAheadInv, [Next]_vars PROVE WriteAheadInv'
  OBVIOUS
<1> USE ConstantsAssumption
<1>0. /\ TypeOK /\ WriteAhead /\ EntriesKept /\ TasksRun /\ CommandEntry /\ OneCliWrite
      /\ StoreOK
  BY WritesType DEF WriteAheadInv, TypeOK, StoreOK
<1>T. TypeOK' /\ StoreOK'
  BY <1>0, TypeNext, WritesType DEF TypeOK, StoreOK
<1>t. "cli" \in Tasks /\ "bg" \in Tasks /\ "main" \in Tasks
  BY DEF Tasks
<1>p. /\ payments \in Ledgers /\ payments' \in Ledgers /\ stored \in Ledgers
      /\ snapshot \in Ledgers
      /\ cli # "idle" => paying \in PaymentIds
  BY <1>0, <1>T DEF TypeOK
<1>k. <<stored, stored>> \in Keeps /\ <<payments, payments>> \in Keeps
  BY <1>p, KeepsOrder
<1>1. CASE Start
  <2>0. /\ node = "down" /\ node' = "starting" /\ cli = "idle" /\ cli' = "idle"
        /\ bg' = "idle" /\ writes = <<>> /\ IssueWrite("main", payments')
        /\ payments' = FailUnknown(stored) /\ UNCHANGED <<recent, events>>
    BY <1>0, <1>1 DEF Start, TasksRun, ldkVars
  <2>1. <<stored, payments'>> \in Keeps
    BY <2>0, <1>p DEF FailUnknown, Keeps
  <2>2. Ordered(Keeps, stored, writes, payments')
    BY <2>0, <2>1 DEF Ordered
  <2>3. Ordered(Keeps, stored', writes', payments')
    BY <2>0, <2>2, <1>0, <1>t, <1>p, KeepsOrder, OrderedIssue DEF StoreOK
  <2>4. stored' = stored
    BY <2>0 DEF IssueWrite
  <2>5. OneCliWrite'
    BY <2>0, <1>0, <1>t, <1>p, CliWriteIssue DEF OneCliWrite
  <2>6. WriteAhead'
    BY <1>0, <2>0, <2>4, <1>k, WriteAheadFrame
  <2> QED  BY <1>T, <2>0, <2>3, <2>5, <2>6
           DEF WriteAheadInv, EntriesKept, TasksRun, CommandEntry
<1>2. CASE StartDone
  <2>0. /\ node = "starting" /\ cli = "idle" /\ cli' = "idle" /\ bg' = "idle" /\ node' = "up"
        /\ UNCHANGED <<payments, recent, events>> /\ FinishWrite("main")
    BY <1>0, <1>2 DEF StartDone, TasksRun, memoryVars, ldkVars
  <2>1. Ordered(Keeps, stored', writes', payments) /\ <<stored, stored'>> \in Keeps
    BY <1>0, <1>t, <2>0, KeepAndFinish DEF EntriesKept
  <2>2. OneCliWrite'
    BY <2>0, <1>0, <1>t, CliWriteFinish DEF OneCliWrite
  <2>3. WriteAhead'
    BY <1>0, <2>0, <2>1, WriteAheadFrame
  <2> QED  BY <1>T, <2>0, <2>1, <2>2, <2>3
           DEF WriteAheadInv, EntriesKept, TasksRun, CommandEntry
<1>3. ASSUME NEW p \in PaymentIds, NEW pc \in {"inserted", "writing"}, BeginCommand(p, pc)
      PROVE  /\ cli = "idle" /\ cli' = pc /\ paying' = p /\ node = "up" /\ node' = "up"
             /\ <<payments, payments'>> \in Keeps /\ payments'[p] # "Absent"
             /\ UNCHANGED <<recent, events>> /\ NoCliWrite
  <2>1. payments' = [payments EXCEPT ![p] = "Pending"]
    BY <1>3 DEF BeginCommand, InsertPending
  <2>2. <<payments, payments'>> \in Keeps
    BY <2>1, <1>p, KeepsUpdate DEF Status
  <2>3. payments'[p] = "Pending"
    BY <2>1, <1>p DEF Ledgers
  <2> QED  BY <1>0, <1>3, <2>2, <2>3 DEF BeginCommand, ldkVars, OneCliWrite
<1>4. ASSUME NEW p \in PaymentIds, SendPayment(p) \/ Keysend(p)
      PROVE  WriteAheadInv'
  <2>0. BeginCommand(p, "writing") /\ IssueWrite("cli", payments')
    BY <1>4 DEF SendPayment, Keysend
  <2>1. /\ cli = "idle" /\ cli' = "writing" /\ paying' = p /\ node = "up" /\ node' = "up"
        /\ <<payments, payments'>> \in Keeps /\ payments'[p] # "Absent"
        /\ UNCHANGED <<recent, events>> /\ NoCliWrite
    BY <1>3, <2>0
  <2>2. Ordered(Keeps, stored', writes', payments')
    BY <1>0, <1>t, <1>p, <2>0, <2>1, KeepAndIssue DEF EntriesKept
  <2>3. OnItsWay(p)'
    BY <1>0, <1>t, <1>p, <2>0, <2>1, OnItsWayIssue DEF OnItsWay
  <2>4. OneCliWrite'
    BY <1>0, <1>t, <1>p, <2>0, <2>1, CliWriteIssue DEF OneCliWrite
  <2>5. WriteAhead'
    BY <1>0, <1>k, <2>0, <2>1, WriteAheadFrame DEF IssueWrite
  <2>6. CommandEntry'
    BY <2>1, <2>3 DEF CommandEntry, OnItsWay
  <2> QED  BY <1>T, <2>1, <2>2, <2>4, <2>5, <2>6 DEF WriteAheadInv, EntriesKept, TasksRun
<1>5. ASSUME NEW p \in PaymentIds, PayOffer(p) \/ PayName(p)
      PROVE  WriteAheadInv'
  <2>0. BeginCommand(p, "inserted") /\ UNCHANGED <<stored, writes>>
    BY <1>5 DEF PayOffer, PayName, storeVars
  <2>1. /\ cli = "idle" /\ cli' = "inserted" /\ paying' = p /\ node = "up" /\ node' = "up"
        /\ <<payments, payments'>> \in Keeps /\ payments'[p] # "Absent"
        /\ UNCHANGED <<recent, events>> /\ NoCliWrite
    BY <1>3, <2>0
  <2>2. Ordered(Keeps, stored, writes, payments')
    BY <1>0, <2>1, KeepsOrder, OrderedLater DEF EntriesKept
  <2>3. OneCliWrite'
    BY <1>0, <2>0, <2>1 DEF OneCliWrite, NoCliWrite
  <2>4. WriteAhead'
    BY <1>0, <1>k, <2>0, <2>1, WriteAheadFrame
  <2> QED  BY <1>T, <2>0, <2>1, <2>2, <2>3, <2>4
           DEF WriteAheadInv, EntriesKept, TasksRun, CommandEntry
<1>6. CASE EncodeOffer
  <2>0. /\ cli = "inserted" /\ cli' = "encoded" /\ snapshot' = payments /\ node = "up"
        /\ UNCHANGED <<stored, writes, payments, node, paying, bg, recent, events>>
    BY <1>6 DEF EncodeOffer, storeVars, ldkVars
  <2>1. WriteAhead'
    BY <1>0, <1>k, <2>0, WriteAheadFrame
  <2>2. EntriesKept' /\ TasksRun' /\ OneCliWrite'
    BY <1>0, <2>0 DEF EntriesKept, TasksRun, OneCliWrite, NoCliWrite
  <2>3. CommandEntry'
    BY <1>0, <1>k, <2>0 DEF CommandEntry
  <2> QED  BY <1>T, <2>1, <2>2, <2>3 DEF WriteAheadInv
<1>7. CASE WriteOffer
  <2>0. /\ cli = "encoded" /\ cli' = "writing" /\ node = "up" /\ IssueWrite("cli", snapshot)
        /\ UNCHANGED <<payments, node, paying, bg, recent, events>>
    BY <1>7 DEF WriteOffer, ldkVars
  <2>1. /\ <<payments, snapshot>> \in Keeps /\ <<snapshot, payments>> \in Keeps
        /\ payments[paying] # "Absent" /\ paying \in PaymentIds
    BY <1>0, <1>p, <2>0 DEF CommandEntry
  <2>2. Ordered(Keeps, stored', writes', payments)
    <3>1. Ordered(Keeps, stored, writes, snapshot)
      BY <1>0, <2>0, <2>1, KeepsOrder, OrderedLater DEF EntriesKept
    <3>2. Ordered(Keeps, stored', writes', snapshot)
      BY <1>0, <1>t, <1>p, <2>0, <3>1, KeepsOrder, OrderedIssue DEF StoreOK
    <3> QED  BY <2>1, <3>2, KeepsOrder, OrderedLater
  <2>3. snapshot[paying] # "Absent"
    BY <2>1, KeepsOrder
  <2>4. NoCliWrite
    BY <1>0, <2>0 DEF OneCliWrite
  <2>5. OnItsWay(paying)'
    <3>1. \A p \in PaymentIds : snapshot[p] # "Absent" => Carried(Has(p), stored', writes', "cli")
      BY <1>0, <1>t, <1>p, <2>0, <2>4, OnItsWayIssue
    <3> QED  BY <2>0, <2>1, <2>3, <3>1 DEF OnItsWay
  <2>6. OneCliWrite'
    BY <1>0, <1>t, <1>p, <2>0, <2>4, CliWriteIssue DEF OneCliWrite
  <2>7. WriteAhead'
    BY <1>0, <1>k, <2>0, WriteAheadFrame DEF IssueWrite
  <2> QED  BY <1>T, <1>0, <2>0, <2>1, <2>2, <2>5, <2>6, <2>7
           DEF WriteAheadInv, EntriesKept, TasksRun, CommandEntry
<1>8. CASE AwaitWrite
  <2>0. /\ cli = "writing" /\ cli' = "pay" /\ node = "up" /\ FinishWrite("cli")
        /\ UNCHANGED <<payments, node, paying, bg, recent, events>>
    BY <1>8 DEF AwaitWrite, ldkVars
  <2>1. Ordered(Keeps, stored', writes', payments) /\ <<stored, stored'>> \in Keeps
    BY <1>0, <1>t, <2>0, KeepAndFinish DEF EntriesKept
  <2>2. stored'[paying] # "Absent"
    BY <1>0, <1>t, <1>p, <2>0, OnItsWayFinish DEF EntriesKept, CommandEntry
  <2>3. OneCliWrite'
    BY <1>0, <1>t, <2>0, CliWriteFinish DEF OneCliWrite
  <2>4. WriteAhead'
    BY <1>0, <2>0, <2>1, WriteAheadFrame
  <2> QED  BY <1>T, <1>0, <2>0, <2>1, <2>2, <2>3, <2>4
           DEF WriteAheadInv, EntriesKept, TasksRun, CommandEntry
<1>9. CASE PayOk
  <2>0. /\ cli = "pay" /\ cli' = "idle" /\ node = "up"
        /\ recent' = [recent EXCEPT ![paying] = "registered"]
        /\ UNCHANGED <<stored, writes, payments, node, bg, events>>
    BY <1>9 DEF PayOk, CommandEnds, storeVars
  <2>1. stored[paying] # "Absent"
    BY <1>0, <2>0 DEF CommandEntry
  <2>2. WriteAhead'
    BY <1>0, <2>0, <2>1 DEF WriteAhead, Queued, TypeOK
  <2> QED  BY <1>T, <1>0, <2>0, <2>2
           DEF WriteAheadInv, EntriesKept, TasksRun, CommandEntry, OneCliWrite, NoCliWrite
<1>10. CASE PayErr
  <2>0. /\ cli = "pay" /\ cli' \in {"idle", "failing"} /\ node = "up"
        /\ cli' = "failing" => paying' = paying
        /\ UNCHANGED <<stored, writes, payments, node, bg, recent, events>>
    BY <1>10 DEF PayErr, CommandEnds, storeVars, ldkVars
  <2>1. WriteAhead'
    BY <1>0, <1>k, <2>0, WriteAheadFrame
  <2> QED  BY <1>T, <1>0, <2>0, <2>1
           DEF WriteAheadInv, EntriesKept, TasksRun, CommandEntry, OneCliWrite, NoCliWrite
<1>11. CASE MarkFailed
  <2>0. /\ cli = "failing" /\ cli' = "failwriting" /\ node = "up" /\ IssueWrite("cli", payments')
        /\ payments' = [payments EXCEPT ![paying] = "Failed"]
        /\ UNCHANGED <<node, paying, bg, recent, events>>
    BY <1>11 DEF MarkFailed, ldkVars
  <2>1. <<payments, payments'>> \in Keeps /\ payments'[paying] # "Absent"
    BY <1>p, <2>0, KeepsUpdate DEF Status, Ledgers
  <2>2. Ordered(Keeps, stored', writes', payments')
    BY <1>0, <1>t, <1>p, <2>0, <2>1, KeepAndIssue DEF EntriesKept
  <2>3. NoCliWrite /\ stored[paying] # "Absent" /\ stored' = stored
    BY <1>0, <2>0 DEF OneCliWrite, CommandEntry, IssueWrite
  <2>4. OneCliWrite'
    BY <1>0, <1>t, <1>p, <2>0, <2>3, CliWriteIssue DEF OneCliWrite
  <2>5. WriteAhead'
    BY <1>0, <1>k, <2>0, <2>3, WriteAheadFrame
  <2> QED  BY <1>T, <1>0, <2>0, <2>1, <2>2, <2>3, <2>4, <2>5
           DEF WriteAheadInv, EntriesKept, TasksRun, CommandEntry
<1>12. CASE AwaitFailedWrite
  <2>0. /\ cli = "failwriting" /\ cli' = "idle" /\ node = "up" /\ FinishWrite("cli")
        /\ UNCHANGED <<payments, node, bg, recent, events>>
    BY <1>12 DEF AwaitFailedWrite, CommandEnds, ldkVars
  <2>1. Ordered(Keeps, stored', writes', payments) /\ <<stored, stored'>> \in Keeps
    BY <1>0, <1>t, <2>0, KeepAndFinish DEF EntriesKept
  <2>2. OneCliWrite'
    BY <1>0, <1>t, <2>0, CliWriteFinish DEF OneCliWrite
  <2>3. WriteAhead'
    BY <1>0, <2>0, <2>1, WriteAheadFrame
  <2> QED  BY <1>T, <1>0, <2>0, <2>1, <2>2, <2>3
           DEF WriteAheadInv, EntriesKept, TasksRun, CommandEntry
<1>13. ASSUME NEW t, NEW s \in {"Succeeded", "Failed"}, HandleEvent(t, s)
       PROVE  WriteAheadInv'
  <2>0. /\ node = "up" /\ bg' = "writing" /\ IssueWrite("bg", payments')
        /\ payments' = Outcome(events[handled + 1].id, s)
        /\ UNCHANGED <<node, cli, paying, snapshot, recent, events>>
    BY <1>13 DEF HandleEvent, ldkVars, NextId
  <2>1. <<payments, payments'>> \in Keeps /\ <<payments', payments>> \in Keeps
    BY <1>p, <2>0 DEF Keeps, Outcome, Ledgers
  <2>2. Ordered(Keeps, stored', writes', payments')
    BY <1>0, <1>t, <1>p, <2>0, <2>1, KeepAndIssue DEF EntriesKept
  <2>3. OneCliWrite'
    BY <1>0, <1>t, <1>p, <2>0, CliWriteIssue DEF OneCliWrite
  <2>4. WriteAhead'
    BY <1>0, <1>k, <2>0, WriteAheadFrame DEF IssueWrite
  <2>5. cli # "idle" => paying' \in PaymentIds /\ payments'[paying'] # "Absent"
    BY <1>0, <1>p, <2>0, <2>1, KeepsOrder DEF CommandEntry
  <2>6. cli = "writing" => OnItsWay(paying)'
    <3>1. \A p \in PaymentIds : payments'[p] # "Absent" /\ OnItsWay(p) =>
            Carried(Has(p), stored', writes', "cli")
      BY <1>0, <1>t, <1>p, <2>0, OnItsWayIssue
    <3>2. cli = "writing" => OnItsWay(paying)
      BY <1>0 DEF CommandEntry
    <3> QED  BY <2>0, <2>5, <3>1, <3>2 DEF OnItsWay
  <2>7. cli = "encoded" => <<payments', snapshot'>> \in Keeps /\ <<snapshot', payments'>> \in Keeps
    <3>1. cli = "encoded" => <<payments, snapshot>> \in Keeps /\ <<snapshot, payments>> \in Keeps
      BY <1>0 DEF CommandEntry
    <3>2. snapshot' = snapshot
      BY <2>0
    <3> QED  BY <2>1, <3>1, <3>2, KeepsOrder
  <2>8. stored' = stored
    BY <2>0 DEF IssueWrite
  <2>9. CommandEntry'
    BY <1>0, <2>0, <2>5, <2>6, <2>7, <2>8 DEF CommandEntry
  <2> QED  BY <1>T, <1>0, <2>0, <2>2, <2>3, <2>4, <2>9 DEF WriteAheadInv, EntriesKept, TasksRun
<1>14. CASE PaymentSent \/ PaymentFailed
  BY <1>13, <1>14 DEF PaymentSent, PaymentFailed
<1>15. CASE EventHandled
  <2>0. /\ node = "up" /\ FinishWrite("bg") /\ bg' = "idle"
        /\ UNCHANGED <<payments, node, cli, paying, snapshot, recent, events>>
    BY <1>15 DEF EventHandled, ldkVars
  <2>1. Ordered(Keeps, stored', writes', payments) /\ <<stored, stored'>> \in Keeps
    BY <1>0, <1>t, <2>0, KeepAndFinish DEF EntriesKept
  <2>2. OneCliWrite'
    BY <1>0, <1>t, <2>0, CliWriteFinish DEF OneCliWrite
  <2>3. WriteAhead'
    BY <1>0, <2>0, <2>1, WriteAheadFrame
  <2>4. cli = "writing" => OnItsWay(paying)'
    <3>1. \A p \in PaymentIds : OnItsWay(p) => Carried(Has(p), stored', writes', "cli")
      BY <1>0, <1>t, <2>0, OnItsWayFinish DEF EntriesKept
    <3> QED  BY <1>0, <1>p, <2>0, <3>1 DEF CommandEntry, OnItsWay
  <2>5. cli \in {"pay", "failing", "failwriting"} => stored'[paying] # "Absent"
    BY <1>0, <1>p, <2>1, KeepsOrder DEF CommandEntry
  <2>6. CommandEntry'
    BY <1>0, <2>0, <2>4, <2>5 DEF CommandEntry
  <2> QED  BY <1>T, <1>0, <2>0, <2>1, <2>2, <2>3, <2>6 DEF WriteAheadInv, EntriesKept, TasksRun
<1>16. ASSUME UNCHANGED <<storeVars, payments, node, cli, paying, snapshot, bg>>, WriteAhead'
       PROVE  WriteAheadInv'
  BY <1>0, <1>T, <1>16
     DEF WriteAheadInv, EntriesKept, TasksRun, CommandEntry, OneCliWrite, NoCliWrite,
         OnItsWay, storeVars
<1>17. ASSUME NEW p \in PaymentIds, SendHtlc(p) \/ Settle(p) \/ GiveUp(p) \/ Forget(p)
       PROVE  WriteAheadInv'
  <2>0. /\ UNCHANGED <<storeVars, payments, node, cli, paying, snapshot, bg>>
        /\ recent[p] # "none"
        /\ \A q \in PaymentIds : q # p => recent'[q] = recent[q]
        /\ \/ events' = events
           \/ \E t \in {"Sent", "Failed"} : events' = Append(events, Event(t, p))
    BY <1>0, <1>17 DEF SendHtlc, Settle, GiveUp, Forget, Emit, memoryVars, TypeOK
  <2>1. stored'[p] # "Absent"
    BY <1>0, <2>0 DEF WriteAhead, storeVars
  <2>2. \A i \in DOMAIN events' : events'[i].id = p \/ (i \in DOMAIN events /\ events'[i] = events[i])
    <3>1. CASE events' = events
      BY <3>1
    <3>2. ASSUME NEW t \in {"Sent", "Failed"}, events' = Append(events, Event(t, p))
          PROVE  \A i \in DOMAIN events' :
                   events'[i].id = p \/ (i \in DOMAIN events /\ events'[i] = events[i])
      <4>1. events \in Seq(Entry) /\ Event(t, p) \in Entry /\ Event(t, p).id = p
        BY <1>0 DEF TypeOK, Entry, Event
      <4>2. /\ Len(events') = Len(events) + 1 /\ events'[Len(events) + 1].id = p
            /\ \A i \in 1..Len(events) : events'[i] = events[i]
            /\ DOMAIN events' = 1..Len(events') /\ DOMAIN events = 1..Len(events)
            /\ Len(events) \in Nat
        BY <3>2, <4>1, AppendProperties, LenProperties
      <4> QED  BY <4>2
    <3> QED  BY <2>0, <3>1, <3>2
  <2>3. \A q \in PaymentIds : \A t \in {"Sent", "Failed"} : q # p /\ Queued(t, q)' => Queued(t, q)
    BY <2>2 DEF Queued, Event
  <2>4. WriteAhead'
    BY <1>0, <2>0, <2>1, <2>3 DEF WriteAhead, storeVars
  <2> QED  BY <1>16, <2>0, <2>4
<1>18. CASE PersistManager
  <2>0. /\ UNCHANGED <<storeVars, payments, node, cli, paying, snapshot, bg, recent>>
        /\ events' = SubSeq(events, handled + 1, Len(events))
    BY <1>18 DEF PersistManager, DropHandled
  <2>1. handled \in Nat /\ events \in Seq(Entry) /\ Len(events) \in Nat
    BY <1>0, LenProperties DEF TypeOK, Entry
  <2>2. \A i \in DOMAIN events' : i + handled \in DOMAIN events /\ events'[i] = events[i + handled]
    BY <2>0, <2>1
  <2>3. \A q, t : Queued(t, q)' => Queued(t, q)
    BY <2>2 DEF Queued
  <2>4. WriteAhead'
    BY <1>0, <2>0, <2>3 DEF WriteAhead, storeVars
  <2> QED  BY <1>16, <2>0, <2>4
<1>19. CASE Crash
  <2>0. /\ node' = "down" /\ cli' = "idle" /\ bg' = "idle" /\ writes' = <<>>
        /\ UNCHANGED <<stored, events>>
        /\ \A q \in PaymentIds : recent'[q] # "none" => recent[q] # "none"
    BY <1>19 DEF Crash, LoseWrites
  <2>1. WriteAhead'
    BY <1>0, <2>0 DEF WriteAhead, Queued
  <2> QED  BY <1>T, <2>0, <2>1
           DEF WriteAheadInv, EntriesKept, TasksRun, CommandEntry, OneCliWrite, NoCliWrite,
               NoneOf, AtMostOne
<1>20. CASE UNCHANGED vars
  <2>1. WriteAhead'
    BY <1>0, <1>k, <1>20, WriteAheadFrame DEF vars
  <2> QED  BY <1>16, <1>20, <2>1 DEF vars, storeVars
<1> QED
  BY <1>1, <1>2, <1>4, <1>5, <1>6, <1>7, <1>8, <1>9, <1>10, <1>11, <1>12, <1>14, <1>15,
     <1>17, <1>18, <1>19, <1>20
     DEF Next, CliStep, BgStep

LEMMA WriteAheadInductive == Spec => []WriteAheadInv
  BY WriteAheadInit, WriteAheadNext, PTL DEF Spec

(* LDK never works on a payment that a restart would not find in the file: *)
(* for any payments, however many crashes, and for the unlocked branches.  *)
THEOREM WriteAheadCorrect == Spec => []WriteAhead
<1>1. WriteAheadInv => WriteAhead
  BY DEF WriteAheadInv
<1> QED  BY <1>1, WriteAheadInductive, PTL

(* The file never loses an entry: from one write to the next each has the  *)
(* entries of the one before, whoever calls it, and the restart starts     *)
(* from the file.                                                          *)
THEOREM EntriesStayCorrect == Spec => EntriesStay
<1>1. ASSUME WriteAheadInv, [Next]_vars
      PROVE  [\A p \in PaymentIds : stored[p] # "Absent" => stored'[p] # "Absent"]_vars
  <2> SUFFICES ASSUME NEW p \in PaymentIds, stored[p] # "Absent" PROVE stored'[p] # "Absent"
    OBVIOUS
  <2>1. CASE StartDone \/ AwaitWrite \/ AwaitFailedWrite \/ EventHandled
    <3>1. node # "down" /\ \E w \in Tasks : FinishWrite(w)
      BY <2>1 DEF StartDone, AwaitWrite, AwaitFailedWrite, EventHandled, Tasks
    <3>2. StoreOK /\ Ordered(Keeps, stored, writes, payments)
      BY <1>1, <3>1, WritesType DEF WriteAheadInv, TypeOK, StoreOK, EntriesKept
    <3>3. <<stored, stored'>> \in Keeps
      BY <3>1, <3>2, KeepAndFinish
    <3> QED  BY <3>3, KeepsOrder
  <2>2. CASE UNCHANGED stored
    BY <2>2
  <2>3. CASE \/ Start \/ (\E q \in PaymentIds : SendPayment(q) \/ Keysend(q) \/ PayOffer(q) \/ PayName(q))
             \/ EncodeOffer \/ WriteOffer \/ PayOk \/ PayErr \/ MarkFailed \/ PaymentSent \/ PaymentFailed
             \/ (\E q \in PaymentIds : SendHtlc(q) \/ Settle(q) \/ GiveUp(q) \/ Forget(q))
             \/ PersistManager \/ Crash \/ UNCHANGED vars
    BY <2>2, <2>3 DEF Start, SendPayment, Keysend, PayOffer, PayName, EncodeOffer, WriteOffer, PayOk,
                      PayErr, MarkFailed, PaymentSent, PaymentFailed, HandleEvent, SendHtlc, Settle,
                      GiveUp, Forget, PersistManager, Crash, LoseWrites, IssueWrite, storeVars, vars
  <2> QED  BY <1>1, <2>1, <2>3 DEF Next, CliStep, BgStep
<1> QED  BY <1>1, WriteAheadInductive, PTL DEF Spec, EntriesStay
-----------------------------------------------------------------------------
(* The queue of events.                                                    *)

LEMMA EmitQueue ==
  ASSUME TypeOK, NEW t \in {"Sent", "Failed"}, NEW p \in PaymentIds, Emit(t, p), UNCHANGED handled
  PROVE  /\ \A u, q : Queued(u, q)' <=> Queued(u, q) \/ (u = t /\ q = p)
         /\ \A u, q : Unhandled(u, q)' <=> Unhandled(u, q) \/ (u = t /\ q = p)
         /\ \A i \in 1..Len(events) : events'[i] = events[i]
<1>1. Event(t, p) \in Entry /\ events \in Seq(Entry) /\ handled \in 0..Len(events)
  BY DEF Event, Entry, TypeOK
<1>2. /\ Len(events) \in Nat /\ DOMAIN events = 1..Len(events)
      /\ Len(events') = Len(events) + 1 /\ DOMAIN events' = 1..Len(events')
      /\ \A i \in 1..Len(events) : events'[i] = events[i]
      /\ events'[Len(events) + 1] = Event(t, p)
  BY <1>1, AppendProperties, LenProperties DEF Emit
<1>3. \A i \in 1..Len(events') : i \in 1..Len(events) \/ i = Len(events) + 1
  BY <1>2
<1>4. /\ Len(events) + 1 \in 1..Len(events') /\ Len(events) + 1 > handled
      /\ \A i \in 1..Len(events) : i \in 1..Len(events')
  BY <1>1, <1>2
<1>5. \A u, q : Event(u, q) = Event(t, p) <=> u = t /\ q = p
  BY DEF Event
<1>6. ASSUME NEW u, NEW q PROVE Queued(u, q)' <=> Queued(u, q) \/ (u = t /\ q = p)
  <2>1. Queued(u, q)' <=> \E i \in 1..Len(events') : events'[i] = Event(u, q)
    BY <1>2 DEF Queued, Event
  <2>2. Queued(u, q) <=> \E i \in 1..Len(events) : events[i] = Event(u, q)
    BY <1>2 DEF Queued
  <2> QED  BY <1>2, <1>3, <1>4, <1>5, <2>1, <2>2
<1>7. ASSUME NEW u, NEW q PROVE Unhandled(u, q)' <=> Unhandled(u, q) \/ (u = t /\ q = p)
  <2>1. Unhandled(u, q)' <=> \E i \in 1..Len(events') : i > handled /\ events'[i] = Event(u, q)
    BY <1>2 DEF Unhandled, Event
  <2>2. Unhandled(u, q) <=> \E i \in 1..Len(events) : i > handled /\ events[i] = Event(u, q)
    BY <1>2 DEF Unhandled
  <2> QED  BY <1>2, <1>3, <1>4, <1>5, <2>1, <2>2
<1> QED  BY <1>2, <1>6, <1>7

(* The events that are dropped were handled.                               *)
LEMMA DropQueue ==
  ASSUME TypeOK, DropHandled
  PROVE  \A u, q : (Queued(u, q)' => Queued(u, q)) /\ (Unhandled(u, q)' <=> Unhandled(u, q))
<1>1. /\ handled \in Nat /\ handled <= Len(events) /\ events \in Seq(Entry) /\ Len(events) \in Nat
      /\ DOMAIN events = 1..Len(events) /\ handled' = 0
      /\ events' = SubSeq(events, handled + 1, Len(events))
  BY LenProperties DEF TypeOK, Entry, DropHandled
<1>2. /\ DOMAIN events' = 1..(Len(events) - handled)
      /\ \A i \in 1..(Len(events) - handled) : events'[i] = events[i + handled]
  BY <1>1
<1>3. \A i \in DOMAIN events' : i + handled \in DOMAIN events /\ i + handled > handled /\ i > 0
  BY <1>1, <1>2
<1>4. \A i \in DOMAIN events : i > handled => i - handled \in DOMAIN events' /\ (i - handled) + handled = i
  BY <1>1, <1>2
<1>5. \A i \in DOMAIN events' : events'[i] = events[i + handled]
  BY <1>2
<1>6. \A i \in DOMAIN events : i > handled => events'[i - handled] = events[i] /\ i - handled > 0
  BY <1>1, <1>4, <1>5
<1>7. ASSUME NEW u, NEW q PROVE Queued(u, q)' => Queued(u, q)
  BY <1>3, <1>5 DEF Queued, Event
<1>8. ASSUME NEW u, NEW q PROVE Unhandled(u, q)' => Unhandled(u, q)
  BY <1>3, <1>5 DEF Unhandled, Event
<1>9. ASSUME NEW u, NEW q PROVE Unhandled(u, q) => Unhandled(u, q)'
  BY <1>1, <1>4, <1>6 DEF Unhandled, Event
<1> QED  BY <1>7, <1>8, <1>9

(* One more event is handled.                                              *)
LEMMA HandledQueue ==
  ASSUME TypeOK, handled' = handled + 1, UNCHANGED events
  PROVE  \A u, q : Unhandled(u, q) => Unhandled(u, q)' \/ events[handled + 1] = Event(u, q)
<1>1. handled \in Nat /\ DOMAIN events = 1..Len(events) /\ Len(events) \in Nat
  BY LenProperties DEF TypeOK
<1>2. \A i \in 1..Len(events) : i > handled => i > handled + 1 \/ i = handled + 1
  BY <1>1
<1> QED  BY <1>1, <1>2 DEF Unhandled, Event

(* The event the handler is called with, or is handling.                   *)
LEMMA NextEvent ==
  ASSUME TypeOK, handled < Len(events)
  PROVE  /\ NextId \in PaymentIds
         /\ events[handled + 1] = Event(events[handled + 1].type, NextId)
         /\ events[handled + 1].type \in {"Sent", "Failed"}
         /\ \A t : events[handled + 1].type = t => Queued(t, NextId) /\ Unhandled(t, NextId)
         /\ handled + 1 \in 1..Len(events)
<1>1. /\ handled \in Nat /\ Len(events) \in Nat /\ events \in Seq(Entry)
      /\ handled + 1 \in 1..Len(events) /\ DOMAIN events = 1..Len(events) /\ handled + 1 > handled
  BY LenProperties DEF TypeOK, Entry
<1>2. events[handled + 1] \in Entry
  BY <1>1, ElementOfSeq
<1>3. events[handled + 1] = Event(events[handled + 1].type, NextId)
  BY <1>2 DEF Entry, Event, NextId
<1> QED  BY <1>1, <1>2, <1>3 DEF Entry, NextId, Queued, Unhandled
-----------------------------------------------------------------------------
(* Outcomes, in a node that pays no offers and no names (UnlockedIds = {}; *)
(* with them SentIsDurable is false).  SentIsDurable, FailedIsDead and     *)
(* PendingIsTracked need one another: what is in the file is true, so what *)
(* a restart fails is dead, so what is reported later does not contradict  *)
(* the file; and every write under way was encoded from a map that only    *)
(* went on from there, so no later one takes an outcome back.              *)

(* An entry stays, and an outcome is final.                                *)
Onward == {r \in Ledgers \X Ledgers :
             \A p \in Fresh :
               /\ r[1][p] \in {"Succeeded", "Failed"} => r[2][p] = r[1][p]
               /\ r[1][p] = "Pending" => r[2][p] # "Absent"}

Paid(p) == {l \in Ledgers : l[p] = "Succeeded"}

(* The file, the writes under way and the map: none goes back.             *)
Order == node # "down" => Ordered(Onward, stored, writes, payments)

(* What was written last is the map.                                       *)
MapIsLast == node # "down" => UpToDate(stored, writes, payments)

(* No command encodes without the lock.                                    *)
Locked == cli \notin {"inserted", "encoded"}

(* What is shown, stored or about to be reported is what LDK says.         *)
Truth ==
  \A p \in Fresh :
    /\ payments[p] = "Failed" \/ stored[p] = "Failed" => recent[p] = "none"
    /\ payments[p] = "Succeeded" \/ stored[p] = "Succeeded" => recent[p] \in {"fulfilled", "forgotten"}
    /\ Queued("Sent", p) => recent[p] = "fulfilled"
    /\ Queued("Failed", p) => recent[p] = "none"
    /\ payments[p] = "Failed" => stored[p] # "Absent"

(* LDK has nothing to do with the payment of the command under way.        *)
Command ==
  cli # "idle" /\ paying \in Fresh =>
    /\ recent[paying] = "none" /\ ~Queued("Sent", paying) /\ ~Queued("Failed", paying)
    /\ payments[paying] = IF cli = "failwriting" THEN "Failed" ELSE "Pending"

(* The handler has at most one write under way, and it carries the outcome. *)
Recording ==
  /\ AtMostOne(writes, "bg")
  /\ bg # "writing" => NoneOf(writes, "bg")
  /\ bg = "writing" /\ NextId \in Fresh =>
       /\ payments[NextId] \in {"Succeeded", "Failed"}
       /\ events[handled + 1].type = "Sent" => Carried(Paid(NextId), stored, writes, "bg")

(* PendingIsTracked, while the node starts too.                            *)
Tracked ==
  node # "down" =>
    \A p \in Fresh :
      payments[p] = "Pending" =>
        Known(p) \/ Unhandled("Sent", p) \/ Unhandled("Failed", p) \/ paying = p

OutcomeInv ==
  /\ WriteAheadInv /\ Locked /\ Order /\ MapIsLast /\ Truth
  /\ Command /\ Recording /\ SentIsDurable /\ Tracked

LEMMA OnwardOrder ==
  /\ \A a \in Ledgers : <<a, a>> \in Onward
  /\ \A a, b, c : <<a, b>> \in Onward /\ <<b, c>> \in Onward => <<a, c>> \in Onward
  /\ \A p \in Fresh : \A a, b :
       <<a, b>> \in Onward /\ a \in Paid(p) => b \in Paid(p)
<1>1. \A a \in Ledgers : <<a, a>> \in Onward
  BY DEF Onward
<1>2. ASSUME NEW a, NEW b, NEW c, <<a, b>> \in Onward, <<b, c>> \in Onward
      PROVE  <<a, c>> \in Onward
  <2>1. a \in Ledgers /\ b \in Ledgers /\ c \in Ledgers
    BY <1>2 DEF Onward
  <2>2. \A p \in Fresh : b[p] \in {"Absent", "Pending", "Succeeded", "Failed"}
    BY <2>1 DEF Ledgers, Status, Fresh
  <2> QED  BY <1>2, <2>1, <2>2 DEF Onward
<1>3. ASSUME NEW p \in Fresh, NEW a, NEW b, <<a, b>> \in Onward, a \in Paid(p)
      PROVE  b \in Paid(p)
  BY <1>3 DEF Onward, Paid
<1> QED  BY <1>1, <1>2, <1>3

(* What holds in every state of the invariant.                             *)
LEMMA OutcomeFacts ==
  ASSUME OutcomeInv
  PROVE  /\ TypeOK /\ StoreOK /\ Fresh \subseteq PaymentIds
         /\ WriteAhead /\ EntriesKept /\ TasksRun /\ CommandEntry
         /\ Locked /\ Order /\ MapIsLast /\ Truth /\ Command /\ Recording /\ SentIsDurable /\ Tracked
         /\ payments \in Ledgers /\ stored \in Ledgers /\ recent \in [PaymentIds -> Recent]
         /\ \A p \in Fresh : payments[p] \in Status /\ stored[p] \in Status /\ recent[p] \in Recent
         /\ node # "down" => <<stored, payments>> \in Onward /\ <<stored, payments>> \in Keeps
         /\ cli # "idle" => paying \in PaymentIds
<1>1. TypeOK
  BY DEF OutcomeInv, WriteAheadInv
<1>2. /\ payments \in Ledgers /\ stored \in Ledgers /\ recent \in [PaymentIds -> Recent]
      /\ Fresh \subseteq PaymentIds /\ StoreOK
      /\ cli # "idle" => paying \in PaymentIds
  BY <1>1, WritesType DEF TypeOK, Recent, StoreOK, Fresh
<1>3. node # "down" => <<stored, payments>> \in Onward /\ <<stored, payments>> \in Keeps
  BY DEF OutcomeInv, WriteAheadInv, EntriesKept, Order, Ordered
<1> QED  BY <1>1, <1>2, <1>3 DEF OutcomeInv, WriteAheadInv, Ledgers

(* A write of any task ends.                                               *)
LEMMA FinishKeeps ==
  ASSUME StoreOK, NEW w \in Tasks, FinishWrite(w), AtMostOne(writes, "bg"),
         Ordered(Onward, stored, writes, payments), UpToDate(stored, writes, payments)
  PROVE  /\ Ordered(Onward, stored', writes', payments) /\ UpToDate(stored', writes', payments)
         /\ <<stored, stored'>> \in Onward /\ <<stored', payments>> \in Onward
         /\ AtMostOne(writes', "bg")
         /\ w = "bg" \/ NoneOf(writes, "bg") => NoneOf(writes', "bg")
         /\ \A p \in Fresh : Carried(Paid(p), stored, writes, "bg") =>
              Carried(Paid(p), stored', writes', "bg") /\ (w = "bg" => stored'[p] = "Succeeded")
<1>0. "bg" \in Tasks /\ <<stored, stored>> \in Onward
  BY OnwardOrder DEF Tasks, StoreOK
<1>1. /\ Ordered(Onward, stored', writes', payments) /\ <<stored, stored'>> \in Onward
      /\ <<stored', payments>> \in Onward
  <2>1. Ordered(Onward, stored', writes', payments) /\ <<stored, stored'>> \in Onward
    BY OnwardOrder, OrderedFinish DEF StoreOK
  <2> QED  BY <2>1 DEF Ordered
<1>2. UpToDate(stored', writes', payments)
  BY UpToDateFinish DEF StoreOK
<1>3. AtMostOne(writes', "bg") /\ (w = "bg" \/ NoneOf(writes, "bg") => NoneOf(writes', "bg"))
  BY <1>0, OneFinish DEF StoreOK
<1>4. ASSUME NEW p \in Fresh, Carried(Paid(p), stored, writes, "bg")
      PROVE  Carried(Paid(p), stored', writes', "bg") /\ (w = "bg" => stored'[p] = "Succeeded")
  <2>1. \A a, b : <<a, b>> \in Onward /\ a \in Paid(p) => b \in Paid(p)
    BY OnwardOrder
  <2>2. Carried(Paid(p), stored', writes', "bg") /\ (w = "bg" => stored' \in Paid(p))
    BY <1>0, <1>4, <2>1, CarriedFinish DEF StoreOK
  <2> QED  BY <2>2 DEF Paid
<1> QED  BY <1>1, <1>2, <1>3, <1>4

(* The map goes onward and is given to write, under one lock.              *)
LEMMA IssueKeeps ==
  ASSUME StoreOK, payments' \in Ledgers, NEW w \in Tasks, IssueWrite(w, payments'),
         Ordered(Onward, stored, writes, payments), <<payments, payments'>> \in Onward,
         AtMostOne(writes, "bg"), w = "bg" => NoneOf(writes, "bg")
  PROVE  /\ Ordered(Onward, stored', writes', payments') /\ UpToDate(stored', writes', payments')
         /\ AtMostOne(writes', "bg")
         /\ w # "bg" /\ NoneOf(writes, "bg") => NoneOf(writes', "bg")
         /\ \A p \in Fresh :
              (IF w = "bg" THEN payments'[p] = "Succeeded" ELSE Carried(Paid(p), stored, writes, "bg"))
                => Carried(Paid(p), stored', writes', "bg")
<1>0. "bg" \in Tasks
  BY DEF Tasks
<1>1. Ordered(Onward, stored', writes', payments')
  <2>1. Ordered(Onward, stored, writes, payments')
    BY OnwardOrder, OrderedLater
  <2> QED  BY <2>1, OnwardOrder, OrderedIssue DEF StoreOK
<1>2. UpToDate(stored', writes', payments')
  BY UpToDateIssue DEF StoreOK
<1>3. AtMostOne(writes', "bg") /\ (w # "bg" /\ NoneOf(writes, "bg") => NoneOf(writes', "bg"))
  BY <1>0, OneIssue DEF StoreOK
<1>4. ASSUME NEW p \in Fresh,
             IF w = "bg" THEN payments'[p] = "Succeeded" ELSE Carried(Paid(p), stored, writes, "bg")
      PROVE  Carried(Paid(p), stored', writes', "bg")
  <2>1. w = "bg" => payments' \in Paid(p)
    BY <1>4 DEF Paid
  <2> QED  BY <1>0, <1>4, <2>1, CarriedIssue DEF StoreOK
<1> QED  BY <1>1, <1>2, <1>3, <1>4
LEMMA OutcomeInit == Init => OutcomeInv
<1> SUFFICES ASSUME Init PROVE OutcomeInv
  OBVIOUS
<1>1. Len(writes) = 0 /\ 1..0 = {} /\ DOMAIN events = {}
  BY EmptySeq DEF Init
<1>2. WriteAheadInv
  BY WriteAheadInit
<1>3. \A p \in Fresh : payments[p] = "Absent" /\ stored[p] = "Absent" /\ recent[p] = "none"
  BY DEF Init, NoPayments, Fresh
<1>4. Locked /\ Order /\ MapIsLast /\ Command /\ Tracked
  BY DEF Init, Locked, Order, MapIsLast, Command, Tracked
<1>5. Truth
  BY <1>1, <1>3 DEF Truth, Queued
<1>6. Recording
  BY <1>1 DEF Init, Recording, AtMostOne, NoneOf
<1>7. SentIsDurable
  BY <1>3 DEF SentIsDurable
<1> QED  BY <1>2, <1>4, <1>5, <1>6, <1>7 DEF OutcomeInv

(* The queue is left alone.                                                *)
LEMMA QueueFrame ==
  ASSUME UNCHANGED <<events, handled>>
  PROVE  /\ \A u, q : Queued(u, q)' <=> Queued(u, q)
         /\ \A u, q : Unhandled(u, q)' <=> Unhandled(u, q)
         /\ NextId' = NextId /\ events'[handled' + 1].type = events[handled + 1].type
  BY DEF Queued, Unhandled, Event, NextId

(* A write of the CLI, or of the start, ends.                              *)
LEMMA FinishFrame ==
  ASSUME OutcomeInv, NEW w \in {"cli", "main"}, FinishWrite(w), node # "down",
         UNCHANGED <<payments, recent, events, handled, bg>>
  PROVE  Order' /\ MapIsLast' /\ Truth' /\ Recording' /\ SentIsDurable'
<1>0. w \in Tasks /\ w # "bg"
  BY DEF Tasks
<1>1. /\ Ordered(Onward, stored', writes', payments) /\ UpToDate(stored', writes', payments)
      /\ <<stored, stored'>> \in Onward /\ <<stored', payments>> \in Onward
      /\ AtMostOne(writes', "bg")
      /\ NoneOf(writes, "bg") => NoneOf(writes', "bg")
      /\ \A p \in Fresh : Carried(Paid(p), stored, writes, "bg") =>
           Carried(Paid(p), stored', writes', "bg")
  BY <1>0, OutcomeFacts, FinishKeeps DEF Order, MapIsLast, Recording
<1>2. Order' /\ MapIsLast'
  BY <1>1 DEF Order, MapIsLast
<1>3. Truth'
  BY <1>1, OutcomeFacts, QueueFrame DEF Truth, Onward, Status
<1>4. Recording'
  BY <1>1, OutcomeFacts, QueueFrame DEF Recording
<1>5. SentIsDurable'
  BY <1>1, OutcomeFacts, QueueFrame DEF SentIsDurable, Onward
<1> QED  BY <1>2, <1>3, <1>4, <1>5

(* A command of the CLI changes the map and writes it.                     *)
LEMMA CliIssueFrame ==
  ASSUME OutcomeInv, IssueWrite("cli", payments'), node # "down", payments' \in Ledgers,
         <<payments, payments'>> \in Onward,
         \A p \in Fresh : \/ payments'[p] = payments[p]
                          \/ payments'[p] = "Pending"
                          \/ payments'[p] = "Failed" /\ recent[p] = "none" /\ stored[p] # "Absent",
         UNCHANGED <<recent, events, handled, bg>>
  PROVE  Order' /\ MapIsLast' /\ Truth' /\ Recording' /\ SentIsDurable'
<1>0. "cli" \in Tasks /\ "cli" # "bg" /\ stored' = stored
  BY DEF Tasks, IssueWrite
<1>1. /\ Ordered(Onward, stored', writes', payments') /\ UpToDate(stored', writes', payments')
      /\ AtMostOne(writes', "bg")
      /\ NoneOf(writes, "bg") => NoneOf(writes', "bg")
      /\ \A p \in Fresh : Carried(Paid(p), stored, writes, "bg") =>
           Carried(Paid(p), stored', writes', "bg")
  BY <1>0, OutcomeFacts, IssueKeeps DEF Order, Recording
<1>2. Order' /\ MapIsLast'
  BY <1>1 DEF Order, MapIsLast
<1>3. Truth'
  BY <1>0, OutcomeFacts, QueueFrame DEF Truth
<1>4. Recording'
  BY <1>1, OutcomeFacts, QueueFrame DEF Recording, Onward
<1>5. SentIsDurable'
  BY <1>0, OutcomeFacts, QueueFrame DEF SentIsDurable
<1> QED  BY <1>2, <1>3, <1>4, <1>5

(* Neither the ledger nor the handler moves.                               *)
LEMMA LdkFrame ==
  ASSUME OutcomeInv, UNCHANGED <<storeVars, payments, node, bg>>,
         bg = "writing" => /\ handled' = handled
                           /\ events'[handled + 1] = events[handled + 1]
  PROVE  Order' /\ MapIsLast' /\ Recording'
<1>0. UNCHANGED <<stored, writes>>
  BY DEF storeVars
<1>1. Order' /\ MapIsLast'
  BY <1>0, OutcomeFacts DEF Order, MapIsLast
<1>2. AtMostOne(writes', "bg") = AtMostOne(writes, "bg") /\ NoneOf(writes', "bg") = NoneOf(writes, "bg")
  BY <1>0
<1>3. Recording'
  <2>1. CASE bg = "writing"
    <3>1. NextId' = NextId /\ events'[handled' + 1].type = events[handled + 1].type
      BY <2>1 DEF NextId
    <3>2. Carried(Paid(NextId'), stored', writes', "bg") = Carried(Paid(NextId), stored, writes, "bg")
      BY <1>0, <3>1
    <3> QED  BY <1>2, <2>1, <3>1, <3>2, OutcomeFacts DEF Recording
  <2>2. CASE bg # "writing"
    BY <1>2, <2>2, OutcomeFacts DEF Recording
  <2> QED  BY <2>1, <2>2
<1> QED  BY <1>1, <1>3
(* A start fails only what is dead: LDK has forgotten only what the file   *)
(* has as paid.                                                            *)
LEMMA StartKeeps ==
  ASSUME OutcomeInv, TypeOK', Start
  PROVE  Order' /\ MapIsLast' /\ Truth' /\ Recording' /\ SentIsDurable' /\ Tracked'
<1>0. /\ node = "down" /\ payments' = FailUnknown(stored) /\ IssueWrite("main", payments')
      /\ UNCHANGED <<cli, paying, bg, events, handled, recent>>
  BY DEF Start, ldkVars
<1>1. /\ writes = <<>> /\ Len(writes) = 0 /\ 1..0 = {} /\ cli = "idle" /\ bg = "idle" /\ stored' = stored
      /\ "main" \in Tasks /\ "main" # "bg" /\ payments' \in Ledgers
  BY <1>0, OutcomeFacts, EmptySeq DEF TasksRun, IssueWrite, Tasks, TypeOK
<1>2. \A p \in Fresh : payments'[p] = IF stored[p] = "Pending" /\ ~Known(p) THEN "Failed" ELSE stored[p]
  BY <1>0, OutcomeFacts DEF FailUnknown
<1>3. \A p \in Fresh : stored[p] = "Pending" /\ ~Known(p) => recent[p] = "none"
  <2> SUFFICES ASSUME NEW p \in Fresh, stored[p] = "Pending", recent[p] = "forgotten" PROVE FALSE
    BY OutcomeFacts DEF Known, Recent
  <2>1. ~Queued("Sent", p)
    BY OutcomeFacts DEF Truth
  <2>2. ~Unhandled("Sent", p)
    BY <2>1 DEF Queued, Unhandled
  <2> QED  BY <2>2, OutcomeFacts DEF SentIsDurable
<1>4. <<stored, payments'>> \in Onward
  BY <1>1, <1>2, OutcomeFacts DEF Onward
<1>5. /\ Ordered(Onward, stored', writes', payments') /\ UpToDate(stored', writes', payments')
      /\ AtMostOne(writes', "bg") /\ NoneOf(writes', "bg")
  <2>1. Ordered(Onward, stored, writes, payments')
    BY <1>1, <1>4 DEF Ordered
  <2>2. Ordered(Onward, stored', writes', payments')
    BY <1>0, <1>1, <2>1, OutcomeFacts, OnwardOrder, OrderedIssue DEF StoreOK
  <2>3. UpToDate(stored', writes', payments')
    BY <1>0, <1>1, OutcomeFacts, UpToDateIssue DEF StoreOK
  <2>4. AtMostOne(writes, "bg") /\ NoneOf(writes, "bg") /\ "bg" \in Tasks
    BY <1>1 DEF AtMostOne, NoneOf, Tasks
  <2>5. AtMostOne(writes', "bg") /\ NoneOf(writes', "bg")
    BY <1>0, <1>1, <2>4, OutcomeFacts, OneIssue DEF StoreOK
  <2> QED  BY <2>2, <2>3, <2>5
<1>6. Order' /\ MapIsLast' /\ Recording'
  BY <1>0, <1>1, <1>5 DEF Order, MapIsLast, Recording
<1>7. Truth'
  BY <1>0, <1>1, <1>2, <1>3, OutcomeFacts, QueueFrame DEF Truth
<1>8. SentIsDurable'
  BY <1>0, <1>1, OutcomeFacts, QueueFrame DEF SentIsDurable
<1>9. Tracked'
  BY <1>0, <1>2 DEF Tracked, Known
<1> QED  BY <1>6, <1>7, <1>8, <1>9

(* A payment that is not sent again is new to LDK when it is inserted.     *)
LEMMA BeginKeeps ==
  ASSUME OutcomeInv, TypeOK', NEW p \in PaymentIds, SendPayment(p) \/ Keysend(p)
  PROVE  /\ Order' /\ MapIsLast' /\ Truth' /\ Recording' /\ SentIsDurable'
         /\ Command' /\ Tracked' /\ Locked'
<1>0. /\ node = "up" /\ cli = "idle" /\ cli' = "writing" /\ paying' = p
      /\ payments' = [payments EXCEPT ![p] = "Pending"]
      /\ payments[p] = "Absent" \/ p \in Resendable
      /\ IssueWrite("cli", payments')
      /\ UNCHANGED <<node, bg, handled, recent, events>>
  BY DEF SendPayment, Keysend, BeginCommand, InsertPending, ldkVars
<1>1. \A q \in Fresh : payments'[q] = IF q = p THEN "Pending" ELSE payments[q]
  BY <1>0, OutcomeFacts DEF Ledgers
<1>2. p \in Fresh => payments[p] = "Absent"
  BY <1>0 DEF Fresh
<1>3. payments' \in Ledgers /\ <<payments, payments'>> \in Onward
  BY <1>1, <1>2, OutcomeFacts DEF TypeOK, Onward
<1>4. Order' /\ MapIsLast' /\ Truth' /\ Recording' /\ SentIsDurable'
  BY <1>0, <1>1, <1>3, OutcomeFacts, CliIssueFrame
<1>5. Command'
  <2> SUFFICES ASSUME p \in Fresh
               PROVE  recent[p] = "none" /\ ~Queued("Sent", p) /\ ~Queued("Failed", p)
    BY <1>0, <1>1, QueueFrame DEF Command
  <2>1. stored[p] = "Absent"
    BY <1>0, <1>2, OutcomeFacts DEF Keeps
  <2> QED  BY <2>1, OutcomeFacts DEF WriteAhead
<1>6. Tracked'
  <2>1. paying = None /\ None \notin PaymentIds
    BY <1>0, OutcomeFacts, ConstantsAssumption DEF TypeOK
  <2> QED  BY <1>0, <1>1, <2>1, OutcomeFacts, QueueFrame DEF Tracked, Known
<1> QED  BY <1>0, <1>4, <1>5, <1>6 DEF Locked

(* The handler records what LDK reports.                                   *)
LEMMA HandleKeeps ==
  ASSUME OutcomeInv, TypeOK', PaymentSent \/ PaymentFailed
  PROVE  /\ Order' /\ MapIsLast' /\ Truth' /\ Recording' /\ SentIsDurable'
         /\ Command' /\ Tracked' /\ Locked'
<1> DEFINE e == events[handled + 1].type
           o == IF e = "Sent" THEN "Succeeded" ELSE "Failed"
<1>0. /\ node = "up" /\ bg = "idle" /\ bg' = "writing" /\ handled < Len(events)
      /\ payments' = Outcome(NextId, o) /\ IssueWrite("bg", payments')
      /\ UNCHANGED <<node, cli, paying, handled, recent, events>>
  BY DEF PaymentSent, PaymentFailed, HandleEvent, IsNext, ldkVars
<1>1. /\ NextId \in PaymentIds /\ e \in {"Sent", "Failed"} /\ Queued(e, NextId)
  BY <1>0, OutcomeFacts, NextEvent
<1> HIDE DEF e
<1>2. stored[NextId] # "Absent" /\ payments[NextId] # "Absent"
  BY <1>0, <1>1, OutcomeFacts DEF WriteAhead, Keeps
<1>3. payments' \in Ledgers /\ \A q \in Fresh : payments'[q] = IF q = NextId THEN o ELSE payments[q]
  BY <1>0, <1>2, OutcomeFacts DEF Outcome, Ledgers, TypeOK
<1>4. NextId \in Fresh => /\ e = "Sent" => recent[NextId] = "fulfilled"
                          /\ e = "Failed" => recent[NextId] = "none"
  BY <1>1, OutcomeFacts DEF Truth
<1>5. <<payments, payments'>> \in Onward
  <2>1. NextId \in Fresh => payments[NextId] \in {"Pending", o}
    BY <1>1, <1>2, <1>4, OutcomeFacts DEF Truth, Status
  <2> QED  BY <1>3, <2>1, OutcomeFacts DEF Onward
<1>6. "bg" \in Tasks /\ NoneOf(writes, "bg") /\ AtMostOne(writes, "bg") /\ stored' = stored
  BY <1>0, OutcomeFacts DEF Tasks, Recording, IssueWrite
<1>7. /\ Ordered(Onward, stored', writes', payments') /\ UpToDate(stored', writes', payments')
      /\ AtMostOne(writes', "bg")
      /\ \A p \in Fresh : payments'[p] = "Succeeded" => Carried(Paid(p), stored', writes', "bg")
  BY <1>0, <1>3, <1>5, <1>6, OutcomeFacts, IssueKeeps DEF Order
<1>8. Order' /\ MapIsLast'
  BY <1>7 DEF Order, MapIsLast
<1>9. Truth'
  BY <1>0, <1>1, <1>2, <1>3, <1>4, <1>6, OutcomeFacts, QueueFrame DEF Truth
<1>10. Recording'
  BY <1>0, <1>3, <1>7, QueueFrame DEF Recording, e
<1>11. SentIsDurable'
  BY <1>0, <1>6, OutcomeFacts, QueueFrame DEF SentIsDurable
<1>12. Command'
  <2>1. cli # "idle" /\ paying \in Fresh => paying # NextId
    BY <1>1, OutcomeFacts DEF Command
  <2> QED  BY <1>0, <1>3, <2>1, OutcomeFacts, QueueFrame DEF Command
<1>13. Tracked'
  BY <1>0, <1>3, OutcomeFacts, QueueFrame DEF Tracked, Known
<1> QED  BY <1>0, <1>8, <1>9, <1>10, <1>11, <1>12, <1>13, OutcomeFacts DEF Locked

(* The handler returns: its outcome is in the file.                        *)
LEMMA HandledKeeps ==
  ASSUME OutcomeInv, EventHandled
  PROVE  /\ Order' /\ MapIsLast' /\ Truth' /\ Recording' /\ SentIsDurable'
         /\ Command' /\ Tracked' /\ Locked'
<1>0. /\ node = "up" /\ bg = "writing" /\ bg' = "idle" /\ handled' = handled + 1 /\ FinishWrite("bg")
      /\ UNCHANGED <<payments, node, cli, paying, recent, events>>
  BY DEF EventHandled, ldkVars
<1>1. handled < Len(events) /\ "bg" \in Tasks
  BY <1>0, OutcomeFacts DEF TypeOK, Tasks
<1>2. /\ Ordered(Onward, stored', writes', payments) /\ UpToDate(stored', writes', payments)
      /\ <<stored, stored'>> \in Onward /\ <<stored', payments>> \in Onward
      /\ AtMostOne(writes', "bg") /\ NoneOf(writes', "bg")
      /\ \A p \in Fresh : Carried(Paid(p), stored, writes, "bg") => stored'[p] = "Succeeded"
  BY <1>0, <1>1, OutcomeFacts, FinishKeeps DEF Order, MapIsLast, Recording
<1>3. Order' /\ MapIsLast' /\ Recording'
  BY <1>0, <1>2 DEF Order, MapIsLast, Recording
<1>4. \A u, q : Queued(u, q)' <=> Queued(u, q)
  BY <1>0 DEF Queued, Event
<1>5. \A u, q : Unhandled(u, q) =>
        Unhandled(u, q)' \/ (events[handled + 1].type = u /\ NextId = q)
  <2>1. \A u, q : Unhandled(u, q) => Unhandled(u, q)' \/ events[handled + 1] = Event(u, q)
    BY <1>0, OutcomeFacts, HandledQueue
  <2>2. \A u, q : Event(u, q).type = u /\ Event(u, q).id = q
    BY DEF Event
  <2> QED  BY <2>1, <2>2 DEF NextId
<1>6. Truth'
  BY <1>0, <1>2, <1>4, OutcomeFacts DEF Truth, Onward, Status
<1>7. SentIsDurable'
  <2> SUFFICES ASSUME NEW p \in Fresh, recent[p] \in {"fulfilled", "forgotten"}, ~Unhandled("Sent", p)'
               PROVE  stored'[p] = "Succeeded"
    BY <1>0 DEF SentIsDurable
  <2>1. CASE Unhandled("Sent", p)
    BY <1>0, <1>2, <1>5, <2>1, OutcomeFacts DEF Recording
  <2>2. CASE ~Unhandled("Sent", p)
    BY <1>2, <2>2, OutcomeFacts DEF SentIsDurable, Onward
  <2> QED  BY <2>1, <2>2
<1>8. Command' /\ Locked'
  BY <1>0, <1>4, OutcomeFacts DEF Command, Locked
<1>9. Tracked'
  <2> SUFFICES ASSUME NEW p \in Fresh, payments[p] = "Pending"
               PROVE  Known(p) \/ Unhandled("Sent", p)' \/ Unhandled("Failed", p)' \/ paying = p
    BY <1>0 DEF Tracked, Known
  <2>1. NextId # p
    BY <1>0, OutcomeFacts DEF Recording
  <2> QED  BY <1>0, <1>5, <2>1, OutcomeFacts DEF Tracked
<1> QED  BY <1>3, <1>6, <1>7, <1>8, <1>9
(* LDK works on the payments it was given.                                 *)
LEMMA LdkKeeps ==
  ASSUME OutcomeInv, NEW p \in PaymentIds, SendHtlc(p) \/ Settle(p) \/ GiveUp(p) \/ Forget(p)
  PROVE  /\ Order' /\ MapIsLast' /\ Truth' /\ Recording' /\ SentIsDurable'
         /\ Command' /\ Tracked' /\ Locked'
<1>0. /\ UNCHANGED <<storeVars, stored, payments, node, cli, paying, bg, handled>>
      /\ \/ /\ recent[p] \in {"registered", "inflight"} /\ Emit("Failed", p)
            /\ recent' = [recent EXCEPT ![p] = "none"]
         \/ /\ recent[p] = "inflight" /\ Emit("Sent", p)
            /\ recent' = [recent EXCEPT ![p] = "fulfilled"]
         \/ /\ recent[p] = "registered" /\ UNCHANGED events
            /\ recent' = [recent EXCEPT ![p] = "inflight"]
         \/ /\ recent[p] = "fulfilled" /\ ~Queued("Sent", p) /\ UNCHANGED events
            /\ recent' = [recent EXCEPT ![p] = "forgotten"]
  BY DEF SendHtlc, Settle, GiveUp, Forget, memoryVars, storeVars
<1>1. \A q \in PaymentIds : q # p => recent'[q] = recent[q]
  BY <1>0, OutcomeFacts
<1>2. bg = "writing" => events'[handled + 1] = events[handled + 1]
  <2>1. bg = "writing" => handled + 1 \in 1..Len(events)
    BY OutcomeFacts, NextEvent DEF TypeOK
  <2>2. events' = events \/ \A i \in 1..Len(events) : events'[i] = events[i]
    BY <1>0, OutcomeFacts, EmitQueue
  <2> QED  BY <2>1, <2>2
<1>3. Order' /\ MapIsLast' /\ Recording'
  BY <1>0, <1>2, LdkFrame
<1>4. /\ \A u, q : q # p => (Queued(u, q)' <=> Queued(u, q))
      /\ \A u, q : Unhandled(u, q) => Unhandled(u, q)'
  BY <1>0, OutcomeFacts, EmitQueue, QueueFrame
<1>5. p \in Fresh =>
        \/ recent'[p] = "none" /\ recent[p] \in {"registered", "inflight"} /\ Unhandled("Failed", p)'
                               /\ (Queued("Sent", p)' => Queued("Sent", p))
        \/ recent'[p] = "fulfilled" /\ recent[p] = "inflight" /\ Unhandled("Sent", p)'
                                    /\ (Queued("Failed", p)' => Queued("Failed", p))
        \/ recent'[p] = "inflight" /\ recent[p] = "registered"
                                   /\ \A u : Queued(u, p)' <=> Queued(u, p)
        \/ recent'[p] = "forgotten" /\ recent[p] = "fulfilled" /\ ~Queued("Sent", p)
                                    /\ \A u : Queued(u, p)' <=> Queued(u, p)
  BY <1>0, OutcomeFacts, EmitQueue, QueueFrame
<1>6. ~Queued("Sent", p) => ~Unhandled("Sent", p)
  BY DEF Queued, Unhandled
<1>7. Truth'
  BY <1>0, <1>1, <1>4, <1>5, OutcomeFacts DEF Truth
<1>8. SentIsDurable'
  BY <1>0, <1>1, <1>4, <1>5, <1>6, OutcomeFacts DEF SentIsDurable
<1>9. Command'
  <2>1. cli # "idle" /\ paying \in Fresh => paying # p
    BY <1>5, OutcomeFacts DEF Command
  <2> QED  BY <1>0, <1>1, <1>4, <2>1, OutcomeFacts DEF Command
<1>10. Tracked'
  <2> SUFFICES ASSUME node # "down", NEW q \in Fresh, payments[q] = "Pending"
               PROVE  \/ recent'[q] \in {"registered", "inflight", "fulfilled"}
                      \/ Unhandled("Sent", q)' \/ Unhandled("Failed", q)' \/ paying = q
    BY <1>0 DEF Tracked, Known
  <2>1. CASE q # p
    BY <1>1, <1>4, <2>1, OutcomeFacts DEF Tracked, Known
  <2>2. CASE q = p
    <3>1. recent'[p] # "forgotten"
      <4> SUFFICES ASSUME recent[p] = "fulfilled", ~Queued("Sent", p) PROVE FALSE
        BY <1>5, <2>2
      <4>1. stored[p] = "Succeeded"
        BY <1>6, <2>2, OutcomeFacts DEF SentIsDurable
      <4> QED  BY <2>2, <4>1, OutcomeFacts DEF Onward
    <3> QED  BY <1>5, <2>2, <3>1
  <2> QED  BY <2>1, <2>2
<1> QED  BY <1>0, <1>3, <1>7, <1>8, <1>9, <1>10, OutcomeFacts DEF Locked

(* The process dies.                                                       *)
LEMMA CrashKeeps ==
  ASSUME OutcomeInv, Crash
  PROVE  /\ Order' /\ MapIsLast' /\ Truth' /\ Recording' /\ SentIsDurable'
         /\ Command' /\ Tracked' /\ Locked'
<1>0. /\ node' = "down" /\ writes' = <<>> /\ payments' = NoPayments /\ handled' = 0
      /\ bg' = "idle" /\ cli' = "idle" /\ UNCHANGED <<stored, events>>
      /\ \A q \in PaymentIds : recent'[q] = recent[q] \/ (recent[q] = "registered" /\ recent'[q] = "none")
  BY DEF Crash, LoseWrites
<1>1. Order' /\ MapIsLast' /\ Command' /\ Tracked' /\ Locked'
  BY <1>0 DEF Order, MapIsLast, Command, Tracked, Locked
<1>2. Recording'
  <2>1. Len(writes') = 0 /\ 1..0 = {}
    BY <1>0, EmptySeq
  <2> QED  BY <1>0, <2>1 DEF Recording, AtMostOne, NoneOf
<1>3. /\ \A u, q : Queued(u, q)' <=> Queued(u, q)
      /\ \A u, q : Unhandled(u, q) => Unhandled(u, q)'
  <2>1. handled \in Nat /\ DOMAIN events = 1..Len(events)
    BY OutcomeFacts, LenProperties DEF TypeOK
  <2> QED  BY <1>0, <2>1 DEF Queued, Unhandled, Event
<1>4. Truth'
  <2>1. \A q \in Fresh : payments'[q] = "Absent"
    BY <1>0, OutcomeFacts DEF NoPayments
  <2> QED  BY <1>0, <1>3, <2>1, OutcomeFacts DEF Truth
<1>5. SentIsDurable'
  BY <1>0, <1>3, OutcomeFacts DEF SentIsDurable
<1> QED  BY <1>1, <1>2, <1>4, <1>5

LEMMA OutcomeNext == ASSUME UnlockedIds = {} PROVE OutcomeInv /\ [Next]_vars => OutcomeInv'
<1> SUFFICES ASSUME OutcomeInv, [Next]_vars PROVE OutcomeInv'
  OBVIOUS
<1>T. WriteAheadInv' /\ TypeOK'
  BY WriteAheadNext DEF OutcomeInv, WriteAheadInv
<1>u. OfferIds = {} /\ NameIds = {} /\ PaymentIds = LockedIds
  BY DEF UnlockedIds, PaymentIds
<1>1. CASE Start
  <2>1. cli' = "idle"
    BY <1>1, OutcomeFacts DEF Start, TasksRun
  <2> QED  BY <1>T, <1>1, <2>1, StartKeeps DEF OutcomeInv, Locked, Command
<1>2. CASE StartDone
  <2>0. /\ node = "starting" /\ FinishWrite("main")
        /\ UNCHANGED <<payments, recent, events, handled, bg, cli, paying>>
    BY <1>2 DEF StartDone, memoryVars, ldkVars
  <2>1. Order' /\ MapIsLast' /\ Truth' /\ Recording' /\ SentIsDurable'
    BY <2>0, FinishFrame
  <2>2. Locked' /\ Command' /\ Tracked'
    BY <2>0, OutcomeFacts, QueueFrame DEF Locked, Command, Tracked, Known
  <2> QED  BY <1>T, <2>1, <2>2 DEF OutcomeInv
<1>3. ASSUME NEW p \in PaymentIds, SendPayment(p) \/ Keysend(p) PROVE OutcomeInv'
  BY <1>T, <1>3, BeginKeeps DEF OutcomeInv
<1>4. ASSUME NEW p \in PaymentIds, PayOffer(p) \/ PayName(p) PROVE FALSE
  BY <1>u, <1>4 DEF PayOffer, PayName
<1>5. ~EncodeOffer /\ ~WriteOffer
  BY OutcomeFacts DEF Locked, EncodeOffer, WriteOffer
<1>6. CASE AwaitWrite
  <2>0. /\ node = "up" /\ cli = "writing" /\ cli' = "pay" /\ FinishWrite("cli")
        /\ UNCHANGED <<payments, node, recent, events, handled, bg, paying>>
    BY <1>6 DEF AwaitWrite, ldkVars
  <2>1. Order' /\ MapIsLast' /\ Truth' /\ Recording' /\ SentIsDurable'
    BY <2>0, FinishFrame
  <2>2. Locked' /\ Command' /\ Tracked'
    BY <2>0, OutcomeFacts, QueueFrame DEF Locked, Command, Tracked, Known
  <2> QED  BY <1>T, <2>1, <2>2 DEF OutcomeInv
<1>7. CASE PayOk
  <2>0. /\ node = "up" /\ cli = "pay" /\ cli' = "idle"
        /\ recent' = [recent EXCEPT ![paying] = "registered"]
        /\ UNCHANGED <<storeVars, stored, payments, node, bg, events, handled>>
    BY <1>7 DEF PayOk, CommandEnds, storeVars
  <2>1. Order' /\ MapIsLast' /\ Recording'
    BY <2>0, LdkFrame
  <2>2. /\ paying \in PaymentIds
        /\ \A q \in Fresh : recent'[q] = IF q = paying THEN "registered" ELSE recent[q]
    BY <2>0, OutcomeFacts
  <2>3. paying \in Fresh => /\ payments[paying] = "Pending" /\ stored[paying] \notin {"Succeeded", "Failed"}
                            /\ ~Queued("Sent", paying) /\ ~Queued("Failed", paying)
    BY <2>0, OutcomeFacts DEF Command, Onward
  <2>4. Truth'
    BY <2>0, <2>2, <2>3, OutcomeFacts, QueueFrame DEF Truth
  <2>5. SentIsDurable'
    BY <2>0, <2>2, OutcomeFacts, QueueFrame DEF SentIsDurable
  <2>6. Tracked' /\ Command' /\ Locked'
    BY <2>0, <2>2, OutcomeFacts, QueueFrame DEF Tracked, Known, Command, Locked
  <2> QED  BY <1>T, <2>1, <2>4, <2>5, <2>6 DEF OutcomeInv
<1>8. CASE PayErr
  <2>0. /\ cli = "pay" /\ cli' = "failing"
        /\ UNCHANGED <<storeVars, stored, payments, node, bg, events, handled, paying, recent>>
    BY <1>8, <1>u, OutcomeFacts DEF PayErr, storeVars, ldkVars
  <2>1. Order' /\ MapIsLast' /\ Recording'
    BY <2>0, LdkFrame
  <2>2. Truth' /\ SentIsDurable'
    BY <2>0, OutcomeFacts, QueueFrame DEF Truth, SentIsDurable
  <2>3. Tracked' /\ Command' /\ Locked'
    BY <2>0, OutcomeFacts, QueueFrame DEF Tracked, Known, Command, Locked
  <2> QED  BY <1>T, <2>1, <2>2, <2>3 DEF OutcomeInv
<1>9. CASE MarkFailed
  <2>0. /\ node = "up" /\ cli = "failing" /\ cli' = "failwriting" /\ IssueWrite("cli", payments')
        /\ payments' = [payments EXCEPT ![paying] = "Failed"]
        /\ UNCHANGED <<node, paying, bg, handled, recent, events>>
    BY <1>9 DEF MarkFailed, ldkVars
  <2>1. \A q \in Fresh : payments'[q] = IF q = paying THEN "Failed" ELSE payments[q]
    BY <2>0, OutcomeFacts DEF Ledgers
  <2>2. stored[paying] # "Absent"
    BY <2>0, OutcomeFacts DEF CommandEntry
  <2>3. paying \in Fresh => payments[paying] = "Pending" /\ recent[paying] = "none"
    BY <2>0, OutcomeFacts DEF Command
  <2>4. payments' \in Ledgers /\ <<payments, payments'>> \in Onward
    BY <1>T, <2>1, <2>3, OutcomeFacts DEF TypeOK, Onward
  <2>5. Order' /\ MapIsLast' /\ Truth' /\ Recording' /\ SentIsDurable'
    BY <2>0, <2>1, <2>2, <2>3, <2>4, CliIssueFrame
  <2>6. Tracked' /\ Command' /\ Locked'
    BY <2>0, <2>1, OutcomeFacts, QueueFrame DEF Tracked, Known, Command, Locked
  <2> QED  BY <1>T, <2>5, <2>6 DEF OutcomeInv
<1>10. CASE AwaitFailedWrite
  <2>0. /\ node = "up" /\ cli = "failwriting" /\ cli' = "idle" /\ FinishWrite("cli")
        /\ UNCHANGED <<payments, node, recent, events, handled, bg>>
    BY <1>10 DEF AwaitFailedWrite, CommandEnds, ldkVars
  <2>1. Order' /\ MapIsLast' /\ Truth' /\ Recording' /\ SentIsDurable'
    BY <2>0, FinishFrame
  <2>2. Locked' /\ Command'
    BY <2>0 DEF Locked, Command
  <2>3. Tracked'
    <3>1. paying \in Fresh => payments[paying] = "Failed"
      BY <2>0, OutcomeFacts DEF Command
    <3> QED  BY <2>0, <3>1, OutcomeFacts, QueueFrame DEF Tracked, Known
  <2> QED  BY <1>T, <2>1, <2>2, <2>3 DEF OutcomeInv
<1>11. CASE PaymentSent \/ PaymentFailed
  BY <1>T, <1>11, HandleKeeps DEF OutcomeInv
<1>12. CASE EventHandled
  BY <1>T, <1>12, HandledKeeps DEF OutcomeInv
<1>13. ASSUME NEW p \in PaymentIds, SendHtlc(p) \/ Settle(p) \/ GiveUp(p) \/ Forget(p)
       PROVE  OutcomeInv'
  BY <1>T, <1>13, LdkKeeps DEF OutcomeInv
<1>14. CASE PersistManager
  <2>0. /\ bg = "idle" /\ DropHandled
        /\ UNCHANGED <<storeVars, stored, payments, node, cli, paying, bg, recent>>
    BY <1>14 DEF PersistManager, storeVars
  <2>1. Order' /\ MapIsLast' /\ Recording'
    BY <2>0, LdkFrame
  <2>2. \A u, q : (Queued(u, q)' => Queued(u, q)) /\ (Unhandled(u, q)' <=> Unhandled(u, q))
    BY <2>0, OutcomeFacts, DropQueue
  <2>3. Truth' /\ SentIsDurable'
    BY <2>0, <2>2, OutcomeFacts DEF Truth, SentIsDurable
  <2>4. Tracked' /\ Command' /\ Locked'
    BY <2>0, <2>2, OutcomeFacts DEF Tracked, Known, Command, Locked
  <2> QED  BY <1>T, <2>1, <2>3, <2>4 DEF OutcomeInv
<1>15. CASE Crash
  BY <1>T, <1>15, CrashKeeps DEF OutcomeInv
<1>16. CASE UNCHANGED vars
  <2>0. UNCHANGED <<storeVars, stored, payments, node, cli, paying, bg, events, handled, recent>>
    BY <1>16 DEF vars, storeVars
  <2>1. Order' /\ MapIsLast' /\ Recording'
    BY <2>0, LdkFrame
  <2>2. Truth' /\ SentIsDurable'
    BY <2>0, OutcomeFacts, QueueFrame DEF Truth, SentIsDurable
  <2>3. Tracked' /\ Command' /\ Locked'
    BY <2>0, OutcomeFacts, QueueFrame DEF Tracked, Known, Command, Locked
  <2> QED  BY <1>T, <2>1, <2>2, <2>3 DEF OutcomeInv
<1> QED
  BY <1>1, <1>2, <1>3, <1>4, <1>5, <1>6, <1>7, <1>8, <1>9, <1>10, <1>11, <1>12, <1>13,
     <1>14, <1>15, <1>16
     DEF Next, CliStep, BgStep
LEMMA OutcomeInductive == ASSUME UnlockedIds = {} PROVE Spec => []OutcomeInv
  BY OutcomeInit, OutcomeNext, PTL DEF Spec

(* Without offers and names, the outcome of a payment is in the file once  *)
(* PaymentSent was handled, and stays there: for any payments, any order   *)
(* of the writes and however many crashes.                                 *)
THEOREM SentIsDurableCorrect == ASSUME UnlockedIds = {} PROVE Spec => []SentIsDurable
<1>1. OutcomeInv => SentIsDurable
  BY DEF OutcomeInv
<1> QED  BY <1>1, OutcomeInductive, PTL

(* Without them, what is shown or stored as failed is not being paid and   *)
(* was not: neither the CLI, nor an event replayed, nor a start says so    *)
(* wrongly.                                                                *)
THEOREM FailedIsDeadCorrect == ASSUME UnlockedIds = {} PROVE Spec => []FailedIsDead
<1>1. OutcomeInv => FailedIsDead
  BY DEF OutcomeInv, Truth, FailedIsDead
<1> QED  BY <1>1, OutcomeInductive, PTL

(* Without them, LDK, an event or the CLI accounts for every pending entry *)
(* of a node that is up.                                                   *)
THEOREM PendingIsTrackedCorrect == ASSUME UnlockedIds = {} PROVE Spec => []PendingIsTracked
<1>1. OutcomeInv => PendingIsTracked
  BY DEF OutcomeInv, Tracked, PendingIsTracked
<1> QED  BY <1>1, OutcomeInductive, PTL

(* Without them, no change of the map is lost to an older write.           *)
THEOREM FileCatchesUpCorrect == ASSUME UnlockedIds = {} PROVE Spec => []FileCatchesUp
<1>1. OutcomeInv => FileCatchesUp
  BY EmptySeq DEF OutcomeInv, MapIsLast, UpToDate, FileCatchesUp
<1> QED  BY <1>1, OutcomeInductive, PTL

-----------------------------------------------------------------------------
(* Refinement: the file is a PaymentLedger.  Writes that reach the disk    *)
(* are its Write, what LDK does and what is asked of it is its Happen.     *)

Fate == [p \in Recorded |->
           CASE recent[p] \in {"registered", "inflight"} -> "trying"
             [] recent[p] \in {"fulfilled", "forgotten"} -> "paid"
             [] OTHER -> "none"]

Record == [p \in Recorded |-> stored[p]]

LEMMA RecordedFacts == Recorded \subseteq Fresh /\ Recorded \subseteq PaymentIds
  BY DEF Recorded, Fresh, PaymentIds

LEMMA RefineInit == Init => Ledger!Init
<1> SUFFICES ASSUME Init PROVE Ledger!Init
  OBVIOUS
<1>1. \A p \in Recorded : stored[p] = "Absent" /\ recent[p] = "none"
  BY RecordedFacts DEF Init, NoPayments
<1> QED  BY <1>1 DEF Ledger!Init

(* The file goes onward and says the truth, and nothing is in it closed    *)
(* that was not open before.                                               *)
LEMMA RefineWrite ==
  ASSUME OutcomeInv, OutcomeInv', node # "down", node' # "down",
         <<stored, stored'>> \in Onward, UNCHANGED <<recent, payments>>
  PROVE  Ledger!Write
<1>1. \A p \in Recorded : stored[p] \in Status /\ stored'[p] \in Status /\ payments[p] \in Status
  <2>1. stored \in Ledgers /\ stored' \in Ledgers /\ payments \in Ledgers
    BY DEF OutcomeInv, WriteAheadInv, TypeOK
  <2> QED  BY <2>1, RecordedFacts DEF Ledgers
<1>2. Truth /\ Truth' /\ WriteAhead /\ <<stored', payments>> \in Onward
  BY DEF OutcomeInv, WriteAheadInv, Order, Ordered
<1>3. Record' \in [Recorded -> {"Absent", "Pending", "Succeeded", "Failed"}]
  BY <1>1 DEF Record, Status
<1>4. ASSUME NEW p \in Recorded
      PROVE  \/ Record'[p] = Record[p] \/ Ledger!Opened(p)
             \/ Ledger!Received(p) \/ Ledger!Failed(p)
  <2>1. p \in Fresh /\ p \in PaymentIds
    BY RecordedFacts
  <2>2. stored[p] \in {"Succeeded", "Failed"} => stored'[p] = stored[p]
    BY <2>1 DEF Onward
  <2>3. stored[p] = "Pending" => stored'[p] # "Absent"
    BY <2>1 DEF Onward
  <2>4. stored'[p] = "Succeeded" => Fate[p] = "paid" /\ stored[p] # "Absent"
    BY <1>2, <2>1 DEF Truth, Fate, WriteAhead
  <2>5. stored'[p] = "Failed" => Fate[p] = "none" /\ stored[p] # "Absent"
    <3>1. stored'[p] = "Failed" => payments[p] = "Failed"
      BY <1>2, <2>1 DEF Onward
    <3> QED  BY <1>2, <2>1, <3>1 DEF Truth, Fate
  <2> QED  BY <1>1, <2>2, <2>3, <2>4, <2>5
           DEF Ledger!Opened, Ledger!Received, Ledger!Failed, Record, Fate, Status
<1>5. UNCHANGED Fate
  BY DEF Fate
<1> QED  BY <1>3, <1>4, <1>5 DEF Ledger!Write, Record, Fate

(* Each payment stays as it was or goes one way on.                        *)
LEMMA RefineHappen ==
  ASSUME TypeOK, TypeOK', UNCHANGED stored,
         \A p \in Recorded :
           \/ recent'[p] = recent[p]
           \/ recent[p] = "none" /\ recent'[p] = "registered" /\ stored[p] = "Pending"
           \/ recent[p] = "registered" /\ recent'[p] = "inflight"
           \/ recent[p] = "inflight" /\ recent'[p] = "fulfilled"
           \/ recent[p] \in {"registered", "inflight"} /\ recent'[p] = "none"
           \/ recent[p] = "fulfilled" /\ recent'[p] = "forgotten"
  PROVE  Ledger!Happen
<1>1. Fate' \in [Recorded -> {"none", "trying", "paid"}]
  BY DEF Fate
<1>2. ASSUME NEW p \in Recorded
      PROVE  Fate'[p] = Fate[p] \/ Ledger!Tried(p) \/ Ledger!Paid(p) \/ Ledger!GivenUp(p)
  <2>1. CASE recent'[p] = recent[p]
    BY <1>2, <2>1 DEF Fate
  <2>2. CASE recent[p] = "none" /\ recent'[p] = "registered" /\ stored[p] = "Pending"
    BY <1>2, <2>2 DEF Ledger!Tried
  <2>3. CASE recent[p] = "registered" /\ recent'[p] = "inflight"
    BY <1>2, <2>3 DEF Fate
  <2>4. CASE recent[p] = "inflight" /\ recent'[p] = "fulfilled"
    BY <1>2, <2>4 DEF Ledger!Paid
  <2>5. CASE recent[p] \in {"registered", "inflight"} /\ recent'[p] = "none"
    BY <1>2, <2>5 DEF Ledger!GivenUp
  <2>6. CASE recent[p] = "fulfilled" /\ recent'[p] = "forgotten"
    BY <1>2, <2>6 DEF Fate
  <2> QED  BY <1>2, <2>1, <2>2, <2>3, <2>4, <2>5, <2>6
<1>3. UNCHANGED Record
  BY DEF Record
<1> QED  BY <1>1, <1>2, <1>3 DEF Ledger!Happen, Fate, Record

LEMMA RefineNext ==
  ASSUME UnlockedIds = {}
  PROVE  OutcomeInv /\ [Next]_vars => [Ledger!Next]_(Ledger!ledgerVars)
<1> SUFFICES ASSUME OutcomeInv, [Next]_vars
             PROVE  Ledger!Write \/ Ledger!Happen \/ UNCHANGED <<stored, recent>>
  <2>1. UNCHANGED <<stored, recent>> => UNCHANGED Ledger!ledgerVars
    BY DEF Ledger!ledgerVars
  <2> QED  BY <2>1 DEF Ledger!Next
<1>T. OutcomeInv' /\ TypeOK /\ TypeOK' /\ Recorded \subseteq Fresh /\ Recorded \subseteq PaymentIds
  BY OutcomeNext, RecordedFacts DEF OutcomeInv, WriteAheadInv
<1>1. CASE StartDone \/ AwaitWrite \/ AwaitFailedWrite \/ EventHandled
  <2>1. /\ \E w \in Tasks : FinishWrite(w)
        /\ node # "down" /\ node' # "down" /\ UNCHANGED <<recent, payments>>
    BY <1>1 DEF StartDone, AwaitWrite, AwaitFailedWrite, EventHandled, memoryVars, ldkVars, Tasks
  <2>2. <<stored, stored'>> \in Onward
    BY <2>1, OutcomeFacts, FinishKeeps DEF Order, MapIsLast, Recording
  <2> QED  BY <1>T, <2>1, <2>2, RefineWrite
<1>2. CASE PayOk
  <2>1. /\ node = "up" /\ cli = "pay" /\ UNCHANGED stored
        /\ recent' = [recent EXCEPT ![paying] = "registered"]
    BY <1>2 DEF PayOk, storeVars
  <2>2. paying \in PaymentIds /\ stored[paying] # "Absent"
    BY <2>1, OutcomeFacts DEF CommandEntry
  <2>3. paying \in Fresh => recent[paying] = "none" /\ stored[paying] = "Pending"
    BY <2>1, <2>2, OutcomeFacts DEF Command, Onward, Status
  <2>4. \A p \in Recorded : \/ recent'[p] = recent[p]
                            \/ recent[p] = "none" /\ recent'[p] = "registered" /\ stored[p] = "Pending"
    BY <1>T, <2>1, <2>2, <2>3, OutcomeFacts
  <2> QED  BY <1>T, <2>1, <2>4, RefineHappen
<1>3. ASSUME NEW p \in PaymentIds, SendHtlc(p) \/ Settle(p) \/ GiveUp(p) \/ Forget(p)
      PROVE  Ledger!Happen
  <2>1. /\ UNCHANGED stored
        /\ \/ recent[p] = "registered" /\ recent' = [recent EXCEPT ![p] = "inflight"]
           \/ recent[p] = "inflight" /\ recent' = [recent EXCEPT ![p] = "fulfilled"]
           \/ recent[p] \in {"registered", "inflight"} /\ recent' = [recent EXCEPT ![p] = "none"]
           \/ recent[p] = "fulfilled" /\ recent' = [recent EXCEPT ![p] = "forgotten"]
    BY <1>3 DEF SendHtlc, Settle, GiveUp, Forget, storeVars
  <2>2. \A q \in Recorded :
          \/ recent'[q] = recent[q]
          \/ recent[q] = "registered" /\ recent'[q] = "inflight"
          \/ recent[q] = "inflight" /\ recent'[q] = "fulfilled"
          \/ recent[q] \in {"registered", "inflight"} /\ recent'[q] = "none"
          \/ recent[q] = "fulfilled" /\ recent'[q] = "forgotten"
    BY <1>T, <2>1, OutcomeFacts
  <2> QED  BY <1>T, <2>1, <2>2, RefineHappen
<1>4. CASE Crash
  <2>1. /\ UNCHANGED stored
        /\ \A q \in Recorded : recent'[q] = recent[q] \/ (recent[q] = "registered" /\ recent'[q] = "none")
    BY <1>T, <1>4 DEF Crash, LoseWrites
  <2> QED  BY <1>T, <2>1, RefineHappen
<1>5. CASE \/ Start \/ (\E p \in PaymentIds : SendPayment(p) \/ Keysend(p) \/ PayOffer(p) \/ PayName(p))
           \/ EncodeOffer \/ WriteOffer \/ PayErr \/ MarkFailed \/ PaymentSent \/ PaymentFailed
           \/ PersistManager \/ UNCHANGED vars
  BY <1>5 DEF Start, SendPayment, Keysend, PayOffer, PayName, BeginCommand, EncodeOffer, WriteOffer,
              PayErr, MarkFailed, PaymentSent, PaymentFailed, HandleEvent, PersistManager,
              vars, storeVars, ldkVars, IssueWrite
<1> QED
  BY <1>1, <1>2, <1>3, <1>4, <1>5 DEF Next, CliStep, BgStep

(* Without offers and names the ledger of outbound payments keeps the      *)
(* promises of a PaymentLedger: a payment is recorded before it is tried,  *)
(* closed once and with the truth, and never tried again, wherever the     *)
(* node dies and whatever events are replayed.                             *)
THEOREM Implements == ASSUME UnlockedIds = {} PROVE Spec => ImplementsLedger
  BY RefineInit, RefineNext, OutcomeInductive, PTL DEF Spec, ImplementsLedger, Ledger!Spec

-----------------------------------------------------------------------------
(* What the refinement hands down: whatever a PaymentLedger promises holds *)
(* of this file.                                                           *)

LEMMA LedgerTruth == Ledger!Spec => []Ledger!Truth
<1>1. Ledger!Init => Ledger!Truth
  BY DEF Ledger!Init, Ledger!Truth
<1>2. Ledger!Truth /\ [Ledger!Next]_(Ledger!ledgerVars) => Ledger!Truth'
  <2> SUFFICES ASSUME Ledger!Truth, [Ledger!Next]_(Ledger!ledgerVars) PROVE Ledger!Truth'
    OBVIOUS
  <2>1. CASE Ledger!Happen
    BY <2>1 DEF Ledger!Truth, Ledger!Happen, Ledger!Tried, Ledger!Paid, Ledger!GivenUp
  <2>2. CASE Ledger!Write
    BY <2>2 DEF Ledger!Truth, Ledger!Write, Ledger!Opened, Ledger!Received, Ledger!Failed
  <2>3. CASE UNCHANGED Ledger!ledgerVars
    BY <2>3 DEF Ledger!Truth, Ledger!ledgerVars
  <2> QED  BY <2>1, <2>2, <2>3 DEF Ledger!Next
<1> QED  BY <1>1, <1>2, PTL DEF Ledger!Spec

LEMMA LedgerFinality == Ledger!Spec => Ledger!Finality
<1>1. [Ledger!Next]_(Ledger!ledgerVars) => [Ledger!ClosedStays]_(Ledger!ledgerVars)
  BY DEF Ledger!ClosedStays, Ledger!Next, Ledger!Happen, Ledger!Write, Ledger!Opened,
         Ledger!Received, Ledger!Failed
<1> QED  BY <1>1, PTL DEF Ledger!Spec, Ledger!Finality

(* Without offers and names the file of outbound payments tells the truth: *)
(* what it lists as paid was paid, what it lists as failed is dead, what   *)
(* was ever tried is listed, and no outcome it lists is ever revised.      *)
THEOREM LedgerIsTrue == ASSUME UnlockedIds = {} PROVE Spec => []Ledger!Truth /\ Ledger!Finality
  BY Implements, LedgerTruth, LedgerFinality, PTL DEF ImplementsLedger
=============================================================================
