------------------------ MODULE InboundPayments_proofs ------------------------
(***************************************************************************)
(* Theorems about InboundPayments, for any invoices, any keysends and any  *)
(* number of crashes: the types, that no claim is lost or undone, that     *)
(* money held has its event, and that the file is a PaymentLedger.         *)
(***************************************************************************)
EXTENDS InboundPayments, KVStore_proofs

Tasks == {"cli", "bg"}
Entry == [type : {"Claimable", "Claimed"}, id : Hashes]
Htlc == {"none", "held", "claiming", "claimed", "expired"}

StoreOK == stored \in Ledgers /\ writes \in Writes(Tasks, Ledgers)

LEMMA StoreSteps ==
  ASSUME StoreOK, NEW w \in Tasks
  PROVE  /\ FinishWrite(w) => StoreOK'
         /\ \A v \in Ledgers : IssueWrite(w, v) => StoreOK'
         /\ LoseWrites => StoreOK'
<1>1. ASSUME FinishWrite(w) PROVE StoreOK'
  BY <1>1, FinishType DEF StoreOK
<1>2. ASSUME NEW v \in Ledgers, IssueWrite(w, v) PROVE StoreOK'
  BY <1>2, IssueProperties DEF StoreOK
<1>3. ASSUME LoseWrites PROVE StoreOK'
  BY <1>3 DEF StoreOK, LoseWrites, Writes
<1> QED  BY <1>1, <1>2, <1>3

LEMMA NoPaymentsType == NoPayments \in Ledgers
  BY DEF NoPayments, Ledgers, Status

LEMMA LedgerUpdate ==
  ASSUME NEW l \in Ledgers, NEW h, NEW s \in Status
  PROVE  [l EXCEPT ![h] = s] \in Ledgers
  BY DEF Ledgers

LEMMA EventTypes ==
  ASSUME TypeOK, NEW i \in 1..Len(events)
  PROVE  events[i] \in Entry /\ events[i].id \in Hashes
<1>1. events \in Seq(Entry)
  BY DEF TypeOK, Entry
<1>2. events[i] \in Entry
  BY <1>1, ElementOfSeq
<1> QED  BY <1>2 DEF Entry

(* The handler's next event, while there is one.                           *)
LEMMA NextEvent ==
  ASSUME TypeOK, NEW t, IsNext(t)
  PROVE  /\ handled + 1 \in 1..Len(events) /\ handled < Len(events)
         /\ NextId \in Hashes
         /\ events[handled + 1].type = t
<1>1. handled \in Nat /\ Len(events) \in Nat /\ handled + 1 \in 1..Len(events)
  BY LenProperties DEF TypeOK, IsNext
<1>2. events[handled + 1] \in Entry
  BY <1>1, ElementOfSeq DEF TypeOK, Entry
<1> QED  BY <1>1, <1>2 DEF IsNext, NextId, Entry

(* An event is added behind those there are.                               *)
LEMMA EmitProperties ==
  ASSUME TypeOK, NEW t \in {"Claimable", "Claimed"}, NEW h \in Hashes, Emit(t, h)
  PROVE  /\ events' \in Seq(Entry)
         /\ Len(events) \in Nat /\ Len(events') = Len(events) + 1
         /\ \A i \in 1..Len(events) : events'[i] = events[i]
         /\ events'[Len(events) + 1] = [type |-> t, id |-> h]
<1>1. Event(t, h) \in Entry /\ events \in Seq(Entry)
  BY DEF Event, Entry, TypeOK
<1> QED  BY <1>1, AppendProperties, LenProperties DEF Emit, Event

(* What is left of the queue are the events not handled.                   *)
LEMMA DropProperties ==
  ASSUME TypeOK, DropHandled
  PROVE  /\ events' \in Seq(Entry) /\ handled' = 0
         /\ Len(events') = Len(events) - handled /\ Len(events') \in Nat
         /\ \A i \in 1..Len(events') : i + handled \in 1..Len(events) /\ events'[i] = events[i + handled]
<1>1. /\ events \in Seq(Entry) /\ handled \in 0..Len(events) /\ Len(events) \in Nat
      /\ handled' = 0 /\ events' = SubSeq(events, handled + 1, Len(events))
  BY LenProperties DEF TypeOK, Entry, DropHandled
<1>2. \A i \in (handled + 1)..Len(events) : events[i] \in Entry
  BY <1>1, ElementOfSeq
<1>3. /\ events' \in Seq(Entry)
      /\ Len(events') = IF handled + 1 <= Len(events) THEN Len(events) - (handled + 1) + 1 ELSE 0
      /\ \A i \in 1..(Len(events) - (handled + 1) + 1) : events'[i] = events[(handled + 1) + i - 1]
  <2>1. handled + 1 \in Int /\ Len(events) \in Int
    BY <1>1
  <2> QED  BY <1>1, <1>2, <2>1, SubSeqProperties
<1> QED  BY <1>1, <1>3

-----------------------------------------------------------------------------
(* Type correctness.                                                       *)

LEMMA TypeInit == Init => TypeOK
  BY NoPaymentsType DEF Init, TypeOK

LEMMA TypeNext == TypeOK /\ [Next]_vars => TypeOK'
<1> SUFFICES ASSUME TypeOK, [Next]_vars PROVE TypeOK'
  OBVIOUS
<1> USE ConstantsAssumption
<1>0. StoreOK
  BY DEF TypeOK, StoreOK, Writes, Tasks
<1>s. ASSUME StoreOK' PROVE stored' \in Ledgers /\ writes' \in Seq([by : {"cli", "bg"}, val : Ledgers])
  BY <1>s DEF StoreOK, Writes, Tasks
<1>t. "cli" \in Tasks /\ "bg" \in Tasks
  BY DEF Tasks
<1>p. /\ payments \in Ledgers /\ htlc \in [Hashes -> Htlc] /\ events \in Seq(Entry)
      /\ handled \in 0..Len(events) /\ Len(events) \in Nat
  BY LenProperties DEF TypeOK, Htlc, Entry
<1>1. CASE Start
  BY <1>1 DEF Start, TypeOK, storeVars, queueVars
<1>2. ASSUME NEW h \in Hashes, CreateInvoice(h) PROVE TypeOK'
  BY <1>2 DEF CreateInvoice, TypeOK, storeVars, queueVars, Hashes
<1>3. CASE CreateFails
  <2>1. StoreOK'
    BY <1>0, <1>3, <1>t, <1>p, StoreSteps DEF CreateFails
  <2> QED  BY <1>3, <2>1, <1>s DEF CreateFails, TypeOK, queueVars
<1>4. CASE InsertInvoice
  <2>1. payments' \in Ledgers
    BY <1>4, <1>p, LedgerUpdate DEF InsertInvoice, Status
  <2>2. StoreOK'
    BY <1>0, <1>4, <1>t, <2>1, StoreSteps DEF InsertInvoice
  <2> QED  BY <1>4, <2>1, <2>2, <1>s DEF InsertInvoice, TypeOK, queueVars
<1>5. CASE AwaitInvoice
  <2>1. StoreOK'
    BY <1>0, <1>5, <1>t, StoreSteps DEF AwaitInvoice
  <2> QED  BY <1>5, <2>1, <1>s DEF AwaitInvoice, TypeOK, queueVars
<1>6. CASE PaymentClaimable
  <2>1. handled' \in 0..Len(events') /\ bg' # "writing"
    BY <1>6, <1>p DEF PaymentClaimable, Handles, IsNext
  <2>2. htlc' \in [Hashes -> Htlc]
    BY <1>6, <1>p DEF PaymentClaimable, Htlc
  <2> QED  BY <1>6, <2>1, <2>2 DEF PaymentClaimable, TypeOK, Htlc, storeVars
<1>7. CASE PaymentClaimed
  <2>1. payments' \in Ledgers
    BY <1>7, <1>p, LedgerUpdate DEF PaymentClaimed, RecordClaim, Status
  <2>2. StoreOK'
    BY <1>0, <1>7, <1>t, <2>1, StoreSteps DEF PaymentClaimed
  <2> QED  BY <1>7, <2>1, <2>2, <1>s DEF PaymentClaimed, Handles, IsNext, TypeOK, queueVars
<1>8. CASE ClaimHandled
  <2>1. StoreOK'
    BY <1>0, <1>8, <1>t, StoreSteps DEF ClaimHandled
  <2>2. handled' \in 0..Len(events')
    BY <1>8, <1>p DEF ClaimHandled, TypeOK
  <2> QED  BY <1>8, <2>1, <2>2, <1>s DEF ClaimHandled, TypeOK
<1>9. ASSUME NEW h \in Hashes, Pay(h) \/ ClaimDone(h) PROVE TypeOK'
  <2>1. events' \in Seq(Entry) /\ Len(events') = Len(events) + 1
    BY <1>9, EmitProperties DEF Pay, ClaimDone
  <2>2. handled' \in 0..Len(events') /\ (bg' = "writing" => handled' < Len(events'))
    BY <1>9, <1>p, <2>1 DEF Pay, ClaimDone, TypeOK
  <2>3. htlc' \in [Hashes -> Htlc]
    BY <1>9, <1>p DEF Pay, ClaimDone, Htlc
  <2> QED  BY <1>9, <2>1, <2>2, <2>3 DEF Pay, ClaimDone, TypeOK, Htlc, Entry, storeVars
<1>10. ASSUME NEW h \in Hashes, Expire(h) PROVE TypeOK'
  <2>1. htlc' \in [Hashes -> Htlc]
    BY <1>10, <1>p DEF Expire, Htlc
  <2> QED  BY <1>10, <2>1 DEF Expire, TypeOK, Htlc, storeVars, queueVars
<1>11. CASE PersistManager
  <2>1. events' \in Seq(Entry) /\ handled' = 0 /\ Len(events') \in Nat
    BY <1>11, DropProperties DEF PersistManager
  <2> QED  BY <1>11, <2>1 DEF PersistManager, TypeOK, Entry, storeVars
<1>12. CASE Crash
  <2>1. StoreOK'
    BY <1>0, <1>12, <1>t, StoreSteps DEF Crash
  <2>2. htlc' \in [Hashes -> Htlc]
    BY <1>12, <1>p DEF Crash, Htlc
  <2> QED  BY <1>12, <1>p, <2>1, <2>2, <1>s, NoPaymentsType DEF Crash, TypeOK, Htlc, Entry
<1>13. CASE UNCHANGED vars
  BY <1>13 DEF TypeOK, vars
<1> QED
  BY <1>1, <1>2, <1>3, <1>4, <1>5, <1>6, <1>7, <1>8, <1>9, <1>10, <1>11, <1>12, <1>13
     DEF Next, CliStep, BgStep

(* Every reachable state is typed, for any payments and any bounds.        *)
THEOREM TypeCorrect == Spec => []TypeOK
  BY TypeInit, TypeNext, PTL DEF Spec
-----------------------------------------------------------------------------
(* Claims.  ClaimIsDurable is not inductive: it needs to know where a      *)
(* claim is between its event and the file, and that nothing that reaches  *)
(* the file later takes it back.                                           *)

(* What was received stays received, and an entry stays an entry.          *)
Onward == {r \in Ledgers \X Ledgers :
             \A h \in Hashes :
               /\ r[1][h] = "Succeeded" => r[2][h] = "Succeeded"
               /\ r[1][h] = "Pending" => r[2][h] # "Absent"}

Received(h) == {l \in Ledgers : l[h] = "Succeeded"}

(* The file, the writes under way and the map: none goes back.             *)
Order == node = "up" => Ordered(Onward, stored, writes, payments)

(* A node that is down runs nothing.                                       *)
Down == node = "down" => /\ cli = "idle" /\ bg = "idle" /\ handled = 0
                         /\ writes = <<>> /\ payments = NoPayments

(* Nobody is said to have paid who has not, and nobody pays an invoice     *)
(* that was not printed.                                                   *)
Truth ==
  /\ \A h \in Hashes : payments[h] = "Succeeded" \/ stored[h] = "Succeeded" => htlc[h] = "claimed"
  /\ \A i \in 1..Len(events) : events[i].type = "Claimed" => htlc[events[i].id] = "claimed"
  /\ \A h \in Hashes : htlc[h] # "none" => h \in published \cup SpontaneousHashes

(* The invoice of getinvoice is not paid before it has its entry: the map  *)
(* is locked.                                                              *)
Locked == cli = "creating" => invoice \in InvoiceHashes /\ payments[invoice] # "Succeeded"

(* The handler has at most one write under way, and it carries the claim.  *)
Recording ==
  /\ AtMostOne(writes, "bg")
  /\ bg # "writing" => NoneOf(writes, "bg")
  /\ bg = "writing" => /\ handled < Len(events)
                       /\ events[handled + 1].type = "Claimed"
                       /\ Carried(Received(NextId), stored, writes, "bg")

ClaimInv == TypeOK /\ Order /\ Down /\ Truth /\ Locked /\ Recording /\ ClaimIsDurable

LEMMA OnwardOrder ==
  /\ \A a \in Ledgers : <<a, a>> \in Onward
  /\ \A a, b, c : <<a, b>> \in Onward /\ <<b, c>> \in Onward => <<a, c>> \in Onward
  /\ \A h \in Hashes : \A a, b :
       <<a, b>> \in Onward /\ a \in Received(h) => b \in Received(h)
<1>1. \A a \in Ledgers : <<a, a>> \in Onward
  BY DEF Onward
<1>2. ASSUME NEW a, NEW b, NEW c, <<a, b>> \in Onward, <<b, c>> \in Onward
      PROVE  <<a, c>> \in Onward
  <2>1. a \in Ledgers /\ b \in Ledgers /\ c \in Ledgers
    BY <1>2 DEF Onward
  <2>2. \A h \in Hashes : b[h] \in {"Absent", "Pending", "Succeeded"}
    BY <2>1 DEF Ledgers, Status
  <2> QED  BY <1>2, <2>1, <2>2 DEF Onward
<1>3. ASSUME NEW h \in Hashes, NEW a, NEW b, <<a, b>> \in Onward, a \in Received(h)
      PROVE  b \in Received(h)
  BY <1>3 DEF Onward, Received
<1> QED  BY <1>1, <1>2, <1>3

(* A change of the map that goes onward, and its write.                    *)
LEMMA OrderIssue ==
  ASSUME StoreOK, payments' \in Ledgers, NEW w \in Tasks,
         Ordered(Onward, stored, writes, payments), <<payments, payments'>> \in Onward,
         IssueWrite(w, payments')
  PROVE  Ordered(Onward, stored', writes', payments')
<1>1. Ordered(Onward, stored, writes, payments')
  BY OnwardOrder, OrderedLater
<1> QED  BY <1>1, OnwardOrder, OrderedIssue DEF StoreOK

LEMMA OrderFinish ==
  ASSUME StoreOK, NEW w \in Tasks, FinishWrite(w),
         Ordered(Onward, stored, writes, payments)
  PROVE  Ordered(Onward, stored', writes', payments) /\ <<stored, stored'>> \in Onward
  BY OnwardOrder, OrderedFinish DEF StoreOK

LEMMA RecordingIssue ==
  ASSUME StoreOK, NEW w \in Tasks, NEW v \in Ledgers, NEW h \in Hashes, IssueWrite(w, v),
         AtMostOne(writes, "bg"),
         w = "bg" => v \in Received(h) /\ NoneOf(writes, "bg"),
         Carried(Received(h), stored, writes, "bg") \/ w = "bg"
  PROVE  AtMostOne(writes', "bg") /\ Carried(Received(h), stored', writes', "bg")
<1>1. "bg" \in Tasks
  BY DEF Tasks
<1>2. AtMostOne(writes', "bg")
  BY <1>1, OneIssue DEF StoreOK
<1>3. Carried(Received(h), stored', writes', "bg")
  BY <1>1, CarriedIssue DEF StoreOK
<1> QED  BY <1>2, <1>3

LEMMA RecordingFinish ==
  ASSUME StoreOK, NEW w \in Tasks, NEW h \in Hashes, FinishWrite(w),
         Ordered(Onward, stored, writes, payments),
         Carried(Received(h), stored, writes, "bg")
  PROVE  /\ Carried(Received(h), stored', writes', "bg")
         /\ w = "bg" => stored' \in Received(h)
<1>1. "bg" \in Tasks /\ <<stored, stored>> \in Onward
  BY OnwardOrder DEF Tasks, StoreOK
<1>2. \A a, b : <<a, b>> \in Onward /\ a \in Received(h) => b \in Received(h)
  BY OnwardOrder
<1> QED  BY <1>1, <1>2, CarriedFinish DEF StoreOK

-----------------------------------------------------------------------------
(* The writes of getinvoice, and what leaves the file to others.           *)

LEMMA ClaimInit == Init => ClaimInv
<1> SUFFICES ASSUME Init PROVE ClaimInv
  OBVIOUS
<1>1. Len(writes) = 0 /\ Len(events) = 0 /\ 1..0 = {}
  BY EmptySeq DEF Init
<1>2. \A h \in Hashes : payments[h] = "Absent" /\ stored[h] = "Absent" /\ htlc[h] = "none"
  BY DEF Init, NoPayments
<1>3. TypeOK /\ Order /\ Down /\ Locked
  BY TypeInit DEF Init, Order, Down, Locked
<1>4. Truth
  BY <1>1, <1>2 DEF Truth
<1>5. Recording
  BY <1>1 DEF Init, Recording, AtMostOne, NoneOf
<1>6. ClaimIsDurable
  BY <1>2 DEF ClaimIsDurable
<1> QED  BY <1>3, <1>4, <1>5, <1>6 DEF ClaimInv

(* The steps that change none of the ledger: no claim is touched.          *)
LEMMA FrameKeeps ==
  ASSUME ClaimInv, TypeOK', UNCHANGED <<storeVars, queueVars, payments, node, bg>>,
         \A h \in Hashes : htlc'[h] = htlc[h] \/ (htlc[h] # "claimed" /\ htlc'[h] \notin {"none", "claimed"}
                                                 /\ htlc[h] # "none"),
         published \subseteq published'
  PROVE  Order' /\ Truth' /\ Recording' /\ ClaimIsDurable'
<1>0. UNCHANGED <<stored, writes, events, handled, payments, node, bg>> /\ UNCHANGED NextId
  BY DEF storeVars, queueVars, NextId
<1>1. Order' /\ Recording'
  <2>1. Order'
    BY <1>0 DEF ClaimInv, Order
  <2>2. /\ AtMostOne(writes', "bg") = AtMostOne(writes, "bg")
        /\ NoneOf(writes', "bg") = NoneOf(writes, "bg")
        /\ Carried(Received(NextId'), stored', writes', "bg") = Carried(Received(NextId), stored, writes, "bg")
    BY <1>0
  <2>3. Recording'
    BY <1>0, <2>2 DEF ClaimInv, Recording
  <2> QED  BY <2>1, <2>3
<1>2. Truth'
  <2>1. \A i \in 1..Len(events) : events[i].id \in Hashes
    BY EventTypes DEF ClaimInv
  <2> QED  BY <2>1 DEF ClaimInv, Truth, storeVars, queueVars
<1>3. ClaimIsDurable'
  BY DEF ClaimInv, ClaimIsDurable, Unhandled, Event, storeVars, queueVars
<1> QED  BY <1>1, <1>2, <1>3

(* A write of getinvoice reaches the disk, or is overtaken.                *)
LEMMA AwaitInvoiceKeeps ==
  ASSUME ClaimInv, TypeOK', AwaitInvoice
  PROVE  ClaimInv'
<1>0. StoreOK /\ "cli" \in Tasks /\ "bg" \in Tasks /\ "cli" # "bg"
  BY DEF ClaimInv, TypeOK, StoreOK, Writes, Tasks
<1>1. /\ FinishWrite("cli") /\ node = "up" /\ cli' = "idle" /\ invoice' = None
      /\ UNCHANGED <<events, handled, payments, node, bg, published, htlc>>
  BY DEF AwaitInvoice, queueVars
<1>2. Ordered(Onward, stored', writes', payments) /\ <<stored, stored'>> \in Onward
  BY <1>0, <1>1, OrderFinish DEF ClaimInv, Order
<1>3. AtMostOne(writes', "bg") /\ (NoneOf(writes, "bg") => NoneOf(writes', "bg"))
  BY <1>0, <1>1, OneFinish DEF ClaimInv, Recording, StoreOK
<1>4. Recording'
  <2>1. CASE bg # "writing"
    BY <1>1, <1>3, <2>1 DEF ClaimInv, Recording
  <2>2. CASE bg = "writing"
    <3>1. NextId \in Hashes /\ NextId' = NextId
      <4>1. IsNext("Claimed")
        BY <2>2 DEF ClaimInv, Recording, IsNext
      <4> QED  BY <1>1, <4>1, NextEvent DEF ClaimInv, NextId
    <3>2. Carried(Received(NextId), stored', writes', "bg")
      BY <1>0, <1>1, <2>2, <3>1, RecordingFinish DEF ClaimInv, Recording, Order
    <3> QED  BY <1>1, <1>3, <2>2, <3>1, <3>2 DEF ClaimInv, Recording
  <2> QED  BY <2>1, <2>2
<1>5. Truth'
  <2>1. \A h \in Hashes : stored'[h] = "Succeeded" => payments[h] = "Succeeded"
    BY <1>2 DEF Ordered, Onward
  <2> QED  BY <1>1, <2>1 DEF ClaimInv, Truth
<1>6. ClaimIsDurable'
  BY <1>1, <1>2 DEF ClaimInv, ClaimIsDurable, Onward, Unhandled, Event
<1> QED
  BY <1>1, <1>2, <1>4, <1>5, <1>6 DEF ClaimInv, Order, Down, Locked

(* The handler records the claim of its next event.                        *)
LEMMA WritingNext ==
  ASSUME ClaimInv, bg = "writing"
  PROVE  IsNext("Claimed") /\ NextId \in Hashes
<1>1. IsNext("Claimed")
  BY DEF ClaimInv, Recording, IsNext
<1> QED  BY <1>1, NextEvent DEF ClaimInv

LEMMA UnhandledIs ==
  ASSUME TypeOK, NEW t, NEW h
  PROVE  Unhandled(t, h) <=> \E i \in 1..Len(events) : i > handled /\ events[i] = [type |-> t, id |-> h]
<1>1. DOMAIN events = 1..Len(events)
  BY LenProperties DEF TypeOK
<1> QED  BY <1>1 DEF Unhandled, Event

(* getinvoice calls write: with a new entry, or with the map as it was.    *)
LEMMA CliIssueKeeps ==
  ASSUME ClaimInv, node = "up", payments' \in Ledgers, <<payments, payments'>> \in Onward,
         \A h \in Hashes : payments'[h] = "Succeeded" => payments[h] = "Succeeded",
         IssueWrite("cli", payments'),
         UNCHANGED <<events, handled, node, bg, published, htlc>>
  PROVE  Order' /\ Truth' /\ Recording' /\ ClaimIsDurable'
<1>0. StoreOK /\ "cli" \in Tasks /\ "bg" \in Tasks /\ "cli" # "bg" /\ stored' = stored
  BY DEF ClaimInv, TypeOK, StoreOK, Writes, Tasks, IssueWrite
<1>1. Order'
  BY <1>0, OrderIssue DEF ClaimInv, Order
<1>2. Truth'
  BY <1>0 DEF ClaimInv, Truth
<1>3. ClaimIsDurable'
  BY <1>0 DEF ClaimInv, ClaimIsDurable, Unhandled, Event
<1>4. AtMostOne(writes', "bg") /\ (NoneOf(writes, "bg") => NoneOf(writes', "bg"))
  BY <1>0, OneIssue DEF ClaimInv, Recording, StoreOK
<1>5. CASE bg # "writing"
  BY <1>1, <1>2, <1>3, <1>4, <1>5 DEF ClaimInv, Recording
<1>6. CASE bg = "writing"
  <2>1. NextId \in Hashes /\ NextId' = NextId
    BY <1>6, WritingNext DEF NextId
  <2>2. Carried(Received(NextId), stored', writes', "bg")
    BY <1>0, <1>6, <2>1, RecordingIssue DEF ClaimInv, Recording
  <2>3. Recording'
    BY <1>4, <1>6, <2>1, <2>2 DEF ClaimInv, Recording
  <2> QED  BY <1>1, <1>2, <1>3, <2>3
<1> QED  BY <1>5, <1>6

(* LDK emits an event about a payment that is held, or claimed now.        *)
LEMMA EmitKeeps ==
  ASSUME ClaimInv, NEW h \in Hashes, NEW t \in {"Claimable", "Claimed"}, NEW r \in Htlc,
         Emit(t, h), htlc' = [htlc EXCEPT ![h] = r],
         htlc[h] # "claimed", r # "none", (t = "Claimed") <=> (r = "claimed"),
         h \in published \cup SpontaneousHashes,
         UNCHANGED <<stored, writes, handled, payments, node, bg, published>>
  PROVE  Order' /\ Truth' /\ Recording' /\ ClaimIsDurable'
<1>0. /\ Len(events) \in Nat /\ Len(events') = Len(events) + 1
      /\ \A i \in 1..Len(events) : events'[i] = events[i]
      /\ events'[Len(events) + 1] = [type |-> t, id |-> h]
      /\ events' \in Seq(Entry) /\ handled \in 0..Len(events)
  BY EmitProperties DEF ClaimInv, TypeOK
<1>1. /\ \A i \in 1..Len(events') : i \in 1..Len(events) \/ i = Len(events) + 1
      /\ \A i \in 1..Len(events) : i \in 1..Len(events')
      /\ Len(events) + 1 \in 1..Len(events') /\ Len(events) + 1 > handled
  BY <1>0
<1>2. /\ htlc'[h] = r
      /\ \A q \in Hashes : q # h => htlc'[q] = htlc[q]
  BY DEF ClaimInv, TypeOK
<1>3. Order'
  BY DEF ClaimInv, Order
<1>4. Truth'
  <2>1. \A q \in Hashes : payments'[q] = "Succeeded" \/ stored'[q] = "Succeeded" => htlc'[q] = "claimed"
    BY <1>2 DEF ClaimInv, Truth
  <2>2. ASSUME NEW i \in 1..Len(events'), events'[i].type = "Claimed"
        PROVE  htlc'[events'[i].id] = "claimed"
    <3>1. CASE i \in 1..Len(events)
      <4>1. events[i].id \in Hashes
        BY <3>1, EventTypes DEF ClaimInv
      <4> QED  BY <1>0, <1>2, <2>2, <3>1, <4>1 DEF ClaimInv, Truth
    <3>2. CASE i = Len(events) + 1
      BY <1>0, <1>2, <2>2, <3>2
    <3> QED  BY <1>1, <3>1, <3>2
  <2>3. \A q \in Hashes : htlc'[q] # "none" => q \in published' \cup SpontaneousHashes
    BY <1>2 DEF ClaimInv, Truth
  <2> QED  BY <2>1, <2>2, <2>3 DEF Truth
<1>5. Recording'
  <2>1. CASE bg # "writing"
    BY <2>1 DEF ClaimInv, Recording
  <2>2. CASE bg = "writing"
    <3>1. handled < Len(events) /\ handled + 1 \in 1..Len(events)
      BY <1>0, <2>2 DEF ClaimInv, Recording
    <3>2. events'[handled + 1] = events[handled + 1] /\ NextId' = NextId /\ handled < Len(events')
      BY <1>0, <3>1 DEF NextId
    <3>3. Carried(Received(NextId'), stored', writes', "bg")
      BY <2>2, <3>2 DEF ClaimInv, Recording
    <3> QED  BY <2>2, <3>2, <3>3 DEF ClaimInv, Recording
  <2> QED  BY <2>1, <2>2
<1>6. ClaimIsDurable'
  <2> SUFFICES ASSUME NEW q \in Hashes, htlc'[q] = "claimed", ~Unhandled("Claimed", q)'
               PROVE  stored'[q] = "Succeeded"
    BY DEF ClaimIsDurable
  <2>1. ~(\E i \in 1..Len(events') : i > handled /\ events'[i] = [type |-> "Claimed", id |-> q])
    <3>1. DOMAIN events' = 1..Len(events')
      BY <1>0, LenProperties
    <3> QED  BY <3>1 DEF Unhandled, Event
  <2>2. q # h
    BY <1>0, <1>1, <1>2, <2>1
  <2>3. ~Unhandled("Claimed", q)
    BY <1>0, <1>1, <2>1, UnhandledIs DEF ClaimInv
  <2> QED  BY <1>2, <2>2, <2>3 DEF ClaimInv, ClaimIsDurable
<1> QED  BY <1>3, <1>4, <1>5, <1>6

(* The claim of the handler's event is in the map, and its write is called. *)
LEMMA ClaimedKeeps ==
  ASSUME ClaimInv, PaymentClaimed
  PROVE  Order' /\ Truth' /\ Recording' /\ Locked' /\ ClaimIsDurable' /\ <<payments, payments'>> \in Onward
<1>0. /\ StoreOK /\ "bg" \in Tasks /\ payments \in Ledgers
      /\ node = "up" /\ bg = "idle" /\ IsNext("Claimed") /\ cli # "creating" /\ bg' = "writing"
      /\ payments' = [payments EXCEPT ![NextId] = "Succeeded"]
      /\ IssueWrite("bg", payments') /\ stored' = stored
      /\ UNCHANGED <<events, handled, node, cli, invoice, published, htlc>>
  BY DEF ClaimInv, TypeOK, StoreOK, Writes, Tasks, PaymentClaimed, Handles, MapIsFree, RecordClaim,
         queueVars, IssueWrite
<1>1. /\ handled + 1 \in 1..Len(events) /\ handled < Len(events) /\ NextId \in Hashes
      /\ events[handled + 1].type = "Claimed"
  BY <1>0, NextEvent DEF ClaimInv
<1>2. payments' \in Ledgers
  BY <1>0, LedgerUpdate DEF Status
<1>3. /\ payments'[NextId] = "Succeeded" /\ NextId' = NextId
      /\ \A h \in Hashes : h # NextId => payments'[h] = payments[h]
  BY <1>0, <1>1 DEF Ledgers, NextId
<1>4. <<payments, payments'>> \in Onward
  BY <1>0, <1>2, <1>3 DEF Onward
<1>5. Order'
  BY <1>0, <1>2, <1>4, OrderIssue DEF ClaimInv, Order
<1>6. htlc[NextId] = "claimed"
  BY <1>1 DEF ClaimInv, Truth, NextId
<1>7. Truth'
  BY <1>0, <1>3, <1>6 DEF ClaimInv, Truth
<1>8. Recording'
  <2>1. AtMostOne(writes, "bg") /\ NoneOf(writes, "bg")
    BY <1>0 DEF ClaimInv, Recording
  <2>2. payments' \in Received(NextId)
    BY <1>2, <1>3 DEF Received
  <2>3. AtMostOne(writes', "bg") /\ Carried(Received(NextId), stored', writes', "bg")
    BY <1>0, <1>1, <1>2, <2>1, <2>2, RecordingIssue
  <2> QED  BY <1>0, <1>1, <1>3, <2>3 DEF Recording
<1>9. ClaimIsDurable'
  BY <1>0 DEF ClaimInv, ClaimIsDurable, Unhandled, Event
<1> QED  BY <1>0, <1>4, <1>5, <1>7, <1>8, <1>9 DEF Locked

(* The handler returns: by then the claim is in the file.                  *)
LEMMA ClaimHandledKeeps ==
  ASSUME ClaimInv, ClaimHandled
  PROVE  Order' /\ Truth' /\ Recording' /\ ClaimIsDurable'
<1>0. /\ StoreOK /\ "bg" \in Tasks
      /\ node = "up" /\ bg = "writing" /\ bg' = "idle" /\ handled' = handled + 1
      /\ FinishWrite("bg") /\ UNCHANGED <<events, payments, node, cli, invoice, published, htlc>>
  BY DEF ClaimInv, TypeOK, StoreOK, Writes, Tasks, ClaimHandled
<1>1. NextId \in Hashes /\ IsNext("Claimed")
  BY <1>0, WritingNext
<1>2. Ordered(Onward, stored', writes', payments) /\ <<stored, stored'>> \in Onward
  BY <1>0, OrderFinish DEF ClaimInv, Order
<1>3. NoneOf(writes', "bg") /\ AtMostOne(writes', "bg")
  BY <1>0, OneFinish DEF ClaimInv, Recording, StoreOK
<1>4. stored' \in Received(NextId)
  BY <1>0, <1>1, RecordingFinish DEF ClaimInv, Recording, Order
<1>5. Truth'
  <2>1. \A h \in Hashes : stored'[h] = "Succeeded" => payments[h] = "Succeeded"
    BY <1>2 DEF Ordered, Onward
  <2> QED  BY <1>0, <2>1 DEF ClaimInv, Truth
<1>6. ClaimIsDurable'
  <2> SUFFICES ASSUME NEW h \in Hashes, htlc[h] = "claimed", ~Unhandled("Claimed", h)'
               PROVE  stored'[h] = "Succeeded"
    BY <1>0 DEF ClaimIsDurable
  <2>1. ~(\E i \in 1..Len(events) : i > handled + 1 /\ events[i] = [type |-> "Claimed", id |-> h])
    <3>1. DOMAIN events = 1..Len(events)
      BY LenProperties DEF ClaimInv, TypeOK
    <3> QED  BY <1>0, <3>1 DEF Unhandled, Event
  <2>2. CASE ~Unhandled("Claimed", h)
    BY <1>2, <2>2 DEF ClaimInv, ClaimIsDurable, Onward
  <2>3. CASE Unhandled("Claimed", h)
    <3>1. PICK i \in 1..Len(events) : i > handled /\ events[i] = [type |-> "Claimed", id |-> h]
      BY <2>3, UnhandledIs DEF ClaimInv
    <3>2. i = handled + 1
      BY <2>1, <3>1, LenProperties DEF ClaimInv, TypeOK
    <3> QED  BY <1>4, <3>1, <3>2 DEF NextId, Received
  <2> QED  BY <2>2, <2>3
<1> QED  BY <1>0, <1>2, <1>3, <1>5, <1>6 DEF Order, Recording

(* The manager is persisted without the events that were handled.          *)
LEMMA PersistKeeps ==
  ASSUME ClaimInv, PersistManager
  PROVE  Order' /\ Truth' /\ Recording' /\ ClaimIsDurable'
<1>0. /\ bg = "idle" /\ DropHandled
      /\ UNCHANGED <<stored, writes, payments, node, cli, invoice, bg, published, htlc>>
  BY DEF PersistManager, storeVars
<1>1. /\ events' \in Seq(Entry) /\ handled' = 0
      /\ Len(events') = Len(events) - handled /\ Len(events') \in Nat
      /\ \A i \in 1..Len(events') : i + handled \in 1..Len(events) /\ events'[i] = events[i + handled]
  BY <1>0, DropProperties DEF ClaimInv
<1>2. Order' /\ Recording'
  BY <1>0 DEF ClaimInv, Order, Recording
<1>3. Truth'
  BY <1>0, <1>1 DEF ClaimInv, Truth
<1>4. ClaimIsDurable'
  <2> SUFFICES ASSUME NEW h \in Hashes, htlc[h] = "claimed", ~Unhandled("Claimed", h)'
               PROVE  stored[h] = "Succeeded"
    BY <1>0 DEF ClaimIsDurable
  <2>1. ~(\E i \in 1..Len(events') : i > handled' /\ events'[i] = [type |-> "Claimed", id |-> h])
    <3>1. DOMAIN events' = 1..Len(events')
      BY <1>1, LenProperties
    <3> QED  BY <3>1 DEF Unhandled, Event
  <2>2. ~Unhandled("Claimed", h)
    <3> SUFFICES ASSUME NEW i \in 1..Len(events), i > handled,
                        events[i] = [type |-> "Claimed", id |-> h]
                 PROVE  FALSE
      BY UnhandledIs DEF ClaimInv
    <3>1. handled \in Nat /\ Len(events) \in Nat
      BY LenProperties DEF ClaimInv, TypeOK
    <3>2. i - handled \in 1..Len(events') /\ i - handled > 0 /\ (i - handled) + handled = i
      BY <1>1, <3>1
    <3>3. events'[i - handled] = events[i]
      BY <1>1, <3>2
    <3> QED  BY <1>1, <2>1, <3>2, <3>3
  <2> QED  BY <2>2 DEF ClaimInv, ClaimIsDurable
<1> QED  BY <1>2, <1>3, <1>4

(* The process dies: the file is as it was, and the events come again.     *)
LEMMA CrashKeeps ==
  ASSUME ClaimInv, Crash
  PROVE  Order' /\ Truth' /\ Recording' /\ ClaimIsDurable'
<1>0. /\ node' = "down" /\ writes' = <<>> /\ payments' = NoPayments /\ handled' = 0 /\ bg' = "idle"
      /\ UNCHANGED <<stored, events, published>>
      /\ \A h \in Hashes : htlc'[h] = htlc[h] \/ (htlc[h] = "claiming" /\ htlc'[h] = "held")
  BY DEF Crash, LoseWrites
<1>1. Order'
  BY <1>0 DEF Order
<1>2. Recording'
  <2>1. Len(writes') = 0 /\ 1..0 = {}
    BY <1>0, EmptySeq
  <2> QED  BY <1>0, <2>1 DEF Recording, AtMostOne, NoneOf
<1>3. Truth'
  <2>1. \A h \in Hashes : payments'[h] # "Succeeded"
    BY <1>0 DEF NoPayments
  <2>2. \A i \in 1..Len(events) : events[i].id \in Hashes
    BY EventTypes DEF ClaimInv
  <2> QED  BY <1>0, <2>1, <2>2 DEF ClaimInv, Truth
<1>4. ClaimIsDurable'
  <2>1. handled \in Nat /\ DOMAIN events = 1..Len(events)
    BY LenProperties DEF ClaimInv, TypeOK
  <2>2. \A h : Unhandled("Claimed", h) => Unhandled("Claimed", h)'
    BY <1>0, <2>1 DEF Unhandled, Event
  <2> QED  BY <1>0, <2>2 DEF ClaimInv, ClaimIsDurable
<1> QED  BY <1>1, <1>2, <1>3, <1>4

LEMMA ClaimNext == ClaimInv /\ [Next]_vars => ClaimInv'
<1> SUFFICES ASSUME ClaimInv, [Next]_vars PROVE ClaimInv'
  OBVIOUS
<1> USE ConstantsAssumption
<1>T. TypeOK /\ TypeOK'
  BY TypeNext DEF ClaimInv
<1>p. payments \in Ledgers /\ <<payments, payments>> \in Onward
  BY OnwardOrder DEF ClaimInv, TypeOK
<1>1. CASE Start
  <2>0. /\ node = "down" /\ node' = "up" /\ payments' = stored
        /\ UNCHANGED <<stored, writes, events, handled, cli, invoice, bg, published, htlc>>
    BY <1>1 DEF Start, storeVars, queueVars
  <2>1. writes = <<>> /\ Len(writes) = 0 /\ 1..0 = {} /\ cli = "idle" /\ bg = "idle"
    BY <2>0, EmptySeq DEF ClaimInv, Down
  <2>2. Order'
    BY <1>T, <2>0, <2>1, OnwardOrder DEF Order, Ordered, TypeOK
  <2>3. Truth'
    BY <2>0 DEF ClaimInv, Truth
  <2>4. Recording'
    BY <2>0, <2>1 DEF ClaimInv, Recording, AtMostOne, NoneOf
  <2>5. ClaimIsDurable'
    BY <2>0 DEF ClaimInv, ClaimIsDurable, Unhandled, Event
  <2> QED  BY <1>T, <2>0, <2>1, <2>2, <2>3, <2>4, <2>5 DEF ClaimInv, Down, Locked
<1>2. ASSUME NEW h \in Hashes, CreateInvoice(h) PROVE ClaimInv'
  <2>0. /\ node = "up" /\ node' = "up" /\ invoice' = h /\ h \in InvoiceHashes \ published
        /\ published \subseteq published'
        /\ UNCHANGED <<storeVars, queueVars, payments, node, bg, htlc>>
    BY <1>2 DEF CreateInvoice
  <2>1. Order' /\ Truth' /\ Recording' /\ ClaimIsDurable'
    BY <1>T, <2>0, FrameKeeps
  <2>2. Locked'
    BY <2>0 DEF ClaimInv, Truth, Locked
  <2> QED  BY <1>T, <2>0, <2>1, <2>2 DEF ClaimInv, Down
<1>3. CASE CreateFails
  <2>0. /\ node = "up" /\ cli' = "writing" /\ IssueWrite("cli", payments')
        /\ UNCHANGED <<events, handled, payments, node, bg, published, htlc>>
    BY <1>3 DEF CreateFails, queueVars
  <2>1. Order' /\ Truth' /\ Recording' /\ ClaimIsDurable'
    BY <1>p, <2>0, CliIssueKeeps
  <2> QED  BY <1>T, <2>0, <2>1 DEF ClaimInv, Down, Locked
<1>4. CASE InsertInvoice
  <2>0. /\ node = "up" /\ cli = "creating" /\ cli' = "writing" /\ IssueWrite("cli", payments')
        /\ payments' = [payments EXCEPT ![invoice] = "Pending"]
        /\ UNCHANGED <<events, handled, node, bg, published, htlc>>
    BY <1>4 DEF InsertInvoice, queueVars
  <2>1. payments[invoice] # "Succeeded"
    BY <2>0 DEF ClaimInv, Locked
  <2>2. payments' \in Ledgers
    BY <1>T DEF TypeOK
  <2>3. \A h \in Hashes : payments'[h] = IF h = invoice THEN "Pending" ELSE payments[h]
    BY <1>p, <2>0 DEF Ledgers
  <2>4. <<payments, payments'>> \in Onward
    BY <1>p, <2>1, <2>2, <2>3 DEF Onward
  <2>5. Order' /\ Truth' /\ Recording' /\ ClaimIsDurable'
    BY <2>0, <2>2, <2>3, <2>4, CliIssueKeeps
  <2> QED  BY <1>T, <2>0, <2>5 DEF ClaimInv, Down, Locked
<1>5. CASE AwaitInvoice
  BY <1>T, <1>5, AwaitInvoiceKeeps
<1>6. CASE PaymentClaimable
  <2>0. /\ node = "up" /\ bg = "idle" /\ IsNext("Claimable") /\ handled' = handled + 1
        /\ htlc' = [htlc EXCEPT ![NextId] = IF @ = "held" THEN "claiming" ELSE @]
        /\ UNCHANGED <<stored, writes, events, payments, node, cli, invoice, bg, published>>
    BY <1>6 DEF PaymentClaimable, Handles, storeVars
  <2>1. events[handled + 1].type = "Claimable" /\ handled \in Nat /\ DOMAIN events = 1..Len(events)
    BY <1>T, <2>0, NextEvent, LenProperties DEF TypeOK
  <2>2. \A h \in Hashes : htlc'[h] = htlc[h] \/ (htlc[h] = "held" /\ htlc'[h] = "claiming")
    BY <1>T, <2>0 DEF TypeOK
  <2>3. Order' /\ Recording'
    BY <2>0 DEF ClaimInv, Order, Recording
  <2>4. Truth'
    <3>1. \A i \in 1..Len(events) : events[i].id \in Hashes
      BY <1>T, EventTypes
    <3> QED  BY <2>0, <2>2, <3>1 DEF ClaimInv, Truth
  <2>5. ClaimIsDurable'
    <3>1. \A h : Unhandled("Claimed", h) => Unhandled("Claimed", h)'
      <4> SUFFICES ASSUME NEW h, NEW i \in 1..Len(events), i > handled,
                          events[i] = [type |-> "Claimed", id |-> h]
                   PROVE  i > handled + 1
        BY <2>0, <2>1 DEF Unhandled, Event
      <4>1. i # handled + 1
        BY <2>1
      <4> QED  BY <2>1, <4>1
    <3> QED  BY <2>0, <2>2, <3>1 DEF ClaimInv, ClaimIsDurable
  <2> QED  BY <1>T, <2>0, <2>3, <2>4, <2>5 DEF ClaimInv, Down, Locked
<1>7. CASE PaymentClaimed
  <2>1. node' = "up"
    BY <1>7 DEF PaymentClaimed, Handles
  <2> QED  BY <1>T, <1>7, <2>1, ClaimedKeeps DEF ClaimInv, Down
<1>8. CASE ClaimHandled
  <2>1. node' = "up" /\ UNCHANGED <<cli, invoice, payments>>
    BY <1>8 DEF ClaimHandled
  <2> QED  BY <1>T, <1>8, <2>1, ClaimHandledKeeps DEF ClaimInv, Down, Locked
<1>9. ASSUME NEW h \in Hashes, Pay(h) \/ ClaimDone(h) PROVE ClaimInv'
  <2>0. /\ node = "up" /\ UNCHANGED <<stored, writes, handled, payments, node, cli, invoice, bg, published>>
    BY <1>9 DEF Pay, ClaimDone, storeVars
  <2>1. Order' /\ Truth' /\ Recording' /\ ClaimIsDurable'
    <3>1. CASE Pay(h)
      BY <2>0, <3>1, EmitKeeps DEF Pay, Htlc
    <3>2. CASE ClaimDone(h)
      <4>1. h \in published \cup SpontaneousHashes
        BY <3>2 DEF ClaimDone, ClaimInv, Truth
      <4> QED  BY <2>0, <3>2, <4>1, EmitKeeps DEF ClaimDone, Htlc
    <3> QED  BY <1>9, <3>1, <3>2
  <2> QED  BY <1>T, <2>0, <2>1 DEF ClaimInv, Down, Locked
<1>10. ASSUME NEW h \in Hashes, Expire(h) PROVE ClaimInv'
  <2>0. /\ node = "up" /\ UNCHANGED <<storeVars, queueVars, payments, node, cli, invoice, bg, published>>
        /\ htlc[h] = "held" /\ htlc' = [htlc EXCEPT ![h] = "expired"]
    BY <1>10 DEF Expire
  <2>1. \A q \in Hashes : htlc'[q] = htlc[q] \/ (htlc[q] = "held" /\ htlc'[q] = "expired")
    BY <1>T, <2>0 DEF TypeOK
  <2>2. Order' /\ Truth' /\ Recording' /\ ClaimIsDurable'
    BY <1>T, <2>0, <2>1, FrameKeeps
  <2> QED  BY <1>T, <2>0, <2>2 DEF ClaimInv, Down, Locked
<1>11. CASE PersistManager
  <2>1. node' = "up" /\ UNCHANGED <<cli, invoice, payments>>
    BY <1>11 DEF PersistManager
  <2> QED  BY <1>T, <1>11, <2>1, PersistKeeps DEF ClaimInv, Down, Locked
<1>12. CASE Crash
  <2>1. cli' = "idle" /\ bg' = "idle" /\ handled' = 0 /\ writes' = <<>> /\ payments' = NoPayments
    BY <1>12 DEF Crash, LoseWrites
  <2> QED  BY <1>T, <1>12, <2>1, CrashKeeps DEF ClaimInv, Down, Locked
<1>13. CASE UNCHANGED vars
  <2>0. UNCHANGED <<stored, writes, events, handled, payments, node, cli, invoice, bg, published, htlc>>
    BY <1>13 DEF vars
  <2>1. Order' /\ Truth' /\ Recording' /\ ClaimIsDurable'
    BY <1>T, <2>0, FrameKeeps DEF storeVars, queueVars
  <2> QED  BY <1>T, <2>0, <2>1 DEF ClaimInv, Down, Locked
<1> QED
  BY <1>1, <1>2, <1>3, <1>4, <1>5, <1>6, <1>7, <1>8, <1>9, <1>10, <1>11, <1>12, <1>13
     DEF Next, CliStep, BgStep

LEMMA Inductive == Spec => []ClaimInv
  BY ClaimInit, ClaimNext, PTL DEF Spec

(* Money that was claimed, and whose PaymentClaimed LDK need not repeat,   *)
(* is in the file: for any payments, and however many crashes.             *)
THEOREM ClaimsAreDurable == Spec => []ClaimIsDurable
<1>1. ClaimInv => ClaimIsDurable
  BY DEF ClaimInv
<1> QED  BY <1>1, Inductive, PTL

(* No entry of a received payment is put back in memory, by getinvoice or  *)
(* by anything else, while the node is up.                                 *)
THEOREM ReceivedStays == Spec => ReceivedIsFinal
<1>1. ASSUME ClaimInv, [Next]_vars
      PROVE  [\A h \in Hashes :
                payments[h] = "Succeeded" /\ node' = "up" => payments'[h] = "Succeeded"]_vars
  <2> SUFFICES ASSUME NEW h \in Hashes, payments[h] = "Succeeded", node' = "up"
               PROVE  payments'[h] = "Succeeded"
    OBVIOUS
  <2>1. CASE UNCHANGED payments
    BY <2>1
  <2>2. CASE Start
    BY <1>1, <2>2 DEF Start, ClaimInv, Down, NoPayments
  <2>3. CASE InsertInvoice
    BY <1>1, <2>3 DEF InsertInvoice, ClaimInv, Locked, TypeOK, Ledgers
  <2>4. CASE PaymentClaimed
    BY <1>1, <2>4, ClaimedKeeps DEF Onward
  <2>5. CASE Crash
    BY <2>5 DEF Crash
  <2> QED
    BY <1>1, <2>1, <2>2, <2>3, <2>4, <2>5
       DEF Next, CliStep, BgStep, vars, CreateInvoice, CreateFails, AwaitInvoice, PaymentClaimable,
           ClaimHandled, Pay, Expire, ClaimDone, PersistManager
<1> QED  BY <1>1, Inductive, PTL DEF Spec, ReceivedIsFinal

-----------------------------------------------------------------------------
(* Money held for the node.  HeldIsTracked stands on the claims' invariant: *)
(* a handler that returns had the claim of an event, or its event was no   *)
(* PaymentClaimable; a node that is down has handled nothing.              *)

(* An event that was not handled is not the handler's next, or stays.      *)
LEMMA UnhandledStays ==
  ASSUME TypeOK, NEW t, NEW h, Unhandled(t, h),
         \/ UNCHANGED <<events, handled>>
         \/ UNCHANGED events /\ handled' = 0
         \/ /\ UNCHANGED events
            /\ handled' = handled + 1 /\ events[handled + 1] # [type |-> t, id |-> h]
  PROVE  Unhandled(t, h)'
<1>1. handled \in Nat /\ Len(events) \in Nat /\ DOMAIN events = 1..Len(events)
  BY LenProperties DEF TypeOK
<1>2. PICK i \in 1..Len(events) : i > handled /\ events[i] = [type |-> t, id |-> h]
  BY UnhandledIs
<1>3. i > handled'
  <2>1. handled' = handled + 1 /\ events[handled + 1] # [type |-> t, id |-> h] => i # handled + 1
    BY <1>2
  <2> QED  BY <1>1, <1>2, <2>1
<1> QED  BY <1>1, <1>2, <1>3 DEF Unhandled, Event

(* Nor does it leave the queue that is persisted, or is kept from it by    *)
(* an event that comes after it.                                           *)
LEMMA UnhandledKept ==
  ASSUME TypeOK, NEW t, NEW h, Unhandled(t, h),
         \/ DropHandled
         \/ UNCHANGED handled /\ \E u \in {"Claimable", "Claimed"}, q \in Hashes : Emit(u, q)
  PROVE  Unhandled(t, h)'
<1>1. handled \in Nat /\ Len(events) \in Nat
  BY LenProperties DEF TypeOK
<1>2. PICK i \in 1..Len(events) : i > handled /\ events[i] = [type |-> t, id |-> h]
  BY UnhandledIs
<1>3. CASE DropHandled
  <2>1. /\ handled' = 0 /\ Len(events') = Len(events) - handled /\ events' \in Seq(Entry)
        /\ \A j \in 1..Len(events') : events'[j] = events[j + handled]
    BY <1>3, DropProperties
  <2>2. i - handled \in 1..Len(events') /\ i - handled > handled' /\ (i - handled) + handled = i
    BY <1>1, <1>2, <2>1
  <2>3. events'[i - handled] = [type |-> t, id |-> h]
    BY <1>2, <2>1, <2>2
  <2>4. DOMAIN events' = 1..Len(events')
    BY <2>1, LenProperties
  <2> QED  BY <2>2, <2>3, <2>4 DEF Unhandled, Event
<1>4. CASE UNCHANGED handled /\ \E u \in {"Claimable", "Claimed"}, q \in Hashes : Emit(u, q)
  <2>1. /\ events' \in Seq(Entry) /\ Len(events') = Len(events) + 1
        /\ \A j \in 1..Len(events) : events'[j] = events[j]
    BY <1>4, EmitProperties
  <2>2. i \in 1..Len(events') /\ events'[i] = [type |-> t, id |-> h]
    BY <1>1, <1>2, <2>1
  <2>3. DOMAIN events' = 1..Len(events')
    BY <2>1, LenProperties
  <2> QED  BY <1>2, <1>4, <2>2, <2>3 DEF Unhandled, Event
<1> QED  BY <1>3, <1>4

LEMMA HeldInit == Init => HeldIsTracked
  BY DEF Init, HeldIsTracked

LEMMA HeldNext == ClaimInv /\ HeldIsTracked /\ [Next]_vars => HeldIsTracked'
<1> SUFFICES ASSUME ClaimInv, HeldIsTracked, [Next]_vars, NEW h \in Hashes, htlc'[h] = "held"
             PROVE  Unhandled("Claimable", h)'
  BY DEF HeldIsTracked
<1>0. TypeOK /\ Down /\ Recording
  BY DEF ClaimInv
<1>h. htlc[h] = "held" => Unhandled("Claimable", h)
  BY DEF HeldIsTracked
<1>1. CASE UNCHANGED <<events, handled, htlc>>
  BY <1>0, <1>h, <1>1, UnhandledStays
<1>2. CASE PaymentClaimable
  <2>1. /\ UNCHANGED events /\ handled' = handled + 1 /\ IsNext("Claimable")
        /\ htlc' = [htlc EXCEPT ![NextId] = IF @ = "held" THEN "claiming" ELSE @]
    BY <1>2 DEF PaymentClaimable, Handles
  <2>2. h # NextId /\ htlc[h] = "held"
    BY <1>0, <2>1 DEF TypeOK
  <2>3. events[handled + 1] # [type |-> "Claimable", id |-> h]
    BY <2>2 DEF NextId
  <2> QED  BY <1>0, <1>h, <2>1, <2>2, <2>3, UnhandledStays
<1>3. CASE ClaimHandled
  <2>1. /\ UNCHANGED <<events, htlc>> /\ handled' = handled + 1
        /\ events[handled + 1].type = "Claimed"
    BY <1>0, <1>3 DEF ClaimHandled, Recording
  <2>2. events[handled + 1] # [type |-> "Claimable", id |-> h]
    BY <2>1
  <2> QED  BY <1>0, <1>h, <2>1, <2>2, UnhandledStays
<1>4. ASSUME NEW q \in Hashes, Pay(q) PROVE Unhandled("Claimable", h)'
  <2>1. /\ UNCHANGED handled /\ Emit("Claimable", q)
        /\ htlc' = [htlc EXCEPT ![q] = "held"]
    BY <1>4 DEF Pay
  <2>2. CASE h = q
    <3>1. /\ events' \in Seq(Entry) /\ Len(events) \in Nat /\ Len(events') = Len(events) + 1
          /\ events'[Len(events) + 1] = [type |-> "Claimable", id |-> q]
      BY <1>0, <2>1, EmitProperties
    <3>2. Len(events) + 1 \in 1..Len(events') /\ Len(events) + 1 > handled'
      BY <1>0, <2>1, <3>1 DEF TypeOK
    <3>3. DOMAIN events' = 1..Len(events')
      BY <3>1, LenProperties
    <3> QED  BY <2>2, <3>1, <3>2, <3>3 DEF Unhandled, Event
  <2>3. CASE h # q
    <3>1. htlc[h] = "held"
      BY <1>0, <2>1, <2>3 DEF TypeOK
    <3> QED  BY <1>0, <1>h, <2>1, <3>1, UnhandledKept
  <2> QED  BY <2>2, <2>3
<1>5. ASSUME NEW q \in Hashes, ClaimDone(q) PROVE Unhandled("Claimable", h)'
  <2>1. /\ UNCHANGED handled /\ Emit("Claimed", q)
        /\ htlc' = [htlc EXCEPT ![q] = "claimed"]
    BY <1>5 DEF ClaimDone
  <2>2. htlc[h] = "held"
    BY <1>0, <2>1 DEF TypeOK
  <2> QED  BY <1>0, <1>h, <2>1, <2>2, UnhandledKept
<1>6. ASSUME NEW q \in Hashes, Expire(q) PROVE Unhandled("Claimable", h)'
  <2>1. UNCHANGED <<events, handled>> /\ htlc' = [htlc EXCEPT ![q] = "expired"]
    BY <1>6 DEF Expire, queueVars
  <2>2. htlc[h] = "held"
    BY <1>0, <2>1 DEF TypeOK
  <2> QED  BY <1>0, <1>h, <2>1, <2>2, UnhandledStays
<1>7. CASE PersistManager
  <2>1. DropHandled /\ UNCHANGED htlc
    BY <1>7 DEF PersistManager
  <2> QED  BY <1>0, <1>h, <2>1, UnhandledKept
<1>8. CASE Crash
  <2>1. /\ UNCHANGED events /\ handled' = 0
        /\ htlc[h] = "held" \/ Queued("Claimable", h)
    BY <1>8 DEF Crash
  <2>2. CASE htlc[h] = "held"
    BY <1>0, <1>h, <2>1, <2>2, UnhandledStays
  <2>3. CASE Queued("Claimable", h)
    <3>1. DOMAIN events = 1..Len(events)
      BY <1>0, LenProperties DEF TypeOK
    <3>2. \A i \in 1..Len(events) : i > 0
      OBVIOUS
    <3> QED  BY <2>1, <2>3, <3>1, <3>2 DEF Queued, Unhandled
  <2> QED  BY <2>1, <2>2, <2>3
<1>9. CASE \/ Start \/ (\E q \in Hashes : CreateInvoice(q)) \/ CreateFails \/ InsertInvoice
           \/ AwaitInvoice \/ PaymentClaimed \/ UNCHANGED vars
  BY <1>1, <1>9 DEF Start, CreateInvoice, CreateFails, InsertInvoice, AwaitInvoice, PaymentClaimed,
                    queueVars, vars
<1> QED
  BY <1>2, <1>3, <1>4, <1>5, <1>6, <1>7, <1>8, <1>9 DEF Next, CliStep, BgStep

(* Money held for the node always has a PaymentClaimable before it: no     *)
(* crash and no order of the tasks leaves an HTLC that nobody will claim.  *)
THEOREM HeldIsTrackedCorrect == Spec => []HeldIsTracked
  BY HeldInit, HeldNext, Inductive, PTL DEF Spec

-----------------------------------------------------------------------------
(* Refinement: the file is a PaymentLedger.  Writes that reach the disk    *)
(* are its Write, what LDK and the payers do is its Happen, and the rest   *)
(* it does not see.                                                        *)

Fate == [h \in Hashes |->
           CASE htlc[h] \in {"held", "claiming"} -> "trying"
             [] htlc[h] = "claimed" -> "paid"
             [] OTHER -> "none"]

LEMMA RefineInit == Init => Ledger!Init
<1> SUFFICES ASSUME Init PROVE Ledger!Init
  OBVIOUS
<1>1. stored = [h \in Hashes |-> "Absent"] /\ htlc = [h \in Hashes |-> "none"]
  BY DEF Init, NoPayments
<1> QED  BY <1>1 DEF Ledger!Init

(* The file goes onward, and says the truth.                               *)
LEMMA RefineWrite ==
  ASSUME TypeOK, TypeOK', Truth', <<stored, stored'>> \in Onward, UNCHANGED htlc
  PROVE  Ledger!Write
<1>1. stored \in Ledgers /\ stored' \in Ledgers
  BY DEF TypeOK
<1>2. stored' \in [Hashes -> {"Absent", "Pending", "Succeeded", "Failed"}]
  BY <1>1 DEF Ledgers, Status
<1>3. ASSUME NEW h \in Hashes
      PROVE  stored'[h] = stored[h] \/ Ledger!Opened(h) \/ Ledger!Received(h)
  <2>1. stored[h] \in {"Absent", "Pending", "Succeeded"} /\ stored'[h] \in {"Absent", "Pending", "Succeeded"}
    BY <1>1, <1>3 DEF Ledgers, Status
  <2>2. /\ stored[h] = "Succeeded" => stored'[h] = "Succeeded"
        /\ stored[h] = "Pending" => stored'[h] # "Absent"
    BY <1>3 DEF Onward
  <2>3. stored'[h] = "Succeeded" => Fate[h] = "paid"
    BY <1>3 DEF Truth, Fate
  <2> QED  BY <1>3, <2>1, <2>2, <2>3 DEF Ledger!Opened, Ledger!Received, Fate
<1>4. UNCHANGED Fate
  BY DEF Fate
<1> QED  BY <1>2, <1>3, <1>4 DEF Ledger!Write, Fate

(* Each payment stays as it was or goes one way on.                        *)
LEMMA RefineHappen ==
  ASSUME TypeOK, TypeOK', UNCHANGED stored,
         \A h \in Hashes : \/ htlc'[h] = htlc[h]
                           \/ htlc[h] = "none" /\ htlc'[h] = "held"
                           \/ htlc[h] = "held" /\ htlc'[h] \in {"claiming", "expired"}
                           \/ htlc[h] = "claiming" /\ htlc'[h] \in {"held", "claimed"}
  PROVE  Ledger!Happen
<1>1. Fate' \in [Hashes -> {"none", "trying", "paid"}]
  BY DEF Fate
<1>2. ASSUME NEW h \in Hashes
      PROVE  Fate'[h] = Fate[h] \/ Ledger!Tried(h) \/ Ledger!Paid(h) \/ Ledger!GivenUp(h)
  <2>1. CASE htlc'[h] = htlc[h]
    BY <1>2, <2>1 DEF Fate
  <2>2. CASE htlc[h] = "none" /\ htlc'[h] = "held"
    BY <1>2, <2>2 DEF Ledger!Tried
  <2>3. CASE htlc[h] = "held" /\ htlc'[h] = "claiming"
    BY <1>2, <2>3 DEF Fate
  <2>4. CASE htlc[h] = "held" /\ htlc'[h] = "expired"
    BY <1>2, <2>4 DEF Ledger!GivenUp
  <2>5. CASE htlc[h] = "claiming" /\ htlc'[h] = "held"
    BY <1>2, <2>5 DEF Fate
  <2>6. CASE htlc[h] = "claiming" /\ htlc'[h] = "claimed"
    BY <1>2, <2>6 DEF Ledger!Paid
  <2> QED  BY <1>2, <2>1, <2>2, <2>3, <2>4, <2>5, <2>6
<1> QED  BY <1>1, <1>2 DEF Ledger!Happen, Fate

LEMMA RefineNext == ClaimInv /\ [Next]_vars => [Ledger!Next]_(Ledger!ledgerVars)
<1> SUFFICES ASSUME ClaimInv, [Next]_vars
             PROVE  Ledger!Write \/ Ledger!Happen \/ UNCHANGED <<stored, htlc>>
  <2>1. UNCHANGED <<stored, htlc>> => UNCHANGED Ledger!ledgerVars
    BY DEF Ledger!ledgerVars
  <2> QED  BY <2>1 DEF Ledger!Next
<1>T. TypeOK /\ TypeOK' /\ ClaimInv'
  BY TypeNext, ClaimNext DEF ClaimInv
<1>0. StoreOK /\ "cli" \in Tasks /\ "bg" \in Tasks
  BY <1>T DEF TypeOK, StoreOK, Writes, Tasks
<1>1. CASE AwaitInvoice \/ ClaimHandled
  <2>1. /\ \E w \in Tasks : FinishWrite(w)
        /\ node = "up" /\ UNCHANGED htlc
    BY <1>0, <1>1 DEF AwaitInvoice, ClaimHandled
  <2>2. <<stored, stored'>> \in Onward
    BY <1>0, <2>1, OrderFinish DEF ClaimInv, Order
  <2> QED  BY <1>T, <2>1, <2>2, RefineWrite DEF ClaimInv
<1>2. CASE PaymentClaimable
  <2>1. /\ UNCHANGED stored
        /\ htlc' = [htlc EXCEPT ![NextId] = IF @ = "held" THEN "claiming" ELSE @]
    BY <1>2 DEF PaymentClaimable, storeVars
  <2>2. \A h \in Hashes : htlc'[h] = htlc[h] \/ (htlc[h] = "held" /\ htlc'[h] = "claiming")
    BY <1>T, <2>1 DEF TypeOK
  <2> QED  BY <1>T, <2>1, <2>2, RefineHappen
<1>3. ASSUME NEW h \in Hashes, Pay(h) \/ Expire(h) \/ ClaimDone(h)
      PROVE  Ledger!Happen
  <2>1. /\ UNCHANGED stored
        /\ \/ htlc[h] = "none" /\ htlc' = [htlc EXCEPT ![h] = "held"]
           \/ htlc[h] = "held" /\ htlc' = [htlc EXCEPT ![h] = "expired"]
           \/ htlc[h] = "claiming" /\ htlc' = [htlc EXCEPT ![h] = "claimed"]
    BY <1>3 DEF Pay, Expire, ClaimDone, storeVars
  <2>2. \A q \in Hashes : \/ htlc'[q] = htlc[q]
                          \/ htlc[q] = "none" /\ htlc'[q] = "held"
                          \/ htlc[q] = "held" /\ htlc'[q] = "expired"
                          \/ htlc[q] = "claiming" /\ htlc'[q] = "claimed"
    BY <1>T, <2>1 DEF TypeOK
  <2> QED  BY <1>T, <2>1, <2>2, RefineHappen
<1>4. CASE Crash
  <2>1. /\ UNCHANGED stored
        /\ \A h \in Hashes : htlc'[h] = htlc[h] \/ (htlc[h] = "claiming" /\ htlc'[h] = "held")
    BY <1>4 DEF Crash, LoseWrites
  <2> QED  BY <1>T, <2>1, RefineHappen
<1>5. CASE \/ Start \/ (\E h \in Hashes : CreateInvoice(h)) \/ CreateFails \/ InsertInvoice
           \/ PaymentClaimed \/ PersistManager \/ UNCHANGED vars
  BY <1>5 DEF Start, CreateInvoice, CreateFails, InsertInvoice, PaymentClaimed, PersistManager,
              vars, storeVars, IssueWrite
<1> QED
  BY <1>1, <1>2, <1>3, <1>4, <1>5 DEF Next, CliStep, BgStep

(* The ledger of inbound payments keeps the promises of a PaymentLedger:   *)
(* the file lists exactly what was received, whatever the order of the     *)
(* writes and wherever the node dies.                                      *)
THEOREM Implements == Spec => ImplementsLedger
  BY RefineInit, RefineNext, Inductive, PTL DEF Spec, ImplementsLedger, Ledger!Spec

-----------------------------------------------------------------------------
(* What the refinement hands down: whatever a PaymentLedger promises holds *)
(* of this file.                                                           *)

LEMMA LedgerTruth == Ledger!Spec => []Ledger!Truth
<1>1. Ledger!Init => Ledger!Truth
  BY DEF Ledger!Init, Ledger!Truth
<1>2. Ledger!Truth /\ [Ledger!Next]_(Ledger!ledgerVars) => Ledger!Truth'
  <2> SUFFICES ASSUME Ledger!Truth, [Ledger!Next]_(Ledger!ledgerVars) PROVE Ledger!Truth'
    OBVIOUS
  <2>1. CASE Ledger!Happen
    BY <2>1 DEF Ledger!Truth, Ledger!Happen, Ledger!Tried, Ledger!Paid, Ledger!GivenUp
  <2>2. CASE Ledger!Write
    BY <2>2 DEF Ledger!Truth, Ledger!Write, Ledger!Opened, Ledger!Received, Ledger!Failed
  <2>3. CASE UNCHANGED Ledger!ledgerVars
    BY <2>3 DEF Ledger!Truth, Ledger!ledgerVars
  <2> QED  BY <2>1, <2>2, <2>3 DEF Ledger!Next
<1> QED  BY <1>1, <1>2, PTL DEF Ledger!Spec

LEMMA LedgerFinality == Ledger!Spec => Ledger!Finality
<1>1. [Ledger!Next]_(Ledger!ledgerVars) => [Ledger!ClosedStays]_(Ledger!ledgerVars)
  BY DEF Ledger!ClosedStays, Ledger!Next, Ledger!Happen, Ledger!Write, Ledger!Opened,
         Ledger!Received, Ledger!Failed
<1> QED  BY <1>1, PTL DEF Ledger!Spec, Ledger!Finality

(* The file of inbound payments never lists as received what was not, and  *)
(* never takes back what it lists as received, across crashes as well.     *)
THEOREM LedgerIsTrue == Spec => []Ledger!Truth /\ Ledger!Finality
  BY Implements, LedgerTruth, LedgerFinality, PTL DEF ImplementsLedger
=============================================================================
