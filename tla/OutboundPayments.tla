-------------------------- MODULE OutboundPayments --------------------------
(***************************************************************************)
(* The ledger of outbound payments: the map behind                         *)
(* Arc<Mutex<OutboundPaymentInfoStorage>>, its file outbound_payments, and *)
(* the three tasks that change them:                                       *)
(*                                                                         *)
(*   "cli"   poll_for_user_input: sendpayment and keysend (cli.rs),        *)
(*   "bg"    handle_ldk_events: PaymentSent and PaymentFailed (main.rs),   *)
(*   "main"  start_ldk: reads the file and fails what LDK does not know.   *)
(*                                                                         *)
(* LDK itself (the ChannelManager and the ChannelMonitors) is external:    *)
(* what a payment is to it (recent), and its queue of events (EventQueue). *)
(*                                                                         *)
(* The mutex is held from the change of the map to the CALL of             *)
(* fs_store.write, so that part of a handler is one step; the file changes *)
(* later.  The offer and human-readable-name branches of sendpayment are   *)
(* the exception: they change, encode and write in three steps.            *)
(*                                                                         *)
(* Of a PaymentInfo the model keeps the status; a preimage is written      *)
(* exactly when the status becomes Succeeded.  "Absent" is no entry.       *)
(***************************************************************************)
EXTENDS KVStore, EventQueue, FiniteSets

CONSTANTS
  InvoiceIds,  \* BOLT 11 payments: the id is the invoice's payment hash
  KeysendIds,  \* spontaneous payments: the hash of a fresh random preimage
  OfferIds,    \* BOLT 12 offers: a fresh random id
  NameIds,     \* human-readable names: a fresh random id
  Resendable,  \* the invoices the user may ask to pay again
  None,        \* no payment
  MaxSends,    \* bound: payments the user asks for
  MaxCrashes   \* bound: deaths of the process

LockedIds  == InvoiceIds \cup KeysendIds     \* changed, encoded, written under the lock
UnlockedIds == OfferIds \cup NameIds
PaymentIds == LockedIds \cup UnlockedIds

ASSUME ConstantsAssumption ==
  /\ Resendable \subseteq InvoiceIds
  /\ LockedIds \cap UnlockedIds = {}
  /\ InvoiceIds \cap KeysendIds = {}
  /\ OfferIds \cap NameIds = {}
  /\ None \notin PaymentIds
  /\ MaxSends \in Nat
  /\ MaxCrashes \in Nat

Status  == {"Absent", "Pending", "Succeeded", "Failed"}
Ledgers == [PaymentIds -> Status]

VARIABLES
  payments,  \* the map in memory
  node,      \* "down", "starting" (before Step 20 of start_ldk) or "up"
  cli,       \* what poll_for_user_input is doing: its place in the code
  paying,    \* and the payment it is about
  snapshot,  \* what the offer branch encoded and has not yet given to write
  bg,        \* what handle_ldk_events is doing
  recent,    \* external: what the ChannelManager knows of each payment
  sends,     \* payments asked for, at most MaxSends
  crashes    \* at most MaxCrashes

memoryVars == <<payments, cli, paying, snapshot, bg, handled>>
ldkVars    == <<recent, events>>
boundVars  == <<sends, crashes>>
vars == <<stored, writes, payments, node, cli, paying, snapshot, bg,
          recent, events, handled, sends, crashes>>

NoPayments == [p \in PaymentIds |-> "Absent"]

(* What list_recent_payments returns.  "forgotten" is a paid payment whose *)
(* entry has timed out in LDK.                                             *)
Known(p) == recent[p] \in {"registered", "inflight", "fulfilled"}

Init ==
  /\ stored = NoPayments
  /\ writes = <<>>
  /\ payments = NoPayments
  /\ node = "down"
  /\ cli = "idle"
  /\ paying = None
  /\ snapshot = NoPayments
  /\ bg = "idle"
  /\ recent = [p \in PaymentIds |-> "none"]
  /\ events = <<>>
  /\ handled = 0
  /\ sends = 0
  /\ crashes = 0

-----------------------------------------------------------------------------
(* Step 19 and the CLI loop: main.                                         *)

(* Faulty variants: the loop forgets that a fulfilled payment is known to  *)
(* LDK; the loop is left out; the loop removes what LDK does not know.     *)
FailUnknownOrPaid(ledger) ==
  [p \in PaymentIds |->
     IF ledger[p] = "Pending" /\ recent[p] \notin {"registered", "inflight"}
     THEN "Failed" ELSE ledger[p]]
KeepUnknown(ledger) == ledger
DropUnknown(ledger) ==
  [p \in PaymentIds |->
     IF ledger[p] = "Pending" /\ ~Known(p) THEN "Absent" ELSE ledger[p]]

(* disk::read_outbound_payment_info, then every Pending entry LDK has no   *)
(* recent payment for becomes Failed, then the map is written.             *)
FailUnknown(ledger) ==
  [p \in PaymentIds |->
     IF ledger[p] = "Pending" /\ ~Known(p) THEN "Failed" ELSE ledger[p]]

Start ==
  /\ node = "down"
  /\ node' = "starting"
  /\ payments' = FailUnknown(stored)
  /\ IssueWrite("main", payments')
  /\ UNCHANGED <<cli, paying, snapshot, bg, handled>>
  /\ UNCHANGED <<ldkVars, boundVars>>

(* The write is awaited before the event handler and the CLI are started.  *)
StartDone ==
  /\ node = "starting"
  /\ node' = "up"
  /\ FinishWrite("main")
  /\ UNCHANGED <<memoryVars, ldkVars, boundVars>>

-----------------------------------------------------------------------------
(* sendpayment and keysend: the CLI.  One command at a time.               *)

InsertPending(p) == payments' = [payments EXCEPT ![p] = "Pending"]

(* A command begins.  Ids are fresh but for an invoice that is paid again. *)
BeginCommand(p, pc) ==
  /\ node = "up"
  /\ cli = "idle"
  /\ sends < MaxSends
  /\ payments[p] = "Absent" \/ p \in Resendable
  /\ cli' = pc
  /\ paying' = p
  /\ sends' = sends + 1
  /\ InsertPending(p)
  /\ UNCHANGED <<node, snapshot, bg, handled, crashes, ldkVars>>

(* Faulty variant: the lock is released before the map is encoded.         *)
SendPaymentUnlocked(p) ==
  /\ p \in InvoiceIds
  /\ BeginCommand(p, "inserted")
  /\ UNCHANGED storeVars

(* The lock is held until write has been called.                           *)
SendPayment(p) ==
  /\ p \in InvoiceIds
  /\ BeginCommand(p, "writing")
  /\ IssueWrite("cli", payments')

Keysend(p) ==
  /\ p \in KeysendIds
  /\ BeginCommand(p, "writing")
  /\ IssueWrite("cli", payments')

(* The lock is released after the insertion.                               *)
PayOffer(p) ==
  /\ p \in OfferIds
  /\ BeginCommand(p, "inserted")
  /\ UNCHANGED storeVars

PayName(p) ==
  /\ p \in NameIds
  /\ BeginCommand(p, "inserted")
  /\ UNCHANGED storeVars

(* outbound_payments.encode(): takes the lock again and releases it.       *)
EncodeOffer ==
  /\ node = "up"
  /\ cli = "inserted"
  /\ cli' = "encoded"
  /\ snapshot' = payments
  /\ UNCHANGED <<storeVars, payments, node, paying, bg, handled, ldkVars, boundVars>>

(* fs_store.write(..) with what was encoded.                               *)
WriteOffer ==
  /\ node = "up"
  /\ cli = "encoded"
  /\ cli' = "writing"
  /\ IssueWrite("cli", snapshot)
  /\ snapshot' = NoPayments
  /\ UNCHANGED <<payments, node, paying, bg, handled, ldkVars, boundVars>>

(* Faulty variant: the future of the write is not awaited before paying.   *)
PayWithoutAwait ==
  /\ node = "up"
  /\ cli = "writing"
  /\ cli' = "pay"
  /\ UNCHANGED <<storeVars, payments, node, paying, snapshot, bg, handled, ldkVars, boundVars>>

(* The future of the write is awaited before LDK is asked to pay.          *)
AwaitWrite ==
  /\ node = "up"
  /\ cli = "writing"
  /\ cli' = "pay"
  /\ FinishWrite("cli")
  /\ UNCHANGED <<payments, node, paying, snapshot, bg, handled, ldkVars, boundVars>>

(* Faulty variant: the command ends and keeps its payment.                 *)
CommandEndsKeepingIt ==
  /\ cli' = "idle"
  /\ UNCHANGED paying

(* The loop of poll_for_user_input goes on to the next line of input.      *)
CommandEnds ==
  /\ cli' = "idle"
  /\ paying' = None

(* pay_for_bolt11_invoice, send_spontaneous_payment, pay_for_offer: LDK    *)
(* refuses an id it still knows.                                           *)
PayOk ==
  /\ node = "up"
  /\ cli = "pay"
  /\ ~Known(paying)
  /\ recent' = [recent EXCEPT ![paying] = "registered"]
  /\ CommandEnds
  /\ UNCHANGED <<storeVars, payments, node, snapshot, bg, events, handled, boundVars>>

(* Faulty variant: no error marks the entry as failed.                     *)
PayErrIgnored ==
  /\ node = "up"
  /\ cli = "pay"
  /\ CommandEnds
  /\ UNCHANGED <<storeVars, payments, node, snapshot, bg, handled, ldkVars, boundVars>>

(* It may also fail for any other reason.  The branches for offers and     *)
(* names print the error and leave the entry as it is.                     *)
PayErr ==
  /\ node = "up"
  /\ cli = "pay"
  /\ IF paying \in LockedIds THEN cli' = "failing" /\ UNCHANGED paying
                             ELSE CommandEnds
  /\ UNCHANGED <<storeVars, payments, node, snapshot, bg, handled, ldkVars, boundVars>>

MarkFailed ==
  /\ node = "up"
  /\ cli = "failing"
  /\ cli' = "failwriting"
  /\ payments' = [payments EXCEPT ![paying] = "Failed"]
  /\ IssueWrite("cli", payments')
  /\ UNCHANGED <<node, paying, snapshot, bg, handled, ldkVars, boundVars>>

AwaitFailedWrite ==
  /\ node = "up"
  /\ cli = "failwriting"
  /\ CommandEnds
  /\ FinishWrite("cli")
  /\ UNCHANGED <<payments, node, snapshot, bg, handled, ldkVars, boundVars>>

-----------------------------------------------------------------------------
(* handle_ldk_events, called by the background processor with the oldest   *)
(* event it has not handled.                                               *)

Outcome(p, s) == [payments EXCEPT ![p] = IF @ = "Absent" THEN @ ELSE s]

HandleEvent(t, s) ==
  /\ node = "up"
  /\ bg = "idle"
  /\ IsNext(t)
  /\ payments' = Outcome(NextId, s)
  /\ IssueWrite("bg", payments')
  /\ bg' = "writing"
  /\ UNCHANGED <<node, cli, paying, snapshot, handled, ldkVars, boundVars>>

PaymentSent   == HandleEvent("Sent", "Succeeded")
PaymentFailed == HandleEvent("Failed", "Failed")

(* Faulty variant: the handler returns without awaiting its write.         *)
EventNotAwaited ==
  /\ node = "up"
  /\ bg = "writing"
  /\ bg' = "idle"
  /\ handled' = handled + 1
  /\ UNCHANGED <<storeVars, payments, node, cli, paying, snapshot, ldkVars, boundVars>>

(* write_future.await: only then does the handler return.                  *)
EventHandled ==
  /\ node = "up"
  /\ bg = "writing"
  /\ bg' = "idle"
  /\ handled' = handled + 1
  /\ FinishWrite("bg")
  /\ UNCHANGED <<payments, node, cli, paying, snapshot, ldkVars, boundVars>>

-----------------------------------------------------------------------------
(* External: LDK.  Channels run from Step 18 on, before the ledger is read. *)

Running == node \in {"starting", "up"}

(* An HTLC is committed: the monitor remembers the payment from here on.   *)
SendHtlc(p) ==
  /\ Running
  /\ recent[p] = "registered"
  /\ recent' = [recent EXCEPT ![p] = "inflight"]
  /\ UNCHANGED <<storeVars, memoryVars, node, events, boundVars>>

(* The preimage arrives.                                                   *)
Settle(p) ==
  /\ Running
  /\ recent[p] = "inflight"
  /\ recent' = [recent EXCEPT ![p] = "fulfilled"]
  /\ Emit("Sent", p)
  /\ UNCHANGED <<storeVars, memoryVars, node, boundVars>>

(* Every path failed, or the retries or the wait for an invoice timed out. *)
GiveUp(p) ==
  /\ Running
  /\ recent[p] \in {"registered", "inflight"}
  /\ recent' = [recent EXCEPT ![p] = "none"]
  /\ Emit("Failed", p)
  /\ UNCHANGED <<storeVars, memoryVars, node, boundVars>>

(* A fulfilled payment is dropped some ticks after its event is gone.      *)
Forget(p) ==
  /\ Running
  /\ recent[p] = "fulfilled"
  /\ ~Queued("Sent", p)
  /\ recent' = [recent EXCEPT ![p] = "forgotten"]
  /\ UNCHANGED <<storeVars, memoryVars, node, events, boundVars>>

(* The ChannelManager is persisted without the events that were handled.   *)
PersistManager ==
  /\ node = "up"
  /\ bg = "idle"
  /\ DropHandled
  /\ UNCHANGED <<storeVars, payments, node, cli, paying, snapshot, bg, recent, boundVars>>

-----------------------------------------------------------------------------
(* The process dies anywhere.  The ChannelManager on disk may be older     *)
(* than a payment without an HTLC.                                         *)
Crash ==
  /\ Running
  /\ crashes < MaxCrashes
  /\ crashes' = crashes + 1
  /\ node' = "down"
  /\ LoseWrites
  /\ payments' = NoPayments
  /\ cli' = "idle"
  /\ paying' = None
  /\ snapshot' = NoPayments
  /\ bg' = "idle"
  /\ handled' = 0
  /\ \E lost \in SUBSET {p \in PaymentIds : recent[p] = "registered"} :
       recent' = [p \in PaymentIds |-> IF p \in lost THEN "none" ELSE recent[p]]
  /\ UNCHANGED <<events, sends>>

CliStep == EncodeOffer \/ WriteOffer \/ AwaitWrite \/ PayOk \/ PayErr
             \/ MarkFailed \/ AwaitFailedWrite
BgStep  == PaymentSent \/ PaymentFailed \/ EventHandled

Next ==
  \/ Start
  \/ StartDone
  \/ \E p \in PaymentIds : SendPayment(p) \/ Keysend(p) \/ PayOffer(p) \/ PayName(p)
  \/ CliStep
  \/ BgStep
  \/ \E p \in PaymentIds : SendHtlc(p) \/ Settle(p) \/ GiveUp(p) \/ Forget(p)
  \/ PersistManager
  \/ Crash

Spec == Init /\ [][Next]_vars

-----------------------------------------------------------------------------
(* The node is started again, its tasks are scheduled by the runtime, and  *)
(* LDK resolves every payment it knows (HTLCs and invoice requests expire). *)
Fairness ==
  /\ WF_vars(Start)
  /\ WF_vars(StartDone)
  /\ WF_vars(CliStep)
  /\ WF_vars(BgStep)
  /\ \A p \in PaymentIds : WF_vars(Settle(p) \/ GiveUp(p))

FairSpec == Spec /\ Fairness
-----------------------------------------------------------------------------
(* Properties.                                                             *)

(* Every variable holds a value the program can put there; never are more  *)
(* events handled than were queued.                                        *)
TypeOK ==
  /\ stored \in Ledgers
  /\ writes \in Seq([by : {"cli", "bg", "main"}, val : Ledgers])
  /\ payments \in Ledgers
  /\ node \in {"down", "starting", "up"}
  /\ cli \in {"idle", "inserted", "encoded", "writing", "pay", "failing", "failwriting"}
  /\ paying \in PaymentIds \cup {None}
  /\ (paying = None) <=> (cli = "idle")
  /\ snapshot \in Ledgers
  /\ bg \in {"idle", "writing"}
  /\ recent \in [PaymentIds -> {"none", "registered", "inflight", "fulfilled", "forgotten"}]
  /\ events \in Seq([type : {"Sent", "Failed"}, id : PaymentIds])
  /\ handled \in 0..Len(events)
  /\ bg = "writing" => handled < Len(events)
  /\ sends \in Nat
  /\ crashes \in Nat

Fresh == PaymentIds \ Resendable

(* Write-ahead: LDK never works on a payment, nor has an event to report   *)
(* about one, that a restart would not find in the file (cli.rs:847-862,   *)
(* 899-913, 209-228, 275-296: insert, write, await, and only then pay).    *)
WriteAhead ==
  \A p \in PaymentIds :
    recent[p] # "none" \/ Queued("Sent", p) \/ Queued("Failed", p)
      => stored[p] # "Absent"

(* The file never loses an entry: not to an offer that was encoded before  *)
(* another task wrote (cli.rs:218-220), not to writes that overtake one    *)
(* another, nor to the restart that rewrites the file (main.rs:995-1009).  *)
EntriesStay ==
  [][\A p \in PaymentIds : stored[p] # "Absent" => stored'[p] # "Absent"]_vars

(* Once the PaymentSent of a payment has been handled, and LDK may forget   *)
(* it, the file says so, whatever the CLI writes meanwhile (main.rs:345-369). *)
SentIsDurable ==
  \A p \in Fresh :
    recent[p] \in {"fulfilled", "forgotten"} /\ ~Unhandled("Sent", p)
      => stored[p] = "Succeeded"

(* A payment shown or stored as failed is dead: LDK is not trying it and   *)
(* nobody was paid.  The restart loop (main.rs:995-1005) relies on the     *)
(* events that were handled before the crash being in the file.            *)
FailedIsDead ==
  \A p \in Fresh :
    payments[p] = "Failed" \/ stored[p] = "Failed" => recent[p] = "none"

(* Every pending entry has somebody who will resolve it: LDK, an event not *)
(* yet handled, or the CLI that inserted it.                               *)
PendingIsTracked ==
  node = "up" =>
    \A p \in LockedIds \cap Fresh :
      payments[p] = "Pending" =>
        Known(p) \/ Unhandled("Sent", p) \/ Unhandled("Failed", p) \/ paying = p

(* With no write under way the file holds the map: no change of the map is *)
(* lost to a write that was encoded before it.                             *)
FileCatchesUp ==
  node = "up" /\ writes = <<>> => stored = payments

(* The file is a PaymentLedger of the payments whose changes are encoded   *)
(* under the lock: each is recorded before it is tried, closed once and    *)
(* with its true outcome, and never tried again after that, not even       *)
(* across restarts and replayed events (cli.rs:847-885, main.rs:338-442).  *)
Recorded == LockedIds \cap Fresh

Ledger == INSTANCE PaymentLedger WITH
  Payments <- Recorded,
  Ahead    <- Recorded,
  record   <- [p \in Recorded |-> stored[p]],
  fate     <- [p \in Recorded |->
                 CASE recent[p] \in {"registered", "inflight"}   -> "trying"
                   [] recent[p] \in {"fulfilled", "forgotten"} -> "paid"
                   [] OTHER -> "none"]

ImplementsLedger == Ledger!Spec

(* No payment of sendpayment <invoice> or keysend is listed as pending     *)
(* for ever.                                                               *)
PaymentsResolve ==
  \A p \in LockedIds \cap Fresh : stored[p] = "Pending" ~> stored[p] # "Pending"
=============================================================================
