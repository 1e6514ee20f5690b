--------------------------- MODULE InboundPayments ---------------------------
(***************************************************************************)
(* The ledger of inbound payments: the map behind                          *)
(* Arc<Mutex<InboundPaymentInfoStorage>>, its file inbound_payments, and   *)
(* the tasks that change them:                                             *)
(*                                                                         *)
(*   "cli"  getinvoice (cli.rs): the invoice is created, and printed, while *)
(*          the map is locked; its entry is inserted after that;           *)
(*   "bg"   handle_ldk_events: PaymentClaimable asks LDK to claim, and     *)
(*          PaymentClaimed records what was claimed (main.rs).             *)
(*                                                                         *)
(* A payer may use an invoice as soon as it is printed.  Payments without  *)
(* an invoice of getinvoice (keysends, offers) have no entry until they    *)
(* are claimed.  LDK and the payers are external.                          *)
(*                                                                         *)
(* Of a PaymentInfo the model keeps the status: a claimed payment's        *)
(* preimage is written with the status.  "Absent" is no entry.             *)
(***************************************************************************)
EXTENDS KVStore, EventQueue, FiniteSets

CONSTANTS
  InvoiceHashes,      \* payment hashes of the invoices of getinvoice
  SpontaneousHashes,  \* payment hashes of keysends and of the node's offers
  None,               \* no invoice
  MaxCrashes          \* bound: deaths of the process

Hashes == InvoiceHashes \cup SpontaneousHashes

ASSUME ConstantsAssumption ==
  /\ InvoiceHashes \cap SpontaneousHashes = {}
  /\ None \notin Hashes
  /\ MaxCrashes \in Nat

Status  == {"Absent", "Pending", "Succeeded"}
Ledgers == [Hashes -> Status]

VARIABLES
  payments,   \* the map in memory
  node,       \* "down" or "up"
  cli,        \* what getinvoice is doing
  invoice,    \* and the invoice it is about
  bg,         \* what handle_ldk_events is doing
  published,  \* the invoices printed so far
  htlc,       \* external: the payment of each hash, as LDK sees it
  crashes     \* at most MaxCrashes

vars == <<stored, writes, events, handled, payments, node, cli, invoice, bg,
          published, htlc, crashes>>

NoPayments == [h \in Hashes |-> "Absent"]

(* Faulty variant: the map is locked only for the insertion.               *)
MapIsUnlocked == TRUE

(* getinvoice keeps the map locked while it creates the invoice.           *)
MapIsFree == cli # "creating"

Init ==
  /\ stored = NoPayments
  /\ writes = <<>>
  /\ events = <<>>
  /\ handled = 0
  /\ payments = NoPayments
  /\ node = "down"
  /\ cli = "idle"
  /\ invoice = None
  /\ bg = "idle"
  /\ published = {}
  /\ htlc = [h \in Hashes |-> "none"]
  /\ crashes = 0

-----------------------------------------------------------------------------
(* disk::read_inbound_payment_info; unlike the outbound file, this one is  *)
(* not written back.                                                       *)
Start ==
  /\ node = "down"
  /\ node' = "up"
  /\ payments' = stored
  /\ UNCHANGED <<storeVars, queueVars, cli, invoice, bg, published, htlc, crashes>>

-----------------------------------------------------------------------------
(* getinvoice: the CLI.                                                    *)

(* create_bolt11_invoice makes a fresh hash and the invoice is printed.    *)
CreateInvoice(h) ==
  /\ node = "up"
  /\ cli = "idle"
  /\ h \in InvoiceHashes \ published
  /\ cli' = "creating"
  /\ invoice' = h
  /\ published' = published \cup {h}
  /\ UNCHANGED <<storeVars, queueVars, payments, node, bg, htlc, crashes>>

(* It may fail: the map is written all the same.                           *)
CreateFails ==
  /\ node = "up"
  /\ cli = "idle"
  /\ cli' = "writing"
  /\ IssueWrite("cli", payments)
  /\ UNCHANGED <<queueVars, payments, node, invoice, bg, published, htlc, crashes>>

(* The entry is inserted, write is called and the lock released.           *)
InsertInvoice ==
  /\ node = "up"
  /\ cli = "creating"
  /\ cli' = "writing"
  /\ payments' = [payments EXCEPT ![invoice] = "Pending"]
  /\ IssueWrite("cli", payments')
  /\ UNCHANGED <<queueVars, node, invoice, bg, published, htlc, crashes>>

(* Faulty variant: the command ends without letting go of its invoice.     *)
AwaitKeepingInvoice ==
  /\ node = "up"
  /\ cli = "writing"
  /\ cli' = "idle"
  /\ FinishWrite("cli")
  /\ UNCHANGED <<queueVars, payments, node, invoice, bg, published, htlc, crashes>>

AwaitInvoice ==
  /\ node = "up"
  /\ cli = "writing"
  /\ cli' = "idle"
  /\ invoice' = None
  /\ FinishWrite("cli")
  /\ UNCHANGED <<queueVars, payments, node, bg, published, htlc, crashes>>

-----------------------------------------------------------------------------
(* handle_ldk_events.                                                      *)

Handles(t) == node = "up" /\ bg = "idle" /\ IsNext(t)

(* Faulty variant: the payment is recorded before it is claimed.           *)
RecordClaimable ==
  /\ Handles("Claimable")
  /\ htlc' = [htlc EXCEPT ![NextId] = IF @ = "held" THEN "claiming" ELSE @]
  /\ payments' = [payments EXCEPT ![NextId] = "Succeeded"]
  /\ handled' = handled + 1
  /\ UNCHANGED <<storeVars, events, node, cli, invoice, bg, published, crashes>>

(* Faulty variant: a payment of an invoice the map does not have yet is    *)
(* left alone.                                                             *)
ClaimableIfKnown ==
  /\ Handles("Claimable")
  /\ htlc' = [htlc EXCEPT ![NextId] =
                IF @ = "held" /\ (NextId \in InvoiceHashes => payments[NextId] # "Absent")
                THEN "claiming" ELSE @]
  /\ handled' = handled + 1
  /\ UNCHANGED <<storeVars, events, payments, node, cli, invoice, bg, published, crashes>>

(* claim_funds: the claim is under way, unless the HTLC is gone.           *)
PaymentClaimable ==
  /\ Handles("Claimable")
  /\ htlc' = [htlc EXCEPT ![NextId] = IF @ = "held" THEN "claiming" ELSE @]
  /\ handled' = handled + 1
  /\ UNCHANGED <<storeVars, events, payments, node, cli, invoice, bg, published, crashes>>

(* Faulty variant: only a payment with an entry is recorded.               *)
ClaimKnown(h) ==
  payments' = [payments EXCEPT ![h] = IF @ = "Absent" THEN @ ELSE "Succeeded"]

(* Entry::Occupied and Entry::Vacant.                                      *)
RecordClaim(h) == payments' = [payments EXCEPT ![h] = "Succeeded"]

PaymentClaimed ==
  /\ Handles("Claimed")
  /\ MapIsFree
  /\ RecordClaim(NextId)
  /\ IssueWrite("bg", payments')
  /\ bg' = "writing"
  /\ UNCHANGED <<queueVars, node, cli, invoice, published, htlc, crashes>>

(* Faulty variant: the handler returns without awaiting its write.         *)
ClaimNotAwaited ==
  /\ node = "up"
  /\ bg = "writing"
  /\ bg' = "idle"
  /\ handled' = handled + 1
  /\ UNCHANGED <<storeVars, events, payments, node, cli, invoice, published, htlc, crashes>>

(* write_future.await: only then does the handler return.                  *)
ClaimHandled ==
  /\ node = "up"
  /\ bg = "writing"
  /\ bg' = "idle"
  /\ handled' = handled + 1
  /\ FinishWrite("bg")
  /\ UNCHANGED <<events, payments, node, cli, invoice, published, htlc, crashes>>

-----------------------------------------------------------------------------
(* External: payers and LDK.                                               *)

Pay(h) ==
  /\ node = "up"
  /\ h \in published \cup SpontaneousHashes
  /\ htlc[h] = "none"
  /\ htlc' = [htlc EXCEPT ![h] = "held"]
  /\ Emit("Claimable", h)
  /\ UNCHANGED <<storeVars, handled, payments, node, cli, invoice, bg, published, crashes>>

(* Too late to claim: the HTLC is failed back.                             *)
Expire(h) ==
  /\ node = "up"
  /\ htlc[h] = "held"
  /\ htlc' = [htlc EXCEPT ![h] = "expired"]
  /\ UNCHANGED <<storeVars, queueVars, payments, node, cli, invoice, bg, published, crashes>>

(* The preimage is in the monitors.                                        *)
ClaimDone(h) ==
  /\ node = "up"
  /\ htlc[h] = "claiming"
  /\ htlc' = [htlc EXCEPT ![h] = "claimed"]
  /\ Emit("Claimed", h)
  /\ UNCHANGED <<storeVars, handled, payments, node, cli, invoice, bg, published, crashes>>

PersistManager ==
  /\ node = "up"
  /\ bg = "idle"
  /\ DropHandled
  /\ UNCHANGED <<storeVars, payments, node, cli, invoice, bg, published, htlc, crashes>>

(* The process dies anywhere.  A claim under way may be lost as long as    *)
(* its PaymentClaimable is to be replayed.                                 *)
Crash ==
  /\ node = "up"
  /\ crashes < MaxCrashes
  /\ crashes' = crashes + 1
  /\ node' = "down"
  /\ LoseWrites
  /\ payments' = NoPayments
  /\ cli' = "idle"
  /\ invoice' = None
  /\ bg' = "idle"
  /\ handled' = 0
  /\ \E lost \in SUBSET {h \in Hashes : htlc[h] = "claiming" /\ Queued("Claimable", h)} :
       htlc' = [h \in Hashes |-> IF h \in lost THEN "held" ELSE htlc[h]]
  /\ UNCHANGED <<events, published>>

CliStep == InsertInvoice \/ AwaitInvoice
BgStep  == PaymentClaimable \/ PaymentClaimed \/ ClaimHandled

Next ==
  \/ Start
  \/ \E h \in Hashes : CreateInvoice(h)
  \/ CreateFails
  \/ CliStep
  \/ BgStep
  \/ \E h \in Hashes : Pay(h) \/ Expire(h) \/ ClaimDone(h)
  \/ PersistManager
  \/ Crash

Spec == Init /\ [][Next]_vars

(* The node is started again, its tasks are scheduled by the runtime, and  *)
(* LDK finishes the claims it has begun.                                   *)
Fairness ==
  /\ WF_vars(Start)
  /\ WF_vars(CliStep)
  /\ WF_vars(BgStep)
  /\ \A h \in Hashes : WF_vars(ClaimDone(h))

FairSpec == Spec /\ Fairness

-----------------------------------------------------------------------------
(* Properties.                                                             *)

(* Every variable holds a value the program can put there.                 *)
TypeOK ==
  /\ stored \in Ledgers
  /\ writes \in Seq([by : {"cli", "bg"}, val : Ledgers])
  /\ events \in Seq([type : {"Claimable", "Claimed"}, id : Hashes])
  /\ handled \in 0..Len(events)
  /\ payments \in Ledgers
  /\ node \in {"down", "up"}
  /\ cli \in {"idle", "creating", "writing"}
  /\ invoice \in InvoiceHashes \cup {None}
  /\ cli = "creating" => invoice # None
  /\ cli = "idle" => invoice = None
  /\ bg \in {"idle", "writing"}
  /\ bg = "writing" => handled < Len(events)
  /\ published \subseteq InvoiceHashes
  /\ htlc \in [Hashes -> {"none", "held", "claiming", "claimed", "expired"}]
  /\ crashes \in Nat

(* Money that was claimed, and whose PaymentClaimed LDK need not repeat,   *)
(* is recorded in the file, with or without an invoice (main.rs:316-336).  *)
ClaimIsDurable ==
  \A h \in Hashes :
    htlc[h] = "claimed" /\ ~Unhandled("Claimed", h) => stored[h] = "Succeeded"

(* Money held for the node always has a PaymentClaimable before it, even   *)
(* when a crash undoes the claim (main.rs:274-292: claim_funds is called   *)
(* before the handler returns, and the replay calls it again).             *)
HeldIsTracked ==
  \A h \in Hashes : htlc[h] = "held" => Unhandled("Claimable", h)

(* The file is a PaymentLedger: a payment is recorded as received once it  *)
(* was received, whatever was recorded of it before, and never before that *)
(* (main.rs:274-337, cli.rs:411-422).                                      *)
Ledger == INSTANCE PaymentLedger WITH
  Payments <- Hashes,
  Ahead    <- {},
  record   <- stored,
  fate     <- [h \in Hashes |->
                 CASE htlc[h] \in {"held", "claiming"} -> "trying"
                   [] htlc[h] = "claimed" -> "paid"
                   [] OTHER -> "none"]

ImplementsLedger == Ledger!Spec

(* An invoice that is paid the moment it is printed is not put back to     *)
(* pending by the insertion of its entry: the lock is held from before the *)
(* creation (cli.rs:411-420).                                              *)
ReceivedIsFinal ==
  [][\A h \in Hashes :
       payments[h] = "Succeeded" /\ node' = "up" => payments'[h] = "Succeeded"]_vars

(* Money held for the node is claimed and recorded, or the HTLC expires.   *)
HeldIsRecorded ==
  \A h \in Hashes :
    htlc[h] = "held" ~> (htlc[h] = "expired" \/ stored[h] = "Succeeded")
=============================================================================
