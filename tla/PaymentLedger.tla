----------------------------- MODULE PaymentLedger -----------------------------
(***************************************************************************)
(* What a ledger file promises, and no more: a record for each payment     *)
(* that follows what really becomes of it.  OutboundPayments and           *)
(* InboundPayments implement it, with their maps, locks, writes, events    *)
(* and crashes.                                                            *)
(***************************************************************************)
CONSTANTS
  Payments,  \* the payments recorded
  Ahead      \* those that are recorded before they are tried

VARIABLES
  record,  \* what the file says of each payment
  fate     \* "none" (not tried, or given up), "trying" or "paid"

ledgerVars == <<record, fate>>

Init ==
  /\ record = [p \in Payments |-> "Absent"]
  /\ fate = [p \in Payments |-> "none"]

(* A payment of the ledger's owner is tried while it is recorded as        *)
(* pending: not before, and never again once it was recorded as failed.    *)
Tried(p)   == fate[p] = "none" /\ fate'[p] = "trying" /\ (p \in Ahead => record[p] = "Pending")
Paid(p)    == fate[p] = "trying" /\ fate'[p] = "paid"
GivenUp(p) == fate[p] = "trying" /\ fate'[p] = "none"

(* What becomes of some of the payments.                                   *)
Happen ==
  /\ fate' \in [Payments -> {"none", "trying", "paid"}]
  /\ \A p \in Payments : fate'[p] = fate[p] \/ Tried(p) \/ Paid(p) \/ GivenUp(p)
  /\ UNCHANGED record

(* A record is opened once, and closed once, with the truth.               *)
Opened(p) == record[p] = "Absent" /\ record'[p] = "Pending"
Received(p) ==
  /\ record[p] = "Pending" \/ (record[p] = "Absent" /\ p \notin Ahead)
  /\ record'[p] = "Succeeded"
  /\ fate[p] = "paid"
Failed(p) ==
  /\ record[p] = "Pending"
  /\ record'[p] = "Failed"
  /\ fate[p] = "none"
  /\ p \in Ahead

(* The file is replaced: any number of records may change with it.         *)
Write ==
  /\ record' \in [Payments -> {"Absent", "Pending", "Succeeded", "Failed"}]
  /\ \A p \in Payments :
       record'[p] = record[p] \/ Opened(p) \/ Received(p) \/ Failed(p)
  /\ UNCHANGED fate

Next == Happen \/ Write

Spec == Init /\ [][Next]_ledgerVars

-----------------------------------------------------------------------------
(* What a reader of the file may conclude: a payment recorded as received  *)
(* was paid, one recorded as failed is dead, and one of the owner's that   *)
(* was ever tried is on record.                                            *)
Truth ==
  \A p \in Payments :
    /\ record[p] = "Succeeded" => fate[p] = "paid"
    /\ record[p] = "Failed" => p \in Ahead /\ fate[p] = "none"
    /\ p \in Ahead /\ fate[p] # "none" => record[p] # "Absent"

(* A record that was closed is never changed.                              *)
ClosedStays ==
  \A p \in Payments :
    record[p] \in {"Succeeded", "Failed"} => record'[p] = record[p]

Finality == [][ClosedStays]_ledgerVars
=============================================================================
