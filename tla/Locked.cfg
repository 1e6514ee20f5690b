\* sendpayment <invoice> and keysend: every change is encoded under the lock
SPECIFICATION FairSpec
CONSTANTS
  InvoiceIds = {i1, i2}
  KeysendIds = {k1}
  OfferIds = {}
  NameIds = {}
  Resendable = {i2}
  None = None
  MaxSends = 3
  MaxCrashes = 2
INVARIANTS
  SentIsDurable
  FailedIsDead
  PendingIsTracked
  FileCatchesUp
PROPERTIES
  ImplementsLedger
  PaymentsResolve
CHECK_DEADLOCK FALSE
