\* two invoices and a keysend, with a crash
SPECIFICATION FairSpec
CONSTANTS
  InvoiceHashes = {h1, h2}
  SpontaneousHashes = {k1}
  None = None
  MaxCrashes = 1
INVARIANTS
  TypeOK
  ClaimIsDurable
  HeldIsTracked
PROPERTIES
  ImplementsLedger
  ReceivedIsFinal
  HeldIsRecorded
CHECK_DEADLOCK FALSE
