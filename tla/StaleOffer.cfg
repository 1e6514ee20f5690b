\* an offer is encoded before an event and written after it
SPECIFICATION Spec
CONSTANTS
  InvoiceIds = {i1}
  KeysendIds = {}
  OfferIds = {o1}
  NameIds = {}
  Resendable = {}
  None = None
  MaxSends = 2
  MaxCrashes = 0
INVARIANTS
  SentIsDurable
CHECK_DEADLOCK FALSE
