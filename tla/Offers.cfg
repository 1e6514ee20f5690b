\* offers and names beside an invoice: the file may lag, but never behind LDK
SPECIFICATION Spec
CONSTANTS
  InvoiceIds = {i1}
  KeysendIds = {}
  OfferIds = {o1, o2}
  NameIds = {n1}
  Resendable = {i1}
  None = None
  MaxSends = 3
  MaxCrashes = 1
SYMMETRY Symmetry
INVARIANTS
  TypeOK
  WriteAhead
PROPERTIES
  EntriesStay
CHECK_DEADLOCK FALSE
