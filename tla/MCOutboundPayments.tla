------------------------- MODULE MCOutboundPayments -------------------------
(***************************************************************************)
(* Small instances of OutboundPayments.                                    *)
(***************************************************************************)
EXTENDS OutboundPayments, TLC

(* Offers differ in nothing but their random id.                           *)
Symmetry == Permutations(OfferIds)
=============================================================================
