--------------------------- MODULE MCFeeEstimates ---------------------------
(***************************************************************************)
(* A mempool that is empty, with no estimates yet, one where they are at   *)
(* the border of the floor, before and after rounding (1009 sat/kvB is 252 *)
(* sat/kW, 1010 is 253), and one that is full.                             *)
(***************************************************************************)
EXTENDS FeeEstimates

Empty  == <<1000, NoAnswer, NoAnswer, NoAnswer, NoAnswer>>
Quiet  == <<1000, 1009, 1010, 1010, 8000>>
Full   == <<1010, 6000, 8000, 8000, 240000>>

MCMarkets == {Empty, Quiet, Full}
=============================================================================
