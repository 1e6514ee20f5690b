----------------------------- MODULE MCChannels -----------------------------
(***************************************************************************)
(* A peer that has moved: the first address it announced is not good.      *)
(***************************************************************************)
EXTENDS Channels

CONSTANT alice

MCAnnounced == [p \in Peers |-> <<"bad", "good">>]
=============================================================================
