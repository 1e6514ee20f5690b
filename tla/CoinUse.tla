-------------------------------- MODULE CoinUse --------------------------------
(***************************************************************************)
(* What becomes of the coins of a wallet that funds channels, and no more: *)
(* a channel gets one funding transaction, for good; the commitment that   *)
(* gives the money back is signed for that transaction; only then may it   *)
(* spend its coin, and a coin is spent once, by one channel or by others.  *)
(* Channels implements it, with its events, peers and closings.            *)
(***************************************************************************)
CONSTANTS Channels, Coins, None, Other

VARIABLES
  tx,       \* the coin that the funding transaction of a channel spends
  signed,   \* the channels whose commitment is signed
  spender   \* the channel that has spent a coin, or Other

coinVars == <<tx, signed, spender>>

Init ==
  /\ tx = [i \in Channels |-> None]
  /\ signed = {}
  /\ spender = [c \in Coins |-> None]

Make(i, c) ==
  /\ tx[i] = None
  /\ tx' = [tx EXCEPT ![i] = c]
  /\ UNCHANGED <<signed, spender>>

Sign(i) ==
  /\ tx[i] # None
  /\ i \notin signed
  /\ signed' = signed \cup {i}
  /\ UNCHANGED <<tx, spender>>

Spend(c, who) ==
  /\ spender[c] = None
  /\ who = Other \/ (who \in signed /\ tx[who] = c)
  /\ spender' = [spender EXCEPT ![c] = who]
  /\ UNCHANGED <<tx, signed>>

Next ==
  \/ \E i \in Channels : Sign(i) \/ \E c \in Coins : Make(i, c)
  \/ \E c \in Coins, who \in Channels \cup {Other} : Spend(c, who)

Spec == Init /\ [][Next]_coinVars
=============================================================================
