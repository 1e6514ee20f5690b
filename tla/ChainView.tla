------------------------------- MODULE ChainView -------------------------------
(***************************************************************************)
(* What a node that is started and stopped promises about the chain, and   *)
(* no more: it comes up at a block that is not behind anything it stored,  *)
(* watches every channel it stored, goes forward with the chain, and       *)
(* stores nothing but the block where it is.  Startup implements it, with  *)
(* the order of start_ldk, its files and its crashes.                      *)
(***************************************************************************)
EXTENDS Naturals

CONSTANTS
  Listeners,  \* what follows the chain
  Monitors    \* those of them that belong to a channel

VARIABLES
  chain,    \* the best block there is
  at,       \* the block of the running node, 0 while it does not run
  saved,    \* the block each listener was stored at, 0 if it never was
  watched   \* the channels the running node watches

chainVars == <<chain, at, saved, watched>>

Init ==
  /\ chain = 1
  /\ at = 0
  /\ saved = [l \in Listeners |-> 0]
  /\ watched = {}

Grow ==
  /\ chain' = chain + 1
  /\ UNCHANGED <<at, saved, watched>>

ComeUp ==
  /\ at = 0
  /\ at' \in 1..chain
  /\ \A l \in Listeners : saved[l] <= at'
  /\ watched' = {m \in Monitors : saved[m] # 0}
  /\ UNCHANGED <<chain, saved>>

Follow ==
  /\ at # 0
  /\ at' = chain
  /\ UNCHANGED <<chain, saved, watched>>

Save(l) ==
  /\ at # 0
  /\ l \in Monitors => l \in watched
  /\ saved' = [saved EXCEPT ![l] = at]
  /\ UNCHANGED <<chain, at, watched>>

OpenChannel(m) ==
  /\ at # 0
  /\ saved[m] = 0
  /\ saved' = [saved EXCEPT ![m] = at]
  /\ watched' = watched \cup {m}
  /\ UNCHANGED <<chain, at>>

Down ==
  /\ at' = 0
  /\ watched' = {}
  /\ UNCHANGED <<chain, saved>>

Next ==
  \/ Grow \/ ComeUp \/ Follow \/ Down
  \/ \E l \in Listeners : Save(l)
  \/ \E m \in Monitors : OpenChannel(m)

Spec == Init /\ [][Next]_chainVars
=============================================================================
