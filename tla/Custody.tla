-------------------------------- MODULE Custody --------------------------------
(***************************************************************************)
(* What handing things over promises, and no more: the new owner takes all *)
(* of them at once, and only then does the old one let its copies go,      *)
(* which never come back.  SweepMigration implements it, with its three    *)
(* directories, its files and its crashes.                                 *)
(***************************************************************************)
CONSTANT Things

VARIABLES
  held,   \* what the old owner has a copy of
  taken   \* what the new owner has

custodyVars == <<held, taken>>

(* Nothing is handed over yet, or nothing is left to be.                   *)
Init ==
  \/ held = Things /\ taken = {}
  \/ held = {} /\ taken = Things

Take ==
  /\ held = Things
  /\ taken' = Things
  /\ UNCHANGED held

LetGo ==
  /\ taken = Things
  /\ held' \in SUBSET held
  /\ UNCHANGED taken

Next == Take \/ LetGo

Spec == Init /\ [][Next]_custodyVars
=============================================================================
