------------------------------ MODULE BiasWalk ------------------------------
(***************************************************************************)
(* What the bias engine promises the trade engine about successive bars:   *)
(* the family moves only to itself, into NEUTRAL, or out of NEUTRAL.       *)
(* BiasBuckets implements it; OrderBook and Watchlist read their bias from *)
(* it.                                                                     *)
(***************************************************************************)
EXTENDS BiasFamily

VARIABLE family

Init == family = "NEUTRAL"
Next == family' \in Successors(family)
Spec == Init /\ [][Next]_family
=============================================================================
