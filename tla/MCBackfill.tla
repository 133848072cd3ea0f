----------------------------- MODULE MCBackfill -----------------------------
(***************************************************************************)
(* Periods of three days and one, two instants a day, seen from the last   *)
(* day of the first period on: one symbol has bars missing, the other is   *)
(* listed on that day.                                                     *)
(***************************************************************************)
EXTENDS Backfill, TLC

MCTraded == (1 :> {0, 3, 5, 6, 7} @@ 2 :> {5, 6, 7})
MCStarts == (0 :> 0 @@ 1 :> 6 @@ 2 :> 8)
=============================================================================
