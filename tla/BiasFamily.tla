----------------------------- MODULE BiasFamily -----------------------------
(***************************************************************************)
(* The three families the trade engine tells apart among the five bias     *)
(* buckets of src/rs_spy/bias/buckets.py, and what may follow what.        *)
(***************************************************************************)
Families == {"BULL", "NEUTRAL", "BEAR"}

\* A side is left only through NEUTRAL.
Successors(b) == IF b = "NEUTRAL" THEN Families ELSE {b, "NEUTRAL"}

\* What _flip_flatten (src/rs_spy/bias/engine.py) asks of two adjacent bars:
\* one side on the last bar, the opposite side on this one.
Opposite(b, c) == {b, c} = {"BULL", "BEAR"}
=============================================================================
