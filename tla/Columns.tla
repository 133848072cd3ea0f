------------------------------ MODULE Columns ------------------------------
(***************************************************************************)
(* The pandas columns the indicators are made of, as far as time goes.  A  *)
(* column is a function from the labels of its rows to the instant at      *)
(* which the newest bar its value was computed from had closed; NaN is 0   *)
(* and every instant is later.  What the value is does not matter here:    *)
(* only when it could first have been known.                               *)
(***************************************************************************)
EXTENDS Integers, FiniteSets, FiniteSetsExt

CONSTANT DayLen        \* labels per calendar day

DayOf(t) == t \div DayLen

NaN == 0

\* A value computed from several: NaN as soon as one is (arithmetic), or from
\* those there are (a comparison, max(axis=1), ewm, fillna).
AllOf(S) == IF S = {} \/ NaN \in S THEN NaN ELSE Max(S)
AnyOf(S) == Max(S \cup {NaN})

\* The rows of a frame up to t, the last n of them, and a row's position.
Upto(c, t) == {r \in DOMAIN c : r <= t}
LastRows(c, t, n) ==
  {r \in Upto(c, t) : Cardinality({q \in Upto(c, t) : q > r}) < n}
Pos(c, t) == Cardinality(Upto(c, t))
RowAt(c, n) == CHOOSE t \in DOMAIN c : Pos(c, t) = n

\* reindex: no row, no value.
At(c, t) == IF t \in DOMAIN c THEN c[t] ELSE NaN
Reindex(c, index) == [t \in index |-> At(c, t)]
AbsentOn(index) == [t \in index |-> NaN]

\* Two frames of the same rows as one: the columns of both.
Beside(f, g) ==
  [col \in DOMAIN f \cup DOMAIN g |-> IF col \in DOMAIN f THEN f[col] ELSE g[col]]

\* Row by row, on the rows of c.
Arith(c, others) == [t \in DOMAIN c |-> AllOf({c[t]} \cup {At(d, t) : d \in others})]
Flag(c, others) == [t \in DOMAIN c |-> AnyOf({c[t]} \cup {At(d, t) : d \in others})]
Where(c, condition) == [t \in DOMAIN c |-> IF condition[t] = NaN THEN NaN ELSE c[t]]

\* shift(n), rolling(n) with min_periods = n, and with min_periods = 1.
Shift(c, n) ==
  [t \in DOMAIN c |-> IF Pos(c, t) <= n THEN NaN ELSE c[RowAt(c, Pos(c, t) - n)]]
Rolling(c, n) ==
  [t \in DOMAIN c |-> IF Pos(c, t) < n THEN NaN
                      ELSE AllOf({c[r] : r \in LastRows(c, t, n)})]
RollingAny(c, n) == [t \in DOMAIN c |-> AnyOf({c[r] : r \in LastRows(c, t, n)})]
Change(c, n) == Arith(c, {Shift(c, n)})

\* A recursion over every row so far: ewm(adjust=False), a streak, a filter.
Recursive(c) == [t \in DOMAIN c |-> AnyOf({c[r] : r \in Upto(c, t)})]
\* groupby(day).cumsum/cummax, and transform("first").
SessionSoFar(c) ==
  [t \in DOMAIN c |-> AnyOf({c[r] : r \in {q \in Upto(c, t) : DayOf(q) = DayOf(t)}})]
SessionFirst(c) ==
  [t \in DOMAIN c |-> c[Min({q \in DOMAIN c : DayOf(q) = DayOf(t)})]]

\* resample_ohlcv: buckets labelled by their right edge, closed on one side;
\* one without a source bar is dropped.
Edge(r, len, closed) ==
  IF closed = "right" /\ r % len = 0 THEN r ELSE (r \div len + 1) * len
Resample(c, len, closed) ==
  [b \in {Edge(r, len, closed) : r \in DOMAIN c} |->
     AnyOf({c[r] : r \in {q \in DOMAIN c : Edge(q, len, closed) = b}})]

\* _close_label: open-labelled minutes, relabelled by the end of the minute.  (In
\* the variant they keep their own labels.)
OpenLabel(c) == c
CloseLabel(c) == [t \in {r + 1 : r \in DOMAIN c} |-> c[t - 1]]

\* align_causal: each target row sees the newest value at or before it, and so an
\* older one where the newest row is NaN.
AlignCausal(c, index) ==
  [t \in index |-> LET known == {r \in Upto(c, t) : c[r] # NaN}
                   IN  IF known = {} THEN NaN ELSE c[Max(known)]]

\* align_daily_to_intraday: shifted by one session first.
AlignDaily(c, index) == AlignCausal(Shift(c, 1), index)
=============================================================================
