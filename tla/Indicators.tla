----------------------------- MODULE Indicators -----------------------------
(***************************************************************************)
(* The indicators, on columns that say when a value could first have been  *)
(* known.  Lengths are two: Window for the lookbacks of some bars and Long *)
(* for the SMAs and the resistance search, so a warm-up ends while a model *)
(* still runs.  Long and short twins read the same rows and are one here.  *)
(***************************************************************************)
EXTENDS Columns

CONSTANTS
  Window, Long,
  Strength,       \* bars on each side of a swing pivot
  MinGap,         \* bars between the two pivots of a trendline
  FollowSessions  \* sessions follow_through reads after a breakout

WindowConstants ==
  {DayLen, Window, Long, Strength, MinGap, FollowSessions} \subseteq Nat \ {0}

\* Wilder's ATR: seeded by the first n true ranges, then recursive.
Atr(c) == [t \in DOMAIN c |-> IF Pos(c, t) < Window THEN NaN ELSE Recursive(c)[t]]

\* Relative strength against a benchmark, and its mean.  Arithmetic takes the
\* rows of both sides.
Rrs(c, atr, b, batr) ==
  Arith(Reindex(Change(c, Window), DOMAIN c \cup DOMAIN b),
        {Change(b, Window), atr, batr})
RollingRrs(rrs) == Rolling(rrs, Window)

\* Session-anchored VWAP, and volume so far against the mean volume so far at this
\* minute of the Window sessions before: NaN if one of them has no such minute.
Vwap(c) == SessionSoFar(c)
Rvol(c) ==
  LET sofar == SessionSoFar(c)
      days == {DayOf(r) : r \in DOMAIN c}
      Before(t) == {d \in days : d < DayOf(t) /\
                      Cardinality({e \in days : d < e /\ e < DayOf(t)}) < Window}
      Baseline(t) == {At(sofar, (d * DayLen) + (t % DayLen)) : d \in Before(t)}
  IN  [t \in DOMAIN c |-> IF Cardinality(Before(t)) < Window THEN NaN
                          ELSE AllOf({sofar[t]} \cup Baseline(t))]

VolumeRatio(c) == Arith(c, {Rolling(Shift(c, 1), Window)})
ChopRatio(c) == Rolling(Change(c, 1), Window)
StackedCount(c, volume) == Recursive(Flag(c, {volume}))
HaContinuation(c, atr) == Recursive(Flag(c, {atr}))
LaguerreRsi(c) == Recursive(c)
OneCandleWonder(c) == Flag(c, {Rolling(Change(c, 1), Window), Change(c, Window)})
Sma(c, n) == Rolling(c, n)
SmaStack(c) == Arith(c, {Sma(c, Window), Sma(c, Long)})

\* A swing pivot is told by the bars on both sides of it (rolling(center=True)),
\* and may be used once those after it have closed.  Any bar might be one.  (In
\* the variant it may be used at once.)
PivotReads(c, j) == c[RowAt(c, Pos(c, j) + Strength)]
Pivots(c) == {j \in DOMAIN c : /\ Pos(c, j) > Strength
                               /\ Pos(c, j) + Strength <= Cardinality(DOMAIN c)}
ConfirmedAtOnce(c, t) == {j \in Pivots(c) : j <= t}
Confirmed(c, t) == {j \in Pivots(c) : Pos(c, j) + Strength <= Pos(c, t)}

\* The line through the two newest confirmed pivots MinGap apart.
Trendline(c) ==
  [t \in DOMAIN c |->
     IF \E i, j \in Confirmed(c, t) : Pos(c, j) - Pos(c, i) >= MinGap
     THEN AnyOf({PivotReads(c, j) : j \in Confirmed(c, t)}) ELSE NaN]
\* A breach is impossible without a line, and is fresh on its first bar.
FreshBreach(c, line, atr) ==
  LET breach == Where(Flag(c, {line, atr}), Arith(line, {atr}))
  IN  Where(Flag(breach, {Shift(breach, 1)}), breach)

\* Resistance or support: SMAs, the 52-week extreme and the pivots of the lookback.
Headroom(c, atr) ==
  LET swing == [t \in DOMAIN c |->
                  AnyOf({PivotReads(c, j) : j \in
                         {p \in Confirmed(c, t) : Pos(c, t) - Pos(c, p) <= Long}})]
  IN  Where(Flag(RollingAny(c, Long), {Sma(c, Window), Sma(c, Long), swing}), atr)

\* The slope of the closes against the slope of the long SMA; None while either is
\* missing.
Regime(c) == Arith(Rolling(c, Window), {Change(Sma(c, Long), 1)})

\* follow_through reads the FollowSessions rows after the breakout as soon as the
\* frame has them, whichever row the audit is for.
FollowThrough(c, row) ==
  IF Pos(c, row) + FollowSessions > Cardinality(DOMAIN c) THEN {}
  ELSE {c[RowAt(c, Pos(c, row) + FollowSessions)]}

\* _suspect_after_breakout: the newest fresh breach of the last FollowSessions rows.
Suspect(c, fresh) ==
  [t \in DOMAIN c |->
     LET recent == {r \in LastRows(c, t, FollowSessions) : fresh[r] # NaN}
     IN  AnyOf(UNION {{fresh[r]} \cup FollowThrough(c, r) : r \in recent})]
=============================================================================
