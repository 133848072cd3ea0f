--------------------------- MODULE FeatureFrames ---------------------------
(***************************************************************************)
(* From the stored bars to the frames a backtest decides on: loader,       *)
(* session filter, resampling and causal alignment (data/), the features   *)
(* (selection/features*.py), the market bias (bias/) and _prepare_m5 and   *)
(* _prepare of the two engines, on what the warehouse holds when the run   *)
(* starts.  Minutes and daily bars are stored independently of each other, *)
(* and some minutes have no bar.                                           *)
(***************************************************************************)
EXTENDS Indicators

CONSTANTS
  Days,              \* sessions in the model
  SilentDays,        \* the sessions in which a symbol may go silent
  Lag,               \* bound on how far minutes and daily bars are apart
  Open, LastMinute,  \* the first and last regular minute of a day
  BarLen, HourLen    \* minutes of an M5 and of an H1 bar

\* What the code has of its constants; MCSignals evaluates it.
ClockConstants ==
  /\ WindowConstants
  /\ {Days, BarLen, HourLen, Lag, Open, LastMinute} \subseteq Nat \ {0}
  /\ Open <= LastMinute /\ LastMinute + BarLen < DayLen
  /\ SilentDays \subseteq 0 .. Days - 1
  /\ DayLen % BarLen = 0 /\ DayLen % HourLen = 0 /\ Open % BarLen = 0

VARIABLES
  silent,     \* <<symbol, minutes>>: the minutes without a bar of that symbol
  minuteDays, \* sessions whose minutes the warehouse holds
  dailyDays,  \* sessions whose daily bars it holds
  prepared    \* the frames prepared from what it holds

vars == <<silent, minuteDays, dailyDays, prepared>>

Symbols == {"stock", "spy", "qqq"}
Minute == Open .. LastMinute
CloseOf(d) == d * DayLen + LastMinute + 1

\* One symbol goes silent for a part of one session, or for all of it.
Silences ==
  {<<"spy", {}>>} \cup
  {<<s, (d * DayLen + first) .. (d * DayLen + last)>> :
      s \in Symbols, d \in SilentDays, first \in Minute, last \in Minute}

\* The feed also prints before the open and after the close.
Feed(s, n) ==
  {m \in 0 .. n * DayLen - 1 : m % DayLen \in (Open - 1) .. (LastMinute + 1)}
    \ (IF silent[1] = s THEN silent[2] ELSE {})

\* load_minute_bars: regular minutes only, labelled by their start.
RegularMinutes(S) == {m \in S : m % DayLen \in Minute}
MinuteBars(s, n) == [m \in RegularMinutes(Feed(s, n)) |-> m + 1]

\* load_daily_bars: labelled by the date, none for a session without a print.
DailyBars(s, n) ==
  [r \in {d * DayLen : d \in {DayOf(m) : m \in RegularMinutes(Feed(s, n))}} |->
     CloseOf(DayOf(r))]

\* resample_ohlcv from minutes to M5 bars, and on to hours: M5 labels are ends, so
\* an hour takes the bar that ends with it.
FiveMinutes(m1) == Resample(m1, BarLen, "left")
Hours(m5) == Resample(m5, HourLen, "right")
HourAtr(m5, index) == AlignCausal(Atr(Hours(m5)), index)

\* compute_symbol_features: the daily features of a stock, rows of its own.
DailyFeatures(c, b) ==
  LET atr == Atr(c)
      rrs == Rrs(c, atr, b, Atr(b))
  IN  [atr_d1 |-> atr,
       rrs_d1 |-> Reindex(rrs, DOMAIN c),
       rolling_rrs_d1 |-> Reindex(RollingRrs(rrs), DOMAIN c),
       rrs_d1_std |-> Reindex(Rolling(rrs, Window), DOMAIN c),
       ha_cont_d1 |-> HaContinuation(c, atr),
       sma_stack |-> SmaStack(c),
       headroom |-> Headroom(c, atr),
       volume_ratio_d1 |-> VolumeRatio(c),
       day_pc |-> Change(c, 1),
       bench_day_pc |-> Reindex(Change(b, 1), DOMAIN c),
       close_d1 |-> c]

\* compute_symbol_features_m5, on the stock's own M5 index.
Features(m1, m5, d1) ==
  LET c == m5["stock"]
      index == DOMAIN c
      daily == DailyFeatures(d1["stock"], d1["spy"])
      aligned == [col \in DOMAIN daily |-> AlignDaily(daily[col], index)]
      spy == Reindex(m5["spy"], index)
      qqq == Reindex(m5["qqq"], index)
      hour == [s \in Symbols |-> HourAtr(m5[s], index)]
      rrs == Rrs(c, hour["stock"], spy, hour["spy"])
      rrsQqq == Rrs(c, hour["stock"], qqq, hour["qqq"])
      vwap == AlignCausal(CloseLabel(Vwap(m1["stock"])), index)
      rvol == AlignCausal(CloseLabel(Rvol(m1["stock"])), index)
  IN  [rrs_m5 |-> rrs, rolling_rrs_m5 |-> RollingRrs(rrs),
       rrs_m5_qqq |-> rrsQqq, rolling_rrs_m5_qqq |-> RollingRrs(rrsQqq),
       power_index_m5 |-> Arith(Change(spy, Window), {hour["spy"]}),
       hour_atr |-> hour["stock"],
       vwap_m5 |-> vwap, rvol_m5 |-> rvol,
       lrsi_m5 |-> LaguerreRsi(c),
       one_candle_wonder |-> OneCandleWonder(c),
       gap_pct |-> Arith(SessionFirst(c), {aligned["close_d1"]}),
       close |-> c,
       prior_close |-> aligned["close_d1"],
       rolling_rrs_d1 |-> aligned["rolling_rrs_d1"],
       ha_cont_d1 |-> aligned["ha_cont_d1"],
       sma_stack |-> aligned["sma_stack"],
       headroom |-> aligned["headroom"],
       volume_ratio_d1 |-> aligned["volume_ratio_d1"]]

\* daily_context_series: SPY's own days, before the shift.
DailyContext(spy) ==
  [regime_d1 |-> Regime(spy), d1_range |-> spy,
   suspect |-> Suspect(spy, FreshBreach(spy, Trendline(spy), Atr(spy)))]

\* compute_raw_score: c1 .. c8, without a value while the ATR has none.
RawScore(m1, m5, context) ==
  LET c == m5["spy"]
      index == DOMAIN c
      rvol == Rvol(c)
      move == Change(c, 1)
      OwnVwap(s) == AlignCausal(CloseLabel(Vwap(m1[s])), index)
      c1 == Flag(c, {OwnVwap("spy")})
      c2 == Flag(StackedCount(c, rvol), {ChopRatio(c)})
      c3 == SessionSoFar(c)
      c4 == Flag(c, {AlignDaily(context.d1_range, index)})
      c5 == Flag(c, {Trendline(c)})
      c6 == Flag(move, {rvol, AlignDaily(context.suspect, index)})
      c7 == Flag(move, {AlignDaily(context.regime_d1, index)})
      c8 == Flag(c1, {m5["qqq"], OwnVwap("qqq")})
  IN  Where(Flag(c1, {c2, c3, c4, c5, c6, c7, c8}), Atr(c))

\* ewm, hysteresis, trigger and flip of either cadence.
BiasOf(c, raw, stacked) ==
  LET smoothed == Where(Recursive(raw), raw)
      bias == Where(Recursive(smoothed), smoothed)
      fresh == FreshBreach(c, Trendline(c), Atr(c))
      prior == Shift(bias, 1)
  IN  [raw_score |-> raw, smoothed_score |-> smoothed, bias |-> bias,
       trigger |-> Flag(bias, {prior, fresh, Trendline(c)}),
       flip_flatten |-> Flag(bias, {prior, stacked})]

BiasM5(m1, m5, context) ==
  BiasOf(m5["spy"], RawScore(m1, m5, context),
         StackedCount(m5["spy"], Rvol(m5["spy"])))

\* The gates, scores, reconfirmations and exit signals of _prepare_m5, from the
\* features on the stock's own bars.
Decisions(c, f, adv) ==
  LET atr == Atr(c)
      ema8 == Recursive(c)
      held == {adv, f.rolling_rrs_d1, f.ha_cont_d1, f.sma_stack, f.headroom,
               f.volume_ratio_d1, f.gap_pct}
      known == Arith(f.rolling_rrs_m5, {f.rolling_rrs_d1, f.ha_cont_d1, f.rvol_m5})
      Twice(col) == Flag(col, {Shift(col, 1)})
  IN  [ema8 |-> ema8, atr_m5 |-> atr, adv20 |-> adv,
       gate_hold |-> Flag(c, held),
       gate |-> Flag(c, held \cup {f.rolling_rrs_m5, f.vwap_m5, f.one_candle_wonder,
                                   f.rolling_rrs_m5_qqq}),
       score |-> Where(Flag(known, {f.power_index_m5, f.headroom, Change(c, Window),
                                    Rolling(f.rrs_m5, Window)}), known),
       rs_failure |-> Twice(f.rolling_rrs_m5),
       vwap_loss |-> Twice(Flag(c, {f.vwap_m5})),
       momentum_stall |-> Twice(f.lrsi_m5),
       confirm_trigger |-> Flag(c, {f.rolling_rrs_m5, f.vwap_m5, ema8, atr}),
       dip_quality |-> Flag(c, {ChopRatio(c), StackedCount(c, f.rvol_m5), atr,
                                Rolling(f.rvol_m5, Window), RollingAny(c, Window),
                                RollingAny(Flag(c, {f.vwap_m5}), Window)}),
       squeeze_guard |-> Flag(c, {Shift(c, 1), atr, f.rvol_m5})]

\* _prepare_m5: computed on the stock's bars, then laid on SPY's.
PreparedM5(m1, m5, d1, context) ==
  LET f == Features(m1, m5, d1)
      adv == AlignDaily(Rolling(d1["stock"], Window), DOMAIN m5["stock"])
      decided == Decisions(m5["stock"], f, adv)
      calendar == DOMAIN m5["spy"]
      bias == BiasM5(m1, m5, context)
      Laid(g) == [col \in DOMAIN g |-> Reindex(g[col], calendar)]
  IN  Beside(Beside(Laid(f), Laid(decided)),
             Beside(bias, [regime_d1 |-> AlignDaily(context.regime_d1, calendar)]))

\* The D1 engine's own eight components, on the days all its symbols have
\* (_align_calendar), with its features and scores.
RawScoreD1(c, qqq) ==
  LET move == Change(c, 1)
      parts == {SmaStack(c), StackedCount(c, VolumeRatio(c)), move, Trendline(c),
                VolumeRatio(c), Regime(c), Change(qqq, 1)}
  IN  Where(Flag(c, parts), Atr(c))

PreparedD1(d1) ==
  LET calendar == DOMAIN d1["spy"] \cap DOMAIN d1["qqq"] \cap DOMAIN d1["stock"]
      d == [s \in Symbols |-> Reindex(d1[s], calendar)]
      f == DailyFeatures(d["stock"], d["spy"])
      known == Arith(f.rolling_rrs_d1, {f.ha_cont_d1, f.volume_ratio_d1})
      scored == [score |-> Where(Flag(known, {f.headroom, f.rrs_d1_std, f.day_pc,
                                              f.bench_day_pc}), known),
                 ema8 |-> Recursive(d["stock"])]
  IN  Beside(Beside(f, BiasOf(d["spy"], RawScoreD1(d["spy"], d["qqq"]), d["spy"])),
             scored)

\* The same bias without the breakout audit of its daily context.
Unaudited(context) == [context EXCEPT !.suspect = AbsentOn(DOMAIN context.suspect)]

Prepare(minutes, dailies) ==
  LET m1 == [s \in Symbols |-> MinuteBars(s, minutes)]
      m5 == [s \in Symbols |-> FiveMinutes(m1[s])]
      d1 == [s \in Symbols |-> DailyBars(s, dailies)]
      context == DailyContext(d1["spy"])
  IN  [m5 |-> PreparedM5(m1, m5, d1, Unaudited(context)),
       d1 |-> PreparedD1(d1),
       audited |-> BiasM5(m1, m5, context)]

Init ==
  /\ silent \in Silences
  /\ minuteDays = 0 /\ dailyDays = 0
  /\ prepared = Prepare(0, 0)

StoreMinutes ==
  /\ minuteDays < Days /\ minuteDays < dailyDays + Lag
  /\ minuteDays' = minuteDays + 1
  /\ prepared' = Prepare(minuteDays + 1, dailyDays)
  /\ UNCHANGED <<silent, dailyDays>>

StoreDailies ==
  /\ dailyDays < Days /\ dailyDays < minuteDays + Lag
  /\ dailyDays' = dailyDays + 1
  /\ prepared' = Prepare(minuteDays, dailyDays + 1)
  /\ UNCHANGED <<silent, minuteDays>>

Next == StoreMinutes \/ StoreDailies
Spec == Init /\ [][Next]_vars
-----------------------------------------------------------------------------
\* No value of a row was computed from a bar that closed after it: an M5 frame's by
\* the row's label, a daily one's by the close of its session.  This is about every
\* close label, bucket edge, shift and pivot confirmation on the way, whatever bars
\* are missing; the breakout audit of SPY's days is the one exception, left out here.
\* And it is not later than it must be: a bar of the stock sees its newest minute in
\* the VWAP, its newest whole hour in the ATR of relative strength and, once the
\* daily bars of the session are stored, its last session's close.
FramesAreCausal ==
  /\ \A col \in DOMAIN prepared.m5 : \A t \in DOMAIN prepared.m5[col] :
        prepared.m5[col][t] <= t
  /\ \A col \in DOMAIN prepared.d1 : \A t \in DOMAIN prepared.d1[col] :
        prepared.d1[col][t] <= CloseOf(DayOf(t))
  /\ LET minutes == MinuteBars("stock", minuteDays)
         bars == FiveMinutes(minutes)
         days == DailyBars("stock", dailyDays)
         Newest(c, S) == AnyOf({c[r] : r \in S})
     IN  \A t \in DOMAIN prepared.m5.close \cap DOMAIN bars :
           /\ prepared.m5.vwap_m5[t] = Newest(minutes, {m \in DOMAIN minutes : m < t})
           /\ prepared.m5.hour_atr[t] \in
                {NaN, Newest(bars, {b \in DOMAIN bars : b <= (t \div HourLen) * HourLen})}
           /\ DayOf(t) * DayLen \in DOMAIN days =>
                prepared.m5.prior_close[t] =
                  Newest(days, {d \in DOMAIN days : DayOf(d) < DayOf(t)})

\* What was prepared for a session whose daily bars are stored stays what it was
\* when more sessions are stored: a decision of the past is a decision of the
\* present.  (Before they are, shift(1) has no row of the session to move to and
\* the session sees the day before yesterday.)
PastStands ==
  [][/\ \A col \in DOMAIN prepared.m5 : \A t \in DOMAIN prepared.m5[col] :
           DayOf(t) < dailyDays => prepared'.m5[col][t] = prepared.m5[col][t]
     /\ \A col \in DOMAIN prepared.d1 : \A t \in DOMAIN prepared.d1[col] :
           prepared'.d1[col][t] = prepared.d1[col][t]]_vars

\* The bias of a bar, audit included, is computed from bars that had closed.
\* tests/unit/test_no_lookahead.py and README.md state it of every live signal;
\* follow_through reads past the row it audits.
BiasIsCausal ==
  \A col \in DOMAIN prepared.audited : \A t \in DOMAIN prepared.audited[col] :
    prepared.audited[col][t] <= t
=============================================================================
