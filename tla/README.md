# Verification of rs-spy

rs-spy is a relative-strength trading system in backtest: it fetches bars into
DuckDB warehouses, scores the market and the stocks, runs a bar-by-bar engine
with orders, positions and risk limits, and keeps the results of detached jobs
in Postgres. This directory holds TLA+ models of its control logic, the TLC
configurations that check them, and theorems about them proved with TLAPS.
Paths are relative to the repository; a path without a directory at its root
is under `src/rs_spy/`. `PROJECT.json` maps every definition to the lines it
stands for.

## 1. The system and its parts

| Component | State it keeps | Operations | Talks to |
|---|---|---|---|
| M5 engine, `backtest/engine_m5.py` | `pending`, `positions`, entries and lockouts of the session, watchlist states, funnel, equity | one loop over the calendar: session roll, fills, management, watchlist, submission (longs, then shorts) | calls the risk manager, the watchlist, the broker simulation; reads prepared columns |
| Broker simulation, `backtest/broker_sim.py` | none | limit price, fill, slippage | engine |
| Watchlist, `selection/watchlist.py` | one state per symbol and book (kept by the engine) | `next_state_long/short`, `apply_trigger_bypass`, `build_tradeable_list` | engine |
| Risk guards, `algo/risk.py` | counters, halts, baselines | `can_enter`, `register_exit`, `new_session`, `new_week`, sizing | engine |
| Entry quality, `algo/long.py`, `algo/short.py` | none | predicates over columns | engine |
| Bias, `bias/` | the hysteresis (state, pending direction, count) | score, buckets, flip guard, trigger | engine (as prepared columns) |
| D1 engine, `backtest/engine.py` | orders for the next open, positions | the daily loop | watchlist, gates |
| Gates, scores, `selection/` | none | one verdict or number per row, long and short written separately | both engines, `backtest/studies/gate_audit_m5.py` |
| Features, indicators, loader, `selection/features*.py`, `indicators/`, `data/loader.py`, `resample.py`, `session.py` | none | pandas columns: resampling, causal alignment, rolling and recursive indicators | both engines read the prepared frames |
| Campaign driver, `backtest/campaign.py`, `scripts/run_campaign_500.py` | what is pending and live, Popen handles; rows in Postgres | create, launch, poll, recheck, `--resume` | job processes through the OS, run store |
| Jobs, `jobs/` | one detached process per run | `launch_run`, `run_job` | run store, warehouse (read-only) |
| Run store, `store/repository.py` | `runs`, `trades`, `equity_curves` | `create_run`, `mark_running`, `save_result`, `mark_failed` | all of the above, UI |
| Aggregation, `backtest/aggregate.py`, the Campaigns page of `ui/` | none | groups the runs of a campaign, refuses or pools them | run store |
| Ingest, `data/ingest.py`, `data/manifest.py`, `data/warehouse.py` | `bars`, `fetch_manifest` in DuckDB | `backfill`, `record`, `pending_symbols` | Alpaca client |
| Alpaca client, `data/alpaca_client.py`, `data/rate_limiter.py` | the deque of recent calls | `acquire`, retries | vendor |
| Scan, `scan/` | scan warehouse; `scan_runs`, `universe_snapshots`, `screener_snapshots`, `onboarded_symbols` | refresh, scan, onboarding, the nightly job | both warehouses, Postgres, jobs |
| Universe, `scan/universe500.py`, `scripts/build_universe_500.py` | `universe_500.yaml` | ranks the newest scan, cuts, labels | scan warehouse, Postgres |
| Metrics, studies, other UI pages, configuration | none of their own | statistics, pages, conversions | - |

### What is hard

* **Ordering inside a bar.** Orders are permitted on one bar and filled up to
  three bars later; positions end between the two; both books share one
  dictionary; sessions and weeks roll in between. No test enumerates these.
* **State that outlives its reason.** Entry paths, streaks, session admissions,
  a stop that has moved by the time R is computed, flags of an earlier night.
* **Look-ahead.** Minute bars are labelled by their start, M5 and H1 bars by their
  end, daily bars by their date; the last are shifted by a session, pivots are
  told by later bars. One wrong label or bucket edge lets a decision of the past
  see its future, often only where bars are missing.
* **Hand-written twins.** Every gate, score and confirmation exists twice, with
  each sign and comparison turned by hand; the audit repeats the gates once more.
* **Processes.** The driver, its jobs, a second driver and the readers of a
  campaign meet only in Postgres rows and exit codes. Any of them can be killed
  anywhere.
* **Deaths between two writes.** DuckDB rows are committed one statement at a
  time; the manifest must not run ahead of the bars. Postgres writes share one
  connection, so an exception caught in one stage leaves its transaction to the
  next.
* **A warehouse that goes on growing.** A past day is scanned again over bars that
  arrived since; a universe is ranked from a scan, a warehouse and a file of
  different nights.
* **Time.** The limiter sleeps on clock readings taken before the sleep; the
  screener knows only "now"; windows begin and end inside the periods of the manifest.

The full list, line by line, with the property that covers each, is `hazards`
in `PROJECT.json`.

### What makes each part correct

* Order book: one claim per symbol; caps on entries and slots; lockout after a
  hard stop; orders neither lost nor counted twice; nothing survives the flat
  time it is seen on; every evaluated symbol accounted for.
* One position: the stop tightens only; fills are prices the bar printed, no
  better; the loss stays within the stop and within the budget the shares were
  sized for, unless the market gapped. A daily trade loses at most its 1.5 ATR.
* Frames: no value of a row rests on a bar that closed after it; what was decided
  for a past session stays decided; nor is a value staler than it must be.
* Gates and scores: the short twin mirrors the long one; the gate, the hold, the
  reconfirmation and the audit agree on a row.
* Watchlist: an evaluation rests on gates that held when the mode says they
  must; the recorded path is the route taken; the funnel adds up.
* Risk: each halt is exactly what the exits since its roll justify, and only
  time lifts it.
* Bias: a side is taken on a confirmed run, as soon as it is confirmed, and
  always through neutral.
* Campaign: the parallel bound; reports equal the store; a success has its
  results, no cohort has two runs; what is pooled is complete and stays what it
  was; the driver returns.
* Ingest: a done unit stores what its request asked for and stays done; what is
  stored of a period is in one piece; tails catch up.
* Nightly job: snapshots are genuine; refused nights leave no scan; the flags
  say what is stored; launched runs trade mature names only.
* Scan: a past day scanned again comes out as it did, unless its own inputs
  changed; the universe is the ranked top of the newest scan.

## 2. Modules

`EXTENDS` is written `<`. Modules of a component stand together. An `MC` module
gives the constants of a run their values. Three of them join components that
share no state into one run: a variable `machine`, chosen at the start, says which
of them goes on, the others are instances whose variables stand still, and what an
instance asks of its constants (`PositionD1Constants` and the like) is assumed, and
so evaluated, by the `MC` module.

| Module | Stands for |
|---|---|
| `Columns` | pandas columns as far as time goes: for each row, when the newest bar its value rests on had closed; resampling, shifting, rolling, alignment, the session filter's labels |
| `Indicators` < `Columns` | the indicators of `indicators/`, by which rows they read |
| `FeatureFrames` < `Indicators` | loader, features, daily context, bias and the frames of both engines, over any gaps in the minutes and any order of storing |
| `RowChecks` | gates, scores, reconfirmation and gate audit of one row, both sides |
| `RowWalk` < `RowChecks` | rows that differ from a flawless candidate in a few readings |
| `BiasFamily` | the three families of a label, and what may follow a family |
| `BiasWalk` < `BiasFamily` | **abstract:** a family moves only to a neighbour |
| `BiasBuckets` < `BiasFamily` | `apply_hysteresis`, the flip guard and the trigger over any sequence of scores |
| `MCSignals` < `BiasBuckets` | one run for `FeatureFrames`, `BiasBuckets` and `RowWalk` |
| `SignalsProofs` < `MCSignals` | theorems about the frames, the bias and the rows |
| `RiskGuards` | `RiskManager` as operators on a record: `CanEnter`, `RegisterExit`, `NewSession`, `NewWeek`, `Rollover` |
| `RiskManager` < `RiskGuards` | the guards under any sequence of closes and bars, with a history of the exits to judge them by |
| `OrderBook` < `RiskGuards`, `BiasFamily` | the bar loop without the watchlist, whose signals are any set: five phases, one action per loop body; `MCOrderBook` |
| `WatchlistRules` | the state machine, the gate modes, the trigger, paths and resets, as operators |
| `Watchlist` | the machine under any readings, with the funnel; an instance of `WatchlistRules` whose mode is a variable chosen at the start, so that one run has all three; `MCWatchlist` |
| `WatchlistProofs` < `Watchlist` | theorems |
| `EngineM5` < `OrderBook`, `WatchlistRules` | **composition:** the watchlist in the place of the free signals; refines `OrderBook`; `MCEngineM5` |
| `EngineM5Proofs` < `EngineM5` | theorems about the order book and the composition |
| `SidedBars` | bars and prices seen from the side of a trade |
| `Sizing` | `position_size` and `cap_shares` |
| `PositionM5` < `SidedBars`, `Sizing` | the size and the prices of one trade of the M5 engine, order to exit |
| `PositionD1` < `SidedBars` | the prices of one trade of the daily engine |
| `TradeableList` | `build_tradeable_list` as an operator on scores, and what a list must be |
| `BookD1` < `TradeableList` | the book of the daily engine, which orders what the lists name |
| `MCTrades` < `PositionM5` | one run for `PositionM5`, `PositionD1`, `BookD1` and `RiskManager` |
| `TradesProofs` < `MCTrades` | theorems about the four |
| `RunLifecycle` | **abstract:** what a stored status may do |
| `RunJobs` | the store, the job processes and `run_job` |
| `Campaign` < `RunJobs` | the driver over them: create, launch, poll, resume, Ctrl-C; refines `RunLifecycle` |
| `CampaignPool` < `Campaign` | the page and the script that pool the campaign meanwhile; `MCCampaign` |
| `CampaignProofs` < `CampaignPool` | theorems |
| `Backfill` | one warehouse and timespan under scripts, refreshes and onboardings; `MCBackfill` |
| `BackfillProofs` < `Backfill` | theorems |
| `RequestPacing` | the limiter under the retry policy |
| `RequestPacingProofs` < `RequestPacing` | theorems |
| `NightlyScan` | the nightly job over its stores |
| `UniverseScan` | the scan over bars that go on arriving, and the universe ranked from it |
| `MCNightly` < `NightlyScan` | one run for `NightlyScan` and `UniverseScan` |
| `NightlyProofs` < `MCNightly` | theorems about both |

Where a mutated form of an operator (`BarredOffByOne` beside `Barred`) stands
in a module, it is not used by the specification: it is a plausible bug that
the properties are tried against, listed in `PROJECT.json` under `mutants`.

### How the state and the actions correspond

* **Order book.** `order` and `position` are `pending` and `positions`, as
  functions from symbols; `entriesToday`, `lockedOut`, `risk`, `equity` are the
  locals of the loop. A bar is `StartBar` (session and week rolls, the bar's
  inputs in `now`), `FillOne` per pending order, `Manage` (which decides all
  exits, as the code collects them in `to_close`), `CloseOne` per exit,
  `UpdateWatchlist`, `Submit("LONG")`, `Submit("SHORT")`, `EndBar`. Prices,
  gates, scores and exit signals are free choices, bounded by what the code lets
  happen together (no bar: no fill, no management). Iteration over a dictionary
  is in any order.
* **Composition.** `EngineM5` replaces `UpdateWatchlist` by the watchlist of
  `WatchlistRules` and keeps every other action. The refinement to `OrderBook`
  is the identity on its variables.
* **Frames.** A column is a function from row labels to the instant at which the
  newest bar behind the value had closed; `NaN` is 0. Every pandas operation of
  the code is one on such columns: arithmetic is NaN as soon as one operand is, a
  comparison or `ewm` is not, `reindex` loses rows, `align_causal` looks back past
  NaN. What a value *is* does not appear. `StoreMinutes` and `StoreDailies` extend
  the warehouse by a session, in any order within a lag, and the frames are
  prepared anew from all of it, as a backtest does.
* **Rows.** A row has the readings the checks compare, as numbers in halves on both
  sides of every threshold, or missing. `Read` replaces one reading.
* **One position.** Long and short are one text with the sign of the direction;
  prices are small integers and multiples of the ATR are exact. A bar is its
  open, close and extreme against the trade. The size is computed with the order,
  in whole shares. The daily trade is the same with its own stop, trail and hold.
* **Campaign.** `status` and `stored` are the rows of the store; `job` is where
  each process is (`none`, `starting`, `executing`, `raised`, `closing`, `gone`);
  `driver` holds the program counter and the locals of each invocation, and
  `final` what its poll has reported. `overlapped` is a history variable: a
  `--resume` has begun while a job of an earlier invocation was at work. Every
  database call is an action, so that kills, exceptions and Ctrl-C fall between
  any two. A kill outside the computation leaves what `Crash` or `Exit` leaves.
  `pool` is the set of runs an aggregation has accepted, whose results are read
  from then on.
* **Backfill.** `warehouse` says which warehouse it is, and so which visits it
  gets: scripts and onboardings (main) or refreshes (scan). A unit is a symbol and
  a period. A visit is one record with a program counter; fetching, writing the bars
  of a batch and recording each of its symbols are separate actions, and `Die` may
  follow any of them. Its window `[start, end)` is fixed when it begins and may begin
  and end anywhere in a period: a script ends 24 hours ago and starts as far back as
  its `--years` say, nightly visits end at a midnight. `ChunkStart` and `ChunkEnd` cut
  a unit to the window, as `year_chunks` and `month_chunks` do, and the record is one
  of the whole unit all the same. Time is counted in instants, some to a day, with a
  bar at most at each; a bar is there from the next instant on. A visit lasts less than
  an instant, so that all its fetches see the same bars (section 6). Both cadences of an onboarding are two warehouses of
  this model, with years and with months for periods. `asked`, a history, has for each
  unit from where its stored bars were last asked for, and how far its record reaches.
* **Pacing.** Clock readings appear as ages: a call is as old as the time since
  it was appended, and ages beyond the window are one. `calls` is the deque;
  `permits`, a history, has the last `MaxCalls + 1` calls that were let through,
  which is what it takes to see a window with one too many.
* **Daily book.** The scores of a close are chosen freely, the lists and the
  orders follow from them; `scored` keeps them until the next open for the
  properties.
* **Nightly.** `db` is what Postgres has committed, `work` what the connection
  sees, `txn` the state of its transaction. A visit to the warehouse changes
  what is stored of a symbol to any amount not less; Backfill says how.
* **Universe.** `bars` is the scan warehouse day by day, `Scan(d)` a scan of any day
  gone by, `Arrive` a late or corrected bar, `Relist` a change of the assets that
  every scan sees. `disturbed` is a history: the days whose inputs are no longer
  what their scan saw.

## 3. Runs

TLC runs on the instances below. A property that is a conjunction of named
parts is listed with them; the types of a module's variables are a part of the
first one.

| Run | Instance | Properties and what they show |
|---|---|---|
| `book` | 2 symbols, both books, 1 slot each, 2 long entries and 1 short, 3 bars, stop-out limit 1 | `EntryCap`, `LockoutHolds`, `OneClaimPerSymbol`, `SlotCap`, `OrderConservation`, `ManagedAway`, `EvalsAccounted`, `OrdersSurviveSubmission` |
| `engine` | 1 symbol, grace mode, 4 bars, longs only | `ImplementsOrderBook`: with the watchlist choosing the signals the engine is still an order book; `TriggerSignalsArePermitted` |
| `watch` | 2 symbols, the 3 gate modes, grace of 1 bar, 4 bars | `CandidatesGrounded` (gates as recent as the mode says, admission of this session, funnels of trigger and dip); `PathMatchesRoute` |
| `trades` | M5 trade: 7 quotes from 4 to 20 around a close of 12, ATR 4, equity 4000 with a 200th at risk; daily trade: the same quotes, hold of 3 days; daily book: 4 symbols in 2 sectors, lists of 3 cut to 2, 1 slot each, 4 days; guards: pause after 2 stop-outs, limits of 2% and 4%, 3 exits | `PricesAreHonest` (stop tightens, fills are prices of the bar), `ExitsWithinStops` (loss within the stop, within the budget, breakeven once trailing); `DailyExitsWithinStops` (loss within the 1.5 ATR of the size, stop exits never win); `BookFits` (caps, best first), `EntersOnLastBias`; `HaltsExact` (daily, weekly, pause) |
| `signals` | frames: 6 sessions of 6 minutes in M5 bars of 2 and hours of 4, lookbacks of 2 and 3, one symbol silent for any part of the third session, minutes and daily bars stored up to 1 session apart; bias: `hold_bars` 3; rows: every row 2 readings away from a candidate of either side | `FramesAreCausal`, `PastStands`; `SidesFollowRuns` (confirmed, prompt, trigger on a confirmed side), `FlipNeverFires`, `ImplementsWalk`; `SidesMirror`, `ChecksAgree` |
| `lookahead` | the frames of `signals` | *violated:* `BiasIsCausal` (section 5) |
| `campaign` | 3 cohorts, 2 parallel, 2 invocations, 4 jobs | `PoolableRuns` (succeeded has results, one run per cohort, reports are the store until jobs overlap); `JobsAccounted` (parallel bound until jobs overlap, nothing left queued); `PoolIsSound`; `ImplementsLifecycle` until jobs overlap; under fairness `DriverReturns` |
| `campaign_partial` | the same | *violated:* `PoolIsWhole` (section 5) |
| `backfill` | both warehouses, 2 symbols of which one has bars missing and one lists later, periods of 3 days and 1 of 2 instants each, scripts that go back 2 or 3 days, nightly visits 2.5, a tail of 1 day, batches of 1 | `DoneUnitsStored` (a done unit stores what its record stands for); `DoneStays`; `RecordsCover` (a visit that returns has recorded its window, and in the main warehouse a period is stored in one piece); `TailsCatchUp` (what a refresh and an onboarding that return have made up for) |
| `backfill_midperiod` | the same, no scripts, nightly visits over the whole calendar | *violated:* `MidPeriodHealed` (section 5) |
| `nightly` | the job: 2 symbols, 2 endpoints, 3 days of which one is uncovered; the scan: 2 assets (one traded a lot or a little, one dear or cheap, so that each gate fails somewhere), averages over 2 days, 1 late bar or relisting, 3 days, a universe of 1 | `NightIsRecorded` (snapshots are genuine, refused nights leave no scan, a saved scan is durable), `FlagsAndRuns` (flags match bars, runs are mature, no writer at the launch); `RescanAgrees`, `UniverseIsRanked` |
| `pacing` | 3 calls in 4 ticks, 5 attempts, back-off 1 to 5 | `WindowKept` (ceiling, queue length); under fairness `RequestEnds` |

### Why these bounds

* A claim involves one symbol, a competition for a slot two; more symbols repeat
  these, and the proofs remove the bound for the properties they state. The two
  books compete on the same two symbols.
* Three bars hold an order, its fill and its exit, with a session or week roll
  between any two. An order lives 2 bars instead of 3: one wait that is not the
  last, and one that is. A cap of 2 long entries is met by an entry that is
  closed and one that is pending; a cap of 1 by the first.
* Losses and limits are such that one loss crosses the daily limit and two the
  weekly one, and that a win can bring the account back above both.
* The watchlist needs a bar to be admitted on, one to dip on and one to be
  evaluated on; a fourth lets a streak begin, reach the grace of 1 and exceed
  it between these, or a session begin in between.
* The quotes reach from beyond the stop of either engine to beyond the trigger of
  its trail, which lies 1.5 ATR away; nothing else bounds an M5 trade's length. A
  hold of 3 days has a day that is neither the first nor the last. The scores and
  participation caps let the size be what the risk allows, less, or nothing; the
  cap on notional is never the least here (the theorem has every one).
* Six sessions outlast the warm-up of every column of the frames: two lookbacks of
  2, a pivot confirmed 1 bar later, a trendline between two pivots, an audit of 2
  sessions and the shift of one. Three M5 bars of a session of which the hours cut
  off the first tell both closed sides of a bucket apart. A lag of 1 is a night on which
  one of the two downloads has run.
* Two readings are the smallest number at which one check can pass and another
  fail for another reason. The theorems about rows have no such bound.
* With 3 cohorts and 2 slots the driver waits, refills and still has a job at
  work. A second invocation is what `--resume` is for; 4 jobs allow it over one
  row that has a job already, the smallest overlap. A third invocation would
  find nothing that the second cannot.
* Two periods are what a unit that is done too early needs to be missed. The
  warehouse is opened on the last day of the first, so that visits come both before
  and after its end. Two instants a day let a script end in the middle of one, windows
  of two spans begin before, in and after the first bars of the period, and an
  instant without a bar lies next to instants with one. The second symbol lists just
  before the period ends, so that its units are recorded empty first; batches of 1
  put every death between the two symbols. The span of a nightly visit, more than one
  period and less than two, lets its start too fall inside the first.
* With a window of four ticks and three calls, a full window with calls of
  different ages and the call that lingers both occur.
* In the daily book, with 4 symbols, scores 0 to 2 and lists of 3 cut to 2, ties, a
  full sector, a full list and the cut of the list each decide; one slot is less
  than two orders.
* A night with an uncovered day between two covered ones can be run on its day,
  backdated, and again. For the scan, three days with averages over two let a late
  bar fall inside the average of a later day or outside it, and one change is what
  it takes to tell a disturbed day from another.

`CHECK_DEADLOCK FALSE` is set where a model comes to its end: in the campaign, where
every invocation may have returned and every job ended, in `trades`, `signals` and
`lookahead`, where the exits of the guards, the days of the book or the sessions of
the frames may be used up, and in `nightly`, whose calendar ends. The books, the
watchlist and the M5 trade stutter explicitly when they are over.

### Fairness

* `Campaign!FairSpec`: if some driver can go on, one does (it is a running
  process whose calls return, and one is active at a time); if some job can go
  on, one does. A job's computation is a loop over a finite calendar, and in the
  model it is a few steps, so the second brings every job to its end. Ctrl-C,
  kills and a second invocation are never forced. `DriverReturns` needs no more.
* `RequestPacing!FairSpec`: time passes, and the thread that can go on does.
  The caller need not ask. The vendor may answer 429 for ever: the retry count
  ends the request.
* No other run has a liveness property.

## 4. Proofs

Checked by `tlapm` from the assumptions on the constants alone (`ASSUME`, each
evaluated by TLC in a run, or the `...Constants` that an `MC` module assumes of its
instances): limits are natural numbers, sets of symbols finite, periods
increasing, ATRs divisible by 4. A theorem that assumes more says so below. A proof
has one lemma or step per action; what follows is what each invariant adds to the
property, and why the property needs it.

* **`SignalsProofs`**, for every `hold_bars`: `SidesFollowRuns`, `FlipNeverFires` and
  `ImplementsWalk`. The pending count says nothing about the past by itself, so
  `BiasInv` ties it to the true runs of bull and bear scores (which the model keeps as
  a witness): in neutral with a pending side the run is the count, or one more because
  the fall into neutral used a bar; on a side it is at least `hold_bars` and the
  other run is 0. For any thresholds and any number of readings that differ:
  `SidesMirror` and, for thresholds `RrsM5` and `RrsD1` above 0, `ChecksAgree`. There the
  invariant is only that a row stays a row; the work is that each comparison turns
  with its sign and that a missing reading stays missing. For any clock, lookbacks and
  silence of a symbol:
  - `FramesAreCausal`. The invariant, `FramesInv`, says that what is prepared is a
    function of what is stored; the work is that function. A column is `Causal` within
    a limit when no value is later than the limit of its row: its label (`ByLabel`),
    the end of its minute (`ByNextMinute`) or the close of its session (`BySession`).
    Each operation of pandas keeps any limit that never goes back (`ShiftCausal`,
    `RollingCausal`, `AlignCausalBound` and so on), hence each indicator does; a pivot
    does because the bars that confirm it are before the row (`PivotsArePast`). Three
    places change the limit: the resampling (`ResampleCausal`), the close label
    (`CloseLabelCausal`) and the shift by one session, without which daily values would
    not be known by the label (`AlignDailyCausal`). The half about freshness is shown
    where the newest bar could be missed: `VwapIsFresh`, `HourAtrIsFresh`,
    `PriorCloseIsFresh`.
  - `PastStands`. Two columns are `Alike` up to T when they have the same rows and
    values there; the same chain of operations is gone through once more, to show that
    each takes columns alike up to T to columns alike up to T - which it would not if a
    bucket, a pivot or a mean of a past row could still change. One more session adds
    minutes and days after every T before it (`StoredMinutes`, `StoredDays`), and no
    row of a frame is later than its sessions (`PreparedRows`).
* **`EngineM5Proofs`**, for any symbols, limits and calendar.
  - One claim, the entry cap and the lockout are not inductive alone: the loops work
    on collections drawn up earlier (`todo`, `closing`), so `ClaimInv` adds that what
    a loop has still to visit is still there (`LoopsVisitClaims`), and that an order
    stands only for a symbol that was below its cap when it was placed - which no
    other step can raise, since a symbol has one claim.
  - `CountInv` adds the cardinalities: it relates the sets of held and pending symbols
    to slots and to the order counters. Each action moves one symbol, or, for a
    submission, a chosen set no larger than the free slots.
  - `ManagedAway` looks at the end of the close loop, so `ManagedInv` says of the loop
    that whoever must go is in `closing` or gone; the fills of the bar came before the
    decision, and nothing fills after it.
  - `EvalsAccounted` and `OrdersSurviveSubmission` are about steps: `TallyInv` says
    that a book's tally is empty until it submits, and the candidates turned away,
    ordered and left over are disjoint parts of those it evaluated.
  - `EngineM5` implements `OrderBook`. `WatchTheBar` maps to `UpdateWatchlist`
    because a symbol without a bar cannot signal (`NoBarNoSignal`) and the book that
    is off never leaves idle (`OffBookIdle`); everything else is the book's own action.
    The safety theorems then hold of the engine (`EngineIsSafe`).
  - `TriggerSignalsArePermitted` is not one of them: what makes it true is in the
    watchlist. `BypassInv` says that a path "B" is behind every armed dip, so that an
    evaluation on path "A" is one that this bar's trigger promoted, under its bias.
* **`WatchlistProofs`**, for any symbols, grace and calendar: `CandidatesGrounded` and
  `PathMatchesRoute`. Between the hold and the evaluation lie the trigger and, from
  bar to bar, a streak that two places reset. `ListInv` therefore says of every
  listed symbol, not only of the evaluated ones, that the streak never runs behind
  the bars since the gates last held, that its admission is of this session, and
  that an armed dip already carries its path.
* **`TradesProofs`**, about the machines of `MCTrades`.
  - M5 trade, for any prices, ATRs, slippage, equity and sizing factors:
    `PricesAreHonest` and `ExitsWithinStops`. A loss is bounded by the stop the trade
    opened with, but three rules write the stop in between, so `PriceInv` adds that it
    never falls behind the first one, nor behind the entry once it trails; and, for
    the budget, that the shares times the ATR are at most their part of the equity,
    which follows from no factor of the size exceeding one.
  - Daily trade, for any prices and hold: `DailyExitsWithinStops`. `DailyInv` adds
    that the stop lies between the entry and 1.5 ATR behind it: the trail tightens
    (`DailyStopTightens`, which no run needs to check besides), but never past the
    entry.
  - Guards, for any limits, pause and profits: `HaltsExact`. The code keeps a counter
    and a date, the property speaks of the exits since the rolls. `GuardsInv` says
    what they stand for: the counter is the run of stop-outs that ends with the last
    exit (`RunCounted`), the pause the latest end of any pause that an exit of this
    session started (`PauseKept`), and no exit lies in the future (`ExitsPast`).
  - Daily book, for any symbols, scores, sectors and caps: `BookFits` and
    `EntersOnLastBias`. The cap on positions holds because `Full` is asked anew for
    every order, whatever was drawn up; `BookInv` adds that each order still pending
    was permitted by the bias of the close that ordered it (`PendingPermitted`), and
    that a close draws nothing up for a list it did not build.
  - Tradeable lists, as lemmas on operators: `BuildTradeable` returns a list that
    `Fits` and `IsBest`, for every score (`ListIsGood`). Library induction takes an
    operator as a parameter; `NatInSet` does it for a set instead, from the
    well-foundedness of `<`, and with it a `FoldLeft` is unfolded into the lists it
    goes through (`FoldExists`, `FoldWalks`). The sorted candidates exist because the
    number of symbols before a symbol is its rank (`SortedListsAll`). `Grown` is the
    induction on the walk: after k candidates the list is within its caps, in the
    order of the ranks, and each candidate so far is on it or lost its place to
    better ones.
* **`CampaignProofs`**, for any cohorts, slots and invocations, with Ctrl-C and kills
  anywhere: `PoolableRuns`, `JobsAccounted`, `ImplementsLifecycle` and `PoolIsSound`.
  There are two invariants because an overlap ends one of them. `RowsInv` always
  holds: one invocation inserts the rows, a driver at work tracks every queued row
  (`QueueInv`), and a success has its results. `QuietInv` holds until jobs overlap:
  all jobs at work are the latest driver's and it polls each (`JobsInv`), a row's
  status says where its job is, and what a driver is about to write from an earlier
  look is still right when it writes (`PlanInv`). The parallel bound follows from
  the first, the reports and the lifecycle from the last two. `PoolInv` adds that the
  rows are complete as soon as their creation ended uncut. Each operation of the
  driver is first unfolded by a lemma of its own (`LaunchBecomes`, `PollExitBecomes`
  and so on), which the preservation lemmas then cite.
* **`BackfillProofs`**, for any symbols, bars, calendar, windows, tail and batch size,
  with visits that die anywhere. `BackfillInv` is one invariant in several parts, each
  kept by a lemma. For `DoneUnitsStored`, `BatchWritten` says that every symbol of a
  batch that is still to be recorded has its bars and the history its start; a visit
  writes only to units that are not done, which `CoverInv` says together with how far
  the visit has come in its window. The no-hole half of `RecordsCover` is the deeper
  one, because a unit that an earlier visit left as an error, or died on, is asked for
  again from another start and up to another end (`ChunkJoins`). If the new chunk ends
  before a bar that is stored, it does so because its script ended 24 hours ago
  (`WindowInv`, `BarsPast`), and the older chunk began with the period or more than 24
  hours ago (`AskedInv`), so that it has everything from there on: this is where the
  proof uses that the shortest span is two days or longer, which any `--years` of at
  least one is by far. An onboarding's tail begins at a bar its symbol has
  (`TailInv`, `TailJoins`), for which `TailsCatchUp` uses the same invariant. Newest
  bars are greatest elements of sets of numbers, taken from the well-foundedness of
  the order, which here replaces induction. `DoneStays` follows from the plan of a
  visit, which passes over what is done.
* **`NightlyProofs`**, for any stocks, endpoints, coverage and number of days, with
  nights that die and are run again: `NightIsRecorded` and `FlagsAndRuns`. Writes of
  one stage can be lost by the failure of another, since they share a connection.
  `ConnectionInv` says that they are not: what the connection sees is what is
  committed at every step, because the transactions that only read begin after the
  scan is saved, and one that failed stops the night there. `StageInv` says what each
  stage knows of its night: its date, that it is covered when it saves, and that
  maintenance visits onboarded names only. Of the scan, for any bars, corrections,
  listings, gates and target: `RescanAgrees` and `UniverseIsRanked`. `UniverseInv` says
  that a snapshot which nothing has disturbed is what a scan of its day would be now
  (`ScansStand`, from `ResultStays`: a scan reads the bars up to its day and the
  assets, and nothing else), and that who passed has its `AdvWindow` bars, which no
  later change takes away (`PassedOnBars`), so that its dollar volume is a number and
  the ranking an order. Both rest on a sum over a set being a natural number
  (`SumIsNat`) and on a rank naming one symbol (`RankedListsAll`), shown by an
  induction over subsets.
* **`RequestPacingProofs`**, for any ceiling, window, back-off and length of the calls:
  the ceiling (`WindowBound`) and the length of the queue (`QueueBound`). The deque is
  not the window: it forgets calls when it is asked, and holds one too many after a
  sleep. `PacingInv` relates the two: the deque is the end of the permits, what it has
  forgotten is stale (`QueueRemembers`), and a sleep that was computed before it is
  slept is long enough for the oldest call (`SleepsOut`). `WindowKept`, which adds
  the types of the request, is proved on the assumption that powers of two are
  natural numbers, which none of the provers knows.

What stays with TLC:

* Liveness and anything about `ENABLED`: `DriverReturns`, `RequestEnds`.
* That powers of two are natural numbers, which `WindowKept` assumes.
* The disagreements of section 5: each is one behaviour, which TLC finds.

## 5. Where the code and its documents disagree

Three disagreements are checked by a run and listed under `findings`:

* `scan/onboarding.py:103-106` says that without the tail-heal a symbol onboarded
  mid-year or mid-month "would otherwise permanently miss bars for the rest of
  that period on later maintenance runs", and that it heals "from the newest
  stored bar each visit". The newest bar is read after the two backfills (`:110`):
  a visit in the next period has by then stored the first days of that period,
  the tail starts there, and the rest of the period of the onboarding, whose unit
  is done, is never fetched. `MidPeriodHealed` fails in `backfill_midperiod`.
* `bias/daily_context.py:14-18` says that the audit of a breakout is False until "its
  own 3-session follow-through window" has closed, and
  `tests/unit/test_no_lookahead.py:15-17` leaves it out as "a retrospective audit
  [...] called after the fact, not a live per-bar signal". The suspect flag of day t
  (`:46`) calls it on the whole frame, which in a backtest has the days after t: the
  flag, and through its score the bias, of a day reads the sessions that follow.
  `BiasIsCausal` fails in `lookahead`; without the audit, it is a part of
  `FramesAreCausal` and holds.
* `backtest/aggregate.py:3-4` says that it "refuses partial campaigns". Rows are
  created one by one (`campaign.py:103`): a Ctrl-C between two of them leaves a
  campaign of fewer cohorts that a plain start refuses, and that `--resume` runs
  without creating the rest; it is then pooled. `PoolIsWhole` fails in
  `campaign_partial`.

The following were met while modelling. The models do what the code does; no run
states the document's side of them.

* **Running a backfill again.** `data/ingest.py:121-122` calls it "idempotent, resumable
  [...] over [start, end)" and "safe to interrupt and re-run". `year_chunks` and
  `month_chunks` cut the first and the last chunk to the window (`:57-58`, `:75-76`),
  but a unit is recorded under the key of its whole period. Run with `--years 1` and
  then with `--years 5`, a script succeeds and leaves the beginning of the year the
  first run began in out for ever. The end is cut likewise, at now - 24 hours
  (`scripts/backfill_intraday.py:41`): a script during a session on the first of a month
  records the month before as done without the rest of its last session. Both are
  behaviours of `Backfill`; what such a record does stand for is `DoneUnitsStored`.
* **Outages.** `scan/bars.py:11-12` says that the tail "self-heals to the newest stored
  bar, so a run after any outage catches up in one pass". The newest bar is that of any
  of the symbols (`:56`), read after the units of this visit: when a refresh dies
  between two symbols, and the next one, days later, has stored the second up to today,
  the tail starts `tail_days` back and the first keeps the days between as a hole. What
  a tail does make up for is `TailsCatchUp`.
* **Flip flattening.** `algo-spec/03-market-bias-engine.md:111-114` closes all
  opposing positions "on a full flip to the opposite side (BULL -> BEAR)".
  `bias/engine.py:151` compares adjacent bars, between which the hysteresis never
  goes from side to side: the flag is never set (`FlipNeverFires`, proved).
* **Permission of an order.** `algo-spec/07-risk-management.md:16` has the daily
  loss limit "flatten all, no entries until next session", and
  `03-market-bias-engine.md:108-110` stops new entries when the permission is
  removed. `engine_m5.py:491` fills pending orders without asking the guards, the
  window or the bias again, and a halt closes no position.
* **No overnight holds** (`07-risk-management.md:72`). `engine_m5.py:517` skips a
  symbol without a bar, the flattening at 15:55 included: one that does not
  print from 15:55 to the close is held overnight.
* **Sector cap.** The comment of `jobs/runner.py:136-141` has at most two
  onboarded symbols "listed/held simultaneously". The cap is one of a list
  (`engine_m5.py:736`): lists of successive bars can put more into the book.
* **Re-entry.** `algo-spec/05` section 5: "After a profit-take or RS-failure exit,
  the symbol returns to `QUALIFIED`". The watchlist moves on while a position is
  open and no exit touches it (`engine_m5.py:636`): the symbol may be in
  ENTRY_EVAL, and be ordered, on the bar of its exit.
* **Units of R.** `backtest/studies/walk_away_m5.py:11-13` takes the engine's
  `r_multiple` to be the price move over `STOP_ATR_MULT` entry ATRs;
  `engine_m5.py:602` divides by the distance of the stop as it stands at the exit.
* **Trail of the daily engine.** `algo-spec/05` section 4 trails at
  `max(EMA8 - 0.25 ATR, entry)`. `backtest/engine.py:280` takes the `min` of the
  two for longs (`max` for shorts), the clamp that `IMPLEMENTATION.md:752` reports
  as found and corrected in the M5 engine. A stop exit of the daily engine never
  wins (a part of `DailyExitsWithinStops`, proved).
* **Limits of exposure.** `algo-spec/07-risk-management.md:14-15` limits gross and
  sector exposure. No code computes either; the sector limit is one of a list.
* **Resuming over live jobs.** `scripts/run_campaign_500.py:8-11` calls Ctrl-C safe
  with `--resume` to re-attach. A resume launches the queued rows anew (`campaign.py:118`) and counts only
  its own jobs (`:185`): a job of the earlier driver that has not marked its row
  is started twice, the bound of `:17-18` is exceeded, and a row shown as succeeded
  can go back to running and end as failed. These are the states that
  `overlapped` marks, and the parallel bound, the reports and
  `ImplementsLifecycle` claim nothing of them.
* **Crash safety of a job.** `jobs/runner.py:3-5`: "any exception marks the run
  'failed'". Connecting, `init_schema`, reading the configuration and
  `mark_running` (`:90-98`) come before the `try` that records a failure.
* **Isolated screener.** `scan/nightly.py:4`: "a screener failure never blocks the
  scan snapshot". When Postgres refuses a screener row (`:115`), the transaction
  of the shared connection stays failed and the save of the scan raises.
* **Gates without a score.** `selection/scoring.py` gives no score without an
  `rvol_m5`, which no gate asks for: on such a bar a symbol passes its gates and
  has no score to qualify with.
* **Ablations.** With `vwap` or `rrs_m5` disabled at the gate, `confirm_trigger_entry_*`
  asks for both again (`ChecksAgree` is about the other cases); the crosscheck with
  QQQ keeps its threshold of 1.0, and the gate audit its defaults, whatever is
  configured.
* **Causal but stale.** `align_causal` (`data/resample.py`) also fills NaN inside its
  source from older rows. A session whose daily bars are not stored yet sees the
  day before yesterday, because the shift by one session has no row to move to
  (see `PastStands`). Rows of a stock on bars SPY did not print are dropped by
  the alignment to SPY's calendar, their exit signals with them.
* **Newest 500 runs.** `ui/data.py:104` groups campaigns from the newest 500 rows: the
  page shows a campaign with an older cohort as whole without it.
* **History cutoff.** `scripts/build_universe_500.py` asks for a first bar by a fixed
  date; a refresh reads five years back from its own date. A scan warehouse first
  filled five years after the cutoff has no eligible name, and the universe then has
  no top-up, without an error.

## 6. Not modelled, and why

* What an indicator's value *is*: floating-point arithmetic over whole histories.
  `Indicators` has when each value can be known, `RowChecks` what is made of it; the
  other models take verdicts as free choices, so nothing shown there depends on
  values. `indicators/cycle_oscillator.py` is used by a study only.
* Metrics and studies other than the gate audit: statistics over finished results.
* The watchlist of the daily engine apart: it is `next_state_long` of
  `WatchlistRules` on daily rows; `BookD1` takes its candidates as free scores.
* Configuration, YAML and serialisation; the study, tuning and enrichment scripts,
  which are loops over configurations.
* The UI beyond the Campaigns page reads the store, or calls `create_run` and
  `launch_run`, which `RunJobs` has. The arithmetic of an aggregation.
* Bars that appear while a visit of the warehouse is at work: a backfill of hours ends
  at what it read of the clock, or at a midnight to come, for which its last symbols
  may get a bar more than its first; the next tail brings those. Bars the vendor adds
  or corrects afterwards.
* Two drivers of one campaign at once; two clients against one vendor limit; a
  row left queued by a nightly job that dies before the launch. Those that can bite
  stand among the hazards with the reason.

## 7. Plan

Done, in this order: risk guards and bias; order book with its proofs; watchlist
and composition; one position; run store and campaign; ingest and pacing; the
daily book; the nightly job; the frames and rows of the signals; the daily trade and
the sizes; the pool of a campaign; the scan and its universe; proofs of both trades
and of the rows; proofs of the guards, the watchlist, the campaign and its pool, the
manifest, the nightly job and the limiter; proofs of the tradeable lists and the daily
book; proofs of the scan and its universe, and of the frames.

Next:

1. `Campaign` with two drivers at once, what a status may still do after an
   overlap, and the queued row that a nightly job leaves behind (`NightlyScan`
   with `RunJobs`).
2. Two clients against one vendor limit, with pages.
3. Gross exposure over the open positions of a book.
