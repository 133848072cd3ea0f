---------------------------- MODULE UniverseScan ----------------------------
(***************************************************************************)
(* The scan of the universe (src/rs_spy/scan/engine.py) as it is used: run *)
(* tonight, or again for a day gone by, over daily bars that went on       *)
(* arriving; and build_universe_500.py, which ranks a universe from the    *)
(* newest stored scan.  "One code path" serves both: a past scan must come *)
(* out as it did, which is what makes the reconstruction point-in-time.    *)
(***************************************************************************)
EXTENDS Integers, Sequences, FiniteSetsExt, Functions

CONSTANTS
  Symbols,      \* the assets, as numbers: their order is the alphabet's
  Curated,      \* trade symbols of universe.yaml
  Labelled,     \* symbols with a sector in sectors_500.yaml
  Quotes,       \* bound: what a daily bar of each may say: [close, volume]
  MaxDay,       \* bound: the last day
  MaxChanges,   \* bound: late or corrected bars, and listings that change
  AdvWindow, MinPrice, MinShares, MinDollars,    \* ScanConfig
  MinCoverage,  \* min_coverage_fraction, in hundredths
  Cutoff, Target, MaxScanAge     \* HISTORY_CUTOFF, TARGET_SIZE, MAX_SCAN_AGE_DAYS

\* What the code has of its constants; MCNightly evaluates it.
UniverseConstants ==
  /\ Symbols \subseteq Nat /\ IsFiniteSet(Symbols) /\ Curated \subseteq Symbols
  /\ Quotes \in [Symbols -> SUBSET [close: Nat \ {0}, volume: Nat]]
  /\ AdvWindow \in Nat \ {0} /\ MaxDay \in Nat \ {0}
  /\ MinCoverage \in 1..100 /\ Target \in Nat

VARIABLES
  day,          \* _today_et, date.today
  bars,         \* scan warehouse, timespan 'day'
  listed,       \* fetch_assets: the current assets that pass the listing gate
  scans,        \* universe_snapshots per scan_date
  universe,     \* universe_500.yaml: the top-up and the scan it was ranked from
  disturbed,    \* history: days whose scan saw other bars, or other assets,
                \* than are there now
  changes       \* how many of the MaxChanges there were

vars == <<day, bars, listed, scans, universe, disturbed, changes>>

Dates == 1..MaxDay
Unprinted == [close |-> 0, volume |-> 0]      \* no row for the day
NoScan == <<>>
NoUniverse == [from |-> 0, topup |-> <<>>]

Init ==
  /\ day = 0
  /\ bars = [s \in Symbols |-> [d \in Dates |-> Unprinted]]
  /\ listed = Symbols
  /\ scans = [d \in Dates |-> NoScan]
  /\ universe = NoUniverse
  /\ disturbed = {}
  /\ changes = 0

-----------------------------------------------------------------------------
\* compute_scan_metrics: the days whose bars the query admits, newest first, and
\* the AdvWindow newest of them.
AdmittedAll(s, d) == {x \in Dates : bars[s][x] # Unprinted}
Admitted(s, d) == {x \in 1..d : bars[s][x] # Unprinted}
AdvDays(s, d) ==
  LET days == Admitted(s, d)
  IN  {x \in days : Cardinality({y \in days : y > x}) < AdvWindow}
Metrics(s, d) ==
  LET days == AdvDays(s, d) IN
  [n |-> Cardinality(days),
   close |-> IF days = {} THEN 0 ELSE bars[s][Max(days)].close,
   shares |-> SumFunction([x \in days |-> bars[s][x].volume]),
   dollars |-> SumFunction([x \in days |-> bars[s][x].close * bars[s][x].volume])]

\* apply_gates: the first gate that fails.  A close or an average over no bars
\* is NaN and fails.
GateOrder == <<"listing", "coverage", "price", "adv_shares", "adv_dollars">>
GateOk(gate, s, m) ==
  CASE gate = "listing"     -> s \in listed
    [] gate = "coverage"    -> m.n >= AdvWindow
    [] gate = "price"       -> m.n > 0 /\ m.close >= MinPrice
    [] gate = "adv_shares"  -> m.n > 0 /\ m.shares >= MinShares * m.n
    [] gate = "adv_dollars" -> m.n > 0 /\ m.dollars >= MinDollars * m.n
Evaluated(s, m) ==
  LET failed == {i \in DOMAIN GateOrder : ~GateOk(GateOrder[i], s, m)}
  IN  [verdict |-> IF failed = {} THEN "passed" ELSE GateOrder[Min(failed)],
       dollars |-> m.dollars]
Result(d) == [s \in Symbols |-> LET m == Metrics(s, d) IN Evaluated(s, m)]

\* ScanCoverageError: too few of the listing-eligible symbols printed that day.
Refused(d) ==
  \/ listed = {}
  \/ 100 * Cardinality({s \in listed : bars[s][d] # Unprinted})
       < MinCoverage * Cardinality(listed)

\* run_universe_scan and save_scan: the rows of the date are replaced.
Scan(d) ==
  /\ ~Refused(d)
  /\ scans' = [scans EXCEPT ![d] = Result(d)]
  /\ disturbed' = disturbed \ {d}
  /\ UNCHANGED <<day, bars, listed, universe, changes>>

\* refresh_daily_bars: the bars of the day, of the symbols that printed one.
NextDay ==
  /\ day < MaxDay
  /\ day' = day + 1
  /\ \E tonight \in [Symbols -> UNION {Quotes[s] : s \in Symbols} \cup {Unprinted}] :
       /\ \A s \in Symbols : tonight[s] \in Quotes[s] \cup {Unprinted}
       /\ bars' = [s \in Symbols |-> [bars[s] EXCEPT ![day + 1] = tonight[s]]]
  /\ UNCHANGED <<listed, scans, universe, disturbed, changes>>

\* A bar of the tail the vendor was late with, or has corrected.
Arrive(s, d) ==
  /\ changes < MaxChanges /\ changes' = changes + 1
  /\ \E quote \in Quotes[s] \ {bars[s][d]} : bars' = [bars EXCEPT ![s][d] = quote]
  /\ disturbed' = disturbed \cup d..MaxDay
  /\ UNCHANGED <<day, listed, scans, universe>>

\* The vendor lists or delists an asset: every scan sees the current listing.
Relist(s) ==
  /\ changes < MaxChanges /\ changes' = changes + 1
  /\ listed' = (listed \ {s}) \cup ({s} \ listed)
  /\ disturbed' = Dates
  /\ UNCHANGED <<day, bars, scans, universe>>

-----------------------------------------------------------------------------
\* build_universe_500.py.
Scanned == {d \in Dates : scans[d] # NoScan}
LatestScan == Max(Scanned)

\* select_topup: passing, not curated, with a first bar by the cutoff.
EligibleUncut(d) == {s \in Symbols \ Curated : scans[d][s].verdict = "passed"}
Eligible(d) ==
  {s \in Symbols \ Curated :
     /\ scans[d][s].verdict = "passed"
     /\ Admitted(s, MaxDay) # {} /\ Min(Admitted(s, MaxDay)) <= Cutoff}

Outranks(d, r, s) ==
  \/ scans[d][r].dollars > scans[d][s].dollars
  \/ scans[d][r].dollars = scans[d][s].dollars /\ r < s
Needed == Max({0, Target - Cardinality(Curated)})
\* The eligible by dollars, ties by name, and the first of them.
Ranked(d) ==
  CHOOSE q \in [1..Cardinality(Eligible(d)) -> Eligible(d)] :
    \A i, k \in DOMAIN q : i < k => Outranks(d, q[i], q[k])
TopUp(d) == SubSeq(Ranked(d), 1, Min({Needed, Cardinality(Eligible(d))}))

\* More than a tenth of the top-up without a sector is refused.
TooManyUnknown(topup) ==
  10 * Cardinality({i \in DOMAIN topup : topup[i] \notin Labelled}) > Len(topup)

BuildUniverse ==
  LET topup == TopUp(LatestScan) IN
  /\ Scanned # {}
  /\ day - LatestScan <= MaxScanAge
  /\ \E allowUnknown \in BOOLEAN : allowUnknown \/ ~TooManyUnknown(topup)
  /\ universe' = [from |-> LatestScan, topup |-> topup]
  /\ UNCHANGED <<day, bars, listed, scans, disturbed, changes>>

Next ==
  \/ NextDay
  \/ \E d \in 1..day : Scan(d) \/ \E s \in Symbols : Arrive(s, d)
  \/ \E s \in Symbols : Relist(s)
  \/ BuildUniverse

Spec == Init /\ [][Next]_vars

-----------------------------------------------------------------------------
\* "as_of=any past trading date reconstructs the universe as it would have been"
\* (scan/engine.py:125-127): scanning a day again, on any later day, changes its
\* snapshot only if a bar of that day or before it arrived, or the assets
\* changed, since it was scanned.
RescanAgrees ==
  [][ \A d \in Scanned : scans'[d] # scans[d] => d \in disturbed ]_vars

\* The written universe is ranked from the newest scan, which is fresh: every
\* name passed it, has the bars it passed on and reaches back to the cutoff,
\* and none outside was passed over for a worse one.
UniverseIsRanked ==
  [][ universe' # universe =>
        LET from == universe'.from
            chosen == {universe'.topup[i] : i \in DOMAIN universe'.topup}
        IN
        /\ day - from <= MaxScanAge /\ \A d \in Scanned : d <= from
        /\ Cardinality(Curated) + Cardinality(chosen) <= Max({Target, Cardinality(Curated)})
        /\ \A s \in chosen :
             /\ s \notin Curated /\ scans[from][s].verdict = "passed"
             /\ Cardinality(Admitted(s, from)) >= AdvWindow
             /\ \E x \in Dates : x <= Cutoff /\ bars[s][x] # Unprinted
        /\ Cardinality(chosen) < Needed => Eligible(from) \subseteq chosen
        /\ \A r \in Eligible(from) \ chosen, s \in chosen : Outranks(from, s, r) ]_vars
=============================================================================
