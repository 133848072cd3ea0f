------------------------------ MODULE Backfill ------------------------------
(***************************************************************************)
(* One DuckDB warehouse and one timespan: the bars, the fetch manifest and *)
(* the visits that fill them.  A visit is a backfill script                *)
(* (data/ingest.py, backfill), a refresh of the scan warehouse             *)
(* (scan/bars.py, refresh_daily_bars) or the onboarding of a symbol        *)
(* (scan/onboarding.py, onboard_symbol); it may die between any two of its *)
(* writes.  DuckDB admits one writer, so one visit follows the other.      *)
(* Time is a line of instants, Day of them to 24 hours, and midnights its  *)
(* multiples; a bar is the instant of its label and is there from the next *)
(* instant on.  A unit of work is a symbol and a calendar period (a year   *)
(* or a month).                                                            *)
(***************************************************************************)
EXTENDS Integers, FiniteSets

CONSTANTS
  Symbols,      \* numbers, in the order of the caller's list
  Traded,       \* the instants the vendor has a bar of a symbol for
  Periods,      \* the number of calendar periods
  Starts,       \* the first instant of each period, and of the one after the last
  Day,          \* the instants of 24 hours
  Opened,       \* the instant the warehouse is created
  ScriptSpans,  \* how far back --years may make a script ask
  NightlySpan,  \* how far back a refresh and an onboarding ask
  Tail,         \* tail_days of refresh_daily_bars
  BatchSize     \* symbol_batch_size

Instants == Starts[0]..(Starts[Periods] - 1)

ASSUME BackfillConstants ==
  /\ Symbols \subseteq Nat /\ IsFiniteSet(Symbols)
  /\ Periods \in Nat \ {0}
  /\ Starts \in [0..Periods -> Nat]
  /\ \A u \in 0..(Periods - 1) : Starts[u] < Starts[u + 1]
  /\ Traded \in [Symbols -> SUBSET Instants]
  /\ Opened \in Instants
  /\ Day \in Nat \ {0} /\ Tail \in Nat /\ BatchSize \in Nat \ {0}
  /\ ScriptSpans \subseteq Nat /\ NightlySpan \in Nat
  /\ \A span \in ScriptSpans \cup {NightlySpan} : 2 * Day <= span

VARIABLES
  warehouse,  \* "main" (scripts and onboardings) or "scan" (nightly refreshes)
  now,        \* the instant
  bars,       \* bars: the instants stored, per symbol
  manifest,   \* fetch_manifest: the status, per symbol and period
  visit,      \* the visit under way: its pc and local variables
  asked       \* a history, per symbol and period: from where the bars last written
              \* were asked for, and how far those of a done unit reach

vars == <<warehouse, now, bars, manifest, visit, asked>>

Units == 0..(Periods - 1)
Done == {"ok", "empty"}
Earlier(a, b) == IF a < b THEN a ELSE b
Later(a, b) == IF a < b THEN b ELSE a

NoVisit == [pc |-> "idle", kind |-> "none", syms |-> {}, start |-> 0, end |-> 0,
            unit |-> 0, todo |-> {}, batch |-> {}, failed |-> FALSE, tailFrom |-> 0]

\* The bars of symbol s in [from, to).
Vendor(s, from, to) == {t \in Traded[s] : from <= t /\ t < to}

\* The visits a warehouse gets.
Kinds == IF warehouse = "main" THEN {"script", "onboard"} ELSE {"refresh"}

Init ==
  /\ warehouse \in {"main", "scan"}
  /\ now = Opened
  /\ bars = [s \in Symbols |-> {}]
  /\ manifest = [s \in Symbols |-> [u \in Units |-> "none"]]
  /\ visit = NoVisit
  /\ asked = [s \in Symbols |-> [u \in Units |->
                                       [from |-> Starts[u], to |-> Starts[u]]]]

\* A visit reads the clock at its start and lasts less than an instant.
Tick ==
  /\ visit.pc = "idle"
  /\ now + 1 \in Instants
  /\ now' = now + 1
  /\ UNCHANGED <<warehouse, bars, manifest, visit, asked>>

-----------------------------------------------------------------------------
\* A script asks up to 24 hours ago, wherever in a session that is; a night up to the
\* midnight (UTC) after its day in New York, which may just have gone by, and a refresh
\* also up to the one after an earlier day.
Ends(kind) ==
  IF kind = "script" THEN {now - Day}
  ELSE {e \in 0..(now + Day) : e % Day = 0 /\ (kind = "onboard" => now <= e)}

Spans(kind) == IF kind = "script" THEN ScriptSpans ELSE {NightlySpan}

\* The names with bars: the universe file, the vendor's assets and the most active
\* have no others.
Known == {s \in Symbols : Vendor(s, 0, now) # {}}

\* The visit is for [end - span, end); its first unit is the period of its start.
Begin(kind, syms, end, span) ==
  /\ visit.pc = "idle"
  /\ IF kind = "onboard" THEN Cardinality(syms) = 1 ELSE syms = Known
  /\ \E first \in 0..Periods :
       /\ \A u \in Units : u < first <=> Starts[u + 1] <= end - span
       /\ visit' = [NoVisit EXCEPT !.pc = "plan", !.kind = kind, !.syms = syms,
                      !.start = end - span, !.end = end, !.unit = first]
  /\ UNCHANGED <<warehouse, now, bars, manifest, asked>>

\* year_chunks, month_chunks: the periods that meet the window of the visit, and
\* the part of each that lies in it.
InWindow(u) == u \in Units /\ visit.start < Starts[u + 1] /\ Starts[u] < visit.end
ChunkStart(u) == Later(visit.start, Starts[u])
ChunkEnd(u) == Earlier(visit.end, Starts[u + 1])

PendingAll(syms, u) == syms
Pending(syms, u) == {s \in syms : manifest[s][u] \notin Done}

\* _batches: the next symbol_batch_size symbols in order.
NextBatch(todo) == {s \in todo : Cardinality({t \in todo : t < s}) < BatchSize}

\* The unit is at hand: what is left to do of it.
PlanUnit ==
  LET todo == Pending(visit.syms, visit.unit) IN
  /\ visit.pc = "plan"
  /\ InWindow(visit.unit)
  /\ visit' = IF todo = {} THEN [visit EXCEPT !.unit = @ + 1]
              ELSE [visit EXCEPT !.pc = "fetch", !.todo = todo,
                                 !.batch = NextBatch(todo)]
  /\ UNCHANGED <<warehouse, now, bars, manifest, asked>>

\* How far the answer for the chunk reaches: of the time to come there are no bars.
Reach(u) == Earlier(ChunkEnd(u), now)

\* The fetch raises: every symbol of the batch is to be marked.
FetchFails ==
  /\ visit.pc = "fetch"
  /\ visit' = [visit EXCEPT !.pc = "record", !.failed = TRUE]
  /\ UNCHANGED <<warehouse, now, bars, manifest, asked>>

\* The fetch returns.
Fetch ==
  /\ visit.pc = "fetch"
  /\ visit' = [visit EXCEPT !.pc = "write", !.failed = FALSE]
  /\ UNCHANGED <<warehouse, now, bars, manifest, asked>>

\* _write_bars upserts what it returned.
Write ==
  /\ visit.pc = "write"
  /\ bars' = [s \in Symbols |->
       IF s \in visit.batch
       THEN bars[s] \cup Vendor(s, ChunkStart(visit.unit), Reach(visit.unit))
       ELSE bars[s]]
  /\ asked' = [s \in Symbols |->
       IF s \in visit.batch
       THEN [asked[s] EXCEPT ![visit.unit].from = ChunkStart(visit.unit)]
       ELSE asked[s]]
  /\ visit' = [visit EXCEPT !.pc = "record"]
  /\ UNCHANGED <<warehouse, now, manifest>>

Outcome(s) ==
  IF visit.failed THEN "error"
  ELSE IF Vendor(s, ChunkStart(visit.unit), Reach(visit.unit)) # {} THEN "ok"
  ELSE "empty"

\* manifest.record, one committed row per symbol of the batch, in order.
RecordEarly(s) ==
  /\ visit.pc \in {"write", "record"}
  /\ s \in visit.batch /\ \A t \in visit.batch : s <= t
  /\ manifest' = [manifest EXCEPT ![s][visit.unit] = Outcome(s)]
  /\ visit' = IF visit.pc = "write" THEN visit
              ELSE [visit EXCEPT !.batch = @ \ {s}, !.todo = @ \ {s}]
  /\ asked' = IF Outcome(s) = "error" THEN asked
              ELSE [asked EXCEPT ![s][visit.unit] =
                      [from |-> ChunkStart(visit.unit), to |-> Reach(visit.unit)]]
  /\ UNCHANGED <<warehouse, now, bars>>
Record(s) ==
  /\ visit.pc = "record"
  /\ s \in visit.batch /\ \A t \in visit.batch : s <= t
  /\ manifest' = [manifest EXCEPT ![s][visit.unit] = Outcome(s)]
  /\ visit' = [visit EXCEPT !.batch = @ \ {s}, !.todo = @ \ {s}]
  /\ asked' = IF Outcome(s) = "error" THEN asked
              ELSE [asked EXCEPT ![s][visit.unit] =
                      [from |-> ChunkStart(visit.unit), to |-> Reach(visit.unit)]]
  /\ UNCHANGED <<warehouse, now, bars>>

\* The batch is recorded: the next one, or the next unit.
NextFetch ==
  /\ visit.pc = "record" /\ visit.batch = {}
  /\ visit' = IF visit.todo = {}
              THEN [visit EXCEPT !.pc = "plan", !.unit = @ + 1]
              ELSE [visit EXCEPT !.pc = "fetch", !.batch = NextBatch(visit.todo)]
  /\ UNCHANGED <<warehouse, now, bars, manifest, asked>>

-----------------------------------------------------------------------------
\* The newest instant stored of any of the symbols, at least "floor".
Newest(stored, floor) ==
  CHOOSE d \in stored \cup {floor} : \A e \in stored \cup {floor} : e <= d

\* The instant from which the tail is fetched again: for a refresh, tail_days back
\* or the newest bar of all its symbols; for an onboarding, the newest bar of its
\* symbol.
TailStartFixed(stored) == visit.end - Tail
TailStartNewest(stored) == IF stored = {} THEN visit.end - Tail ELSE Newest(stored, 0)
TailStart(stored) ==
  LET newest == Newest(stored, 0)
      fixed == visit.end - Tail
  IN IF visit.kind = "onboard" THEN newest
     ELSE IF stored # {} /\ newest < fixed THEN newest ELSE fixed

\* The units are done: the script returns, a nightly visit goes on to the tail,
\* an onboarding only when something is stored.
EndOfUnits ==
  LET stored == UNION {bars[s] : s \in visit.syms}
      tail == visit.kind = "refresh" \/ (visit.kind = "onboard" /\ stored # {})
  IN /\ visit.pc = "plan"
     /\ ~InWindow(visit.unit)
     /\ visit' = IF tail
                 THEN [visit EXCEPT !.pc = "tail", !.tailFrom = TailStart(stored),
                                    !.todo = visit.syms]
                 ELSE [visit EXCEPT !.pc = "done"]
     /\ UNCHANGED <<warehouse, now, bars, manifest, asked>>

\* One batch of the tail is fetched and written; the manifest is not told.
TailBatch ==
  LET batch == NextBatch(visit.todo) IN
  /\ visit.pc = "tail" /\ visit.todo # {}
  /\ bars' = [s \in Symbols |->
       IF s \in batch
       THEN bars[s] \cup Vendor(s, visit.tailFrom, Earlier(visit.end, now))
       ELSE bars[s]]
  /\ visit' = [visit EXCEPT !.todo = @ \ batch]
  /\ UNCHANGED <<warehouse, now, manifest, asked>>

EndOfTail ==
  /\ visit.pc = "tail" /\ visit.todo = {}
  /\ visit' = [visit EXCEPT !.pc = "done"]
  /\ UNCHANGED <<warehouse, now, bars, manifest, asked>>

Return ==
  /\ visit.pc = "done"
  /\ visit' = NoVisit
  /\ UNCHANGED <<warehouse, now, bars, manifest, asked>>

\* The process is killed, or an exception leaves the visit: a fetch of the tail
\* is not guarded.
Die ==
  /\ visit.pc \notin {"idle", "done"}
  /\ visit' = NoVisit
  /\ UNCHANGED <<warehouse, now, bars, manifest, asked>>

Work ==
  \/ PlanUnit
  \/ FetchFails
  \/ Fetch
  \/ Write
  \/ \E s \in Symbols : Record(s)
  \/ NextFetch
  \/ EndOfUnits
  \/ TailBatch
  \/ EndOfTail
  \/ Return

Next ==
  \/ Tick
  \/ \E kind \in Kinds, syms \in SUBSET Known :
       \E end \in Ends(kind), span \in Spans(kind) : Begin(kind, syms, end, span)
  \/ Work
  \/ Die

Spec == Init /\ [][Next]_vars

-----------------------------------------------------------------------------
TypeOK ==
  /\ warehouse \in {"main", "scan"}
  /\ now \in Instants
  /\ bars \in [Symbols -> SUBSET Instants]
  /\ manifest \in [Symbols -> [Units -> Done \cup {"none", "error"}]]
  /\ visit \in [pc: {"idle", "plan", "fetch", "write", "record", "tail", "done"},
                kind: Kinds \cup {"none"}, syms: SUBSET Symbols, start: Int, end: Int,
                unit: 0..Periods, todo: SUBSET Symbols, batch: SUBSET Symbols,
                failed: BOOLEAN, tailFrom: Int]
  /\ asked \in [Symbols -> [Units -> [from: Nat, to: Int]]]

\* "A unit is only 'ok' or 'empty' once its bar rows (if any) have been durably
\* written" (data/manifest.py): whatever visits fail and wherever they die, a done
\* unit stores all that the vendor had of the part of it that the recorded request
\* asked for, and it is 'empty' only if the vendor had nothing there.  The part is
\* the whole period only if the window of the visit took in the whole of it: the
\* rest of it is never asked for again.
DoneUnitsStored ==
  \A s \in Symbols, u \in Units :
    LET had == Vendor(s, asked[s][u].from, asked[s][u].to) IN
    /\ manifest[s][u] \in Done => had \subseteq bars[s]
    /\ manifest[s][u] = "empty" => had = {}

\* A visit that returns has left no unit of its window without a record, so
\* that an error or a done unit is all a later one can find.
VisitCovers ==
  visit.pc = "done" =>
    \A s \in visit.syms, u \in Units : InWindow(u) => manifest[s][u] # "none"

\* What is done stays done: no later visit, failing, marks it as an error.
DoneStays ==
  [][ \A s \in Symbols, u \in Units :
        manifest[s][u] \in Done => manifest'[s][u] \in Done ]_vars

\* From where the bars last written of a period were asked for, the symbol has no bar
\* missing before one that is stored of the period.
NoHoleIn(s, u) ==
  LET stored == {d \in bars[s] : Starts[u] <= d /\ d < Starts[u + 1]} IN
  \A d \in stored : Vendor(s, asked[s][u].from, d) \subseteq stored

\* In the main warehouse, filled by scripts and onboardings with windows that begin and
\* end anywhere and that die anywhere, what is stored of a period is in one piece from
\* where it was last asked for: a bar is missing before a stored one only if the window
\* of that visit began after it.  The tail of an onboarding joins what is stored.
PeriodsJoin ==
  warehouse = "main" => \A s \in Symbols, u \in Units : NoHoleIn(s, u)

\* The manifest records every visit that returned, and the bars are what its
\* records and the tails allow.
RecordsCover == TypeOK /\ VisitCovers /\ PeriodsJoin

\* How far the window of the visit reaches into what there is.
Until == Earlier(visit.end, now)

\* "always re-fetches a recent tail unconditionally" (scan/bars.py): a refresh that
\* returns has stored the last tail_days of each of its symbols, and an onboarding that
\* has anything stored the whole period it ends in, from where that was last asked
\* for, whichever of their units failed now or were marked done in part before.
TailsCatchUp ==
  visit.pc = "done" =>
    \A s \in visit.syms :
      /\ visit.kind = "refresh" => Vendor(s, visit.end - Tail, Until) \subseteq bars[s]
      /\ (visit.kind = "onboard" /\ bars[s] # {}) =>
           \A u \in Units : (Starts[u] < visit.end /\ visit.end <= Starts[u + 1]) =>
             Vendor(s, asked[s][u].from, Until) \subseteq bars[s]

-----------------------------------------------------------------------------
\* The visit succeeded: it returned, and none of its units is an error.
Succeeded ==
  /\ visit.pc = "done"
  /\ \A s \in visit.syms, u \in Units : manifest[s][u] # "error"

\* "a symbol onboarded mid-year/mid-month would otherwise permanently miss bars
\* for the rest of that period on later maintenance runs. Tail-heal both
\* cadences from the newest stored bar each visit"
\* (src/rs_spy/scan/onboarding.py:103-106): an onboarding that succeeds, in a warehouse
\* that only onboardings write, has all there is of its window.
MidPeriodHealed ==
  (Succeeded /\ visit.kind = "onboard") =>
    \A s \in visit.syms : Vendor(s, visit.start, Until) \subseteq bars[s]
=============================================================================
