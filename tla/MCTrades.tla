------------------------------ MODULE MCTrades ------------------------------
(* What becomes of trades and of the account: a behaviour is one trade of   *)
(* the M5 engine, one trade or the whole book of the D1 engine, or a week   *)
(* of closes under the risk guards; the machines that do not run keep one   *)
(* initial state.                                                           *)
EXTENDS PositionM5

CONSTANTS
  MaxHold,
  StopoutLimit, HaltBars, DailyLossPct, WeeklyLossPct,
  StartingEquity, Pnls, MaxBars, MaxExits,
  Symbols, Sector, MaxScore, TopList, TopTradeable, MaxPerSector,
  MaxConcurrentLong, MaxConcurrentShort, ShortsEnabled, BiasGateEnabled,
  BookHold, MaxDays

VARIABLES
  machine,                                      \* "m5", "d1", "book" or "guards"
  turn, pos, sold,                              \* of PositionD1
  risk, equity, bar, session, exits,            \* of RiskManager
  day, step, pending, position, bias, scored    \* of BookD1; step is its phase

D1 == INSTANCE PositionD1
Guards == INSTANCE RiskManager
Book == INSTANCE BookD1 WITH phase <- step, MaxHold <- BookHold

\* The modules that are not extended are held to their constants here.
ASSUME TradesConstants ==
  /\ D1!PositionD1Constants
  /\ Guards!RiskManagerConstants
  /\ Book!BookD1Constants

m5Vars == <<phase, waited, trade, shares, entry, stop, peak, engaged, out>>
d1Vars == <<turn, pos, sold>>
guardVars == <<risk, equity, bar, session, exits>>
bookVars == <<day, step, pending, position, bias, scored>>
allVars == <<machine, dir, now, m5Vars, d1Vars, guardVars, bookVars>>

MCInit ==
  /\ machine \in {"m5", "d1", "book", "guards"}
  /\ Init /\ D1!Init /\ Guards!Init /\ Book!Init
  /\ machine # "m5" => shares = 2       \* a size both directions can get
  /\ machine \notin {"m5", "d1"} => dir = "LONG"

MCNext ==
  \/ /\ machine = "m5" /\ Next
     /\ UNCHANGED <<machine, d1Vars, guardVars, bookVars>>
  \/ /\ machine = "d1" /\ D1!Next
     /\ UNCHANGED <<machine, m5Vars, guardVars, bookVars>>
  \/ /\ machine = "guards" /\ Guards!Next
     /\ UNCHANGED <<machine, dir, now, m5Vars, d1Vars, bookVars>>
  \/ /\ machine = "book" /\ Book!Next
     /\ UNCHANGED <<machine, dir, now, m5Vars, d1Vars, guardVars>>

MCSpec == MCInit /\ [][MCNext]_allVars

DailyExitsWithinStops == D1!DailyExitsWithinStops
DailyStopTightens == D1!DailyStopTightens
HaltsExact == machine = "guards" => Guards!HaltsExact
BookFits == machine = "book" => Book!BookFits
EntersOnLastBias == Book!EntersOnLastBias

\* Quotes from beyond the initial stop to beyond the trail trigger, for a long
\* and for a short.
Quotes == {4, 7, 10, 12, 14, 17, 20}
\* Two stop-outs pause, a loss of 2 units on 100 crosses the daily limit, two
\* the weekly one, and a win of 3 brings the account back.
MCPnls == {-2, -1, 3}
\* Four symbols of two sectors, compared as numbers to keep the dict's order.
MCSymbols == 1..4
MCSector == <<"tech", "tech", "energy", "energy">>
=============================================================================
