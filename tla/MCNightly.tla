----------------------------- MODULE MCNightly -----------------------------
(* What the nights leave behind: a behaviour runs the nightly job over its   *)
(* stores, or scans and ranks the universe over bars that go on arriving.    *)
EXTENDS NightlyScan

CONSTANTS
  Assets, Curated, Labelled, Quotes, ScanDays, AdvWindow, MinPrice, MinShares, MinDollars,
  MinCoverage, MaxChanges, Cutoff, Target, MaxScanAge

VARIABLES
  machine,                                             \* "night" or "universe"
  day, bars, listed, scans, universe, disturbed, changes     \* of UniverseScan

\* One asset is traded a lot or a little, the other is dear or cheap, so that each
\* gate fails somewhere and either may rank above the other.
MCQuotes == <<{[close |-> 5, volume |-> 4], [close |-> 5, volume |-> 2]},
              {[close |-> 5, volume |-> 4], [close |-> 1, volume |-> 9]}>>

Universe == INSTANCE UniverseScan WITH
  Symbols <- Assets, MaxDay <- ScanDays

\* A module that is not extended is held to its constants here.
ASSUME ScanConstants == Universe!UniverseConstants

universeVars == <<day, bars, listed, scans, universe, disturbed, changes>>
allVars == <<machine, vars, universeVars>>

MCInit == machine \in {"night", "universe"} /\ Init /\ Universe!Init

MCNext ==
  \/ machine = "night" /\ Next /\ UNCHANGED <<machine, universeVars>>
  \/ machine = "universe" /\ Universe!Next /\ UNCHANGED <<machine, vars>>

MCSpec == MCInit /\ [][MCNext]_allVars

RescanAgrees == Universe!RescanAgrees
UniverseIsRanked == Universe!UniverseIsRanked
=============================================================================
