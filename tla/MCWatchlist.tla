---------------------------- MODULE MCWatchlist ----------------------------
EXTENDS Watchlist, TLC

\* The symbols are interchangeable: every action treats them alike.
MCSymmetry == Permutations(Symbols)
=============================================================================
