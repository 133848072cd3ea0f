---------------------------- MODULE MCOrderBook ----------------------------
(* Small instances of OrderBook: two interchangeable symbols of one sector. *)
EXTENDS OrderBook, TLC

MCSector == [s \in Symbols |-> "Tech"]
MCPnls == {-2, 1}
MCSymmetry == Permutations(Symbols)
=============================================================================
