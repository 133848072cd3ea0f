----------------------------- MODULE MCEngineM5 -----------------------------
(* A small instance of the engine: one symbol, so that four bars are enough  *)
(* to qualify, dip, be evaluated, fill and be stopped out.                   *)
EXTENDS EngineM5

MCSector == [s \in Symbols |-> "Tech"]
MCPnls == {-2, 1}
=============================================================================
