------------------------------ MODULE RowWalk ------------------------------
(***************************************************************************)
(* Rows that differ from a flawless long or short candidate in a few       *)
(* readings, one after the other, and what the checks of RowChecks say of  *)
(* them together.                                                          *)
(***************************************************************************)
EXTENDS RowChecks, FiniteSets

CONSTANT MaxOff      \* bound: readings that differ from the first row

VARIABLES row, off, disabled, crosscheck

vars == <<row, off, disabled, crosscheck>>

Negated(x) == IF x = Missing THEN Missing ELSE -x
\* The same row seen from the other side of the market.
Mirror(r) ==
  [r EXCEPT !.rrs_m5 = Negated(@), !.rrs_qqq = Negated(@), !.rrs_d1 = Negated(@),
            !.ha = Negated(@), !.over = Negated(@), !.extended = Negated(@),
            !.pc = Negated(@), !.bench = Negated(@),
            !.stack = CASE @ = "ABOVE_ALL" -> "BELOW_ALL"
                        [] @ = "BELOW_ALL" -> "ABOVE_ALL"
                        [] OTHER -> @,
            !.room_long = r.room_short, !.room_short = r.room_long]

Candidate ==
  [price |-> TRUE, adv |-> TRUE, blackout |-> FALSE, wonder |-> FALSE, gap |-> TRUE,
   rrs_m5 |-> 4, rrs_qqq |-> 4, rrs_d1 |-> 4, ha |-> 3, stack |-> "ABOVE_ALL",
   room_long |-> 4, room_short |-> 4, volume |-> 3, rvol |-> 3, over |-> 1,
   extended |-> 0, pc |-> 1, bench |-> -2, std |-> 1]

\* The values a reading may take, on both sides of every threshold.
Values(f) ==
  CASE f \in {"price", "adv", "blackout", "wonder", "gap"} -> BOOLEAN
    [] f = "stack" -> {"ABOVE_ALL", "BELOW_ALL", "MIXED", "None"}
    [] f \in {"rrs_m5", "rrs_qqq", "rrs_d1"} -> {-7, -4, -2, -1, 0, 1, 2, 4, 7, Missing}
    [] f = "ha" -> {-5, -2, -1, 0, 1, 2, 5, Missing}
    [] f \in {"room_long", "room_short"} -> {1, 2, 3, Missing}
    [] f \in {"volume", "rvol", "std"} -> {0, 1, 2, 5, Missing}
    [] f \in {"over", "pc"} -> {-1, 0, 1, Missing}
    [] f \in {"extended", "bench"} -> {-3, -2, -1, 0, 1, 2, 3, Missing}

Init ==
  /\ row \in {Candidate, Mirror(Candidate)}
  /\ off = {}
  /\ disabled \in {D \in SUBSET HardRules : Cardinality(D) <= 1} \cup {HardRules}
  /\ crosscheck \in BOOLEAN

Read ==
  /\ Cardinality(off) < MaxOff
  /\ \E f \in DOMAIN row \ off : \E v \in Values(f) :
       /\ row' = [row EXCEPT ![f] = v]
       /\ off' = off \cup {f}
  /\ UNCHANGED <<disabled, crosscheck>>

Finished == Cardinality(off) = MaxOff /\ UNCHANGED vars

Next == Read \/ Finished
Spec == Init /\ [][Next]_vars
-----------------------------------------------------------------------------
\* The short twin of every check says of a row what the long one says of its mirror
\* image: gates of either cadence, with and without the hold's exceptions, scores,
\* the reconfirmation and the audit.  They are kept in step by hand.
SidesMirror ==
  LET m == Mirror(row) IN
  /\ row \in Row
  /\ GatesShort(row, RrsD1, disabled) = GatesLong(m, RrsD1, disabled)
  /\ GateShort(row, crosscheck, disabled) = GateLong(m, crosscheck, disabled)
  /\ HoldShort(row, crosscheck, disabled) = HoldLong(m, crosscheck, disabled)
  /\ ConfirmShort(row) = ConfirmLong(m)
  /\ ScoreShort(row) = ScoreLong(m)
  /\ ScoreShortM5(row) = ScoreLongM5(m)
  /\ AuditChecksShort(row) = AuditChecksLong(m)
  /\ AuditShort(row, crosscheck, disabled) = AuditLong(m, crosscheck, disabled)

\* The checks that judge one row in several places agree.  A row with green gates
\* holds its candidate in d1_session mode.  A trigger that finds the gates green is
\* turned down by the reconfirmation only for an extended price, unless an ablation
\* disabled the very gates it repeats.  No row is a candidate of both books unless
\* every rule that tells the sides apart is disabled.  The audit's joint gate is its
\* checks together with the blackout and the crosscheck it does not list.
ChecksAgree ==
  /\ GateLong(row, crosscheck, disabled) => HoldLong(row, crosscheck, disabled)
  /\ GateShort(row, crosscheck, disabled) => HoldShort(row, crosscheck, disabled)
  /\ disabled \cap {"rrs_m5", "vwap"} = {} =>
       /\ GateLong(row, crosscheck, disabled) =>
            (ConfirmLong(row) <=> AtMost(row.extended, NotExtended))
       /\ GateShort(row, crosscheck, disabled) =>
            (ConfirmShort(row) <=> AtLeast(row.extended, -NotExtended))
  /\ GateLong(row, crosscheck, disabled) /\ GateShort(row, crosscheck, disabled)
       => HardRules \subseteq disabled
  /\ ~row.blackout => (AuditLong(row, FALSE, {}) <=> AuditChecksLong(row) = {TRUE})
  /\ ~row.blackout => (AuditShort(row, FALSE, {}) <=> AuditChecksShort(row) = {TRUE})
=============================================================================
