--------------------------- MODULE TradeableList ---------------------------
(***************************************************************************)
(* build_tradeable_list (src/rs_spy/selection/watchlist.py): sort the      *)
(* scored symbols, keep the best top_n_list of them, and walk down the     *)
(* list with a cap per sector until top_n_tradeable are taken.  A score is *)
(* an integer; 0 stands for no score, NaN and all below min_list_score.    *)
(***************************************************************************)
EXTENDS Integers, FiniteSets, SequencesExt

CONSTANTS
  Sector,            \* sectors: the sector of a symbol, "Unknown" included
  TopList,           \* top_n_list
  TopTradeable,      \* top_n_tradeable
  MaxPerSector       \* max_per_sector

TradeableConstants ==
  /\ TopList \in Nat /\ MaxPerSector \in Nat
  /\ TopTradeable \in Nat \ {0}

\* sorted(key=-score) is stable: ties keep the order of the dict.
Before(score, s, t) == score[s] > score[t] \/ (score[s] = score[t] /\ s < t)
Listable(score) == {s \in DOMAIN score : score[s] > 0}

Sorted(score) ==
  CHOOSE q \in [1..Cardinality(Listable(score)) -> Listable(score)] :
    \A i, k \in DOMAIN q : i < k => Before(score, q[i], q[k])

Candidates(score) ==
  LET n == Cardinality(Listable(score))
  IN  SubSeq(Sorted(score), 1, IF n <= TopList THEN n ELSE TopList)

\* The list is not full, and sector_count of s leaves room.
HasRoom(list, s) ==
  /\ Len(list) < TopTradeable
  /\ Cardinality({i \in DOMAIN list : Sector[list[i]] = Sector[s]}) < MaxPerSector

BuildTradeable(score) ==
  FoldLeft(LAMBDA list, s : IF HasRoom(list, s) THEN Append(list, s) ELSE list,
           <<>>, Candidates(score))

-----------------------------------------------------------------------------
\* What a list must be to fit the book: distinct eligible symbols within both
\* caps.
Fits(score, list) ==
  /\ ToSet(list) \subseteq Listable(score)
  /\ Cardinality(ToSet(list)) = Len(list)
  /\ Len(list) <= TopTradeable
  /\ \A s \in ToSet(list) :
       Cardinality({t \in ToSet(list) : Sector[t] = Sector[s]}) <= MaxPerSector

\* What makes it the greedy optimum: it is in rank order, and a symbol left out
\* lost its place to symbols ranked before it -- the top_n_list cut, a full
\* list, or a full sector.
IsBest(score, list) ==
  LET better(s) == {t \in Listable(score) : Before(score, t, s)} IN
  /\ \A i, k \in DOMAIN list : i < k => Before(score, list[i], list[k])
  /\ \A s \in Listable(score) \ ToSet(list) :
       \/ Cardinality(better(s)) >= TopList
       \/ Len(list) = TopTradeable /\ ToSet(list) \subseteq better(s)
       \/ Cardinality({t \in ToSet(list) \cap better(s) : Sector[t] = Sector[s]})
            = MaxPerSector
=============================================================================
