------------------------------ MODULE Coverage ------------------------------
(***************************************************************************)
(* What a calibration window is worth (rule 3.3): the verdict of           *)
(* core/evidence.on_baseline_end on each evidence path, from the rows that *)
(* were sampled on the ticks.  The floors and statistics themselves are    *)
(* data; a verdict says whether there is one and whether it may commit.    *)
(***************************************************************************)
EXTENDS Integers, Sequences, FiniteSets

CONSTANTS
  StatMinRows,      \* stat_min_rows; the form admits no less than 2
  EnergyQuantum,    \* energy_quantum
  StaleAfter        \* stale_after, the longest gap a window may have

ASSUME CoverageAssumption ==
  StatMinRows \in Nat \ {0, 1} /\ EnergyQuantum \in Nat /\ StaleAfter \in Nat

Channels == {"move", "still"}
Paths == Channels \X {"agg", "gate"}
Accepted == {"calibrated", "quiescent"}
Verdicts == Accepted \cup {"no_data", "rejected"}

(* A row: the tick it was sampled on, the aggregate energies, the energies *)
(* of the gates that are known, the channels observed since the last row,  *)
(* and whether any entity was.                                             *)
Missing == -1

(* One aggregate or gate column, the rows without a value left out *)
Aggregate(rows, c) ==
  LET known == SelectSeq(rows, LAMBDA r : r.agg[c] # Missing)
  IN  [i \in DOMAIN known |-> known[i].agg[c]]
GateColumn(rows, c, g) ==
  LET known == SelectSeq(rows, LAMBDA r : g \in DOMAIN r.gates[c])
  IN  [i \in DOMAIN known |-> known[i].gates[c][g]]

(* evidence._distinct: consecutive duplicates are one measurement *)
Distinct(column) ==
  Cardinality({i \in DOMAIN column : i = 1 \/ column[i] # column[i - 1]})

Quiescent(column) ==
  \A i, j \in DOMAIN column : column[i] - column[j] <= EnergyQuantum

(* evidence._assess_channel *)
Assess(column, fresh, observed) ==
  LET calibrated == Distinct(column) >= StatMinRows /\ fresh >= StatMinRows
      quiescent == /\ Len(column) >= StatMinRows /\ observed >= StatMinRows
                   /\ Quiescent(column)
  IN  CASE calibrated -> "calibrated"
        [] quiescent /\ ~calibrated -> "quiescent"
        [] column = <<>> -> "no_data"
        [] OTHER -> "rejected"

Observed(rows) == Len(SelectSeq(rows, LAMBDA r : r.observed))

AggregateVerdict(rows, c) ==
  LET fresh == SelectSeq(rows, LAMBDA r : c \in r.fresh /\ r.agg[c] # Missing)
  IN  Assess(Aggregate(rows, c), Len(fresh), Observed(rows))

(* A gate family is accepted whole: every owned gate has a floor, and the  *)
(* window a statistic over enough fresh rows unless no gate ever moves.    *)
FamilyVerdict(rows, c, owned) ==
  LET Fresh(g) == Len(SelectSeq(rows, LAMBDA r : /\ c \in r.fresh
                                                 /\ g \in DOMAIN r.gates[c]))
      verdict == [g \in owned |->
                    Assess(GateColumn(rows, c, g), Fresh(g), Observed(rows))]
      covering == SelectSeq(rows, LAMBDA r : DOMAIN r.gates[c] \cap owned # {})
      raws == SelectSeq(covering, LAMBDA r : c \in r.fresh)
      complete == \A g \in owned : verdict[g] \in Accepted
  IN  CASE covering = <<>> -> "no_data"
        [] covering # <<>> /\ complete /\ Len(raws) >= StatMinRows -> "calibrated"
        [] covering # <<>> /\ Len(raws) < StatMinRows
             /\ \A g \in owned : verdict[g] = "quiescent" -> "quiescent"
        [] OTHER -> "rejected"

(* The window covers the whole interval it stands for. *)
Covering(window) ==
  LET rows == window.rows
      seen == {i \in DOMAIN rows : rows[i].observed}
      times == {0, window.length} \cup {rows[i].at : i \in seen}
  IN  \A t \in times \ {window.length} :
        \E u \in times : t < u /\ u - t <= StaleAfter

Verdict(window, owned) ==
  LET assessed == [p \in Paths |->
        IF p[2] = "agg" THEN AggregateVerdict(window.rows, p[1])
                        ELSE FamilyVerdict(window.rows, p[1], owned)]
      sound == window.available /\ Covering(window)
  IN  [p \in Paths |->
         IF assessed[p] \in Accepted /\ ~sound THEN "rejected" ELSE assessed[p]]
=============================================================================
