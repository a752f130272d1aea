---------------------------- MODULE ForecastEvidence ----------------------------
(***************************************************************************)
(* What an observation says of a forecast point. The scorer decides it in   *)
(* Python, over rows it has read (forecast_actuals); a read-only comparison *)
(* decides it again, in SQL (forecast_comparison_read_only).                *)
(*                                                                         *)
(* An observation has its slot, the house's power and its baseline, its     *)
(* health and eligibility and whether it was excluded as negative. There is *)
(* one for each slot, at most. A mean is the pair (sum, count).             *)
(***************************************************************************)
EXTENDS Readings

Full == "full_5m_v1"
Legacy == "legacy_execution_time"

\* Only the explicit version counts; anything else is legacy.
AlignmentVersion(metadata) == IF metadata = Full THEN Full ELSE Legacy

\* The first slot boundary at or after the creation of a run, and its end.
OperationalWindow(created, slots) ==
  LET start == ((created + Slot - 1) \div Slot) * Slot
  IN  <<start, start + slots * Slot>>

SlotMatches(slot, from, to, version) ==
  IF version = Full THEN slot = from ELSE from <= slot /\ slot < to

\* Mutant of IntervalRows: the interval includes its end.
IntervalRowsClosed(rows, from, to, version) ==
  {r \in rows : IF version = Full THEN r.slot = from
                ELSE from <= r.slot /\ r.slot <= to}

IntervalRows(rows, from, to, version) ==
  {r \in rows : SlotMatches(r.slot, from, to, version)}

Negative(power) == power # None /\ power < -1

MeanOf(Value(_), rows) == <<MapThenSumSet(Value, rows), Cardinality(rows)>>

----------------------------------------------------------------------------
(* The scorer.                                                              *)

EvaluateActual(rows) ==
  LET available == {r \in rows : r.baseline # None}
      negative == {r \in rows : Negative(r.house)}
      invalid == \E r \in rows : Negative(r.house) \/ r.negative
      eligible == {r \in available : ~Negative(r.house) /\ r.healthy /\ r.eligible}
      valid == eligible # {} /\ ~invalid
      Baseline(r) == r.baseline
      actual == CASE valid -> MeanOf(Baseline, eligible)
                  [] ~valid /\ negative # {} -> MeanOf(LAMBDA r : r.house, negative)
                  [] ~valid /\ negative = {} /\ available # {} -> MeanOf(Baseline, available)
                  [] OTHER -> None
  IN  [actual |-> actual, available |-> actual # None, eligible |-> valid,
       reason |-> CASE rows = {} -> "no_observation"
                    [] rows # {} /\ invalid -> "invalid_actual_negative_household_demand"
                    [] rows # {} /\ ~invalid /\ available = {} -> "actual_value_missing"
                    [] rows # {} /\ ~invalid /\ available # {} /\ eligible = {} ->
                         "actual_unhealthy_or_ineligible"
                    [] OTHER -> None]

\* What is stored for a point, given the run's metadata.
Scored(observations, from, to, metadata) ==
  EvaluateActual(IntervalRows(observations, from, to, AlignmentVersion(metadata)))

----------------------------------------------------------------------------
(* The comparison.                                                          *)

\* avg ignores missing values, and is missing when there are none.
Average(rows) ==
  LET known == {r \in rows : r.baseline # None}
  IN  IF known = {} THEN None ELSE MeanOf(LAMBDA r : r.baseline, known)

Compared(observations, from, to, metadata) ==
  LET rows == {r \in observations :
                 SlotMatches(r.slot, from, to, AlignmentVersion(metadata))}
      actual == IF \E r \in rows : Negative(r.house) \/ r.negative THEN None
                ELSE Average({r \in rows : /\ r.healthy /\ r.eligible
                                           /\ r.house = None \/ r.house >= -1})
  IN  [actual |-> actual,
       reason |-> CASE actual # None -> None
                    [] actual = None /\ Average(rows) # None ->
                         "actual_unhealthy_or_ineligible"
                    [] OTHER -> "no_comparable_observation"]

\* An eligible score and the comparison agree on the actual value, and what the
\* one does not find eligible the other does not compare.
EvidenceAgrees(observations, from, to, metadata) ==
  LET scored == Scored(observations, from, to, metadata)
      compared == Compared(observations, from, to, metadata)
  IN  /\ compared.actual = IF scored.eligible THEN scored.actual ELSE None
      /\ scored.eligible <=> scored.reason = None
      /\ scored.eligible => scored.available
      /\ compared.reason = "no_comparable_observation" =>
           scored.reason # "actual_unhealthy_or_ineligible"
=============================================================================
