--------------------------- MODULE ConditionalStudy ---------------------------
(***************************************************************************)
(* The conditional study of a retained export (conditional_adapter.py) and  *)
(* the independent reconciliation of its ledgers, which reads the rows of   *)
(* the export and knows nothing of the dispatch (independent_reconciler.py).*)
(*                                                                         *)
(* A study is [from, to, expiry, bad, quotes]: its window, the end of the   *)
(* action, the one slot whose price is known to be unhealthy and the quotes *)
(* that slot has. A row of the export is [slot, load, pv, importPrice,      *)
(* exportPrice, healthy].                                                   *)
(***************************************************************************)
EXTENDS PairedLedger

\* The export has one row per slot, from the slot before the study to its end.
RetainedFaults(raw, study) ==
  When(~raw.identity, "fixed_identity_mismatch")
  \cup When([n \in DOMAIN raw.rows |-> raw.rows[n].slot]
              # [n \in 1 .. (study.to - study.from) \div Slot + 2 |->
                   study.from + (n - 2) * Slot],
            "290_row_grid_duplicate_gap_range_or_order_mismatch")
  \cup When(\E r \in Range(raw.rows) : r.load = None \/ r.pv = None,
            "missing_or_invalid_number")
  \cup When(\E r \in Range(raw.rows) : (r.load # None /\ r.load < 0)
                                       \/ (r.pv # None /\ r.pv < 0),
            "nonfinite_or_negative_power")

InStudy(study, t) == study.from <= t /\ t < study.to

\* One unhealthy price is known and accepted; a quote that is missing stays so.
NormalizeExport(raw, study) ==
  LET rows == SelectSeq(raw.rows, LAMBDA r : InStudy(study, r.slot))
      exceptions == SelectSeq(raw.rows, LAMBDA r : r.healthy # TRUE)
      approved == /\ Len(exceptions) = 1
                  /\ exceptions[1].slot = study.bad
                  /\ exceptions[1].healthy = FALSE
                  /\ <<exceptions[1].importPrice, exceptions[1].exportPrice>> = study.quotes
      issues == When(\E r \in Range(rows) : r.importPrice = None \/ r.exportPrice = None,
                     "missing_or_nonfinite_quote")
                \cup When(~approved, "known_health_exception_policy_mismatch")
  IN  [intervals |-> Each(LAMBDA n : rows[n] @@ [from |-> rows[n].slot,
                                                to |-> rows[n].slot + Slot], Len(rows)),
       issues |-> issues, quoted |-> issues = {}]

\* The profile's parameters, with its initial energy inside the physical bounds.
NumericalParameters(profile, common) ==
  [capacity |-> profile.capacity, minimum |-> common.minimum, floor |-> common.floor,
   terminal |-> common.terminal, chargeLoss |-> profile.chargeLoss,
   dischargeLoss |-> profile.dischargeLoss, charge |-> profile.charge,
   discharge |-> common.discharge, import |-> common.import, export |-> common.export,
   contract |-> TRUE, curtail |-> TRUE]

ProfileFaults(profile, common) ==
  When(profile.charge # profile.stored * profile.chargeLoss,
       "stored_to_AC_charge_mapping_mismatch")
  \cup When(~(/\ 0 <= common.minimum /\ common.minimum <= common.floor
              /\ common.floor <= profile.capacity
              /\ common.minimum <= profile.energy /\ profile.energy <= profile.capacity),
            "inconsistent_approved_parameters")

AssembleInputs(normal, profile, common, study, action, ready) ==
  LET Series(key) ==
        Each(LAMBDA n : [from |-> normal.intervals[n].from, to |-> normal.intervals[n].to,
                         value |-> normal.intervals[n][key]], Len(normal.intervals))
  IN  [from |-> study.from, to |-> study.to, energy |-> profile.energy,
       p |-> NumericalParameters(profile, common), kind |-> "total", ev |-> <<>>,
       schedule |-> [action |-> action, supplied |-> ready, from |-> study.from,
                     to |-> study.expiry, power |-> 0, energy |-> 0],
       load |-> Series("load"), pv |-> Series("pv"),
       importPrice |-> Series("importPrice"), exportPrice |-> Series("exportPrice")]

----------------------------------------------------------------------------
(* The reconciliation of a ledger with the rows.                            *)

Overlaps(r, i) == Lesser(r.to, i.to) > Greater(r.from, i.from)

AggregateFaults(ledger, intervals) ==
  UNION {LET steps == SelectSeq(ledger.steps, LAMBDA r : Overlaps(r, i))
         IN  When(\E r \in Range(steps) : r.from < i.from \/ r.to > i.to,
                  "kernel_step_crosses_input_boundary")
             \cup When(Total(LAMBDA r : Lesser(r.to, i.to) - Greater(r.from, i.from), steps)
                         # i.to - i.from, "elementary_overlap_duration_mismatch")
         : i \in Range(intervals)}

Quoted(r) == r.importPrice # None /\ r.exportPrice # None
Cost(r) == r.imports * r.importPrice - r.export * r.exportPrice

AggregateIntervals(ledger, intervals) ==
  LET Row(n) ==
        LET i == intervals[n]
            steps == SelectSeq(ledger.steps, LAMBDA r : Overlaps(r, i))
        IN  [from |-> i.from, to |-> i.to,
             before |-> IF steps = <<>> THEN None ELSE Head(steps).before,
             after |-> IF steps = <<>> THEN None ELSE Last(steps).after,
             flows |-> [f \in FlowFields |-> Total(LAMBDA r : r[f], steps)],
             cost |-> IF \A r \in Range(steps) : Quoted(r) THEN Total(Cost, steps)
                      ELSE None]
  IN  Each(Row, Len(intervals))

RowErrors(ledger, n, p, intervals) ==
  LET r == ledger.steps[n]
      ticks == r.to - r.from
      ports == Ports(p, ticks)
      sources == {i \in Range(intervals) : i.from <= r.from /\ r.from < i.to}
      Mapped(i) == r.to <= i.to
      prior == IF n = 1 THEN ledger.energy ELSE ledger.steps[n - 1].after
      cursor == IF n = 1 THEN ledger.from ELSE ledger.steps[n - 1].to
      \* Losses, of stored energy times both losses' denominators.
      identity == p.chargeLoss * (r.charge - r.discharge - (r.after - r.before))
      lost == (p.chargeLoss - 1) * r.charge
              + p.chargeLoss * (p.dischargeLoss - 1) * r.discharge
  IN  When(~\E i \in sources : Mapped(i), "input_interval_mapping")
      \cup When(\E i \in sources : Mapped(i) /\ r.load # i.load * ticks, "source_load_mismatch")
      \cup When(\E i \in sources : Mapped(i) /\ r.pv # i.pv * ticks, "source_PV_mismatch")
      \cup When(\E i \in sources : /\ Mapped(i)
                                   /\ <<r.importPrice, r.exportPrice>>
                                        # <<i.importPrice, i.exportPrice>>,
                "source_quote_mismatch")
      \cup When(r.from # cursor \/ ticks <= 0, "coverage")
      \cup When(r.before # prior, "state_continuity")
      \cup When(ServedBalance(r) # 0, "AC_balance")
      \cup When(StoredBalance(r, p) # 0, "stored_balance")
      \cup When(identity # lost, "loss")
      \cup When(\/ \E f \in FlowFields : r[f] < 0
                \/ Lesser(r.before, r.after) < p.minimum
                \/ Greater(r.before, r.after) > p.capacity, "physical_bounds")
      \cup When(r.discharge > 0 /\ r.after < p.floor, "discharge_below_floor")
      \cup When(r.unserved > r.load, "unserved_exceeds_requested_load")
      \cup When((r.charge > 0 /\ r.discharge > 0) \/ (r.imports > 0 /\ r.export > 0),
                "opposing_flows")
      \cup When(r.imports > ports.import \/ r.export > ports.export
                  \/ r.charge > ports.charge \/ r.discharge > ports.discharge, "power_cap")

ReconcilePath(ledger, p, normal, study) ==
  LET steps == ledger.steps
      totals == [f \in FlowFields |-> Total(LAMBDA r : r[f], steps)]
      rows == AggregateIntervals(ledger, normal.intervals)
      end == Last(steps).after
      states == {ledger.energy} \cup {r.after : r \in Range(steps)}
      flagged == CHOOSE r \in Range(rows) : r.from = study.bad
      cost == IF normal.quoted THEN Total(Cost, steps) ELSE None
      whole == totals @@ [before |-> ledger.energy, after |-> end]
      errors ==
        UNION {RowErrors(ledger, n, p, normal.intervals) : n \in DOMAIN steps}
        \cup AggregateFaults(ledger, normal.intervals)
        \cup When(Last(steps).to # ledger.to, "horizon_end_mismatch")
        \cup When(\E f \in FlowFields :
                    Total(LAMBDA r : r.flows[f], rows) # totals[f], "aggregation")
        \cup When(ServedBalance(whole) # 0 \/ StoredBalance(whole, p) # 0,
                  "whole_path_energy_balance")
  IN  [errors |-> errors, cost |-> cost, energy |-> end,
       imports |-> totals["imports"], exports |-> totals["export"],
       loss |-> totals["charge"] - totals["charge"] \div p.chargeLoss
                + totals["discharge"] * (p.dischargeLoss - 1),
       otherCost |-> IF normal.quoted THEN cost - flagged.cost ELSE None,
       shortfall |-> Positive(p.floor - Min(states)),
       early |-> Total(LAMBDA r : IF r.from < study.expiry THEN r.discharge ELSE 0, steps),
       feasible |-> errors = {} /\ totals["unserved"] = 0]

\* The reconciliation of a pair agrees with the comparison, if there is one.
ReconcilePair(ledgers, p, comparison, normal, study) ==
  LET checked == Each(LAMBDA i : ReconcilePath(ledgers[i], p, normal, study), 2)
      Agrees(own, theirs) ==
        <<own.cost, own.energy, own.imports, own.exports, own.loss>>
          = <<-theirs.cash, theirs.energy, theirs.imports, theirs.exports, theirs.loss>>
  IN  [paths |-> checked,
       passed |-> /\ \A i \in DOMAIN checked : checked[i].errors = {}
                  /\ comparison # None =>
                       /\ Agrees(checked[1], comparison.reference)
                       /\ Agrees(checked[2], comparison.action)
                       /\ checked[1].cost - checked[2].cost = comparison.delta
                       /\ checked[2].energy - checked[1].energy = comparison.energyDelta]

\* A profile is studied preserving the battery, and holding as a control.
EvaluateStudy(normal, profile, common, study, ready) ==
  LET Study(action) ==
     LET inputs == AssembleInputs(normal, profile, common, study, action, ready)
         ledgers == SimulatePair(inputs)
         comparison == IF normal.quoted
                       THEN CompareLedgers(ledgers[1], ledgers[2], inputs.p, TRUE) ELSE None
     IN  [value |-> IF normal.quoted THEN comparison.value ELSE None,
          reasons |-> IF normal.quoted THEN comparison.reasons ELSE normal.issues,
          comparison |-> comparison, ledgers |-> ledgers,
          reconciled |-> ReconcilePair(ledgers, inputs.p, comparison, normal, study)]
  IN  [PRESERVE_BATTERY |-> Study("PRESERVE_BATTERY"), HOLD |-> Study("HOLD")]
=============================================================================
