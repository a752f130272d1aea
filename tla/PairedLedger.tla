----------------------------- MODULE PairedLedger -----------------------------
(***************************************************************************)
(* The paired experiment of offline_paired_synthetic.py: what a case must   *)
(* be, the simulation of a reference and an action on the same inputs, and  *)
(* the checks and the comparison of the two ledgers.                        *)
(*                                                                         *)
(* A tick is the resolution of a time (the code's microsecond). Powers are  *)
(* energies per tick, and efficiencies are reciprocals of whole numbers:    *)
(* chargeLoss units are bought for one that is stored, dischargeLoss stored *)
(* units are spent for one delivered. Every energy is a multiple of Unit,   *)
(* which the length of a phase divides: energies are exact, the numerical   *)
(* epsilon is 0, and only the end of a phase is rounded.                    *)
(***************************************************************************)
EXTENDS Readings, Dispatch, FiniteSets

Unit == 27720
NumericalEpsilon == 0
\* As in the code, more than what flows in the resolution of a time.
TerminalTolerance == 16 * Unit

SupportedActions == {"HOLD"} \cup NoDischarge \cup EnergyActions

When(condition, reason) == IF condition THEN {reason} ELSE {}
Total(Value(_), rows) ==
  LET sum[n \in 0 .. Len(rows)] == IF n = 0 THEN 0 ELSE sum[n - 1] + Value(rows[n])
  IN  sum[Len(rows)]
\* The sequence of Op(1) to Op(n).
Each(Op(_), n) ==
  LET list[k \in 0 .. n] == IF k = 0 THEN <<>> ELSE Append(list[k - 1], Op(k))
  IN  list[n]
\* The times of a set, in order.
InOrder(S) == Each(LAMBDA n : CHOOSE t \in S : Cardinality({u \in S : u <= t}) = n,
                   Cardinality(S))
CeilSlot(t) == ((t + Slot - 1) \div Slot) * Slot

----------------------------------------------------------------------------
(* Admission of a case.                                                     *)

NumberFields == {"capacity", "minimum", "floor", "terminal", "chargeLoss",
                 "dischargeLoss", "charge", "discharge", "import", "export"}

ParameterReasons(p) ==
  IF \E f \in NumberFields : p[f] = None \/ p[f] < 0
  THEN {"invalid_or_unknown_parameter"}
  ELSE When(p.minimum > p.floor \/ p.floor > p.capacity \/ p.capacity = 0,
            "inconsistent_physical_policy_bounds")
       \cup When(p.terminal # p.floor, "terminal_reserve_must_equal_frozen_floor")
       \cup When(p.chargeLoss < 1 \/ p.dischargeLoss < 1, "efficiency_out_of_range")
       \cup When(~p.contract, "unsupported_contract")

\* A series of [from, to, value] must tell every tick once; only what overlaps
\* the comparison moves the cursor.
CoverageReasons(series, from, to, price) ==
  LET Look(s, row) ==
        LET left  == Greater(from, row.from)
            right == Lesser(to, row.to)
        IN  [last    |-> row.to,
             cursor  |-> IF right > left THEN right ELSE s.cursor,
             reasons |-> s.reasons
               \cup When(row.value = None \/ (~price /\ row.value < 0), "invalid_value")
               \cup When(row.to <= row.from, "invalid_interval")
               \cup When(s.last # None /\ row.from < s.last, "overlap_or_duplicate")
               \cup When(right > left /\ left # s.cursor, "coverage_gap")]
      end == FoldLeft(Look, [last |-> None, cursor |-> from, reasons |-> {}],
                      SortSeq(series, LAMBDA a, b : a.from < b.from))
  IN  IF series = <<>> THEN {"missing_or_unbounded_series"}
      ELSE end.reasons \cup When(end.cursor # to, "coverage_gap")

CaseReasons(case) ==
  LET p == case.p
      s == case.schedule
      Covered(series, price) == CoverageReasons(series, case.from, case.to, price)
      declared ==
        ParameterReasons(p)
        \cup When(case.from # CeilSlot(case.ready), "comparison_start_not_ready_boundary")
        \cup When(case.stateAt # case.from, "initial_state_not_at_branch_point")
        \cup When(case.to <= case.from, "invalid_comparison_horizon")
  IN  declared
      \cup When(declared = {} /\ (case.energy < p.minimum \/ case.energy > p.capacity),
                "initial_energy_outside_physical_bounds")
      \cup When(s.action \notin SupportedActions, "unsupported_action")
      \cup When(s.supplied > case.ready, "action_not_supplied_by_readiness")
      \cup When(s.to <= s.from, "invalid_action_window")
      \cup When(s.power < 0 \/ s.energy < 0, "invalid_or_unknown_action_request")
      \cup When(s.action \in {"HOLD", "PRESERVE_BATTERY"}
                  /\ (s.power > 0 \/ s.energy > 0),
                "non_energy_action_requires_zero_request")
      \cup When(case.kind = "total" /\ case.ev # <<>>, "ev_would_be_double_counted")
      \cup Covered(case.load, FALSE) \cup Covered(case.pv, FALSE)
      \cup Covered(case.importPrice, TRUE) \cup Covered(case.exportPrice, TRUE)
      \cup (IF case.kind = "baseline_plus_ev" THEN Covered(case.ev, FALSE) ELSE {})

----------------------------------------------------------------------------
(* Simulation.                                                              *)

ValueAt(series, t) ==
  LET n == CHOOSE n \in DOMAIN series : series[n].from <= t /\ t < series[n].to
  IN  series[n].value

LoadAt(case, t) ==
  ValueAt(case.load, t)
  + IF case.kind = "baseline_plus_ev" THEN ValueAt(case.ev, t) ELSE 0

\* Where an input, the action or the energy it asks for begins or ends.
Boundaries(case) ==
  LET s == case.schedule
      until == Lesser(case.to, s.to)
      exhaustion == s.from + Rounded(s.energy, s.power)
      Edges(series) == {series[n].from : n \in DOMAIN series}
                       \cup {series[n].to : n \in DOMAIN series}
      inner == UNION {Edges(series) : series \in
                        {case.load, case.ev, case.pv, case.importPrice, case.exportPrice}}
               \cup {s.from, s.to}
  IN  {case.from, case.to}
      \cup {t \in inner : case.from < t /\ t < case.to}
      \cup IF s.power > 0 /\ s.energy < (until - s.from) * s.power
           THEN {exhaustion} \cap (case.from + 1 .. until - 1) ELSE {}

Requested(s, left, right) ==
  LET remaining == Positive(s.energy - Positive(left - s.from) * s.power)
  IN  IF s.action \in EnergyActions THEN Lesser(s.power * (right - left), remaining)
      ELSE 0

ActiveAt(case, t, alternative) ==
  alternative /\ case.schedule.from <= t /\ t < case.schedule.to

ActionAt(case, t, alternative) ==
  IF ActiveAt(case, t, alternative) THEN case.schedule.action ELSE "HOLD"

Step(case, energy, left, right, alternative) ==
  LET p == case.p
      ticks == right - left
      request == IF ActiveAt(case, left, alternative)
                 THEN Requested(case.schedule, left, right) ELSE 0
      load == LoadAt(case, left) * ticks
      pv == ValueAt(case.pv, left) * ticks
      flow == Route(Ports(p, ticks), load, pv, ActionAt(case, left, alternative), request,
                    Headroom(p, energy), Available(p, energy))
  IN  flow @@ [from |-> left, to |-> right, before |-> energy,
               after |-> Stored(p, energy, flow),
               pv |-> pv, load |-> load, request |-> request,
               importPrice |-> ValueAt(case.importPrice, left),
               exportPrice |-> ValueAt(case.exportPrice, left)]

\* A phase ends when the battery is full or at its floor, to the nearest tick
\* and not before one has passed.
SaturationEnd(case, energy, left, right, alternative) ==
  LET p == case.p
      request == IF ActiveAt(case, left, alternative)
                 THEN Requested(case.schedule, left, right) \div (right - left) ELSE 0
      rate == Route(Ports(p, 1), LoadAt(case, left), ValueAt(case.pv, left),
                    ActionAt(case, left, alternative), request,
                    IF energy < p.capacity - NumericalEpsilon THEN p.charge ELSE 0,
                    IF energy > p.floor + NumericalEpsilon THEN p.discharge ELSE 0)
      up == rate.charge - rate.discharge * p.dischargeLoss * p.chargeLoss
      room == p.chargeLoss * (IF up > 0 THEN Positive(p.capacity - energy)
                              ELSE Positive(energy - p.floor))
  IN  IF up = 0 \/ room >= Abs(up) * (right - left) THEN right
      ELSE Lesser(right, Greater(left + Rounded(room, Abs(up)), left + 1))

RECURSIVE Phases(_, _, _, _, _)
Phases(case, boundaries, cursor, energies, traces) ==
  IF cursor = case.to THEN traces
  ELSE LET right == Min({t \in boundaries : t > cursor})
           Ends(i) == SaturationEnd(case, energies[i], cursor, right, i = 2)
           end == Lesser(Ends(1), Ends(2))
           row == Each(LAMBDA i : Step(case, energies[i], cursor, end, i = 2), 2)
       IN  Phases(case, boundaries, end, <<row[1].after, row[2].after>>,
                  <<Append(traces[1], row[1]), Append(traces[2], row[2])>>)

\* The ledgers of the reference, which holds, and of the action.
SimulatePair(case) ==
  LET traces == Phases(case, Boundaries(case), case.from,
                       <<case.energy, case.energy>>, <<<<>>, <<>>>>)
  IN  Each(LAMBDA i : [from |-> case.from, to |-> case.to, energy |-> case.energy,
                       steps |-> traces[i]], 2)

----------------------------------------------------------------------------
(* The checks of a ledger, which know nothing of the routing.               *)

FlowFields == {"pv", "curtail", "load", "imports", "export", "charge", "discharge",
               "unserved", "request", "delivered"}

ServedBalance(r) == r.pv - r.curtail + r.imports + r.discharge
                    - (r.load - r.unserved + r.export + r.charge)
StoredBalance(r, p) == p.chargeLoss * (r.after - r.before) - r.charge
                       + r.discharge * p.dischargeLoss * p.chargeLoss
Cash(r) == r.export * r.exportPrice - r.imports * r.importPrice

StepReasons(r, p) ==
  LET ports == Ports(p, r.to - r.from)
  IN  When(\E f \in FlowFields : r[f] < 0, "negative_energy")
      \cup When(r.unserved > r.load, "unserved_exceeds_demand")
      \cup When(r.delivered > r.request, "delivery_exceeds_request")
      \cup When(ServedBalance(r) # 0 \/ StoredBalance(r, p) # 0, "energy_balance_failed")
      \cup When(r.curtail > r.pv, "curtailment_exceeds_available_pv")
      \cup When(r.unserved > 0, "unserved_load")
      \cup When(r.curtail > 0 /\ ~p.curtail, "curtailment_not_permitted")
      \cup When(Lesser(r.before, r.after) < p.minimum
                  \/ Greater(r.before, r.after) > p.capacity, "physical_state_bound_failed")
      \cup When(r.discharge > 0 /\ r.after < p.floor, "additional_policy_shortfall")
      \cup When((r.imports > 0 /\ r.export > 0) \/ (r.charge > 0 /\ r.discharge > 0),
                "opposing_flows")
      \cup When(r.imports > ports.import \/ r.export > ports.export
                  \/ r.charge > ports.charge \/ r.discharge > ports.discharge,
                "limit_failed")

LedgerReasons(ledger, p) ==
  LET steps == ledger.steps
      Before(n) == IF n = 1 THEN ledger.energy ELSE steps[n - 1].after
      Cursor(n) == IF n = 1 THEN ledger.from ELSE steps[n - 1].to
  IN  IF steps = <<>> THEN {"missing_or_unbounded_ledger"}
      ELSE IF ledger.energy < p.minimum \/ ledger.energy > p.capacity
      THEN {"invalid_initial_energy"}
      ELSE UNION {StepReasons(steps[n], p)
                  \cup When(steps[n].from # Cursor(n) \/ steps[n].to <= steps[n].from,
                            "ledger_coverage_gap_or_overlap")
                  \cup When(steps[n].before # Before(n), "state_discontinuity")
                  : n \in DOMAIN steps}
           \cup When(Last(steps).to # ledger.to, "ledger_coverage_incomplete")

Summary(ledger, p) ==
  LET rows == ledger.steps
      energies == {ledger.energy} \cup {rows[n].after : n \in DOMAIN rows}
      end == IF rows = <<>> THEN ledger.energy ELSE Last(rows).after
      charged == Total(LAMBDA r : r.charge, rows)
      discharged == Total(LAMBDA r : r.discharge, rows)
  IN  [cash |-> Total(Cash, rows), energy |-> end, margin |-> end - p.terminal,
       initialShortfall |-> Positive(p.floor - ledger.energy),
       minimumMargin |-> Min(energies) - p.floor,
       shortfall |-> Positive(Lesser(ledger.energy, p.floor) - Min(energies)),
       discharged |-> discharged * p.dischargeLoss,
       loss |-> charged - charged \div p.chargeLoss + discharged * (p.dischargeLoss - 1),
       imports |-> Total(LAMBDA r : r.imports, rows),
       exports |-> Total(LAMBDA r : r.export, rows),
       unserved |-> Total(LAMBDA r : r.unserved, rows),
       requested |-> Total(LAMBDA r : r.request, rows),
       delivered |-> Total(LAMBDA r : r.delivered, rows)]

\* External tells whether the two ledgers were made of the same inputs on the
\* same partition.
CompareLedgers(reference, action, p, external) ==
  LET own == [reference |-> LedgerReasons(reference, p), action |-> LedgerReasons(action, p)]
      ref == Summary(reference, p)
      alt == Summary(action, p)
      reasons ==
        own.reference \cup own.action
        \cup When(<<reference.from, reference.to, reference.energy>>
                    # <<action.from, action.to, action.energy>>,
                  "starting_conditions_or_horizons_differ")
        \cup When(~external, "external_inputs_or_interval_partition_differ")
        \cup When(Abs(alt.energy - ref.energy) > TerminalTolerance,
                  "terminal_energy_unmatched")
        \cup When(ref.margin < 0, "reference:terminal_reserve_not_met")
        \cup When(alt.margin < 0, "action:terminal_reserve_not_met")
      gone == ParameterReasons(p)
              \cup ((own.reference \cup own.action) \cap {"invalid_initial_energy"})
  IN  IF gone # {}
      THEN [admitted |-> FALSE, value |-> None, delta |-> None, energyDelta |-> None,
            reasons |-> gone, reference |-> None, action |-> None]
      ELSE [admitted |-> TRUE, value |-> IF reasons = {} THEN alt.cash - ref.cash ELSE None,
            delta |-> alt.cash - ref.cash, energyDelta |-> alt.energy - ref.energy,
            reasons |-> reasons,
            reference |-> [feasible |-> own.reference = {}] @@ ref,
            action |-> [feasible |-> own.action = {}] @@ alt]
=============================================================================
