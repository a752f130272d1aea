-------------------------- MODULE ArbitrageSelection --------------------------
(***************************************************************************)
(* The arbitrage advice: which decision inputs are admitted and which path  *)
(* is selected (selector.py), what business thresholds leave of it, the     *)
(* replay of contiguous decisions with a state of their own (economics.py)  *)
(* and the later evaluation of a selection by what happened (outcomes.py).  *)
(*                                                                         *)
(* Evidence is [issued, available, until, kind, based, healthy]; a series   *)
(* is None or [meaning, based, evidence, points] with points of             *)
(* [from, to, value]. The cash tolerance is 0.                              *)
(***************************************************************************)
EXTENDS KernelBridge

Day == 288 * Slot

EvidenceReasons(e, cutoff) ==
  When(~(e.issued <= e.available /\ e.available <= cutoff),
       "future_issued_or_unavailable_at_cutoff")
  \cup When(e.until < cutoff \/ e.until < e.available, "stale_at_cutoff")
  \cup When(e.kind \notin {"exact", "documented_upper_bound"},
            "unsupported_availability_evidence")
  \cup When(~e.based, "missing_source_or_timing_basis")
  \cup When(~e.healthy, "unhealthy_evidence")

SeriesReasons(series, priced) ==
  IF series = None THEN {"missing"}
  ELSE LET points == series.points
       IN  When(~series.based, "missing_basis")
           \cup When(points = <<>>, "empty_or_excessive_intervals")
           \cup IF \E n \in DOMAIN points : points[n].to <= points[n].from
                THEN {"invalid_interval_time"}
                ELSE When(\E n \in 2 .. Len(points) : points[n].from < points[n - 1].to,
                          "overlap_or_unordered")
                     \cup When(\E n \in DOMAIN points :
                                 \/ points[n].value = None
                                 \/ ~priced /\ points[n].value < 0,
                               "missing_or_invalid_value")

\* How far the points reach from start without a gap.
PrefixEnd(series, start, cap) ==
  LET Reach(s, p) ==
        IF s.closed \/ p.to <= s.end THEN s
        ELSE IF p.from > s.end THEN [s EXCEPT !.closed = TRUE]
        ELSE [end |-> Lesser(p.to, cap), closed |-> p.to >= cap]
  IN  FoldLeft(Reach, [end |-> start, closed |-> FALSE], series.points).end

BranchKinds == {"authored_assumption", "dated_analytical_hypothesis",
                "observed_soc_capacity_proxy"}

Required(c) == {"demand", "pv", "importPrice", "exportPrice"}
               \cup IF c.uncontrolled = None THEN {} ELSE {"uncontrolled"}

Meaning(c, name) ==
  IF name = "demand" THEN IF c.uncontrolled = None THEN "total" ELSE "baseline" ELSE name

Admission(c) ==
  LET a == c.assumptions
      bad == [name \in Required(c) |->
                SeriesReasons(c[name], name \in {"importPrice", "exportPrice"})]
      shaped == \A name \in Required(c) : bad[name] = {}
      reach == Min({PrefixEnd(c[name], c.from, c.from + Day) : name \in Required(c)})
      end == IF shaped THEN (reach \div Slot) * Slot ELSE None
  IN  [end |-> end,
       reasons |->
         When(~(c.decision <= c.evaluated /\ c.evaluated <= c.ready /\ c.ready = c.cutoff),
              "decision_evaluation_readiness_cutoff_order")
         \cup When(~c.named, "missing_identity_or_readiness_basis")
         \cup When(c.origin \notin {"authored_synthetic", "archived_decision_inputs"},
                   "unsupported_decision_origin")
         \cup When(c.from # CeilSlot(c.ready) \/ c.to # c.from + ActionTicks,
                   "action_must_be_first_ready_boundary_and_exactly_30m")
         \cup When(c.branch.at # c.from \/ c.reserve.at # c.from,
                   "state_and_reserve_must_be_dated_at_branch")
         \cup When(c.branch.kind \notin BranchKinds \/ ~c.branch.based \/ ~c.reserve.based,
                   "unsupported_state_or_reserve_basis")
         \cup When(c.branch.kind = "observed_soc_capacity_proxy" /\ c.branch.at > c.cutoff,
                   "future_observed_state_not_available")
         \cup UNION {EvidenceReasons(x.evidence, c.cutoff) :
                       x \in {c.branch, c.reserve, c.assumptions}}
         \cup When(~a.declared, "incomplete_assumption_declaration")
         \cup ParameterReasons(Parameters(c))
         \cup When(c.branch.energy = None, "invalid_initial_energy")
         \cup When(c.branch.energy # None
                     /\ (c.branch.energy < a.p.minimum \/ c.branch.energy > a.p.capacity),
                   "initial_energy_outside_physical_bounds")
         \cup UNION {bad[name] : name \in Required(c)}
         \cup UNION {When(c[name].meaning # Meaning(c, name),
                          "unsupported_target_unit_or_interpretation")
                     \cup EvidenceReasons(c[name].evidence, c.cutoff)
                     : name \in {n \in Required(c) : c[n] # None}}
         \cup When(shaped /\ end < c.to, "coverage_does_not_include_complete_action")]

----------------------------------------------------------------------------
(* Selection.                                                               *)

CostOf(estimate, action) == estimate.costs[IF action = "HOLD" THEN "R" ELSE action]

Worth(estimate, name) ==
  LET value == estimate.comparisons[name].value IN value # None /\ value > 0

Qualifying(estimate) ==
  LET idle == estimate.equivalent /\ estimate.paths["G"].delivered = 0
  IN  (IF Worth(estimate, "preservation") THEN <<"P">> ELSE <<>>)
      \o IF ~idle /\ Worth(estimate, "combined") /\ Worth(estimate, "charging_increment")
         THEN <<"G">> ELSE <<>>

Cheapest(estimate, actions) ==
  FoldLeft(LAMBDA best, a : IF CostOf(estimate, a) < CostOf(estimate, best)
                            THEN a ELSE best, "HOLD", actions)

\* The receipt of a selection; one whose estimate contradicts itself is an error.
Select(c) ==
  LET admitted == Admission(c)
      estimate == Estimate(c, admitted.end)
      receipt == [end |-> admitted.end, cutoff |-> c.cutoff]
  IN  IF admitted.reasons # {}
      THEN receipt @@ [selected |-> "HOLD", reasons |-> admitted.reasons, estimate |-> None,
                       faults |-> {}]
      ELSE LET chosen == Cheapest(estimate, Qualifying(estimate))
           IN  receipt @@
               [selected |-> chosen, estimate |-> estimate, faults |-> estimate.faults,
                reasons |-> IF chosen # "HOLD" THEN {}
                            ELSE {"no_eligible_positive_alternative"}
                                 \cup UNION {estimate.comparisons[n].reasons :
                                               n \in DOMAIN Pairs}]

----------------------------------------------------------------------------
(* Business thresholds, inventory bounds and replay.                        *)

Behind == [P |-> <<"preservation">>, G |-> <<"combined", "charging_increment">>]

\* What a comparison leaves after wear and uncertainty.
Margin(estimate, name, business, p) ==
  LET gross == estimate.comparisons[name].value
      Spent(path) == estimate.paths[path].discharged
  IN  IF gross = None THEN None
      ELSE gross - (Spent(Pairs[name][2]) - Spent(Pairs[name][1])) * business.wear
           - business.budget

OperationalChoice(receipt, business, now, p, lastChange) ==
  LET e == receipt.estimate
      reasons ==
        When(now < receipt.cutoff \/ now >= receipt.cutoff + business.expiry,
             "proposal_expired_or_clock_reversed")
        \cup When(lastChange # None /\ now < OrZero(lastChange) + business.dwell,
                  "minimum_dwell")
        \cup When(e = None, "incomplete_research_comparison")
      Margins(action) == [n \in DOMAIN Behind[action] |->
                            Margin(e, Behind[action][n], business, p)]
      Enough(action) == \A n \in DOMAIN Behind[action] :
                          Margins(action)[n] # None /\ Margins(action)[n] > business.material
      candidates == SelectSeq(Qualifying(e), Enough)
      Gain(action) == IF action = "HOLD" THEN 0 ELSE Margins(action)[1]
  IN  [reasons |-> reasons,
       selected |-> IF reasons # {} THEN "HOLD"
                    ELSE FoldLeft(LAMBDA best, a : IF Gain(a) > Gain(best) THEN a ELSE best,
                                  "HOLD", candidates)]

ActionNamed == [HOLD |-> "HOLD", P |-> "PRESERVE_BATTERY", G |-> "CHARGE_BATTERY_FROM_GRID"]

\* What a realised half-hour must be.
RealisedReasons(case) ==
  LET Covered(series, price) == CoverageReasons(series, case.from, case.to, price)
  IN  ParameterReasons(case.p)
      \cup Covered(case.load, FALSE) \cup Covered(case.pv, FALSE)
      \cup Covered(case.importPrice, TRUE) \cup Covered(case.exportPrice, TRUE)
      \cup (IF case.kind = "baseline_plus_ev" THEN Covered(case.ev, FALSE) ELSE {})
      \cup When(case.energy < case.p.minimum \/ case.energy > case.p.capacity,
                "invalid_realised_replay_inputs")

\* Contiguous decisions, each with the state its path has reached: R always
\* holds, the candidate does what the thresholds leave. realised[n] are the
\* series of decision n; only the half-hour of the action is simulated.
Replay(contexts, realised, energy, business) ==
  LET Own(n, e) == [contexts[n] EXCEPT !.branch.energy = e]
      Case(n, e, action) == realised[n] @@ MakeInputs(Own(n, e), contexts[n].to, action)
      Path(n, e, action) == SimulatePair(Case(n, e, action))[2]
      Origin(s, n) ==
        LET c == contexts[n]
            receipt == Select(Own(n, s.candidate))
            choice == OperationalChoice(receipt, business, c.cutoff, c.assumptions.p,
                                        s.lastChange)
            r == Path(n, s.R, "HOLD")
            own == Path(n, s.candidate, ActionNamed[choice.selected])
            Reasons(l, e) ==
              LedgerReasons(l, Parameters(c)) \cup receipt.faults
              \cup When(c.from # s.cursor, "noncontiguous_or_out_of_tranche")
              \cup When(c.assumptions # contexts[1].assumptions,
                        "sequential_physical_profile_changed")
              \cup RealisedReasons(Case(n, e, "HOLD"))
        IN  IF s.faults # {} THEN s
            ELSE [R |-> Last(r.steps).after, candidate |-> Last(own.steps).after,
                  cursor |-> c.to,
                  lastChange |-> IF choice.selected # s.prior THEN c.cutoff
                                 ELSE s.lastChange,
                  prior |-> choice.selected,
                  decisions |-> Append(s.decisions, choice),
                  steps |-> [R |-> s.steps.R \o r.steps,
                             candidate |-> s.steps.candidate \o own.steps],
                  faults |-> Reasons(r, s.R) \cup Reasons(own, s.candidate)]
  IN  FoldLeft(Origin,
               [R |-> energy, candidate |-> energy, cursor |-> contexts[1].from,
                lastChange |-> None, prior |-> "HOLD", decisions |-> <<>>,
                steps |-> [R |-> <<>>, candidate |-> <<>>], faults |-> {}],
               [n \in DOMAIN contexts |-> n])

----------------------------------------------------------------------------
(* Outcomes.                                                                *)

\* The points tell every tick of the window once, in order.
Shape(points, from, to, priced) ==
  /\ points # <<>>
  /\ \A n \in DOMAIN points :
       /\ points[n].from = (IF n = 1 THEN from ELSE points[n - 1].to)
       /\ points[n].from < points[n].to
       /\ points[n].value # None
       /\ priced \/ points[n].value >= 0
  /\ Last(points).to = to

\* The cash of a comparison, by the health of the quotes it was made with.
QuoteComponents(estimate, health) ==
  LET unhealthy == {h \in Range(health) : ~h.healthy}
      Delta(x, y) == (x.imports - y.imports) * x.importPrice
                     - (x.export - y.export) * x.exportPrice
      Contribution(name, n, h) ==
        LET x == estimate.common[Pairs[name][1]].steps[n]
            y == estimate.common[Pairs[name][2]].steps[n]
            shared == Positive(Lesser(h.to, x.to) - Greater(h.from, x.from))
        IN  (Delta(x, y) \div (x.to - x.from)) * shared
      Steps == Each(LAMBDA n : n, Len(estimate.common.R.steps))
      Later(n, h) == \E u \in unhealthy :
                       Greater(h.from, estimate.common["R"].steps[n].from) >= u.to
      Sum(name, Counts(_, _)) ==
        Total(LAMBDA h : Total(LAMBDA n : IF Counts(n, h) THEN Contribution(name, n, h)
                                          ELSE 0, Steps), health)
  IN  OfPairs(LAMBDA name :
        [bad |-> Sum(name, LAMBDA n, h : ~h.healthy),
         good |-> Sum(name, LAMBDA n, h : h.healthy),
         downstream |-> Sum(name, LAMBDA n, h : h.healthy /\ Later(n, h)),
         exposed |-> unhealthy # {}])

OutcomeReasons(c, receipt, o) ==
  When(~o.linked, "receipt_or_input_identity_mismatch")
  \cup When(receipt.end = None \/ <<o.from, o.to>> # <<c.from, receipt.end>>,
            "outcome_must_use_frozen_horizon")
  \cup When(~o.based, "missing_outcome_origin_or_measurement_basis")
  \cup When(~(Shape(o.load, o.from, o.to, FALSE) /\ Shape(o.pv, o.from, o.to, FALSE)
                /\ Shape(o.importQuotes, o.from, o.to, TRUE)
                /\ Shape(o.exportQuotes, o.from, o.to, TRUE)),
            "missing_invalid_or_incomplete")
  \cup When(\E n \in DOMAIN o.health :
              \/ o.health[n].from # (IF n = 1 THEN o.from ELSE o.health[n - 1].to)
              \/ o.health[n].to <= o.health[n].from \/ o.health[n].to > o.to,
            "invalid_quote_health_coverage")
  \cup When(o.from # o.to /\ (o.health = <<>> \/ Last(o.health).to # o.to),
            "incomplete_quote_health")
  \cup When(receipt.estimate = None,
            "decision_inputs_not_admitted_no_evaluable_frozen_experiment")

\* The same decision in what happened: one total load, and nothing else changes.
\* Mutant: the uncontrolled load is added to the total that contains it.
RealisedWithUncontrolled(c, o) ==
  [c EXCEPT !.demand.points = o.load,
            !.pv.points = o.pv, !.importPrice.points = o.importQuotes,
            !.exportPrice.points = o.exportQuotes]

Realised(c, o) ==
  [c EXCEPT !.uncontrolled = None, !.demand.meaning = "total", !.demand.points = o.load,
            !.pv.points = o.pv, !.importPrice.points = o.importQuotes,
            !.exportPrice.points = o.exportQuotes]

Hindsight(estimate) ==
  Cheapest(estimate,
           (IF Worth(estimate, "preservation") THEN <<"P">> ELSE <<>>)
           \o IF Worth(estimate, "combined") /\ Worth(estimate, "charging_increment")
              THEN <<"G">> ELSE <<>>)

EvaluateOutcome(c, receipt, o) ==
  LET result == Estimate(Realised(c, o), receipt.end)
      comparisons == result.comparisons
      quoted == \A h \in Range(o.health) : h.healthy
      Value(name) == comparisons[name].value
      Eligibility(name) ==
        LET numerical == Value(name) # None
        IN  [numerical |-> numerical, quoted |-> numerical /\ quoted,
             strict |-> numerical /\ quoted /\ o.settled /\ o.applicable]
      key == IF receipt.selected = "P" THEN "preservation" ELSE "combined"
      Judged(name) == IF Value(name) # None /\ quoted THEN Value(name) <= 0 ELSE None
      selected == receipt.selected
      reference == comparisons["preservation"].reference
      best == Hindsight(result)
      unavailable == [reasons |-> OutcomeReasons(c, receipt, o), realised |-> None]
  IN  IF unavailable.reasons # {} THEN unavailable
      ELSE [reasons |-> UNION {comparisons[n].reasons : n \in DOMAIN Pairs},
            realised |-> result, selected |-> selected,
            components |-> QuoteComponents(result, o.health),
            eligibility |-> OfPairs(Eligibility),
            errors |-> OfPairs(LAMBDA n : comparisons[n].delta
                                          - receipt.estimate.comparisons[n].delta),
            value |-> IF selected # "HOLD" THEN Value(key)
                      ELSE IF reference.feasible /\ reference.margin >= 0 THEN 0 ELSE None,
            falsePositive |-> IF selected = "HOLD" THEN None ELSE Judged(key),
            falseIncrement |-> IF selected = "G" THEN Judged("charging_increment")
                               ELSE None,
            hindsight |-> best,
            missed |-> IF \A n \in DOMAIN Pairs : Eligibility(n).quoted
                       THEN CostOf(result, selected) > CostOf(result, best) ELSE None]

Count(b) == IF b THEN 1 ELSE 0

Summarize(evaluations) ==
  LET Known == SelectSeq(evaluations, LAMBDA e : e.realised # None)
      Times(Holds(_)) == Total(LAMBDA e : Count(Holds(e)), Known)
      Components(Holds(_)) ==
        Total(LAMBDA e : Cardinality({n \in DOMAIN Pairs :
                                        Holds(e.realised.comparisons[n])}), Known)
      G(e) == e.realised.paths["G"]
  IN  [falsePositive |-> Times(LAMBDA e : e.falsePositive = TRUE),
       falsePositiveEvaluable |-> Times(LAMBDA e : e.falsePositive # None),
       missed |-> Times(LAMBDA e : e.missed = TRUE),
       missedEvaluable |-> Times(LAMBDA e : e.missed # None),
       unavailable |-> Len(evaluations) - Len(Known),
       clipped |-> Times(LAMBDA e : G(e).delivered < G(e).requested),
       idle |-> Times(LAMBDA e : G(e).delivered = 0),
       unhealthy |-> Times(LAMBDA e : \E n \in DOMAIN Pairs : e.components[n].exposed),
       unmatched |-> Components(LAMBDA v : "terminal_energy_unmatched" \in v.reasons),
       unmet |-> Components(LAMBDA v :
                   v.reasons \cap {"reference:terminal_reserve_not_met",
                                   "action:terminal_reserve_not_met"} # {}),
       infeasible |-> Components(LAMBDA v : ~(v.reference.feasible /\ v.action.feasible))]
=============================================================================
