---------------------------- MODULE ShadowDecision ----------------------------
(***************************************************************************)
(* evaluate_shadow_decision: one advisory action for the half hour ahead.   *)
(*                                                                         *)
(* A situation w holds what the evaluation is given:                        *)
(*   now, end       the action window in ticks; now is the creation time    *)
(*   observation    None or [at, soc, energy, stale, healthy, signs,        *)
(*                  import, export, p10, p50, solarEnd]: the price lists    *)
(*                  and the solar estimate per tick                         *)
(*   run, reserve   the forecast and the reserve estimate (ShadowInputs);   *)
(*                  reserve.energy is the recommended reserve               *)
(*   horizon        the end of the forecast                                 *)
(*   calibrated, backfilled   CalibrationGate                               *)
(*   config         [nonHold, minimum, export, discharge, import, charge,   *)
(*                  loss, capacity, freshness, analysis]                    *)
(*                                                                         *)
(* Energies are integers: power times ticks. Both efficiencies are 1/loss,  *)
(* so energies are scaled by the loss, and values by the loss and by the    *)
(* represented ticks of both price lists, which makes every candidate's     *)
(* value an integer on one scale.                                           *)
(***************************************************************************)
EXTENDS ShadowInputs

HOLD      == "HOLD"
CHARGE    == "CHARGE_BATTERY_FROM_GRID"
PRESERVE  == "PRESERVE_BATTERY"
DISCHARGE == "DISCHARGE_FOR_SELF_CONSUMPTION"
EXPORT    == "EXPORT_BATTERY"
DEFER     == "DEFER_EXPORT"

\* The order in which the candidates are built. The three EV actions that
\* follow are infeasible whatever the inputs are.
Actions == <<HOLD, CHARGE, PRESERVE, DISCHARGE, EXPORT, DEFER>>

StateBlocks == {"latest_observation_missing", "latest_observation_stale",
                "battery_soc_missing", "battery_soc_stale",
                "current_state_unavailable"}

CurrentStateBlockers(w) ==
  LET o == w.observation
  IN  IF Absent(o)
      THEN {"latest_observation_missing", "current_state_unavailable"}
      ELSE (IF Absent(o.at)
            THEN {"latest_observation_missing", "current_state_unavailable"}
            ELSE IF w.now - o.at > w.config.freshness
                 THEN {"latest_observation_stale"} ELSE {})
           \cup (IF Absent(o.soc) THEN {"battery_soc_missing"} ELSE {})
           \cup (IF o.stale THEN {"battery_soc_stale"} ELSE {})
           \cup (IF o.healthy = FALSE THEN {"current_state_unavailable"} ELSE {})
           \cup (IF ~o.signs THEN {"directional_flow_signs_unconfirmed"} ELSE {})

Blockers(w) ==
  CurrentStateBlockers(w)
  \cup (IF Absent(w.run) THEN {"forecast_missing"} ELSE {})
  \cup (IF Absent(w.reserve) THEN {"reserve_missing"} ELSE {})
  \cup (IF ~Absent(w.run) /\ ~Absent(w.reserve) /\ ~w.run.linked
        THEN {"reserve_forecast_identity_mismatch"} ELSE {})

ImportPrices(w) == IF Absent(w.observation) THEN <<>> ELSE w.observation.import
ExportPrices(w) == IF Absent(w.observation) THEN <<>> ELSE w.observation.export

\* Where all inputs still reach: prices and values beyond it are not used.
AnalysisHorizon(w) ==
  MinimumHorizon({IF Absent(w.run) THEN None ELSE w.horizon,
                  PriceHorizon(ImportPrices(w)), PriceHorizon(ExportPrices(w)),
                  IF Absent(w.observation) THEN None ELSE w.observation.solarEnd,
                  w.now + w.config.analysis})

\* The quantities the candidates are computed from.
Facts(w) ==
  LET o        == w.observation
      imports  == Coverage(ImportPrices(w), w.now, w.end)
      exports  == Coverage(ExportPrices(w), w.now, w.end)
      later(l) == MaximumPrice(l, w.end, AnalysisHorizon(w))
      futures  == {later(ImportPrices(w)), later(ExportPrices(w))} \ {None}
      battery  == IF Absent(o) THEN None
                  ELSE IF ~Absent(o.energy) THEN o.energy
                  ELSE IF w.config.capacity > 0 THEN o.soc ELSE None
      floor    == IF Absent(w.reserve) THEN None ELSE w.reserve.energy
      demand   == WindowDemand(w.run, w.reserve, w.now, w.end)
      hours    == Positive(w.end - w.now)
      solar    == IF Absent(o) THEN 0 ELSE IF Absent(o.p10) THEN 0
                  ELSE o.p10 * Min({hours, 12 * Slot})
  IN  [imports |-> imports, exports |-> exports,
       laterExport |-> later(ExportPrices(w)),
       future    |-> IF futures = {} THEN None ELSE Max(futures),
       battery   |-> battery,
       reserve   |-> floor,
       available |-> IF Absent(battery) \/ Absent(floor) THEN None
                     ELSE Positive(battery - floor),
       deficit   |-> IF Absent(demand) THEN None ELSE Positive(demand - solar),
       hours     |-> hours,
       scale     |-> imports.covered * exports.covered]

Infeasible == [feasible |-> FALSE, value |-> None, move |-> 0]

\* Values of a feasible candidate; move is the change of the battery's energy.
Feasible(value, move) == [feasible |-> TRUE, value |-> value, move |-> move]

Charge(f, c) ==
  LET grid == Min({Positive(c.capacity - f.battery) * c.loss,
                   Min({c.charge, c.import}) * f.hours})
  IN  IF \/ Absent(f.battery) \/ c.capacity <= 0
      THEN Infeasible
      ELSE IF \/ f.battery >= c.capacity
              \/ ~f.imports.complete
              \/ c.charge <= 0 \/ c.import <= 0
              \/ Absent(f.future)
      THEN Infeasible
      ELSE Feasible(grid * (f.future * f.scale
                            - c.loss * f.imports.weighted * f.exports.covered),
                    grid)

Preserve(f) ==
  IF Absent(f.battery) \/ Absent(f.reserve) THEN Infeasible ELSE Feasible(0, 0)

\* What leaves the battery is worth the price now less its best later use; a
\* later price that is not known counts as nothing.
Spent(battery, prices, others, f, c) ==
  battery * (prices.weighted * others.covered
             - c.loss * (IF Absent(f.future) THEN 0 ELSE Positive(f.future))
               * f.scale)

\* Mutant of SelfUse: the household's deficit is the only limit.
SelfUseUnlimited(f, c) == f.deficit * c.loss

\* The battery energy given to the household: what it lacks, what the battery
\* may deliver in the window, and what lies above the reserve.
SelfUse(f, c) ==
  Min({f.deficit * c.loss, c.discharge * f.hours * c.loss, f.available})

Discharge(f, c) ==
  IF \/ Absent(f.available) \/ Absent(f.deficit)
  THEN Infeasible
  ELSE IF \/ f.available = 0 \/ f.deficit = 0
          \/ ~f.imports.complete
          \/ c.discharge <= 0
  THEN Infeasible
  ELSE Feasible(Spent(SelfUse(f, c), f.imports, f.exports, f, c),
                -SelfUse(f, c) * c.loss)

\* The battery energy that may be exported in the window.
Exportable(f, c) ==
  Min({Min({c.export, c.discharge}) * f.hours * c.loss, f.available})

Export(f, c) ==
  IF \/ Absent(f.available)
     \/ ~f.exports.complete
     \/ c.export <= 0 \/ c.discharge <= 0
  THEN Infeasible
  ELSE IF f.available = 0 THEN Infeasible
  ELSE Feasible(Spent(Exportable(f, c), f.exports, f.imports, f, c),
                -Exportable(f, c) * c.loss)

\* The same energy, kept for a later export interval with a higher price.
Defer(f, c) ==
  LET gain == f.laterExport * f.scale - f.exports.weighted * f.imports.covered
  IN  IF \/ Absent(f.available) \/ Absent(f.laterExport)
         \/ ~f.exports.complete
         \/ c.export <= 0 \/ c.discharge <= 0
      THEN Infeasible
      ELSE IF f.available = 0 \/ f.laterExport * f.exports.covered
                                 <= f.exports.weighted
      THEN Infeasible
      ELSE Feasible(Exportable(f, c) * gain, 0)

\* Every candidate; what blocks the evaluation as a whole leaves only HOLD.
Candidates(w) ==
  LET f == Facts(w)
      c == w.config
      Open(candidate) == IF Blockers(w) = {} THEN candidate ELSE Infeasible
  IN  [a \in {HOLD, CHARGE, PRESERVE, DISCHARGE, EXPORT, DEFER} |->
         CASE a = HOLD      -> Feasible(0, 0)
           [] a = CHARGE    -> Open(Charge(f, c))
           [] a = PRESERVE  -> Open(Preserve(f))
           [] a = DISCHARGE -> Open(Discharge(f, c))
           [] a = EXPORT    -> Open(Export(f, c))
           [] a = DEFER     -> Open(Defer(f, c))]

\* The recorded rank: by value, then by a fixed precedence.
Precedence == <<DEFER, EXPORT, CHARGE, DISCHARGE, PRESERVE, HOLD>>

Ranked(candidates) ==
  LET Place(a) == CHOOSE n \in DOMAIN Precedence : Precedence[n] = a
  IN  SetToSortSeq({a \in ToSet(Actions) : candidates[a].feasible},
        LAMBDA a, b : \/ candidates[a].value > candidates[b].value
                      \/ /\ candidates[a].value = candidates[b].value
                         /\ Place(a) < Place(b))

Selected(action, reason) ==
  [status |-> "completed", action |-> action, reason |-> {reason}]

\* What CalibrationGate.permits_non_hold requires, all of it.
CalibrationChecks == {"identity", "status", "evidence", "horizons", "quality",
                      "backfill"}

\* The gates before any action other than HOLD, in the order they are asked.
Gates(w, f) ==
  << <<"forecast_missing", ~Absent(w.run)>>,
     <<"reserve_missing", ~Absent(w.reserve)>>,
     <<"price_window_incomplete", f.imports.complete /\ f.exports.complete>>,
     <<"calibration_rollup_incomplete", "backfill" \in w.calibration>>,
     <<"calibration_evidence_insufficient", w.calibration = CalibrationChecks>>,
     <<"solar_constraint_context_uncertain", ~Absent(w.observation.p50)>>,
     <<"non_hold_selection_disabled", w.config.nonHold>> >>

\* The candidates a decision may name: feasible, and worth the minimum, which
\* is scaled as the values are.
Eligible(w, candidates, f) ==
  {a \in ToSet(Tail(Actions)) :
     /\ candidates[a].feasible
     /\ candidates[a].value >= w.config.minimum * w.config.loss * f.scale}

\* The decision takes the first eligible candidate as they were built:
\* _rank_candidates sorts a list of its own and leaves this order alone.
FirstBuilt(eligible) == Actions[Min({n \in DOMAIN Actions : Actions[n] \in eligible})]

Decide(w) ==
  LET f        == Facts(w)
      stopping == CurrentStateBlockers(w) \cap StateBlocks
      closed   == {n \in DOMAIN Gates(w, f) : ~Gates(w, f)[n][2]}
      eligible == Eligible(w, Candidates(w), f)
  IN  IF stopping # {}
      THEN [status |-> "blocked", action |-> None, reason |-> stopping]
      ELSE IF closed # {} THEN Selected(HOLD, Gates(w, f)[Min(closed)][1])
      ELSE IF eligible = {}
      THEN Selected(HOLD, "minimum_expected_value_not_met")
      ELSE Selected(FirstBuilt(eligible), "highest_ranked_feasible_candidate")

----------------------------------------------------------------------------
(* What a decision may rest on.                                             *)

\* A situation: what is measured and configured are numbers, or absent; the battery
\* does not gain by being used, and no estimate of the sun is negative.
Situated(w) ==
  LET known == Int \cup {None}
      Rows  == Seq([from : Int, to : Int, value : known])
  IN  /\ {w.now, w.end} \subseteq Int
      /\ w.config.loss \in Nat \ {0}
      /\ {w.config.capacity, w.config.charge, w.config.discharge, w.config.import,
           w.config.export} \subseteq Int
      /\ w.observation # None =>
           {w.observation.soc, w.observation.energy} \subseteq known
             /\ w.observation.p10 \in Nat \cup {None}
      /\ w.run # None => w.run.start \in Int /\ w.run.points \in Rows
      /\ w.reserve # None => w.reserve.energy \in known /\ w.reserve.slots \in Rows

\* A tick is priced when an interval covers it, or when it is a single tick
\* between two that are covered.
PricedTicks(list, from, to) ==
  LET covered == CoveredTicks(list, from, to)
  IN  covered \cup {t \in from..(to - 1) : {t - 1, t + 1} \subseteq covered}

\* The demand rows that speak of a tick: the reserve's own slots before the
\* forecast starts, the forecast's points from then on.
RowsAt(w, t) ==
  LET rows == IF t < w.run.start THEN w.reserve.slots ELSE w.run.points
  IN  {n \in DOMAIN rows : rows[n].from <= t /\ t < rows[n].to}

DemandAt(w, t) ==
  LET rows == IF t < w.run.start THEN w.reserve.slots ELSE w.run.points
  IN  rows[CHOOSE n \in RowsAt(w, t) : TRUE].value

\* What an action does to the battery: it is not charged beyond its capacity, and
\* not discharged below the reserve.
KeepsBattery(w, action) ==
  LET move   == Candidates(w)[action].move
      loss   == w.config.loss
      before == Facts(w).battery * loss
  IN  /\ move > 0 => before + move <= w.config.capacity * loss
      /\ move < 0 => before + move >= w.reserve.energy * loss

\* An action that is recommended rests on prices of every tick in both
\* directions; it leaves the battery between the reserve and its capacity; and
\* what it gives to the household is at most what the forecasts, each tick of
\* which is told by exactly one row, expect the household to draw.
Grounded(w) ==
  LET d      == Decide(w)
      move   == Candidates(w)[d.action].move
      loss   == w.config.loss
      window == w.now..(w.end - 1)
  IN  d.action \in ToSet(Tail(Actions)) =>
        /\ PricedTicks(ImportPrices(w), w.now, w.end) = window
        /\ PricedTicks(ExportPrices(w), w.now, w.end) = window
        /\ KeepsBattery(w, d.action)
        /\ d.action = DISCHARGE =>
             /\ \A t \in window : Cardinality(RowsAt(w, t)) = 1
             /\ -move <= MapThenSumSet(LAMBDA t : DemandAt(w, t), window)
                         * loss * loss

\* docs/shadow_decision_policy.md:3-6: the policy "enforces the minimum value,
\* sorts by value, and uses a stable action precedence to break ties": an
\* action that is recommended is the best ranked of the eligible ones.
HighestRanked(w) ==
  LET d == Decide(w)
      candidates == Candidates(w)
      eligible == Eligible(w, candidates, Facts(w))
      best == SelectSeq(Ranked(candidates), LAMBDA a : a \in eligible)
  IN  d.action \in eligible => d.action = best[1]
=============================================================================
