------------------------------- MODULE MCPolicy -------------------------------
(***************************************************************************)
(* The deterministic computations of the advisory policy, for TLC. A run    *)
(* chooses one of them in Init and then its inputs one after the other, so  *)
(* that the step that chooses the last of them is one call of it. Or it     *)
(* lets the collector and the operator's tools work on stored observations. *)
(***************************************************************************)
EXTENDS ObservationStore, ReserveEstimate

CONSTANTS DaySlots, BucketSlots

VARIABLES algorithm, input

policyVars == <<algorithm, input, vars>>

\* The step that completes the inputs of a call.
Called(name, n) == algorithm' = name /\ Len(input') = n

----------------------------------------------------------------------------
(* Price coverage: a window and three intervals.                            *)

Sha == INSTANCE ShadowDecision

Interval(from, to, minutes, price) ==
  [from |-> from, to |-> to, minutes |-> minutes, price |-> price]

Intervals ==
  {Interval(f, t, None, 1 + 2 * t - f) : f \in 0..4, t \in 1..5}
  \cup {Interval(f, None, m, 2) : f \in {0, 2}, m \in {None, 0, 2, 3}}
  \cup {Interval(2, 4, None, None), Interval(None, 4, None, 2)}

CoverageInputs == <<{<<1, 5>>, <<0, 3>>, <<3, 3>>}, Intervals, Intervals, Intervals>>

CoverageAgrees(in) == Sha!CoverageMeasured(Tail(in), in[1][1], in[1][2])

----------------------------------------------------------------------------
(* Decisions: at tick 1 for the window to tick 5, forecast from tick 2 on.  *)

Tape(from, to, price) == Interval(from, to, None, price)

ImportTapes == {<<Tape(0, 5, 2), Tape(5, 9, 4)>>,
                <<Tape(0, 2, 2), Tape(3, 6, 1), Tape(6, 9, 1)>>,
                <<Tape(0, 2, 2), Tape(4, 9, 3)>>,
                <<Interval(0, None, 6, 3)>>}
ExportTapes == {<<Tape(0, 5, 1), Tape(5, 9, 3)>>,
                <<Tape(0, 9, 5)>>,
                <<Tape(1, 4, 3), Tape(6, 9, 4)>>}

Row(from, to, value) == [from |-> from, to |-> to, value |-> value]

Points == {<<Row(2, 4, 1), Row(4, 6, 1)>>,
           <<Row(2, 4, 2), Row(3, 6, 1)>>,
           <<Row(2, 4, 1), Row(4, 6, None)>>,
           <<>>}
Run(linked, created, points) ==
  [linked |-> linked, created |-> created, start |-> 2, points |-> points]
Runs == {Run(TRUE, 1, p) : p \in Points}
        \cup {None, Run(FALSE, 1, <<Row(2, 6, 1)>>), Run(TRUE, 2, <<Row(2, 6, 1)>>)}

Reserve(energy, slots) ==
  [identity |-> TRUE, evaluation |-> 1, start |-> 2, energy |-> energy,
   slots |-> slots]
Reserves == {Reserve(e, <<Row(1, 2, 1)>>) : e \in {None, 1, 3}}
            \cup {None, Reserve(1, <<>>)}

Observed(at, soc, energy, healthy, signs, p10, p50) ==
  [at |-> at, soc |-> soc, energy |-> energy, stale |-> FALSE,
   healthy |-> healthy, signs |-> signs, p10 |-> p10, p50 |-> p50, solarEnd |-> 9]
Observations ==
  {Observed(0, 3, e, None, TRUE, p, 1) : e \in {None, 2}, p \in {None, 1}}
  \cup {None, Observed(-2, 3, None, None, TRUE, 1, 1),
        Observed(0, None, 2, None, TRUE, 1, 1),
        Observed(0, 3, 2, FALSE, TRUE, 1, 1),
        Observed(0, 3, 2, TRUE, FALSE, 1, 1),
        Observed(0, 3, 2, TRUE, TRUE, None, None)}

Config(minimum, export, discharge, loss) ==
  [nonHold |-> TRUE, minimum |-> minimum, export |-> export,
   discharge |-> discharge, import |-> 2, charge |-> 1, loss |-> loss,
   capacity |-> 4, freshness |-> 2, analysis |-> 12]
Configs == {Config(0, 1, 1, 1), Config(0, 1, 1, 2), Config(2, 2, 1, 1),
            Config(0, 0, 1, 1), Config(0, 1, 0, 1),
            [Config(0, 1, 1, 1) EXCEPT !.nonHold = FALSE]}

Calibrations == {Sha!CalibrationChecks, Sha!CalibrationChecks \ {"backfill"}}

Situation(in) ==
  LET o == in[2]
  IN  [now |-> 1, end |-> 5, horizon |-> 9, config |-> in[1],
       observation |-> IF o = None THEN None
                       ELSE o @@ [import |-> in[5], export |-> in[6]],
       run |-> in[3], reserve |-> in[4], calibration |-> in[7]]

DecisionInputs == <<Configs, Observations, Runs, Reserves, ImportTapes,
                    ExportTapes, Calibrations>>

\* The inputs are those of the theorems about a decision.
DecisionAgrees(in) == Sha!Situated(Situation(in)) /\ Sha!Grounded(Situation(in))

\* A decision names an action only on inputs that were known, fresh and linked, and the
\* coverage of its window by prices is what the ticks that have a price say.
ActionIsGrounded ==
  [][/\ Called("coverage", 4) => CoverageAgrees(input')
     /\ Called("decision", 7) => DecisionAgrees(input')]_policyVars

\* What configuration and documents call a ranking: the selected action has the
\* highest rank of the admissible ones.
SelectsHighestRanked ==
  [][Called("decision", 7) => Sha!HighestRanked(Situation(input'))]_policyVars

----------------------------------------------------------------------------
(* Outcomes: up to three observations of two-tick slots.                    *)

Out == INSTANCE ShadowOutcome

Sample(slot, i, e, p) ==
  [slot |-> slot, importPower |-> i, exportPower |-> e, importPrice |-> p,
   exportPrice |-> 2, power |-> i]
SampleRows == {Sample(s, i, 1, p) : s \in {0, 2, 4}, i \in {0, 2, None}, p \in {1, None}}
              \cup {Sample(1, 0, 1, 1)}

OutcomeInputs == <<{<<0, 4, 4>>, <<1, 4, 5>>, <<1, 5, 5>>, <<2, 5, 4>>},
                   SampleRows, SampleRows, SampleRows>>

OutcomeAgrees(in) ==
  \A n \in 0..3 : Out!OutcomeIsExact(SubSeq(Tail(in), 1, n), in[1][1], in[1][2], in[1][3])

\* A decision outcome counts every observation of its window once, and only those.
OutcomeIsWhole == [][Called("outcome", 4) => OutcomeAgrees(input')]_policyVars

----------------------------------------------------------------------------
(* Reserve: two days of estimates, prices and a time of the first day.      *)

Sky(remaining, remaining10, tomorrow, tomorrow10) ==
  [remaining |-> remaining, remaining10 |-> remaining10, tomorrow |-> tomorrow,
   tomorrow10 |-> tomorrow10]
Skies == {Sky(120, 100, 120, 60), Sky(120, 30, 120, 150), Sky(120, None, 0, None),
          Sky(None, None, 120, 100), Sky(0, 10, 120, None), Sky(0, 0, 0, 0)}

Cheap(from, to) == [from |-> from, to |-> to, price |-> 1]
Dear(from, to) == [from |-> from, to |-> to, price |-> 3]
Tariffs == {<<Dear(0, 96)>>,
            <<Dear(0, 20), Cheap(20, 24), Dear(24, 96)>>,
            <<Cheap(4, 8), Dear(8, 96)>>,
            <<Dear(0, 46), Cheap(46, 52), Dear(52, 96)>>,
            <<Cheap(30, 36), Cheap(34, 40)>>,
            <<Cheap(60, 64), Cheap(36, 38)>>}

Household(score) ==
  [rate |-> [t \in 0..47 |-> IF t < 14 THEN 1 ELSE 3], score |-> score]

ReserveConfigs == {[capacity |-> cap, technical |-> 16, emergency |-> 24, ratio |-> 1,
                    charge |-> 12, loss |-> loss, cheap |-> 1, solar |-> 40,
                    horizon |-> 48] : cap \in {20, 160}, loss \in {1, 2}}

ReserveInputs ==
  <<ReserveConfigs, Skies, Tariffs, {None, 0, 40, 150}, {0, 32},
    {<<TRUE, {"telemetry", "price", "solar"}>>, <<FALSE, {"telemetry"}>>},
    {35, 85}, {2, 13, 21, 31, 37, 47}>>

ReserveAgrees(in) ==
  LET o == in[2] @@ [prices |-> in[3], energy |-> in[4], ev |-> in[5],
                     sunny |-> in[6][1], healthy |-> in[6][2], day |-> 0]
      d == Household(in[7])
  IN  Estimable(o, in[1], d, in[8]) /\ Funded(o, in[1], d, in[8])

\* A reserve estimate is covered by what the household consumes and receives.
ReserveIsFunded == [][Called("reserve", 8) => ReserveAgrees(input')]_policyVars

----------------------------------------------------------------------------
(* Demand forecast: days of 16 ticks, forecasts on day 8, a Tuesday.        *)

Sampled(at, power, source, fresh) ==
  [at |-> at, power |-> power, healthy |-> TRUE, eligible |-> TRUE, reason |-> None,
   source |-> source, fresh |-> fresh, confidence |-> "direct_fresh",
   active |-> FALSE, evPower |-> None, suspected |-> FALSE, pv |-> 2, battery |-> None]
Vehicular(at, power) == Sampled(at, power, "byd_vehicle_cloud", TRUE)

History ==
  {Vehicular(18, 3), Sampled(19, 6, "none", FALSE), Vehicular(98, 2), Vehicular(114, 3),
   Sampled(115, 6, "none", FALSE), Vehicular(128, 9),
   [Vehicular(20, 4) EXCEPT !.source = "charger", !.evPower = 7],
   [Vehicular(21, 5) EXCEPT !.suspected = TRUE],
   Vehicular(22, -4), [Vehicular(23, 5) EXCEPT !.eligible = FALSE],
   [Sampled(116, 8, "manual_annotation", FALSE) EXCEPT !.active = None]}

DemandConfig(minimum, policy, low) ==
  [policy |-> policy, minimum |-> minimum, lookback |-> 2, weekend |-> {5, 6},
   complete |-> 20, low |-> low, mediumLow |-> 3, weak |-> 50, erratic |-> FALSE,
   aged |-> FALSE, mape |-> 10,
   powers |-> [overnight |-> 1, morning |-> 2, daytime |-> 2, evening |-> 3,
               late_evening |-> 1]]
DemandConfigs == {DemandConfig(m, p, l) :
                    m \in {<<1, 2, 2, 2>>, <<2, 2, 3, 4>>},
                    p \in {"legacy_all_eligible", "verified_preferred"}, l \in {0, 2}}

DemandInputs == <<SUBSET History, {<<130, 133>>, <<131, 138>>, <<132, 132>>},
                  DemandConfigs>>

Cal == INSTANCE Calibration
Past == INSTANCE VehicleHistory
Review == [load |-> 4, gap |-> 4, duration |-> 4, energy |-> 1, hour |-> 6]

ForecastAgrees(in) == /\ Cal!Learned(in[1], in[2][1], in[2][2], in[3])
                      /\ Past!Reviewed(in[1], in[2][1], Review)

\* A forecast is learned from eligible observations before it alone, and what it
\* may have learned unawares is among the candidates for review.
ForecastIsLearned == [][Called("demand", 3) => ForecastAgrees(input')]_policyVars

----------------------------------------------------------------------------
(* Evidence: the observations of two slots, a third without one.            *)

Meter(slot, baseline, house, healthy, eligible, negative) ==
  [slot |-> slot, baseline |-> baseline, house |-> house, healthy |-> healthy,
   eligible |-> eligible, negative |-> negative]
Meters(slot) ==
  {{}} \cup {{Meter(slot, b, h, ok, e, n)} :
               b \in {None, 0, 6}, h \in {None, -1, -2, 6}, ok \in BOOLEAN,
               e \in BOOLEAN, n \in BOOLEAN}

EvidenceInputs == <<Meters(2), Meters(4),
                    {<<2, 4, Cal!Full>>, <<1, 6, Cal!Legacy>>, <<3, 5, None>>, <<0, 2, Cal!Legacy>>}>>

SlotsAgree(in) == Cal!EvidenceAgrees(in[1] \cup in[2], in[3][1], in[3][2], in[3][3])

----------------------------------------------------------------------------
(* Calibration: days 4 and 5, with predictions from each distance.          *)

Prediction(target, distance, expected, actual, healthy) ==
  [target |-> target, created |-> target - distance, run |-> distance,
   expected |-> expected, actual |-> actual, available |-> actual # None,
   healthy |-> healthy, scheduled |-> TRUE, model |-> "v1", alignment |-> Cal!Full,
   policy |-> "verified_preferred"]

\* What there is of a day, at a distance.
Patterns(day, distance, error) ==
  LET At(slot, d, actual, ok) ==
        Prediction((day * DaySlots + slot) * Slot, d, actual + error, actual, ok)
      Unscored(slot) == [At(slot, distance, 0, TRUE) EXCEPT !.actual = None,
                                                         !.available = FALSE]
      good == {At(1, distance, 600, TRUE), At(3, distance, 1200, TRUE)}
  IN  {good, {},
       {At(1, distance, 600, TRUE), Unscored(3), At(5, distance, 600, FALSE)},
       good \cup {[At(1, distance, 600, TRUE) EXCEPT !.expected = 0, !.run = 99],
                  At(2, 16, 600, TRUE), At(3, 17, 0, TRUE),
                  [At(1, distance, 60, TRUE) EXCEPT !.policy = None],
                  [At(1, distance, 60, TRUE) EXCEPT !.alignment = None],
                  [At(5, distance, 60, TRUE) EXCEPT !.scheduled = FALSE]}}

CalibrationConfig(dates, weekends, truncated) ==
  [identity |-> [model |-> "v1", alignment |-> Cal!Full, policy |-> "verified_preferred"],
   coverage |-> 25, dates |-> dates, weekdays |-> 1, weekends |-> weekends,
   truncated |-> truncated]

\* A day's patterns: one for the three nearer distances, one for the farthest.
CalibrationInputs ==
  <<{CalibrationConfig(d, w, FALSE) : d \in {1, 2}, w \in {0, 1}}
      \cup {CalibrationConfig(1, 0, TRUE)},
    {-240, 840}, 1..4, 1..4, 1..4, {1, 3}>>

CalibrationAgrees(in) ==
  LET Of(day, distance, n) == SetToSeq(Patterns(day, distance, in[2]))[n]
      Day4(n, m) == UNION {Of(4, d, n) : d \in {1, 2, 7}} \cup Of(4, 9, m)
      Day5(n, m) == UNION {Of(5, d, n) : d \in {1, 2, 7}} \cup Of(5, 9, m)
  IN  Cal!ReportsAgree(Day4(in[3], in[4]) \cup Day5(in[5], in[6]), in[1])

\* What is computed twice agrees: the actual value of a slot by the scorer and by the SQL
\* comparison, the calibration by the points and by the rollups.
CalibrationIsConsistent ==
  [][/\ Called("evidence", 3) => SlotsAgree(input')
     /\ Called("calibration", 6) => CalibrationAgrees(input')]_policyVars

----------------------------------------------------------------------------
(* Observations: what the entities said, and in which configuration.        *)

Ok(value, age) == [kind |-> "ok", value |-> value, age |-> age]
Told(kind) == [kind |-> kind, value |-> None, age |-> 0]

Collecting(grid, battery, has, enabled) ==
  [grid |-> grid, battery |-> battery, has |-> has, enabled |-> enabled,
   confidence |-> "high", tolerance |-> 1, stale |-> 2, soc |-> 2, power |-> 1,
   hour |-> 4, timestamp |-> enabled, maximumPv |-> 6, maximumPower |-> 4, price |-> 1,
   priceForecast |-> 2, solarForecast |-> 2, weather |-> 2]

Telling == {"charging", "plugged", "online", "updated", "location"}
CollectConfigs ==
  {Collecting("positive_export", "positive_charge", Telling, TRUE),
   Collecting("positive_import", "positive_discharge", {"evActive", "evPower"}, FALSE),
   Collecting("unknown", "positive_charge", {"evReady", "temperature", "condition"}, FALSE),
   Collecting("positive_import", "positive_charge",
              Telling \cup {"evPower", "vehicleSoc", "vehiclePower"}, TRUE)}

Cars == {("charging" :> Ok(TRUE, 0)) @@ ("plugged" :> Ok(FALSE, 0)) @@ ("updated" :> Ok(4, 0))
           @@ ("online" :> Ok(FALSE, 0)) @@ ("evActive" :> Ok(TRUE, 0)),
         ("charging" :> Ok(FALSE, 0)) @@ ("plugged" :> Ok(TRUE, 0)) @@ ("updated" :> Ok(5, 0))
           @@ ("online" :> Ok(TRUE, 0)) @@ ("location" :> Ok(TRUE, 0))
           @@ ("evActive" :> Ok(FALSE, 0)) @@ ("evPower" :> Ok(3, 0)),
         ("charging" :> Ok(TRUE, 0)) @@ ("updated" :> Ok(1, 0)) @@ ("online" :> Told("missing"))
           @@ ("location" :> Told("missing")) @@ ("evPower" :> Ok(2, 0))
           @@ ("evActive" :> Ok(TRUE, 0)) @@ ("vehicleSoc" :> Ok(101, 0)),
         ("charging" :> Ok(FALSE, 0)) @@ ("updated" :> Told("bad")) @@ ("evActive" :> Told("bad")),
         [e \in {} |-> None]}

Markets(soc, runtime, age, kind) ==
  ("soc" :> Ok(soc, age)) @@ ("runtime" :> Ok(runtime, age)) @@ ("importPrice" :> Ok(2, age))
    @@ ("exportPrice" :> [kind |-> kind, value |-> 1, age |-> 0])
    @@ ("importForecast" :> Ok(3, 0)) @@ ("exportForecast" :> Ok(3, age))
    @@ ("remaining" :> Ok(1, 0)) @@ ("tomorrow" :> Ok(1, age)) @@ ("nextHour" :> Ok(0, 0))
    @@ ("temperature" :> Ok(9, age))
Supplies == {Markets(50, 4, 0, "ok"), Markets(50, 0, 3, "ok"), Markets(101, 7, 0, "ok"),
             Markets(0, 5, 0, "missing"), ("soc" :> Told("missing"))}

ReadingInputs ==
  <<CollectConfigs, {Ok(0, 9), Ok(3, 0), Ok(-1, 0), Ok(7, 0)},
    {Ok(2, 0), Ok(4, 0), Ok(-1, 0), Ok(-3, 0)}, {Ok(-2, 0), Ok(0, 3), Ok(4, 0), Told("bad")},
    {Ok(-2, 0), Ok(1, 0), Ok(-5, 0)}, Cars, Supplies>>

ReadingAgrees(in) ==
  LET st == ("pv" :> in[2]) @@ ("house" :> in[3]) @@ ("grid" :> in[4]) @@ ("battery" :> in[5])
              @@ in[6] @@ in[7]
      row == Observe(st, in[1], 5)
  IN  /\ Accounted(RawOf(st), in[1], row.active, row.evPower)
      /\ ReadinessIsGrounded(st, in[1], 5)
      /\ ReprocessingAgrees(row, in[1])

Metering(pv, house, grid, battery, count) ==
  [pv |-> pv, house |-> house, grid |-> grid, battery |-> battery, count |-> count]
SignRows == {Metering(4, 2, 2, 0, 60), Metering(0, 3, -3, 0, 60), Metering(0, 3, 1, 2, 60),
             Metering(4, 1, 2, -1, 40), Metering(5, 1, 1, 3, 20), Metering(3, 4, 0, -1, 5),
             Metering(2, 2, 0, 0, 60), Metering(0, 6, -2, 4, 40), Metering(0, 1, None, 1, 60)}

SuggestionAgrees(in) == SignsAgree({in[1], in[2], in[3]})

\* An observation's flows are accounted for, it is ready for an action only when it is
\* whole and balanced, reprocessing it says what the collector said, and suggested
\* sign conventions are those under which the flows balance best.
ObservationIsGrounded ==
  [][/\ Called("reading", 7) => ReadingAgrees(input')
     /\ Called("signs", 3) => SuggestionAgrees(input')]_policyVars

----------------------------------------------------------------------------
(* Stored observations: two slots, the first perhaps of an older version.   *)

Stated(pv, house, grid, charging, power) ==
  ("pv" :> Ok(pv, 0)) @@ ("house" :> Ok(house, 0)) @@ ("grid" :> Ok(grid, 0))
    @@ ("battery" :> Ok(0, 0)) @@ ("soc" :> Ok(50, 0)) @@ ("runtime" :> Ok(0, 0))
    @@ ("charging" :> Ok(charging, 0)) @@ ("online" :> Ok(TRUE, 0)) @@ ("updated" :> Ok(0, 0))
    @@ ("evPower" :> power)

StoreConventions ==
  <<Collecting("positive_export", "positive_charge", Telling \cup {"evPower"}, TRUE)>>
StoreSources == {Stated(0, 4, -4, TRUE, Told("missing")), Stated(0, 4, -4, FALSE, Ok(3, 0)),
                 Stated(0, -3, 3, FALSE, Told("missing")),
                 Stated(0, 5, -1, FALSE, Told("missing"))}

----------------------------------------------------------------------------
(* Arbitrage: ready at tick 1, an action from tick 2 to 14, inputs to 22.   *)

Arb == INSTANCE ArbitrageAgreement
U == Arb!Unit

Plant(loss, import, export, curtail) ==
  [capacity |-> 48 * U, minimum |-> 4 * U, chargeLoss |-> loss, dischargeLoss |-> loss,
   charge |-> 8 * U, discharge |-> 8 * U, import |-> import * U, export |-> export * U,
   contract |-> TRUE, curtail |-> curtail]
Plants == {Plant(1, 20, 4, TRUE), Plant(2, 20, 20, TRUE), Plant(1, 12, 4, FALSE)}

Level(from, to, value) == [from |-> from, to |-> to, value |-> value * U]
Price(from, to, value) == [from |-> from, to |-> to, value |-> value]

Demands == {<<Level(2, 22, 3)>>, <<Level(2, 14, 4), Level(14, 22, 8)>>, <<Level(0, 6, 12), Level(6, 22, 0)>>}
Uncontrolled == {<<Level(2, 26, 0)>>, <<Level(2, 10, 4), Level(10, 26, 0)>>}
Suns == {<<Level(2, 22, 0)>>, <<Level(2, 8, 0), Level(8, 14, 16), Level(14, 22, 0)>>,
         <<Level(2, 4, 8), Level(4, 22, 4)>>}
Prices == {<<<<Price(2, 14, 1), Price(14, 22, 3)>>, <<Price(2, 22, 1)>>>>,
           <<<<Price(2, 8, 4), Price(8, 23, 2)>>, <<Price(2, 14, 0), Price(14, 22, 5)>>>>,
           <<<<Price(2, 12, -1), Price(12, 24, 2)>>, <<Price(2, 22, -1)>>>>}

Proof == [issued |-> 0, available |-> 1, until |-> 13, kind |-> "exact", based |-> TRUE,
          healthy |-> TRUE]
Series(meaning, points) ==
  [meaning |-> meaning, based |-> TRUE, evidence |-> Proof, points |-> points]

ArbitrageContext(in) ==
  [decision |-> 0, evaluated |-> 0, ready |-> 1, cutoff |-> 1, named |-> TRUE,
   origin |-> "authored_synthetic", from |-> 2, to |-> 14,
   branch |-> [at |-> 2, energy |-> in[2] * U, kind |-> "authored_assumption",
               based |-> TRUE, evidence |-> Proof],
   reserve |-> [at |-> 2, floor |-> 16 * U, based |-> TRUE, evidence |-> Proof],
   assumptions |-> [p |-> in[1], declared |-> TRUE, evidence |-> Proof],
   demand |-> Series("baseline", in[3]), uncontrolled |-> Series("uncontrolled", in[4]),
   pv |-> Series("pv", in[5]), importPrice |-> Series("importPrice", in[6][1]),
   exportPrice |-> Series("exportPrice", in[6][2])]

ArbitrageInputs == <<Plants, {8, 26, 46}, Demands, Uncontrolled, Suns, Prices, {1, 2}>>

Good(from, to, ok) == [from |-> from, to |-> to, healthy |-> ok]
\* What happened instead: other sun, other prices, and perhaps quotes in doubt.
Happened(c, end, n) ==
  LET foreseen == Arb!Foreseen(c, end, <<Good(2, end, TRUE)>>)
  IN  IF n = 1
      THEN [foreseen EXCEPT !.pv = <<Level(2, end, 8)>>,
                            !.importQuotes = <<Price(2, 6, 5), Price(6, end, 1)>>]
      ELSE [foreseen EXCEPT !.health = <<Good(2, 7, TRUE), Good(7, 15, FALSE),
                                         Good(15, end, TRUE)>>,
                            !.load = <<Level(2, 10, 8), Level(10, end, 4)>>]

ForesightAgrees(in) ==
  LET c == ArbitrageContext(in)
      receipt == Arb!Select(c)
  IN  receipt.faults = {} /\ receipt.estimate # None =>
        /\ Arb!Vindicated(c, receipt, <<Good(2, receipt.end, TRUE)>>)
        /\ Arb!Judged(c, receipt, Happened(c, receipt.end, in[7]))

\* With perfect foresight no selection is wrong, and whatever happened is judged
\* once, by healthy quotes, and against every alternative.
ForesightIsNeverWrong == [][Called("arbitrage", 7) => ForesightAgrees(input')]_policyVars

\* The retained export with these inputs on the five-minute grid.
Retained(in, healthy) ==
  LET Metered(t) ==
        LET At(s) == IF t < 2 THEN s[1].value ELSE Arb!ValueAt(s, Arb!Lesser(t, 21))
        IN  [slot |-> t, load |-> At(in[3]), pv |-> At(in[5]),
             importPrice |-> At(in[6][1]), exportPrice |-> At(in[6][2]),
             healthy |-> t \notin healthy]
  IN  [identity |-> TRUE, rows |-> Arb!Each(LAMBDA n : Metered(2 * n - 2), 12)]

StudyAgrees(in) ==
  LET raw == Retained(in, {16})
      study == [from |-> 2, to |-> 22, expiry |-> 12, bad |-> 16,
                quotes |-> <<raw.rows[9].importPrice, raw.rows[9].exportPrice>>]
      profile == [capacity |-> 48 * U, chargeLoss |-> in[1].chargeLoss,
                  dischargeLoss |-> in[1].dischargeLoss, charge |-> in[1].charge,
                  stored |-> in[1].charge \div in[1].chargeLoss, energy |-> in[2] * U]
      common == in[1] @@ [floor |-> 16 * U, terminal |-> 16 * U]
      silent == [raw EXCEPT !.rows[5].importPrice = None]
  IN  \A r \in {raw, silent, Retained(in, {16, 18})} :
        Arb!StudyReconciles(study, r, profile, common)

\* Two decisions in a row, in what came as expected.
ReplayAgrees(in, business) ==
  LET Longer(s) == [s EXCEPT ![Len(s)].to = 26]
      first == ArbitrageContext([in EXCEPT ![3] = Longer(@), ![4] = Longer(@), ![5] = Longer(@),
                                           ![6] = <<Longer(@[1]), Longer(@[2])>>])
      second == [first EXCEPT !.decision = 12, !.evaluated = 12, !.ready = 13, !.cutoff = 13,
                              !.from = 14, !.to = 26, !.branch.at = 14, !.reserve.at = 14]
      series == [load |-> first.demand.points, ev |-> first.uncontrolled.points,
                 pv |-> first.pv.points, importPrice |-> first.importPrice.points,
                 exportPrice |-> first.exportPrice.points]
      Whole == Arb!MakeInputs(first, 26, "HOLD")
  IN  Arb!ReplayContinues(<<first, second>>, <<series, series>>, in[2] * U, business, Whole)

ExportAgrees(in, c) ==
  LET Case(action) == Arb!MakeInputs(c, 22, action)
      shared == [Case("CHARGE_BATTERY_FROM_GRID") EXCEPT !.schedule.power = 4 * U,
                                                         !.schedule.energy = 36 * U]
      envelope == [output |-> 10 * U, charge |-> 4 * U,
                   caps |-> <<Level(2, 12, 6), Level(12, 22, 2)>>]
  IN  /\ \A action \in {"HOLD", "PRESERVE_BATTERY", "CHARGE_BATTERY_FROM_GRID"} :
           Arb!ExportIsExtension(Case(action))
      /\ Arb!ExportIsShared(shared, envelope)

Business == {[material |-> 0, budget |-> 0, wear |-> 0, dwell |-> 0, expiry |-> 12],
             [material |-> U, budget |-> U, wear |-> 1, dwell |-> 20, expiry |-> 12]}

PairAgrees(in) ==
  LET c == ArbitrageContext(in)
      e == Arb!Estimate(c, 22)
  IN  /\ \A action \in {"PRESERVE_BATTERY", "CHARGE_BATTERY_FROM_GRID"} :
           Arb!Conserved(Arb!MakeInputs(c, 22, action))
      /\ Arb!Ordered(e, Arb!Parameters(c))
      /\ StudyAgrees(in) /\ ExportAgrees(in, c)
      /\ \A b \in Business : ReplayAgrees(in, b)

\* The simulation, the estimate, the two accountings, the export model and the
\* replay agree on every unit of energy.
PairIsConserved == [][Called("arbitrage", 6) => PairAgrees(input')]_policyVars

----------------------------------------------------------------------------
(* Advice: captured at 2, witnessed then or a tick later, for an action     *)
(* from 2 or 4 on.                                                          *)

Adv == INSTANCE Advice

\* The price of a period of so many slots, perhaps a tick after its boundary.
Period(from, to, value, slots) ==
  [from |-> from, to |-> to, value |-> value, slots |-> slots]
Reported(at, points) == [reported |-> at, rows |-> points, unit |-> TRUE]
Amber(n) == <<Period(n, 12, 1, 6), Period(12 + n, 24, 4, 6)>>
AmberImports ==
  {Reported(0, Amber(0)), Reported(1, Amber(1)), Reported(-3, Amber(0)),
   Reported(0, <<Period(1, 12, 1, 6), Period(13, 14, 4, 1), Period(15, 16, 2, 1)>>),
   Reported(0, <<Period(1, 12, 1, 6), Period(15, 24, 4, 6)>>),
   Reported(0, <<Period(1, 12, 1, 6), Period(14, 24, 4, 5)>>),
   Reported(0, <<Period(1, 12, None, 6), Period(13, 24, 4, 6)>>), None}
AmberExports ==
  {Reported(0, Amber(0)), Reported(0, Amber(1)), [Reported(0, Amber(1)) EXCEPT !.unit = FALSE]}

HalfHours(at, value) ==
  [reported |-> at, rows |-> <<[from |-> 0, value |-> value * U], [from |-> 12, value |-> 0]>>]
Charged(value, at) == [value |-> value, reported |-> at]
Runtime(device, at) ==
  [bound |-> TRUE, slot |-> 0, runtime |-> [device |-> device, reported |-> at]]
Capture(confirmed, soc, freshness, today, tomorrow) ==
  [id |-> 1, slot |-> 0, received |-> 1, captured |-> 1, confirmed |-> confirmed,
   intact |-> TRUE, soc |-> soc, freshness |-> freshness, today |-> today,
   tomorrow |-> tomorrow]
Captures ==
  {Capture(1, Charged(50, 0), None, HalfHours(0, 8), HalfHours(0, 8)),
   Capture(1, Charged(25, -9), Runtime(1, 0), HalfHours(0, 8), HalfHours(0, 8)),
   Capture(2, Charged(100, 0), Runtime(-2, 1), HalfHours(0, 8), HalfHours(0, 2)),
   Capture(2, Charged(50, 1), Runtime(0, 2), HalfHours(0, 0), None),
   [Capture(2, Charged(50, 1), None, HalfHours(0, 0), HalfHours(-2, 0)) EXCEPT !.id = 2],
   Capture(3, Charged(50, 1), None, HalfHours(0, 0), HalfHours(0, 0)),
   Capture(None, Charged(50, 1), None, HalfHours(0, 0), HalfHours(0, 0))}

Linked(floor, observed, end) ==
  [linked |-> TRUE, capacity |-> 96 * U, floor |-> floor * U, consistent |-> TRUE,
   healthy |-> TRUE, stale |-> FALSE, observed |-> observed, evaluated |-> 2, end |-> end]
Deciding(confirmed, reserve, end) ==
  [id |-> 9, source |-> 1, captured |-> 2, created |-> 2, confirmed |-> confirmed,
   intact |-> TRUE, reserve |-> reserve, points |-> <<Level(0, end, 6)>>]
Decisions ==
  {Deciding(c, r, 24) : c \in {2, 3},
     r \in {None, Linked(12, 1, 15), Linked(24, 0, 24), Linked(8, 2, 24)}}
  \cup {Deciding(None, None, 24), Deciding(2, None, 13)}

Research(boundary, linked, age, load) ==
  [boundary |-> boundary, linked |-> linked, floor |-> 24 * U, soc |-> age, load |-> load,
   ages |-> [name \in {"demand", "pv", "importPrice", "exportPrice"} |-> age],
   assumptions |-> [declared |-> TRUE, evidence |-> Proof,
                    p |-> [Plant(1, 20, 20, TRUE) EXCEPT !.capacity = 96 * U,
                                                         !.minimum = 8 * U]]]
Profiles == {Research(b, l, 3, 0) : b, l \in BOOLEAN}
            \cup {Research(TRUE, TRUE, 5, 4 * U), Research(TRUE, FALSE, 2, None), None}

AdviceInputs == <<Captures, Decisions, Profiles, AmberImports, AmberExports>>

\* Another source was captured before, and another after the inputs.
AdviceAgrees(in) ==
  LET s == in[1] @@ [importPrice |-> in[4], exportPrice |-> in[5]]
      older == [s EXCEPT !.id = 5, !.captured = -2, !.confirmed = -1]
      newer == [s EXCEPT !.id = 6, !.captured = 3, !.confirmed = 3]
  IN  \A now \in {3, 4} : Adv!Bound({older, s, newer}, in[2], in[3], now)

\* Advice is given on inputs that belong together, were known and were recent, with the
\* recorded price of every tick, and is not shown once its action would begin.
AdviceIsBound == [][Called("advice", 5) => AdviceAgrees(input')]_policyVars

----------------------------------------------------------------------------
(* Transfers: a target that was cut off in the middle, and used since.      *)

Tra == INSTANCE Transfer

Kept(slot, raw, eligible) == [slot |-> slot, raw |-> raw, eligible |-> eligible]
Forecasts(ids) == {[id |-> i, made |-> i] : i \in ids}
StoredBefore ==
  [observations |-> {Kept(1, 1, TRUE), Kept(2, 1, FALSE), Kept(3, 2, TRUE)},
   forecast_runs |-> Forecasts({1, 3}),
   forecast_points |-> {[id |-> 1, run |-> 1, at |-> 1], [id |-> 2, run |-> 3, at |-> 1],
                        [id |-> 5, run |-> 3, at |-> 2]},
   observation_derivations |-> {[id |-> 2, slot |-> 1, version |-> 1]},
   ev_session_annotations |-> {[id |-> 1, session |-> 1]},
   ev_session_annotation_rows |-> {[annotation |-> 1, slot |-> 1], [annotation |-> 1, slot |-> 2]}]
TransferSources ==
  {StoredBefore, Restrict(StoredBefore, {"observations"}),
   [StoredBefore EXCEPT !["observation_derivations"] = {[id |-> 1, slot |-> 2, version |-> 1]}]}
NewDatabase ==
  [rows |-> [t \in Tra!TableNames |-> {}], next |-> [t \in Tra!Serial |-> 1],
   progress |-> [t \in Tra!TableNames |-> None]]

\* The App inserts a row with the next identity, or uses that up in vain.
Free(db, table) == \A r \in db.rows[table] : r.id # db.next[table]
Inserted(db, table, row) ==
  [db EXCEPT !.next[table] = @ + 1,
             !.rows[table] = IF Free(db, table) THEN @ \cup {row @@ [id |-> db.next[table]]}
                             ELSE @]
Forecasted(db) ==
  LET run == Inserted(db, "forecast_runs", [made |-> 9])
  IN  IF ~Free(db, "forecast_runs") THEN run
      ELSE IF ~Free(db, "forecast_points")
        THEN [db EXCEPT !.next["forecast_runs"] = @ + 1, !.next["forecast_points"] = @ + 1]
      ELSE Inserted(run, "forecast_points", [run |-> db.next["forecast_runs"], at |-> 3])
Upserted(db, slot) ==
  [db EXCEPT !.rows["observations"] =
     {r \in @ : r.slot # slot}
     \cup {[slot |-> slot, raw |-> 5, eligible |-> TRUE, vehicle |-> 1]}]
WithDerivation(db, slot) ==
  IF \/ \A r \in db.rows["observations"] : r.slot # slot
     \/ \E r \in db.rows["observation_derivations"] : r.slot = slot
  THEN db
  ELSE Inserted(db, "observation_derivations", [slot |-> slot, version |-> 1])

\* Between two calls, on the source or the target.
Since(event, in) ==
  CASE event[1] = "cut" ->
         LET steps == Len(Tra!Transactions(in.source, 2, TRUE))
             n == IF event[2] < steps THEN event[2] ELSE steps
         IN  [in EXCEPT !.db = Tra!TransferTo(in.source, @, 2, TRUE, n).db]
    [] event[1] = "forecast" -> [in EXCEPT !.db = Forecasted(@)]
    [] event[1] = "observe"  -> [in EXCEPT !.db = Upserted(@, event[2])]
    [] event[1] = "derive"   -> [in EXCEPT !.db = WithDerivation(@, event[2])]
    [] event[1] = "prune"    -> [in EXCEPT !.db.rows["forecast_points"] = {}]
    [] event[1] = "grow"     -> [in EXCEPT !.source["observations"] = @ \cup {Kept(4, 3, TRUE)}]
Events == {<<"cut", n>> : n \in {4, 8, 20}}
          \cup {<<"observe", 2>>, <<"derive", 1>>, <<"forecast", 1>>, <<"prune", 1>>, <<"grow", 1>>}

TransferInputs == <<TransferSources, Events, Events, Events>>

TransferAgrees(in) ==
  LET start == [source |-> in[1], db |-> NewDatabase]
      found == Since(in[4], Since(in[3], Since(in[2], start)))
  IN  Tra!TransferIsSafe(found.source, found.db, 2)

\* Whatever the target has been through, a transfer loses and rewrites nothing, can be cut
\* off and repeated, is foretold by a dry run, and passes when all of the source is there.
TransferIsWhole == [][Called("transfer", 4) => TransferAgrees(input')]_policyVars

----------------------------------------------------------------------------

Inputs == [coverage |-> CoverageInputs, decision |-> DecisionInputs,
           outcome |-> OutcomeInputs, reserve |-> ReserveInputs,
           demand |-> DemandInputs,
           evidence |-> EvidenceInputs, calibration |-> CalibrationInputs,
           reading |-> ReadingInputs, signs |-> <<SignRows, SignRows, SignRows>>,
           store |-> <<>>, arbitrage |-> ArbitrageInputs,
           advice |-> AdviceInputs, transfer |-> TransferInputs]

PolicyInit ==
  /\ algorithm \in DOMAIN Inputs /\ input = <<>>
  /\ IF algorithm = "store" THEN Init
     ELSE rows = <<>> /\ audit = {} /\ notes = <<>> /\ scored = {} /\ earlier = None
          /\ collected = <<>> /\ rewritten = {} /\ raced = {}

Choose ==
  /\ Len(input) < Len(Inputs[algorithm])
  /\ \E x \in Inputs[algorithm][Len(input) + 1] : input' = Append(input, x)
  /\ UNCHANGED <<algorithm, vars>>

Work == algorithm = "store" /\ Next /\ UNCHANGED <<algorithm, input>>

PolicySpec == PolicyInit /\ [][Choose \/ Work]_policyVars
=============================================================================
