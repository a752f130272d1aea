------------------------------- MODULE Calibration -------------------------------
(***************************************************************************)
(* Calibration of the operational forecast, computed twice: from the scored *)
(* points (calculate_forecast_calibration) and from the daily rollups       *)
(* (build_rollup_groups, then calculate_forecast_calibration_from_rollups). *)
(*                                                                         *)
(* A row is a scored point: its run, target and creation, the identity of   *)
(* its run, the expected and the actual value. Times are ticks of local     *)
(* time, values multiples that make the means exact; a metric keeps sums,   *)
(* not quotients. c has the identity and the requirements.                  *)
(***************************************************************************)
EXTENDS DemandForecast, ForecastEvidence

Horizons == {"0-3h", "3-6h", "6-12h", "12-24h"}

HorizonBucket(ticks) ==
  LET hours == 24 * ticks
      Within(from, to) == from * DaySlots * Slot <= hours /\ hours < to * DaySlots * Slot
  IN  CASE Within(0, 3) -> "0-3h" [] Within(3, 6) -> "3-6h" [] Within(6, 12) -> "6-12h"
        [] Within(12, 24) -> "12-24h" [] OTHER -> "24h+"

HorizonOf(row) == HorizonBucket(row.target - row.created)

EligibleRow(row) == row.available /\ row.healthy /\ row.actual # None

Required(c) == (DaySlots * c.coverage + 99) \div 100
Weekend(day) == day % 7 >= 5

----------------------------------------------------------------------------
(* Sums.                                                                    *)

SumOver(Value(_), set) == MapThenSumSet(Value, set)
MeanOver(Value(_), set) == SumOver(Value, set) \div Cardinality(set)

\* One value for the eligible predictions of one target and horizon.
SlotValue(rows) ==
  [forecast |-> MeanOver(LAMBDA r : r.expected, rows),
   actual   |-> MeanOver(LAMBDA r : r.actual, rows)]

\* The metric of a function from (target, horizon) to the predictions for it.
SlotMetric(predictions) ==
  LET value == [k \in {k \in DOMAIN predictions :
                         \E r \in predictions[k] : EligibleRow(r)} |->
                  SlotValue({r \in predictions[k] : EligibleRow(r)})]
      Error(k) == value[k].forecast - value[k].actual
  IN  [total    |-> Cardinality(DOMAIN predictions),
       eligible |-> Cardinality(DOMAIN value),
       signed   |-> SumOver(Error, DOMAIN value),
       absolute |-> SumOver(LAMBDA k : Abs(Error(k)), DOMAIN value),
       squared  |-> SumOver(LAMBDA k : Error(k) * Error(k), DOMAIN value),
       forecast |-> SumOver(LAMBDA k : value[k].forecast, DOMAIN value),
       actual   |-> SumOver(LAMBDA k : value[k].actual, DOMAIN value)]

\* Thresholds on the absolute bias and the mean absolute error, in watts.
Status(metric, evidence, has) ==
  LET Within(bias, mae) == /\ Abs(metric.signed) <= bias * metric.eligible
                           /\ metric.absolute <= mae * metric.eligible
  IN  CASE ~has -> "insufficient_data"
        [] has /\ ~evidence -> "provisional"
        [] OTHER -> IF Within(200, 600) THEN "good"
                    ELSE IF Within(300, 750) THEN "acceptable"
                    ELSE IF Within(600, 900) THEN "degraded" ELSE "poor"

\* What a report says of its days, and what it blocks.
Verdict(metric, byHorizon, days, present, extra, c) ==
  LET complete == {d \in DOMAIN days : days[d].complete}
      weekends == {d \in complete : Weekend(d)}
      short == {b \in {"dates", "weekdays", "weekends", "horizons"} :
                  CASE b = "dates" -> Cardinality(complete) < c.dates
                    [] b = "weekdays" -> Cardinality(complete \ weekends) < c.weekdays
                    [] b = "weekends" -> Cardinality(weekends) < c.weekends
                    [] b = "horizons" -> ~present}
      blocks == short \cup extra
  IN  [metric |-> metric, byHorizon |-> byHorizon, days |-> days,
       independent |-> short = {}, blocks |-> blocks,
       status |-> Status(metric, blocks = {}, complete # {})]

----------------------------------------------------------------------------
(* From the scored points.                                                  *)

MatchesIdentity(row, c) ==
  /\ row.scheduled
  /\ row.model = c.identity.model /\ row.alignment = c.identity.alignment
  /\ row.policy = c.identity.policy

\* Overlapping predictions by the (target, horizon) they are for.
Slots(rows) ==
  LET key(r) == <<r.target, HorizonOf(r)>>
      known == {r \in rows : HorizonOf(r) \in Horizons}
  IN  [k \in {key(r) : r \in known} |-> {r \in known : key(r) = k}]

EligibleSlots(slots) == {k \in DOMAIN slots : \E r \in slots[k] : EligibleRow(r)}

FromDetail(all, c) ==
  LET slots == Slots({r \in all : MatchesIdentity(r, c)})
      eligible == EligibleSlots(slots)
      On(day) == {k \in DOMAIN slots : DayOf(k[1]) = day}
      For(h) == {k \in DOMAIN slots : k[2] = h}
      days == [d \in {DayOf(k[1]) : k \in DOMAIN slots} |->
                 [eligible |-> Cardinality(On(d) \cap eligible),
                  signed   |-> -SlotMetric(Restrict(slots, On(d))).signed,
                  complete |-> \A h \in Horizons :
                     Cardinality(On(d) \cap For(h) \cap eligible) >= Required(c)]]
      complete == {d \in DOMAIN days : days[d].complete}
      present == \A h \in Horizons :
                   Cardinality({d \in complete : On(d) \cap For(h) \cap eligible # {}})
                     >= c.dates
  IN  Verdict(SlotMetric(slots),
              [h \in Horizons |-> SlotMetric(Restrict(slots, For(h)))], days, present,
              IF c.truncated THEN {"truncated"} ELSE {}, c)
        @@ [targets  |-> Cardinality({k[1] : k \in DOMAIN slots}),
            eligible |-> Cardinality({k[1] : k \in eligible})]

----------------------------------------------------------------------------
(* From the rollups.                                                        *)

\* Mutant of RollupSlots: a target without an eligible prediction is left out.
RollupSlotsEligible(rows) ==
  [t \in {r.target : r \in {r \in rows : EligibleRow(r)}} |->
     {r \in rows : r.target = t}]

RollupSlots(rows) == [t \in {r.target : r \in rows} |-> {r \in rows : r.target = t}]

RollupKey(row) ==
  [date |-> DayOf(row.target), model |-> row.model,
   alignment |-> AlignmentVersion(row.alignment),
   policy |-> IF row.policy = None THEN "legacy_all_eligible" ELSE row.policy,
   horizon |-> HorizonOf(row)]

\* The rollups of the scheduled points, one for each key.
RollupGroups(all, c) ==
  LET rows == {r \in all : r.scheduled /\ HorizonOf(r) \in Horizons}
      Rollup(key) ==
        LET group == {r \in rows : RollupKey(r) = key}
            date == RollupSlots({r \in rows : [RollupKey(r) EXCEPT !.horizon = key.horizon]
                                                = key})
            metric == SlotMetric(RollupSlots(group))
        IN  [key |-> key, metric |-> metric,
             dateUnique |-> Cardinality(DOMAIN date),
             dateEligible |-> Cardinality(EligibleSlots(date)),
             complete |-> metric.eligible >= Required(c)]
  IN  {Rollup(key) : key \in {RollupKey(r) : r \in rows}}

MetricFields == {"total", "eligible", "signed", "absolute", "squared", "forecast", "actual"}
RollupMetric(rollups) ==
  [f \in MetricFields |-> SumOver(LAMBDA r : r.metric[f], rollups)]

OfIdentity(rollups, c) ==
  {r \in rollups : /\ r.key.model = c.identity.model
                   /\ r.key.alignment = c.identity.alignment
                   /\ r.key.policy = c.identity.policy}

FromRollups(rollups, c) ==
  LET cohort == OfIdentity(rollups, c)
      On(day) == {r \in cohort : r.key.date = day}
      For(h) == {r \in cohort : r.key.horizon = h}
      dates == {r.key.date : r \in cohort}
      days == [d \in dates |->
                 [eligible |-> SumOver(LAMBDA r : r.metric.eligible, On(d)),
                  signed   |-> -SumOver(LAMBDA r : r.metric.signed, On(d)),
                  complete |-> Horizons \subseteq
                                 {r.key.horizon : r \in {r \in On(d) : r.complete}}]]
      present == \A h \in Horizons :
                   Cardinality({r \in For(h) : r.complete}) >= c.dates
      extra == {b \in {"truncated", "backfill"} :
                  IF b = "truncated" THEN c.truncated
                  ELSE Cardinality(cohort) < Cardinality(dates) * Cardinality(Horizons)}
      Largest(field, d) == Max({r[field] : r \in On(d)})
  IN  Verdict(RollupMetric(cohort), [h \in Horizons |-> RollupMetric(For(h))], days,
              present, extra, c)
        @@ [targets  |-> SumOver(LAMBDA d : Largest("dateUnique", d), dates),
            eligible |-> SumOver(LAMBDA d : Largest("dateEligible", d), dates)]

----------------------------------------------------------------------------
(* The gate.                                                                *)

\* Dates that have detail of the identity but not all of its rollups.
BackfillRemaining(all, rollups, c) ==
  LET eligible == {DayOf(r.target) : r \in {r \in all : MatchesIdentity(r, c)}}
      represented(d) == {r.key.horizon : r \in {r \in OfIdentity(rollups, c) : r.key.date = d}}
  IN  {d \in eligible : represented(d) # Horizons}

\* A decision may rest on the report: nothing blocks it and its backfill is complete.
GateOpen(all, rollups, c) ==
  /\ {r \in all : MatchesIdentity(r, c)} # {}
  /\ BackfillRemaining(all, rollups, c) = {}
  /\ FromRollups(rollups, c).blocks = {}

\* The report from the rollups is the report from the points: the same sums, days
\* and counts. It may only be more careful, and where the gate is open it is not:
\* the evidence is there in the points.
ReportsAgree(all, c) ==
  LET rollups == RollupGroups(all, c)
      detail == FromDetail(all, c)
      report == FromRollups(rollups, c)
      same == {"metric", "byHorizon", "days", "independent", "targets", "eligible"}
  IN  /\ \A f \in same : report[f] = detail[f]
      /\ report.blocks \ {"backfill"} \subseteq detail.blocks
      /\ report.status = detail.status
           \/ ("backfill" \in report.blocks
               /\ report.status \in {"insufficient_data", "provisional"})
      /\ GateOpen(all, rollups, c) => detail.independent /\ detail.blocks = {}
=============================================================================
