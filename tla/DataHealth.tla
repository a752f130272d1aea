------------------------------ MODULE DataHealth ------------------------------
(***************************************************************************)
(* evaluate_data_health: what may be used of a reading, by domain. Issues   *)
(* are <<code, entity>>; the codes that Warns names do not make a domain    *)
(* unhealthy.                                                               *)
(*                                                                         *)
(* st is as in VehicleTelemetry; an entity's age is the time since its      *)
(* source's update. c has the freshness policies, in ticks, and the limits. *)
(***************************************************************************)
EXTENDS EnergyFlow, VehicleTelemetry

PowerEntities == {"battery", "pv", "house", "grid"}
TelemetryEntities == PowerEntities \cup {"soc"}
PriceEntities == {"importPrice", "exportPrice"}
PriceForecasts == {"importForecast", "exportForecast"}
SolarEntities == {"remaining", "tomorrow", "nextHour"}

Warns(code) == code \in {"source_update_stale", "stale_state"}

Domain(issues) ==
  [healthy |-> \A i \in issues : Warns(i[1]),
   score |-> Positive(100 - MapThenSumSet(LAMBDA i : IF Warns(i[1]) THEN 5 ELSE 20, issues)),
   issues |-> issues]

\* How long a value may stay the same: no grace is None, and the sun may be down.
Unchanged(x, grace, zero) ==
  \/ zero /\ x.kind = "ok" /\ x.value = 0
  \/ grace # None /\ (grace # None => x.age <= grace)

Freshness(st, e, limit, grace, zero) ==
  IF ~Present(st, e) THEN "missing"
  ELSE IF st[e].kind = "missing" THEN "unavailable"
  ELSE IF st[e].kind = "bad" THEN "invalid"
  ELSE IF st[e].age <= limit THEN "available_and_fresh"
  ELSE IF Unchanged(st[e], grace, zero) THEN "available_but_unchanged"
  ELSE "source_update_stale"

NumericIssues(st, e, limit, grace, zero) ==
  IF ~Present(st, e) THEN {<<"missing_entity", e>>}
  ELSE {<<code, e>> : code \in
          {k \in {"unavailable_state", "malformed_number", "source_update_stale"} :
             CASE k = "unavailable_state" -> st[e].kind = "missing"
               [] k = "malformed_number" -> st[e].kind = "bad"
               [] OTHER -> st[e].age > limit /\ ~Unchanged(st[e], grace, zero)}}

\* The clock of the inverter's own frame, where it is configured: both its time
\* and its receipt are recent, to a tick into the future.
RuntimeFresh(st, c, now) ==
  LET Recent(age) == age \in -1..c.soc
  IN  /\ Parses(st, "runtime") /\ Recent(now - st["runtime"].value)
      /\ Recent(st["runtime"].age) /\ st["soc"].age >= -1

SocFreshness(st, c, now) ==
  LET basic == Freshness(st, "soc", c.soc, None, FALSE)
  IN  IF basic \in {"missing", "unavailable", "invalid"} THEN basic
      ELSE IF ~RuntimeFresh(st, c, now) THEN "source_update_stale"
      ELSE IF st["soc"].age <= c.soc THEN "available_and_fresh"
      ELSE "available_but_unchanged"

Implausible(st, e, c) ==
  Parses(st, e) /\ Abs(ValueOf(st, e)) > (IF e = "pv" THEN c.maximumPv ELSE c.maximumPower)

TelemetryHealth(st, c, now) ==
  LET numeric == (UNION {NumericIssues(st, e, c.power, None, e = "pv") : e \in PowerEntities})
                 \cup NumericIssues(st, "soc", c.soc, Max({c.soc, c.hour}), FALSE)
      stale == <<"source_update_stale", "soc">>
      timed == IF ~c.timestamp THEN numeric
               ELSE IF SocFreshness(st, c, now) = "source_update_stale"
                    THEN numeric \cup {stale} ELSE numeric \ {stale}
  IN  Domain(timed
        \cup (IF ValueOf(st, "soc") \in {None} \cup 0..100 THEN {}
              ELSE {<<"soc_out_of_range", "soc">>})
        \cup {<<"implausible_power", e>> : e \in {x \in PowerEntities : Implausible(st, x, c)}}
        \cup {<<"invalid_negative_household_demand", e>> :
               e \in {x \in {"house"} : MateriallyNegativeDemand(ValueOf(st, x))}})

\* A forecast's value is the number of its intervals.
PriceHealth(st, c) ==
  Domain((UNION {NumericIssues(st, e, c.price, None, FALSE) : e \in PriceEntities})
    \cup {<<"missing_entity", e>> : e \in PriceForecasts \ DOMAIN st}
    \cup {<<"missing_amber_forecast", e>> :
            e \in {x \in PriceForecasts \cap DOMAIN st : ValueOf(st, x) \in {None, 0}}}
    \cup {<<"stale_state", e>> :
            e \in {x \in PriceForecasts \cap DOMAIN st : st[x].age > c.priceForecast}})

\* A summary without a supported unit is "bad".
SolarHealth(st, c) ==
  Domain({<<"missing_entity", e>> : e \in SolarEntities \ DOMAIN st}
    \cup {<<"missing_solcast_summary", e>> :
            e \in {x \in SolarEntities \cap DOMAIN st : ~Parses(st, x)}}
    \cup {<<"stale_state", e>> :
            e \in {x \in SolarEntities \cap DOMAIN st : st[x].age > c.solarForecast}})

\* Of the temperature and the condition, those that are configured.
WeatherHealth(st, c) ==
  Domain((UNION {NumericIssues(st, e, c.weather, None, FALSE) :
                   e \in {"temperature"} \cap c.has})
    \cup {<<IF Present(st, e) THEN "unavailable_state" ELSE "missing_entity", e>> :
            e \in {x \in {"condition"} \cap c.has :
                     ~Present(st, x) \/ (Present(st, x) => st[x].kind = "missing")}})

FlowHealth(flow, c, active, power) ==
  LET wrong == {code \in {"sign_conventions_unknown", "derived_flow_unavailable",
                          "balance_residual_too_large", "ev_telemetry_inconsistent"} :
                  CASE code = "sign_conventions_unknown" -> flow.status = "unconfirmed"
                    [] code = "derived_flow_unavailable" -> flow.status = "unavailable"
                    [] code = "balance_residual_too_large" ->
                         flow.residual # None /\ ~Balanced(flow, c)
                    [] OTHER -> active = FALSE /\ OrZero(power) > c.tolerance}
  IN  Domain({<<code, None>> : code \in wrong})

\* The domains do not see each other; the overall one is the telemetry's.
Health(st, c, now, flow, active, power) ==
  LET telemetry == TelemetryHealth(st, c, now)
  IN  [telemetry |-> telemetry, price |-> PriceHealth(st, c), solar |-> SolarHealth(st, c),
       weather |-> WeatherHealth(st, c), flow |-> FlowHealth(flow, c, active, power),
       overall |-> telemetry]

ReadyFor(health, action) ==
  \A d \in (IF action = "load_profile" THEN {"telemetry"}
            ELSE {"telemetry", "price", "solar", "flow"}) : health[d].healthy
=============================================================================
