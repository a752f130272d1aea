---------------------------- MODULE VehicleTelemetry ----------------------------
(***************************************************************************)
(* What is known of the vehicle (parse_vehicle_telemetry) and the household *)
(* load without it (calculate_baseline_load).                               *)
(*                                                                         *)
(* st maps the present entities to [kind, value, age]: the kind is "ok",    *)
(* "missing" (unavailable) or "bad" (does not parse), the age that of the   *)
(* source's update. v has the configured entities (has), whether the        *)
(* vehicle is enabled and how old its telemetry may be (stale), in ticks.   *)
(***************************************************************************)
EXTENDS Readings

VehicleEntities == {"charging", "plugged", "online", "vehicleSoc", "vehiclePower",
                    "updated", "location"}

Present(st, e) == e \in DOMAIN st
Parses(st, e) == Present(st, e) /\ st[e].kind = "ok"
ValueOf(st, e) == IF Parses(st, e) THEN st[e].value ELSE None

NoVehicle == [soc |-> None, power |-> None, charging |-> None, plugged |-> None,
              online |-> None, home |-> None, age |-> None, fresh |-> FALSE,
              available |-> FALSE, status |-> "unknown", source |-> "none",
              confidence |-> "unavailable", issues |-> {}]

\* What an entity that is present is reported for, by its kind.
EntityIssue(st, e) ==
  LET kind == st[e].kind
      soc == e = "vehicleSoc" /\ kind = "ok" /\ st[e].value \notin 0..100
  IN  CASE e = "location" /\ kind = "missing" -> {"ev_location_unavailable"}
        [] e = "vehicleSoc" /\ (kind = "bad" \/ soc) -> {"ev_soc_invalid"}
        [] e = "vehiclePower" /\ kind = "bad" -> {"ev_power_invalid"}
        [] e \notin {"location", "vehicleSoc", "vehiclePower"} /\ kind # "ok"
             -> {"ev_state_unavailable"}
        [] e \in {"vehicleSoc", "vehiclePower"} /\ kind = "missing" -> {"ev_state_unavailable"}
        [] OTHER -> {}

Status(available, fresh, online, charging, plugged, home) ==
  IF ~available THEN "unknown"
  ELSE IF ~fresh THEN "stale"
  ELSE IF online = FALSE THEN "offline"
  ELSE IF charging = TRUE THEN "charging"
  ELSE IF plugged = TRUE /\ charging = FALSE THEN "plugged_idle"
  ELSE IF home = TRUE /\ plugged = FALSE THEN "home_unplugged"
  ELSE IF home = FALSE THEN "away" ELSE "unknown"

\* That it charges is believed of a fresh vehicle, that it does not of one online too.
Believed(told, fresh, authoritative) ==
  IF (told = TRUE /\ fresh) \/ (told = FALSE /\ authoritative) THEN told ELSE None

Vehicle(st, v, now) ==
  LET configured == VehicleEntities \cap v.has
      seen == [e \in configured \cap DOMAIN st |-> st[e]]
      updated == ValueOf(seen, "updated")
      signed == IF updated = None THEN None ELSE now - updated
      age == IF updated = None THEN None ELSE Positive(signed)
      fresh == updated # None /\ (updated # None => age <= v.stale)
      online == ValueOf(seen, "online")
      authoritative == fresh /\ (online = TRUE \/ "online" \notin v.has)
      charging == Believed(ValueOf(seen, "charging"), fresh, authoritative)
      plugged == Believed(ValueOf(seen, "plugged"), fresh, authoritative)
      soc == ValueOf(seen, "vehicleSoc")
      home == IF Present(seen, "location") /\ seen["location"].kind # "missing"
              THEN seen["location"].value ELSE None
      available == \E e \in DOMAIN seen : seen[e].kind # "missing"
      doubts == {d \in {"future", "stale", "unplugged", "offline"} :
                   CASE d = "future" -> updated # None /\ (updated # None => signed < -1)
                     [] d = "stale" -> updated # None /\ ~fresh
                     [] d = "unplugged" -> charging = TRUE /\ plugged = FALSE
                     [] OTHER -> charging = TRUE /\ online = FALSE}
  IN  IF ~v.enabled THEN NoVehicle
      ELSE [soc |-> IF soc # None /\ soc \in 0..100 THEN soc ELSE None,
            power |-> ValueOf(seen, "vehiclePower"),
            charging |-> charging, plugged |-> plugged, online |-> online, home |-> home,
            age |-> age, fresh |-> fresh, available |-> available,
            status |-> Status(available, fresh, online, charging, plugged, home),
            source |-> "byd_vehicle_cloud",
            confidence |-> IF fresh THEN "direct_fresh"
                           ELSE IF available THEN "direct_stale" ELSE "unavailable",
            issues |-> (IF configured = {} THEN {<<None, "ev_entity_missing">>}
                        ELSE {<<e, "ev_entity_missing">> : e \in configured \ DOMAIN st})
                       \cup (UNION {{<<e, i>> : i \in EntityIssue(seen, e)} : e \in DOMAIN seen})
                       \cup {<<d, IF d = "stale" THEN "ev_telemetry_stale"
                                  ELSE "ev_status_inconsistent">> : d \in doubts}]

----------------------------------------------------------------------------
(* The baseline: the household's load without the vehicle.                  *)

MateriallyNegativeDemand(power) == power # None /\ power < -1

NoBaseline(reason) == [power |-> None, eligible |-> FALSE, reason |-> reason]

\* inferred is the confidence of an inferred session, or None.
Baseline(house, active, power, inferred, unknown) ==
  LET measured == Positive(house)
  IN  IF house = None THEN NoBaseline("house_consumption_missing")
      ELSE IF MateriallyNegativeDemand(house)
           THEN NoBaseline("invalid_negative_household_demand")
      ELSE IF power # None
           THEN [power |-> Positive(measured - Positive(power)), eligible |-> TRUE,
                 reason |-> None]
      ELSE LET reason == IF active = FALSE THEN None
                         ELSE IF inferred # None THEN inferred
                         ELSE IF active = TRUE THEN unknown ELSE None
           IN  [power |-> measured, eligible |-> reason = None, reason |-> reason]
=============================================================================
