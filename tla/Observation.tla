----------------------------- MODULE Observation -----------------------------
(***************************************************************************)
(* One row of the history: what the collector makes of the states it reads  *)
(* (build_observation), and what reprocessing derives of a stored row.      *)
(* A row has its reading (pv, house, grid, battery), the vehicle's columns  *)
(* and the derived ones.                                                    *)
(***************************************************************************)
EXTENDS DataHealth

RawOf(st) == [pv |-> ValueOf(st, "pv"), house |-> ValueOf(st, "house"),
              grid |-> ValueOf(st, "grid"), battery |-> ValueOf(st, "battery")]

Helpers == {"evActive", "evEnergy", "evReady"}

SourceOf(c, active, power, vehicle) ==
  IF power # None THEN <<"charger", "high">>
  ELSE IF c.enabled THEN <<"byd_vehicle_cloud", vehicle.confidence>>
  ELSE IF Helpers \cap c.has # {}
       THEN <<"home_assistant_helper", IF active # None THEN "high" ELSE "low">>
  ELSE <<"none", "unconfirmed">>

UnknownPower(vehicle) == IF vehicle THEN "known_ev_session_without_ac_power"
                         ELSE "ev_active_power_unknown"

VehicleLabels(vehicle) ==
  {l \in {"ev_charging_confirmed", "ev_plugged_idle", "ev_at_home"} :
     /\ vehicle.fresh
     /\ CASE l = "ev_charging_confirmed" -> vehicle.charging = TRUE
          [] l = "ev_plugged_idle" -> vehicle.plugged = TRUE /\ vehicle.charging = FALSE
          [] OTHER -> vehicle.home = TRUE}

\* A vehicle's label comes with its own certainty, whatever the flows' balance.
ReadingLabels(flow, active, power, tolerance, vehicle) ==
  LET told == EventLabels(flow, active, power, tolerance)
      more == VehicleLabels(vehicle)
  IN  IF more = {} THEN told
      ELSE [labels |-> (told.labels \ {"unknown"}) \cup more, confidence |-> "high"]

Observe(st, c, now) ==
  LET raw == RawOf(st)
      vehicle == Vehicle(st, c, now)
      active == IF c.enabled THEN vehicle.charging
                ELSE IF "evActive" \in c.has THEN ValueOf(st, "evActive") ELSE None
      power == IF "evPower" \in c.has THEN ValueOf(st, "evPower") ELSE None
      source == SourceOf(c, active, power, vehicle)
      baseline == Baseline(raw.house, active, power, None, UnknownPower(c.enabled))
      flow == Flow(raw, c)
      health == Health(st, c, now, flow, active, power)
  IN  [pv |-> raw.pv, house |-> raw.house, grid |-> raw.grid, battery |-> raw.battery,
       healthy |-> health.telemetry.healthy, overall |-> health.overall.healthy,
       active |-> active, evPower |-> power, source |-> source[1], confidence |-> source[2],
       fresh |-> vehicle.fresh, session |-> None, baseline |-> baseline.power,
       eligible |-> baseline.eligible, reason |-> baseline.reason, flow |-> flow,
       flowHealthy |-> health.flow.healthy, version |-> None, legacy |-> FALSE]

----------------------------------------------------------------------------
(* Reprocessing one row.                                                    *)

FlowVersion == "energy-flow-v1"

Annotated(row) == row.source = "manual_annotation" \/ row.session # None

\* Why a row cannot be trained on, before its baseline is looked at.
Exclusion(row, flow, c) ==
  IF flow.status # "confirmed" THEN "required_raw_telemetry_missing"
  ELSE IF ~row.healthy THEN "data_quality_insufficient"
  ELSE IF ~Balanced(flow, c) THEN "balance_residual_outside_tolerance"
  ELSE IF ~Annotated(row) /\ row.active = TRUE /\ row.evPower = None
       THEN UnknownPower(row.source = "byd_vehicle_cloud")
  ELSE None

RepairStatus(row, flow, override) ==
  IF flow.status # "confirmed" THEN "excluded"
  ELSE IF row.flow.status = "confirmed" /\ ~override
       THEN IF row.flow.import = None THEN "excluded" ELSE "unchanged"
  ELSE "repairable"

Derived(row, c) ==
  LET flow == Flow(row, c)
      exclusion == Exclusion(row, flow, c)
      computed == Baseline(row.house, row.active, row.evPower, None,
                           UnknownPower(row.source = "byd_vehicle_cloud"))
      excluded == exclusion # None /\ ~Annotated(row)
      base == IF Annotated(row)
              THEN [power |-> row.baseline, eligible |-> row.eligible, reason |-> row.reason]
              ELSE computed
  IN  [row EXCEPT !.flow = flow, !.flowHealthy = Balanced(flow, c),
                  !.baseline = base.power,
                  !.eligible = base.eligible /\ ~excluded,
                  !.reason = IF excluded THEN exclusion ELSE base.reason,
                  !.version = FlowVersion,
                  !.legacy = row.legacy \/ row.flow.status # "confirmed"]

\* What identical work is recognized by: neither the session nor the tolerance is in it.
Fingerprint(row, c) ==
  [reading |-> <<row.pv, row.house, row.grid, row.battery>>, healthy |-> row.healthy,
   active |-> row.active, power |-> row.evPower, legacy |-> Derived(row, c).legacy,
   conventions |-> <<c.grid, c.battery, c.confidence>>]

----------------------------------------------------------------------------
(* What the two promise.                                                    *)

\* A reading that is ready for an action is whole, plausible and balanced.
ReadinessIsGrounded(st, c, now) ==
  LET row == Observe(st, c, now)
      health == Health(st, c, now, row.flow, row.active, row.evPower)
  IN  \A action \in {"grid_charge", "battery_export"} : ReadyFor(health, action) =>
        /\ \A e \in TelemetryEntities \cup PriceEntities \cup PriceForecasts \cup SolarEntities :
             Parses(st, e)
        /\ st["soc"].value \in 0..100 /\ row.house >= -1
        /\ \A e \in PowerEntities : Abs(st[e].value) <= Max({c.maximumPv, c.maximumPower})
        /\ Balanced(row.flow, c) /\ row.baseline # None
        /\ ReadyFor(health, "load_profile")

\* Reprocessed with the configuration it was collected with, a row keeps its flows
\* and its baseline, and trains when it did, was healthy and is in balance.
ReprocessingAgrees(row, c) ==
  LET again == Derived(row, c)
      twice == Derived(again, c)
  IN  row.flow.status = "confirmed" =>
        /\ again.flow = row.flow /\ again.baseline = row.baseline
        /\ again.eligible = (row.eligible /\ row.healthy /\ Balanced(row.flow, c))
        /\ ~again.eligible \/ again.reason = row.reason
        /\ row.flowHealthy => again.flowHealthy
        /\ twice = again /\ Fingerprint(again, c) = Fingerprint(row, c)
=============================================================================
