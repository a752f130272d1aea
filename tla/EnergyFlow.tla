------------------------------ MODULE EnergyFlow ------------------------------
(***************************************************************************)
(* The directions of power: derive_energy_flow and derive_event_labels on   *)
(* one reading, and analyze_power_signs on many of them.                    *)
(*                                                                         *)
(* A reading has pv, house, grid and battery in watts, each perhaps None.   *)
(* c has the two sign conventions (grid, battery) and the tolerance.        *)
(***************************************************************************)
EXTENDS Readings

Incomplete(raw) == None \in {raw.pv, raw.house, raw.grid, raw.battery}

FlowFields == {"import", "export", "charge", "discharge", "solarToHouse",
               "solarToBattery", "solarToGrid", "batteryToHouse", "batteryToGrid",
               "gridToHouse", "gridToBattery", "residual"}

NoFlow(status) ==
  [f \in FlowFields \cup {"status"} |-> IF f = "status" THEN status ELSE None]

Lesser(a, b) == IF a < b THEN a ELSE b

\* Mutant of SunToBattery: the battery is served before the house.
SunToBatteryFirst(pv, house, charge) == Lesser(pv, charge)

\* The sun serves the house, then the battery, then the grid.
SunToBattery(pv, house, charge) == Lesser(Positive(pv - house), charge)

\* The battery serves the house before the grid, the grid what then is left.
Directed(pv, house, import, export, charge, discharge) ==
  LET solarToHouse == Lesser(pv, house)
      solarToBattery == SunToBattery(pv, house, charge)
      batteryToHouse == Lesser(discharge, house - solarToHouse)
  IN  [status |-> "confirmed", import |-> import, export |-> export,
       charge |-> charge, discharge |-> discharge,
       solarToHouse |-> solarToHouse, solarToBattery |-> solarToBattery,
       solarToGrid |-> Lesser(pv - solarToHouse - solarToBattery, export),
       batteryToHouse |-> batteryToHouse, batteryToGrid |-> discharge - batteryToHouse,
       gridToHouse |-> Lesser(import, house - solarToHouse - batteryToHouse),
       gridToBattery |-> charge - solarToBattery,
       residual |-> pv + import + discharge - house - export - charge]

Flow(raw, c) ==
  IF "unknown" \in {c.grid, c.battery} THEN NoFlow("unconfirmed")
  ELSE IF Incomplete(raw) THEN NoFlow("unavailable")
  ELSE LET import == IF c.grid = "positive_import" THEN raw.grid ELSE -raw.grid
           charge == IF c.battery = "positive_charge" THEN raw.battery ELSE -raw.battery
       IN  Directed(Positive(raw.pv), Positive(raw.house), Positive(import),
                    Positive(-import), Positive(charge), Positive(-charge))

Balanced(flow, c) == flow.residual # None /\ Abs(flow.residual) <= c.tolerance

----------------------------------------------------------------------------
(* Labels.                                                                  *)

\* Which supply an active charger is told to have.
ChargerLabel(flow, power, threshold) ==
  CASE flow.solarToHouse >= power - threshold /\ flow.gridToHouse <= threshold
         -> "ev_charge_solar"
    [] ~(flow.solarToHouse >= power - threshold /\ flow.gridToHouse <= threshold)
       /\ flow.gridToHouse >= power - threshold /\ flow.solarToHouse <= threshold
         -> "ev_charge_grid"
    [] OTHER -> "ev_charge_mixed"

EventLabels(flow, active, power, tolerance) ==
  LET threshold == Max({tolerance, 1})
      batteries == {l \in {"solar_battery_charge", "grid_battery_charge", "solar_export",
                           "battery_export"} :
                      threshold < CASE l = "solar_battery_charge" -> flow.solarToBattery
                                    [] l = "grid_battery_charge" -> flow.gridToBattery
                                    [] l = "solar_export" -> flow.solarToGrid
                                    [] OTHER -> flow.batteryToGrid}
      charging == active = TRUE /\ power # None /\ OrZero(power) > threshold
      events == batteries \cup
                  {l \in {ChargerLabel(flow, OrZero(power), threshold)} : charging}
  IN  IF flow.status # "confirmed" THEN [labels |-> {"unknown"}, confidence |-> "unconfirmed"]
      ELSE [labels |-> IF events # {} THEN events
                       ELSE IF flow.solarToHouse > threshold THEN {"normal_self_consumption"}
                       ELSE {"unknown"},
            confidence |-> IF Abs(flow.residual) <= tolerance THEN "high" ELSE "low"]

----------------------------------------------------------------------------
(* Signs: rows of readings, each seen count times. A hypothesis is the pair *)
(* of multipliers that make the grid and the battery supplies of the house. *)
(* The mean squares stand for their roots, which the program rounds.        *)

Hypotheses == <<<<1, 1>>, <<1, -1>>, <<-1, 1>>, <<-1, -1>>>>

Complete(rows) == {r \in rows : ~Incomplete(r)}
Samples(rows) == MapThenSumSet(LAMBDA r : r.count, rows)
Misfit(r, h) == r.pv + h[1] * r.grid + h[2] * r.battery - r.house
SquareSum(rows, h) == MapThenSumSet(LAMBDA r : r.count * Misfit(r, h) * Misfit(r, h), rows)
HouseSum(rows) == MapThenSumSet(LAMBDA r : r.count * Abs(r.house), rows)

\* The root mean square is at most p/20 of the mean of the house, or of one watt.
Within(rows, square, p) ==
  LET mean == Max({HouseSum(rows), Samples(rows)})
  IN  400 * square * Samples(rows) <= p * p * mean * mean

FitConfidence(rows, h) ==
  LET n == Samples(rows)
  IN  CASE n < 10 -> "insufficient_data"
        [] n >= 100 /\ Within(rows, SquareSum(rows, h), 3) -> "high"
        [] n >= 30 /\ Within(rows, SquareSum(rows, h), 7)
           /\ ~(n >= 100 /\ Within(rows, SquareSum(rows, h), 3)) -> "medium"
        [] OTHER -> "low"

Ranked(rows) ==
  LET order == SetToSortSeq(1..4, LAMBDA i, j :
                 LET a == SquareSum(rows, Hypotheses[i])
                     b == SquareSum(rows, Hypotheses[j])
                 IN  a < b \/ (a = b /\ i < j))
  IN  [n \in 1..4 |-> Hypotheses[order[n]]]

\* How far the best hypothesis is ahead of the second: by a quarter, by a tenth.
SignConfidence(rows) ==
  LET best == SquareSum(rows, Ranked(rows)[1])
      second == SquareSum(rows, Ranked(rows)[2])
      n == Samples(rows)
      high == n >= 100 /\ 16 * best <= 9 * second /\ Within(rows, best, 3)
  IN  CASE rows = {} \/ second = 0 -> "insufficient_data"
        [] rows # {} /\ second # 0 /\ high -> "high"
        [] rows # {} /\ second # 0 /\ ~high /\ n >= 30 /\ 100 * best <= 81 * second
           /\ Within(rows, best, 7) -> "medium"
        [] OTHER -> "low"

SuggestedConvention(h) ==
  [grid |-> IF h[1] = 1 THEN "positive_import" ELSE "positive_export",
   battery |-> IF h[2] = 1 THEN "positive_discharge" ELSE "positive_charge"]

Analyze(rows) ==
  LET complete == Complete(rows)
      confidence == SignConfidence(complete)
  IN  [confidence |-> confidence,
       fits |-> [n \in 1..4 |-> FitConfidence(complete, Ranked(complete)[n])],
       suggestion |-> IF confidence = "high" THEN SuggestedConvention(Ranked(complete)[1])
                      ELSE None]

----------------------------------------------------------------------------
(* What the two promise.                                                    *)

\* Every direction is accounted for, up to what the meters disagree by; what a
\* balanced reading is labelled with went through the meter it names.
Accounted(raw, c, active, power) ==
  LET flow == Flow(raw, c)
      told == EventLabels(flow, active, power, c.tolerance)
      Close(total, parts) == Abs(total - parts) <= Abs(flow.residual)
  IN  /\ flow.status = "confirmed" =>
           /\ \A f \in FlowFields \ {"residual"} : flow[f] >= 0
           /\ Close(Positive(raw.pv), flow.solarToHouse + flow.solarToBattery + flow.solarToGrid)
           /\ Close(Positive(raw.house), flow.solarToHouse + flow.batteryToHouse + flow.gridToHouse)
           /\ Close(flow.import, flow.gridToHouse + flow.gridToBattery)
           /\ Close(flow.export, flow.solarToGrid + flow.batteryToGrid)
           /\ flow.charge = flow.solarToBattery + flow.gridToBattery
           /\ flow.discharge = flow.batteryToHouse + flow.batteryToGrid
      /\ told.confidence = "high" =>
           /\ "grid_battery_charge" \in told.labels => flow.import > 0
           /\ "battery_export" \in told.labels => flow.export > 0
           /\ "ev_charge_solar" \in told.labels => raw.pv > 0
           /\ "ev_charge_grid" \in told.labels => flow.import > 0

\* A suggestion is the one convention under which the flows balance best, and a
\* meter wired the other way round gets the opposite suggestion.
SignsAgree(rows) ==
  LET report == Analyze(rows)
      Turned == {[r EXCEPT !.grid = IF @ = None THEN None ELSE -@] : r \in rows}
      Other(s) == [s EXCEPT !.grid = IF @ = "positive_import" THEN "positive_export"
                                     ELSE "positive_import"]
      Error(s) == MapThenSumSet(LAMBDA r : r.count * Flow(r, s).residual * Flow(r, s).residual,
                                Complete(rows))
      suggested == report.suggestion
  IN  suggested # None =>
        /\ \A n \in 1..4 : SuggestedConvention(Hypotheses[n]) # suggested =>
             Error(suggested) < Error(SuggestedConvention(Hypotheses[n]))
        /\ report.fits[1] = "high"
        /\ Analyze(Turned).suggestion = Other(suggested)
=============================================================================
