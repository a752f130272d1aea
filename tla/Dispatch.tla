------------------------------- MODULE Dispatch -------------------------------
(***************************************************************************)
(* How one phase of constant power is routed on the AC bus of the paired    *)
(* experiment (offline_paired_synthetic._route): sun to the house, then to  *)
(* the battery, then to the grid; what the house lacks from the battery,    *)
(* then from the grid. Every quantity is the energy of the phase.           *)
(***************************************************************************)
EXTENDS Integers

Lesser(a, b) == IF a <= b THEN a ELSE b
Greater(a, b) == IF a >= b THEN a ELSE b

NoDischarge == {"PRESERVE_BATTERY", "CHARGE_BATTERY_FROM_GRID"}
EnergyActions == {"CHARGE_BATTERY_FROM_GRID", "DISCHARGE_FOR_SELF_CONSUMPTION"}

\* What each port can carry in a phase.
Ports(p, ticks) ==
  [charge |-> p.charge * ticks, discharge |-> p.discharge * ticks,
   import |-> p.import * ticks, export |-> p.export * ticks]

\* The extra energy that charging from the grid delivers.
\* Mutant: the sun's share of the charge port is forgotten.
GridChargeTwice(port, action, request, imports, charge, export, headroom) ==
  IF action # "CHARGE_BATTERY_FROM_GRID" THEN 0
  ELSE Greater(0, Lesser(Lesser(request, port.import - imports),
                         Lesser(Lesser(port.charge, headroom - charge),
                                IF export > 0 THEN 0 ELSE request)))

GridCharge(port, action, request, imports, charge, export, headroom) ==
  IF action # "CHARGE_BATTERY_FROM_GRID" THEN 0
  ELSE Greater(0, Lesser(Lesser(request, port.import - imports),
                         Lesser(Lesser(port.charge - charge, headroom - charge),
                                IF export > 0 THEN 0 ELSE request)))

\* headroom and available are what the battery can take and give, on the bus.
Route(port, load, pv, action, request, headroom, available) ==
  LET surplus   == pv - Lesser(pv, load)
      deficit   == load - Lesser(pv, load)
      charge    == Lesser(surplus, Lesser(port.charge, headroom))
      export    == Lesser(surplus - charge, port.export)
      able      == Lesser(deficit, Lesser(port.discharge, available))
      discharge == IF action \in NoDischarge THEN 0
                   ELSE IF action = "DISCHARGE_FOR_SELF_CONSUMPTION"
                        THEN Lesser(able, request) ELSE able
      imports   == Lesser(deficit - discharge, port.import)
      bought    == GridCharge(port, action, request, imports, charge, export, headroom)
  IN  [imports |-> imports + bought, export |-> export, charge |-> charge + bought,
       discharge |-> discharge, curtail |-> surplus - charge - export,
       unserved |-> deficit - discharge - imports,
       delivered |-> IF action = "DISCHARGE_FOR_SELF_CONSUMPTION" THEN discharge
                     ELSE bought]

----------------------------------------------------------------------------
(* The battery of a phase, in stored energy.                                *)

\* What it can take from the bus and what it can give to it.
Headroom(p, energy) == Greater(0, p.capacity - energy) * p.chargeLoss
Available(p, energy) == Greater(0, energy - p.floor) \div p.dischargeLoss

Stored(p, energy, flow) ==
  energy + (flow.charge \div p.chargeLoss) - flow.discharge * p.dischargeLoss
=============================================================================
