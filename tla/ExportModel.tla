----------------------------- MODULE ExportModel -----------------------------
(***************************************************************************)
(* The export research model (export_model.py): the frozen step of the      *)
(* paired experiment under an envelope shared by the sun and the battery,   *)
(* plus what the battery may export at will. An envelope is [output,        *)
(* charge, caps] with the site's export caps as a series.                   *)
(***************************************************************************)
EXTENDS PairedLedger

\* More energy than any phase moves, so that a probe is limited by power alone.
Ample == 100 * Unit

Epoch(case, envelope, at, end, energy, action, request) ==
  LET ticks == end - at
      pv == ValueAt(case.pv, at)
      clipped == Lesser(pv, envelope.output)
      p == [case.p EXCEPT
              !.export = Lesser(@, ValueAt(envelope.caps, at)),
              !.discharge = Lesser(@, Positive(envelope.output - clipped)),
              !.charge = Lesser(@, envelope.charge)]
      virtual == [case EXCEPT
                    !.p = p, !.pv = <<[from |-> at, to |-> end, value |-> clipped]>>,
                    !.schedule = [action |-> IF action = "EXPORT_BATTERY_AC"
                                             THEN "DISCHARGE_FOR_SELF_CONSUMPTION"
                                             ELSE action,
                                  supplied |-> at, from |-> at, to |-> end,
                                  power |-> request, energy |-> request * ticks]]
      base == Step(virtual, energy, at, end, TRUE)
      extra == IF action # "EXPORT_BATTERY_AC" \/ base.charge > NumericalEpsilon THEN 0
               ELSE Positive(Min({request * ticks - base.discharge,
                                  p.discharge * ticks - base.discharge,
                                  Positive(energy - p.floor) \div p.dischargeLoss
                                    - base.discharge,
                                  p.export * ticks - base.export}))
  IN  [base EXCEPT !.after = @ - extra * p.dischargeLoss,
                   !.export = @ + extra, !.discharge = @ + extra,
                   !.pv = pv * ticks, !.curtail = @ + (pv - clipped) * ticks,
                   !.delivered = IF action = "EXPORT_BATTERY_AC"
                                 THEN base.discharge + extra ELSE @,
                   !.request = request * ticks]

ExportReasons(case, envelope, action) ==
  LET Covered(series, price) == CoverageReasons(series, case.from, case.to, price)
  IN  ParameterReasons(case.p)
      \cup Covered(case.load, FALSE) \cup Covered(case.pv, FALSE)
      \cup Covered(case.importPrice, TRUE) \cup Covered(case.exportPrice, TRUE)
      \cup Covered(envelope.caps, FALSE)
      \cup (IF case.kind = "baseline_plus_ev" THEN Covered(case.ev, FALSE) ELSE {})
      \cup When(case.energy < case.p.minimum \/ case.energy > case.p.capacity,
                "initial_energy_outside_bounds")
      \cup When(/\ action = "EXPORT_BATTERY_AC"
                /\ \/ case.schedule.power > 4 * Unit
                   \/ case.schedule.energy > 4 * Unit * 6 * Slot,
                "diagnostic_request_scale_exceeded")

\* A phase of constant flows ends when the store reaches its end; the rate is
\* probed with more room and more energy than there is.
EpochEnd(case, envelope, energy, cursor, right, action, request) ==
  LET probeCase == [case EXCEPT !.p.capacity = Greater(@, energy + 10 * Ample)]
      probe == Epoch(probeCase, envelope, cursor, right,
                     IF energy <= case.p.floor THEN energy ELSE energy + Ample,
                     action, request)
      rate == (probe.after - probe.before) \div (right - cursor)
      room == IF rate > 0 THEN case.p.capacity - energy ELSE energy - case.p.floor
  IN  IF rate = 0 \/ room <= 0 \/ room >= Abs(rate) * (right - cursor) THEN right
      ELSE Lesser(right, Greater(cursor + Rounded(room, Abs(rate)), cursor + 1))

RECURSIVE Epochs(_, _, _, _, _, _, _)
Epochs(case, envelope, action, boundaries, cursor, energy, steps) ==
  IF cursor = case.to THEN steps
  ELSE LET s == case.schedule
           right == Min({t \in boundaries : t > cursor})
           chosen == IF s.from <= cursor /\ cursor < s.to THEN action ELSE "HOLD"
           request == IF chosen \in {"HOLD", "PRESERVE_BATTERY"} THEN 0
                      ELSE IF Positive(cursor - s.from) * s.power < s.energy THEN s.power
                      ELSE 0
           end == EpochEnd(case, envelope, energy, cursor, right, chosen, request)
           row == Epoch(case, envelope, cursor, end, energy, chosen, request)
       IN  Epochs(case, envelope, action, boundaries, end, row.after, Append(steps, row))

SimulateExport(case, envelope, action) ==
  LET caps == envelope.caps
      boundaries == Boundaries(case)
                    \cup {t \in {caps[n].from : n \in DOMAIN caps}
                               \cup {caps[n].to : n \in DOMAIN caps} :
                            case.from < t /\ t < case.to}
  IN  [from |-> case.from, to |-> case.to, energy |-> case.energy,
       steps |-> Epochs(case, envelope, action, boundaries, case.from, case.energy, <<>>)]

\* Why a simulation is given up.
ExportFaults(ledger, p) ==
  When(\E r \in Range(ledger.steps) : r.after < p.minimum \/ r.after > p.capacity,
       "export_energy_constraint")
  \cup When(\E r \in Range(ledger.steps) : r.unserved > 0, "export_unserved_load")

CompareExport(case, envelope, action) ==
  LET reference == SimulateExport(case, envelope, "HOLD")
      alternative == SimulateExport(case, envelope, action)
      Ending(l) == Last(l.steps).after
      Spent(l) == -Total(Cash, l.steps)
      reasons == When(Abs(Ending(alternative) - Ending(reference)) > TerminalTolerance,
                      "terminal_energy_unmatched")
                 \cup When(Lesser(Ending(reference), Ending(alternative)) < case.p.terminal,
                           "terminal_reserve_shortfall")
      cash == Spent(reference) - Spent(alternative)
  IN  [faults |-> ExportFaults(reference, case.p) \cup ExportFaults(alternative, case.p),
       cash |-> cash, energyDelta |-> Ending(alternative) - Ending(reference),
       value |-> IF reasons = {} THEN cash ELSE None, reasons |-> reasons,
       reference |-> reference, alternative |-> alternative]
=============================================================================
