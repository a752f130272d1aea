-------------------------- MODULE ArbitrageAgreement --------------------------
(***************************************************************************)
(* What the parts of the arbitrage research must agree on: the simulation,  *)
(* the two accountings of it, the estimate of a decision, the export model, *)
(* the replay of several decisions and the judgement of an outcome.         *)
(***************************************************************************)
EXTENDS ArbitrageSelection, ConditionalStudy, ExportModel

\* The most that flows through the battery in one tick.
TickFlow(p) == Greater(p.charge, p.discharge * p.dischargeLoss)

Close(a, b, p) == Abs(a - b) <= TickFlow(p)

\* Whatever is admitted is simulated within the physical bounds, every unit
\* accounted for; only demand and surplus that nothing can take are left.
Conserved(case) ==
  CaseReasons(case) = {} =>
    LET ledgers == SimulatePair(case)
    IN  \A i \in DOMAIN ledgers :
          /\ LedgerReasons(ledgers[i], case.p)
               \subseteq {"unserved_load", "curtailment_not_permitted"}
          /\ Reconcile(ledgers[i], case.p).residual = 0
          /\ Summary(ledgers[i], case.p).shortfall = 0

\* The paths of an estimate: the same reference twice, and never less stored
\* energy for more intervention.
Ordered(estimate, p) ==
  LET At(k, n) == estimate.common[k].steps[n].after
  IN  /\ estimate.faults \subseteq {"independent_reference_mismatch"}
      /\ estimate.residual <= Greater(TickFlow(p), p.import + p.export)
      /\ \A n \in DOMAIN estimate.common["R"].steps :
           At("R", n) <= At("P", n) /\ At("P", n) <= At("G", n) + TickFlow(p)

Envelope(p, case) ==
  [output |-> p.discharge + Max({case.pv[n].value : n \in DOMAIN case.pv}),
   charge |-> p.charge,
   caps |-> <<[from |-> case.from, to |-> case.to, value |-> p.export]>>]

\* Under an envelope that does not bind, the export model is the paired one.
ExportIsExtension(case) ==
  LET core == SimulatePair(case)[2]
      own == SimulateExport(case, Envelope(case.p, case), case.schedule.action)
  IN  /\ Close(Last(core.steps).after, Last(own.steps).after, case.p)
      /\ Reconcile(own, case.p).residual = 0

\* What is exported at will stays within the envelope and above the floor.
ExportIsShared(case, envelope) ==
  LET result == CompareExport(case, envelope, "EXPORT_BATTERY_AC")
      p == case.p
  IN  ExportReasons(case, envelope, "EXPORT_BATTERY_AC") = {} =>
      /\ result.faults \subseteq {"export_unserved_load"}
      /\ Reconcile(result.alternative, p).residual = 0
      /\ result.energyDelta <= TickFlow(p)
      /\ \A r \in Range(result.alternative.steps) :
           /\ r.export > 0 => r.imports = 0
           /\ r.charge > 0 => r.discharge = 0
           /\ r.discharge > 0 => r.after >= p.floor
           /\ r.delivered <= r.request
           /\ r.pv - r.curtail + r.discharge
                <= envelope.output * (r.to - r.from)

\* The two accountings agree, and the control differs in nothing.
StudyReconciles(study, raw, profile, common) ==
  LET normal == NormalizeExport(raw, study)
      result == EvaluateStudy(normal, profile, common, study, study.from)
      control == result["HOLD"]
  IN  RetainedFaults(raw, study) = {} /\ ProfileFaults(profile, common) = {} =>
        /\ \A action \in DOMAIN result : result[action].reconciled.passed
        /\ control.ledgers[1] = control.ledgers[2]
        /\ control.value \in {0, None}
        /\ normal.quoted <=> control.comparison # None

\* A replay keeps the state of each path, and its reference is the one of the
\* whole window.
ReplayContinues(contexts, realised, energy, business, whole) ==
  LET replay == Replay(contexts, realised, energy, business)
      p == Parameters(contexts[1])
      reference == SimulatePair(whole)[1]
      Continuous(steps) == \A n \in 2 .. Len(steps) : /\ steps[n].before = steps[n - 1].after
                                                      /\ steps[n].from = steps[n - 1].to
  IN  replay.faults = {} =>
        /\ Continuous(replay.steps.R) /\ Continuous(replay.steps.candidate)
        /\ replay.candidate >= replay.R - TickFlow(p)
        /\ Close(replay.R, Last(reference.steps).after, p)

----------------------------------------------------------------------------
(* Outcomes.                                                                *)

\* Two series added.
Added(a, b, from, to) ==
  LET edges == InOrder({from, to}
                 \cup {t \in UNION {{x.from, x.to} : x \in Range(a) \cup Range(b)} :
                         from < t /\ t < to})
  IN  Each(LAMBDA n : [from |-> edges[n], to |-> edges[n + 1],
                       value |-> ValueAt(a, edges[n]) + ValueAt(b, edges[n])],
           Len(edges) - 1)

Clipped(series, from, to) ==
  LET kept == SelectSeq(series, LAMBDA x : x.from < to /\ from < x.to)
  IN  Each(LAMBDA n : [from |-> Greater(kept[n].from, from), to |-> Lesser(kept[n].to, to),
                       value |-> kept[n].value], Len(kept))

\* The outcome in which everything came as expected.
Foreseen(c, end, health) ==
  [linked |-> TRUE, based |-> TRUE, from |-> c.from, to |-> end, settled |-> TRUE,
   applicable |-> TRUE, health |-> health,
   load |-> Added(c.demand.points, c.uncontrolled.points, c.from, end),
   pv |-> Clipped(c.pv.points, c.from, end),
   importQuotes |-> Clipped(c.importPrice.points, c.from, end),
   exportQuotes |-> Clipped(c.exportPrice.points, c.from, end)]

\* With perfect foresight no selection is wrong and no forecast is off.
Vindicated(c, receipt, health) ==
  LET e == EvaluateOutcome(c, receipt, Foreseen(c, receipt.end, health))
  IN  /\ e.realised # None
      /\ \A n \in DOMAIN Pairs : e.errors[n] = 0
      /\ e.hindsight = receipt.selected
      /\ e.falsePositive # TRUE /\ e.falseIncrement # TRUE /\ e.missed # TRUE

\* Whatever happened: cash is attributed once, a loss against holding is a
\* missed opportunity, and only healthy quotes can convict.
Judged(c, receipt, outcome) ==
  LET e == EvaluateOutcome(c, receipt, outcome)
      counts == Summarize(<<e>>)
  IN  e.realised # None =>
        /\ \A n \in DOMAIN Pairs :
             /\ e.components[n].bad + e.components[n].good
                  = e.realised.comparisons[n].delta
             /\ e.eligibility[n].strict => e.eligibility[n].quoted
        /\ (e.value # None /\ e.value < 0 /\ e.missed # None) => e.missed = TRUE
        /\ (\E h \in Range(outcome.health) : ~h.healthy) =>
             <<e.falsePositive, e.falseIncrement, e.missed>> = <<None, None, None>>
        /\ counts.falsePositive <= counts.falsePositiveEvaluable
        /\ counts.missed <= counts.missedEvaluable
        /\ counts.falsePositive = 1 /\ e.hindsight = "HOLD" /\ e.value < 0 =>
             counts.missed = counts.missedEvaluable
=============================================================================
