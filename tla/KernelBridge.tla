----------------------------- MODULE KernelBridge -----------------------------
(***************************************************************************)
(* The three paths of an arbitrage decision (core_bridge.py): R holds, P    *)
(* preserves the battery and G charges it from the grid during the action.  *)
(* P and G are each simulated with a reference of their own, all paths are  *)
(* cut at the phases of all, and every pair of paths is compared.           *)
(***************************************************************************)
EXTENDS PairedLedger

\* The action asks for two kilowatts during thirty minutes.
GridPower == 4 * Unit
ActionTicks == 6 * Slot

\* The code's numerical epsilon: what 3.6 kilowatts carry in a microsecond.
TwinTolerance == 7 * Unit

Parameters(c) ==
  [floor |-> c.reserve.floor, terminal |-> c.reserve.floor] @@ c.assumptions.p

PointsOf(series) == IF series = None THEN <<>> ELSE series.points

MakeInputs(c, end, action) ==
  LET charging == action = "CHARGE_BATTERY_FROM_GRID"
  IN  [ready |-> c.ready, from |-> c.from, to |-> end, stateAt |-> c.branch.at,
       energy |-> c.branch.energy, p |-> Parameters(c),
       schedule |-> [action |-> action, supplied |-> c.ready, from |-> c.from,
                     to |-> c.to, power |-> IF charging THEN GridPower ELSE 0,
                     energy |-> IF charging THEN GridPower * ActionTicks ELSE 0],
       kind |-> IF c.uncontrolled = None THEN "total" ELSE "baseline_plus_ev",
       load |-> PointsOf(c.demand), ev |-> PointsOf(c.uncontrolled),
       pv |-> PointsOf(c.pv), importPrice |-> PointsOf(c.importPrice),
       exportPrice |-> PointsOf(c.exportPrice)]

----------------------------------------------------------------------------
(* One partition for all paths.                                             *)

PartitionOf(ledgers) ==
  InOrder(UNION {{r.from, r.to} : r \in UNION {Range(l.steps) : l \in ledgers}})

\* The part of a phase from left to right.
Part(row, left, right) ==
  LET ticks == row.to - row.from
      Share(x) == (x \div ticks) * (right - left)
      At(t) == row.before + ((row.after - row.before) \div ticks) * (t - row.from)
  IN  [f \in FlowFields |-> Share(row[f])]
      @@ [row EXCEPT !.from = left, !.to = right, !.before = At(left), !.after = At(right)]

Align(ledger, bounds) ==
  LET Of(left) == CHOOSE r \in Range(ledger.steps) : r.from <= left /\ left < r.to
  IN  [ledger EXCEPT !.steps =
         Each(LAMBDA n : Part(Of(bounds[n]), bounds[n], bounds[n + 1]), Len(bounds) - 1)]

Sums(steps) == [f \in FlowFields |-> Total(LAMBDA r : r[f], steps)]

\* What the alignment refuses.
AlignFaults(ledger, split, case) ==
  LET Crosses(r) == \A s \in Range(ledger.steps) : ~(s.from <= r.from /\ r.to <= s.to)
  IN  When(\E r \in Range(split.steps) : Crosses(r), "partition_crosses_phase")
      \cup When(\E r \in Range(split.steps) :
                  \/ r.load # LoadAt(case, r.from) * (r.to - r.from)
                  \/ r.pv # ValueAt(case.pv, r.from) * (r.to - r.from),
                "source_energy_mismatch")
      \cup When(\E r \in Range(split.steps) :
                  \/ r.importPrice # ValueAt(case.importPrice, r.from)
                  \/ r.exportPrice # ValueAt(case.exportPrice, r.from),
                "source_quote_mismatch")
      \cup When(Sums(ledger.steps) # Sums(split.steps), "split_aggregate_mismatch")

Differences(a, b) ==
  {Abs(a.steps[n][f] - b.steps[n][f]) :
     n \in DOMAIN a.steps, f \in FlowFields \cup {"before", "after"}}

----------------------------------------------------------------------------
(* Accounting without the routing.                                          *)

Reconcile(ledger, p) ==
  LET debit == Total(LAMBDA r : r.imports * r.importPrice, ledger.steps)
      credit == Total(LAMBDA r : r.export * r.exportPrice, ledger.steps)
  IN  [cost |-> debit - credit, debit |-> debit, credit |-> credit,
       residual |-> Max({Abs(ServedBalance(r)) : r \in Range(ledger.steps)}
                        \cup {Abs(StoredBalance(r, p)) : r \in Range(ledger.steps)})]

Pairs == [preservation |-> <<"R", "P">>, charging_increment |-> <<"P", "G">>,
          combined |-> <<"R", "G">>]
OfPairs(Op(_)) ==
  [preservation |-> Op("preservation"), charging_increment |-> Op("charging_increment"),
   combined |-> Op("combined")]
OfPaths(Op(_)) == [R |-> Op("R"), P |-> Op("P"), G |-> Op("G")]
OfLedgers(Op(_)) == OfPaths(Op) @@ [control |-> Op("control")]

\* The flows and states that tell charging from preserving.
PhysicalFields == (FlowFields \ {"request", "delivered"}) \cup {"before", "after"}

Estimate(c, end) ==
  LET preserve == MakeInputs(c, end, "PRESERVE_BATTERY")
      charge == MakeInputs(c, end, "CHARGE_BATTERY_FROM_GRID")
      p == preserve.p
      kept == SimulatePair(preserve)
      filled == SimulatePair(charge)
      originals == [R |-> kept[1], P |-> kept[2], G |-> filled[2], control |-> filled[1]]
      bounds == PartitionOf(Range(originals))
      common == OfLedgers(LAMBDA k : Align(originals[k], bounds))
      audits == OfLedgers(LAMBDA k : Reconcile(originals[k], p))
      splits == OfLedgers(LAMBDA k : Reconcile(common[k], p))
      residual == Max(Differences(common["R"], common["control"]))
      Compared(a, b) ==
        LET result == CompareLedgers(common[a], common[b], p, TRUE)
            errors == LedgerReasons(originals[a], p) \cup LedgerReasons(originals[b], p)
        IN  [result EXCEPT !.value = IF errors = {} THEN @ ELSE None,
                           !.reasons = @ \cup errors]
      comparisons == OfPairs(LAMBDA name : Compared(Pairs[name][1], Pairs[name][2]))
  IN  [faults |->
         UNION {AlignFaults(originals[k], common[k], preserve) : k \in DOMAIN originals}
         \cup When(residual > TwinTolerance, "independent_reference_mismatch")
         \cup When(\E k \in DOMAIN originals : audits[k].residual + splits[k].residual > 0,
                   "independent_energy_reconciliation_failed")
         \cup When(\E k \in DOMAIN originals : audits[k].cost # splits[k].cost,
                   "split_cash_mismatch")
         \cup When(\E name \in DOMAIN Pairs :
                     comparisons[name].delta
                       # audits[Pairs[name][1]].cost - audits[Pairs[name][2]].cost,
                   "cash_comparison_reconciliation_failed"),
       costs |-> OfPaths(LAMBDA k : audits[k].cost),
       energies |-> OfPaths(LAMBDA k : Last(originals[k].steps).after),
       comparisons |-> comparisons,
       paths |-> OfPaths(LAMBDA k : Summary(originals[k], p)),
       residual |-> residual,
       equivalent |-> \A n \in DOMAIN common["P"].steps : \A f \in PhysicalFields :
                        common["P"].steps[n][f] = common["G"].steps[n][f],
       originals |-> originals, common |-> common]
=============================================================================
