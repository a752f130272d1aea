----------------------------- MODULE ShadowOutcome -----------------------------
(***************************************************************************)
(* score_shadow_outcome: what was observed in the window of a decision,     *)
(* once it is over. Observations are sequences of                           *)
(*   [slot, importPower, exportPower, importPrice, exportPrice, power]      *)
(* where slot is the tick a five-minute slot starts at, `power' stands for  *)
(* any other integrated series, and None for a field that is missing, not   *)
(* finite, or, for a power, negative.                                       *)
(***************************************************************************)
EXTENDS ShadowInputs

FlowFields  == {"importPower", "exportPower"}
PriceFields == {"importPrice", "exportPrice"}

\* The ticks of an observation's slot that lie in the window.
TicksOf(row, from, to) ==
  Positive(Min({row.slot + Slot, to}) - Max({row.slot, from}))

Samples(rows, from, to) == SelectSeq(rows, LAMBDA r : TicksOf(r, from, to) > 0)

\* Mutant of Raises: a slot that was stored twice is summed twice.
RaisesUnaligned(rows, from, to, scored) ==
  \/ to <= from \/ scored < to
  \/ \E n \in DOMAIN Samples(rows, from, to) :
       Samples(rows, from, to)[n].slot % Slot # 0

\* The window must be over, and a sample starts a slot no other sample has.
Raises(rows, from, to, scored) ==
  LET samples == Samples(rows, from, to)
  IN  \/ to <= from \/ scored < to
      \/ \E n \in DOMAIN samples :
           \/ samples[n].slot % Slot # 0
           \/ \E m \in 1..(n - 1) : samples[m].slot = samples[n].slot

TicksWhere(Test(_), samples, from, to) ==
  FoldLeft(LAMBDA sum, r : sum + IF Test(r) THEN TicksOf(r, from, to) ELSE 0,
           0, samples)

Has(row, fields) == \A field \in fields : ~Absent(row[field])

\* The total of a power series, or None unless every tick is told.
Integrated(samples, field, from, to) ==
  IF \/ TicksWhere(LAMBDA r : TRUE, samples, from, to) < to - from
     \/ \E n \in DOMAIN samples : Absent(samples[n][field])
  THEN None
  ELSE FoldLeft(LAMBDA sum, r : sum + r[field] * TicksOf(r, from, to), 0, samples)

\* Exports less imports at their observed prices, in ticks times power.
ObservedValue(samples, from, to) ==
  IF \/ TicksWhere(LAMBDA r : TRUE, samples, from, to) < to - from
     \/ \E n \in DOMAIN samples : ~Has(samples[n], FlowFields \cup PriceFields)
  THEN None
  ELSE FoldLeft(LAMBDA sum, r :
                  sum + (r.exportPower * r.exportPrice
                         - r.importPower * r.importPrice) * TicksOf(r, from, to),
                0, samples)

\* None when the function raises ValueError.
Outcome(rows, from, to, scored) ==
  LET samples == Samples(rows, from, to)
      Share(Test(_)) == Min({TicksWhere(Test, samples, from, to), to - from})
  IN  IF Raises(rows, from, to, scored) THEN None
      ELSE [coverage |-> Share(LAMBDA r : TRUE),
            prices   |-> Share(LAMBDA r : Has(r, PriceFields)),
            energies |-> Share(LAMBDA r : Has(r, FlowFields)),
            import   |-> Integrated(samples, "importPower", from, to),
            export   |-> Integrated(samples, "exportPower", from, to),
            other    |-> Integrated(samples, "power", from, to),
            value    |-> ObservedValue(samples, from, to)]

----------------------------------------------------------------------------

RowsOf(rows, t) == {n \in DOMAIN rows : rows[n].slot <= t /\ t < rows[n].slot + Slot}

\* A total is published exactly when each tick of the window is told by one
\* observation that has the fields it needs, and it is then the sum over the
\* ticks: nothing outside the window, nothing twice, nothing filled in.
OutcomeIsExact(rows, from, to, scored) ==
  LET out == Outcome(rows, from, to, scored)
      window == from..(to - 1)
      Told(fields) == \A t \in window : \E n \in DOMAIN rows :
                         RowsOf(rows, t) = {n} /\ Has(rows[n], fields)
      RowAt(t) == rows[CHOOSE n \in DOMAIN rows : RowsOf(rows, t) = {n}]
      ValueAt(t) == RowAt(t).exportPower * RowAt(t).exportPrice
                    - RowAt(t).importPower * RowAt(t).importPrice
  IN  out # None =>
        /\ (out.value # None) = Told(FlowFields \cup PriceFields)
        /\ out.value # None => out.value = MapThenSumSet(ValueAt, window)
        /\ (out.other # None) = Told({"power"})
        /\ out.other # None =>
             out.other = MapThenSumSet(LAMBDA t : RowAt(t).power, window)
        /\ out.coverage = Cardinality({t \in window : RowsOf(rows, t) # {}})
        /\ (out.prices = to - from) = Told(PriceFields)
=============================================================================
