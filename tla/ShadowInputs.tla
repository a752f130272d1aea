----------------------------- MODULE ShadowInputs -----------------------------
(***************************************************************************)
(* What shadow_decisioning.py makes of raw inputs before it decides: the    *)
(* price coverage of a window and the demand forecast for it.               *)
(*                                                                         *)
(* Time is counted in ticks. One tick is the gap the code tolerates between *)
(* two price intervals, Slot ticks are its five minutes. Prices and powers  *)
(* are integers; the average price is kept as the pair (weighted sum,       *)
(* represented ticks). None is an absent or unusable field.                 *)
(***************************************************************************)
EXTENDS Readings

GapTolerance == 1

Absent(x) == x = None

----------------------------------------------------------------------------
(* Prices: a sequence of [from, to, minutes, price], in provider order.     *)

\* The end of an interval; only a missing end is computed from the duration.
EndOf(i) ==
  IF Absent(i.to) /\ ~Absent(i.from) /\ ~Absent(i.minutes) /\ i.minutes > 0
  THEN i.from + i.minutes
  ELSE i.to

Usable(i) ==
  /\ ~Absent(i.price) /\ ~Absent(i.from) /\ ~Absent(EndOf(i))
  /\ EndOf(i) > i.from

\* The intervals that overlap the window, clipped to it, in sweep order.
Pieces(list, from, to) ==
  LET Left(n)  == Max({from, list[n].from})
      Right(n) == Min({to, EndOf(list[n])})
      Before(m, n) == \/ Left(m) < Left(n)
                      \/ Left(m) = Left(n) /\ Right(m) < Right(n)
                      \/ Left(m) = Left(n) /\ Right(m) = Right(n) /\ m < n
      used == {n \in DOMAIN list : Usable(list[n]) /\ Left(n) < Right(n)}
  IN  [k \in DOMAIN SetToSortSeq(used, Before) |->
         LET n == SetToSortSeq(used, Before)[k]
         IN  [from |-> Left(n), to |-> Right(n), price |-> list[n].price]]

\* One piece of the sweep: what lies before the cursor is already priced, and
\* a short gap is tolerated once something is covered.
Sweep(s, p) ==
  LET gap   == p.from - s.cursor
      start == Max({p.from, s.cursor})
      ticks == Positive(p.to - start)
  IN  [cursor    |-> Max({s.cursor, p.to}),
       covered   |-> s.covered + ticks,
       tolerated |-> s.tolerated
                     + IF s.covered > 0 /\ 0 < gap /\ gap <= GapTolerance
                       THEN gap ELSE 0,
       weighted  |-> s.weighted + ticks * p.price]

Coverage(list, from, to) ==
  LET swept == FoldLeft(Sweep, [cursor |-> from, covered |-> 0, tolerated |-> 0,
                                weighted |-> 0],
                        IF to > from THEN Pieces(list, from, to) ELSE <<>>)
  IN  [weighted  |-> swept.weighted,
       covered   |-> swept.covered,
       tolerated |-> swept.tolerated,
       complete  |-> to > from /\ swept.covered + swept.tolerated >= to - from]

\* The last end of the price list; durations are not looked at here.
PriceHorizon(list) ==
  LET ends == {list[n].to : n \in DOMAIN list} \ {None}
  IN  IF ends = {} THEN None ELSE Max(ends)

\* The highest price of an interval that overlaps the window.
MaximumPrice(list, from, to) ==
  LET prices == {list[n].price : n \in {n \in DOMAIN list :
                   /\ ~Absent(list[n].price)
                   /\ ~Absent(list[n].from) /\ ~Absent(list[n].to)
                   /\ list[n].to > from /\ list[n].from < to}}
  IN  IF Absent(to) \/ prices = {} THEN None
      ELSE IF to <= from THEN None ELSE Max(prices)

MinimumHorizon(ends) == IF None \in ends THEN None ELSE Min(ends)

\* The ticks of a window that some usable interval covers.
CoveredTicks(list, from, to) ==
  {t \in from..(to - 1) : \E n \in DOMAIN list :
     Usable(list[n]) /\ list[n].from <= t /\ t < EndOf(list[n])}

\* The swept coverage is that of the ticks: each is counted once, with the
\* price of the first interval, by clipped start and end, that covers it; and
\* the window is complete exactly when all that is missing are gaps of one
\* tick between two covered ones.
CoverageMeasured(list, from, to) ==
  LET c == Coverage(list, from, to)
      covered == CoveredTicks(list, from, to)
      Price(t) == LET pieces == Pieces(list, from, to)
                  IN  pieces[Min({k \in DOMAIN pieces :
                                   pieces[k].from <= t /\ t < pieces[k].to})].price
  IN  /\ c.covered = Cardinality(covered)
      /\ c.weighted = MapThenSumSet(Price, covered)
      /\ c.complete <=> /\ from < to
                        /\ \A t \in (from..(to - 1)) \ covered :
                             {t - 1, t + 1} \subseteq covered

----------------------------------------------------------------------------
(* Demand. A forecast is [linked, created, start, points] and a reserve     *)
(* [linked, identity, evaluation, start, slots]: points and slots are       *)
(* sequences of [from, to, value], the value being the demand per tick.     *)
(* `linked' and `identity' stand for the comparisons of ids, versions and   *)
(* texts that must all agree.                                               *)

\* The first slot boundary at or after t.
NextBoundary(t) == ((t + Slot - 1) \div Slot) * Slot

PartialCompatible(run, reserve, start) ==
  /\ reserve.identity
  /\ ~Absent(reserve.evaluation)
  /\ reserve.evaluation <= start
  /\ run.created = reserve.evaluation
  /\ reserve.start = run.start
  /\ run.start = NextBoundary(reserve.evaluation)

Overlaps(row, from, to) == Max({from, row.from}) < Min({to, row.to})

\* The rows of a source clipped to the window, or None when one of them is not
\* an interval or one that is used has no usable value.
Segments(rows, from, to) ==
  LET used == {n \in DOMAIN rows : Overlaps(rows[n], from, to)}
  IN  IF to <= from THEN {}
      ELSE IF \E n \in DOMAIN rows : rows[n].to <= rows[n].from THEN None
      ELSE IF \E n \in used : Absent(rows[n].value) THEN None
      ELSE {[row |-> n, from |-> Max({from, rows[n].from}),
             to |-> Min({to, rows[n].to}), value |-> rows[n].value] : n \in used}

\* The clipped rows follow one another without a gap or an overlap.
Joined(pieces, from, to) ==
  LET order == SetToSortSeq(pieces, LAMBDA p, q : p.from < q.from)
  IN  /\ pieces # {} /\ order[1].from = from
      /\ \A k \in 1..(Len(order) - 1) : order[k + 1].from = order[k].to
      /\ order[Len(order)].to = to

\* The demand of the action window, or None.
WindowDemand(run, reserve, from, to) ==
  LET early == IF from >= run.start THEN {}
               ELSE IF \/ \E n \in DOMAIN run.points :
                            /\ run.points[n].from < run.start
                            /\ run.points[n].to > from
                       \/ ~PartialCompatible(run, reserve, from)
                       \/ reserve.slots = <<>>
                    THEN None
                    ELSE Segments(reserve.slots, from, Min({to, run.start}))
      late  == Segments(run.points, Max({from, run.start}), to)
  IN  IF \/ Absent(run) \/ to <= from THEN None
      ELSE IF \/ Absent(reserve) \/ ~run.linked THEN None
      ELSE IF \/ ~Absent(run.created) /\ run.created > from
              \/ run.points = <<>>
              \/ Absent(early) \/ Absent(late) THEN None
      ELSE IF ~Joined(early \cup late, from, to) THEN None
      ELSE MapThenSumSet(LAMBDA p : (p.to - p.from) * p.value, early \cup late)
=============================================================================
