---------------------------- MODULE VehicleHistory ----------------------------
(***************************************************************************)
(* The history before the vehicle could be asked: candidates for unnoticed  *)
(* charging sessions, for a person to review, and the summary of what the   *)
(* training samples are evidence of. Rows are as in DemandForecast, with    *)
(* the pv and the battery power; power is in kilowatts here.                *)
(***************************************************************************)
EXTENDS DemandForecast

\* The first observation that authoritative vehicle telemetry vouches for.
Boundary(rows) ==
  LET vouched == {r.at : r \in {r \in rows : /\ r.at # None
                       /\ Cohort(r) \in {"verified_non_ev", "verified_ev_excluded"}}}
  IN  IF vouched = {} THEN None ELSE Min(vouched)

HighLoads(rows, c) ==
  LET boundary == Boundary(rows)
  IN  {r \in rows : /\ r.at # None /\ r.power # None /\ r.healthy /\ r.eligible
                    /\ boundary # None => r.at < boundary
                    /\ r.power # None => r.power >= c.load}

\* Loads with no gap between them that is longer than c.gap.
Groups(loads, c) ==
  LET Starts == {r \in loads : \A q \in loads : q.at < r.at => r.at - q.at > c.gap}
      GroupOf(start) == {r \in loads : /\ r.at >= start.at
                           /\ \A s \in Starts : s.at > start.at => r.at < s.at}
  IN  {GroupOf(start) : start \in Starts}

\* Twice the median of a bag of values, given by what each element has.
TwiceMedian(set, Of(_)) ==
  LET sorted == SetToSortSeq(set, LAMBDA r, s : Of(r) < Of(s) \/ (Of(r) = Of(s) /\ r.at < s.at))
      n == Len(sorted)
  IN  Of(sorted[(n + 1) \div 2]) + Of(sorted[n \div 2 + 1])

\* The median deviation from the median is at most 15% of it. With the median
\* doubled, a deviation is doubled and its own median is four times as large.
Deviation(group) ==
  LET centre == TwiceMedian(group, LAMBDA r : r.power)
  IN  TwiceMedian(group, LAMBDA r : Abs(2 * r.power - centre))
Centre(group) == Max({TwiceMedian(group, LAMBDA r : r.power), 2})
Stable(group) == 10 * Deviation(group) <= 3 * Centre(group)

Start(group) == Min({r.at : r \in group})
End(group) == Max({r.at : r \in group}) + Slot
\* In kilowatts and ticks.
Energy(group) == Slot * MapThenSumSet(LAMBDA r : r.power, group)

Contradictions(group, c) ==
  LET suns == {r \in group : r.pv # None}
  IN  {x \in {"unstable", "sun", "battery"} :
         CASE x = "unstable" -> ~Stable(group)
           [] x = "sun" -> suns # {} /\ (suns # {} => TwiceMedian(suns, LAMBDA r : r.pv) > 2)
           [] OTHER -> \E r \in group : r.battery # None /\ Abs(OrZero(r.battery)) > 5}

\* c.hour is the number of ticks in an hour.
CandidateScore(group, c) ==
  35 + Min({Rounded(6 * (End(group) - Start(group)), c.hour), 25})
     + (IF Stable(group) THEN 25
        ELSE Positive(Rounded(20 * (2 * Centre(group) - Deviation(group)), 2 * Centre(group))))
     + Min({Rounded(Energy(group), c.hour), 15})
     - Min({10 * Cardinality(Contradictions(group, c)), 20})

Candidates(rows, c) ==
  {[from |-> Start(g), to |-> End(g), rows |-> g, stable |-> Stable(g),
    score |-> Max({0, Min({CandidateScore(g, c), 100})})] :
     g \in {g \in Groups(HighLoads(rows, c), c) :
              End(g) - Start(g) >= c.duration /\ Energy(g) >= c.energy * c.hour}}

\* What a forecast's samples are evidence of, in percent.
Provenance(samples, rows) ==
  LET verified == {s \in samples : Verified(s)}
      Share(n) == IF samples = {} THEN 0 ELSE (100 * n) \div Cardinality(samples)
  IN  [count |-> Cardinality(samples), verified |-> Share(Cardinality(verified)),
       since |-> Boundary(rows), risk |-> verified # samples,
       reason |-> IF \E s \in samples : Cohort(s) = "suspected_historical_ev"
                  THEN "suspected" ELSE IF verified # samples THEN "unverified" ELSE None]

----------------------------------------------------------------------------

\* A candidate tells what the forecaster may have learned from unawares: samples of
\* before the boundary, none of which vehicle telemetry had cleared or a person had
\* excluded. Every long enough stretch of high load is in exactly one.
Reviewed(rows, start, c) ==
  LET found == Candidates(rows, c)
      samples == EligibleSamples(rows, start)
  IN  /\ \A x, y \in found : x # y => x.to + c.gap - Slot < y.from \/ y.to + c.gap - Slot < x.from
      /\ \A x \in found :
           /\ x.score \in 0..100 /\ x.to - x.from >= c.duration
           /\ \A r \in x.rows :
                /\ Cohort(r) # "verified_non_ev"
                /\ DayOf(r.at) # DayOf(start) /\ r.at < start => r \in samples
      /\ Candidates(UNION {x.rows : x \in found} \cup
                      {r \in rows : r.at # None /\ r.at = Boundary(rows)}, c) = found
      /\ LET p == Provenance(samples, rows)
         IN  p.risk = (p.reason # None) /\ (p.since = None /\ p.verified > 0 =>
               \E s \in samples : s.source = "charger")
=============================================================================
