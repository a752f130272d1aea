---------------------------- MODULE ReserveEstimate ----------------------------
(***************************************************************************)
(* estimate_battery_reserve: how much battery energy is kept for the house, *)
(* and how much may be traded. Energies are integers in sixteenths, so that *)
(* the uncertainty, a ratio in quarters times a factor in quarters, and the *)
(* charge efficiency 1/loss are exact; rounding is left out.                *)
(*                                                                         *)
(* Beyond OpportunityWindow, an observation o has the conservative estimates*)
(* (remaining10, tomorrow10), the battery's energy, the energy the vehicle  *)
(* requires (ev), its own day, and the set of healthy domains. c has the    *)
(* capacity, technical and emergency floors, ratio, charge power and loss.  *)
(* d is the demand forecast: a rate for each half hour of a day and a score.*)
(***************************************************************************)
EXTENDS OpportunityWindow

\* The household energy forecast between two times.
Demand(d, from, to) == MapThenSumSet(LAMBDA t : d.rate[t % Day], from..(to - 1))

----------------------------------------------------------------------------
(* Confidence: the scores, and what they make of the uncertainty.           *)

AvailabilityPoints == [telemetry |-> 40, price |-> 20, solar |-> 20, flow |-> 15,
                       weather |-> 5]

OverallScore(o, d, opportunity) ==
  LET availability == MapThenSumSet(LAMBDA h : AvailabilityPoints[h], o.healthy)
      window == Min({100, <<30, 65, 85>>[opportunity.confidence + 1]
                          + 5 * Cardinality({"solar", "price"} \cap o.healthy)})
  IN  Min({d.score, Rounded(25 * availability + 55 * d.score + 20 * window, 100)})

\* In quarters of the configured ratio.
Factor == [low |-> 7, medium_low |-> 6, medium |-> 5, high |-> 4]

Uncertainty(energy, factor, c) == (energy * c.ratio * factor) \div 16

----------------------------------------------------------------------------
(* One opportunity: what it is expected to put into the battery, and whether*)
(* that covers what follows it.                                             *)

\* The conservative solar energy of an opportunity; for one that is ahead, only
\* the next day's estimate is used, and only if it starts on a later day.
ConservativeSolar(o, opportunity) ==
  LET estimate == IF opportunity.state = "inside_opportunity" THEN o.remaining10
                  ELSE IF Midnight(opportunity.start) = o.day THEN None
                  ELSE o.tomorrow10
  IN  IF opportunity.kind \notin {"solar", "both"} \/ estimate = None THEN None
      ELSE Positive(estimate)

Floor(c) == Max({c.technical, c.emergency})

\* Mutant of Replenishment: the house's demand in the window is left out.
ReplenishmentGross(solar, active, ticks, energy, c) ==
  Min({solar \div c.loss, (c.charge * ticks) \div c.loss,
       IF energy = None THEN solar ELSE Positive(c.capacity - energy)})

\* Solar surplus after the house, limited by charge power and headroom.
Replenishment(solar, active, ticks, energy, c) ==
  Min({Positive(solar - active) \div c.loss, (c.charge * ticks) \div c.loss,
       IF energy = None THEN solar ELSE Positive(c.capacity - energy)})

\* The analysis of an opportunity entered at `time' with `energy', when the
\* house takes `active' in it and `future' between it and the next one.
Analysis(o, c, opportunity, time, active, future, energy, uncertainty) ==
  LET ticks == Positive(opportunity.end - Max({opportunity.start, time}))
      solar == ConservativeSolar(o, opportunity)
      expected == IF opportunity.kind = "cheap_grid" THEN 0
                  ELSE IF solar = None THEN None
                  ELSE Replenishment(solar, active, ticks, energy, c)
      deficit == Positive(active - OrZero(solar))
  IN  [opportunity |-> opportunity,
       solar       |-> solar,
       expected    |-> expected,
       projected   |-> IF energy = None THEN None
                       ELSE Positive(Min({energy - deficit + OrZero(expected),
                                          c.capacity})),
       sufficient  |-> IF expected = None THEN None
                       ELSE expected >= future + o.ev + uncertainty]

----------------------------------------------------------------------------
(* The search: from one opportunity to the next that does not overlap it,   *)
(* until one is sufficient.                                                 *)

\* A look from the end of what was found too early.
Look(o, c, s) ==
  LET next == NextOpportunity(o, c, s.cursor)
  IN  IF s.found # None THEN s
      ELSE IF next.start >= s.cursor THEN [s EXCEPT !.found = next]
      ELSE [s EXCEPT !.cursor = Max({s.cursor, next.end})]

\* At most eight looks.
Following(o, c, candidate) ==
  LET look[n \in 0..8] == IF n = 0 THEN [cursor |-> candidate.end, found |-> None]
                          ELSE Look(o, c, look[n - 1])
      last == look[8]
  IN  IF last.found # None THEN last.found
      ELSE [kind |-> "overnight_reserve", start |-> last.cursor + c.horizon,
            end |-> last.cursor + c.horizon, confidence |-> 0,
            state |-> "waiting_for_next_opportunity"]

\* One candidate of _evaluate_upcoming_opportunities, at most 32 of them.
Consider(o, c, d, until, s) ==
  LET candidate == s.candidate
      following == Following(o, c, candidate)
      entered   == IF s.projected = None THEN None
                   ELSE Positive(s.projected - Demand(d, s.cursor, candidate.start))
      end       == Min({candidate.end, until})
      active    == Demand(d, candidate.start, end)
      future    == Demand(d, end, Min({following.start, until}))
      analysis  == Analysis(o, c, candidate, candidate.start, active, future,
                            entered, Uncertainty(active + future, 7, c))
      analyses  == Append(s.analyses, analysis)
  IN  IF \/ s.done
         \/ candidate.kind = "overnight_reserve"
         \/ candidate.start >= until \/ candidate.end <= candidate.start
      THEN [s EXCEPT !.done = TRUE]
      ELSE IF analysis.sufficient = TRUE
      THEN [s EXCEPT !.done = TRUE, !.boundary = candidate, !.analyses = analyses]
      ELSE [s EXCEPT !.done = following.start <= candidate.end,
                     !.analyses = analyses,
                     !.skipped = @ + OrZero(analysis.expected),
                     !.projected = analysis.projected,
                     !.cursor = candidate.end,
                     !.candidate = following]

Upcoming(o, c, d, first, now, energy, until) ==
  LET search[n \in 0..32] ==
        IF n = 0
        THEN [candidate |-> first, cursor |-> now, projected |-> energy,
              analyses |-> <<>>, skipped |-> 0, boundary |-> None, done |-> FALSE]
        ELSE Consider(o, c, d, until, search[n - 1])
  IN  search[32]

----------------------------------------------------------------------------
(* The estimate.                                                            *)

Gross(o, c, active, future, uncertainty, expected, skipped) ==
  Max({Floor(c), Floor(c) + active + future + o.ev + uncertainty - expected - skipped})

\* How far the reserve must last when the search ended with s.
Until(s, until) == IF s.boundary = None THEN until ELSE s.boundary.start

\* What remains of a search that is not made.
NoSearch(boundary) == [analyses |-> <<>>, skipped |-> 0, boundary |-> boundary]

\* Failed is what a caller sees when the demand of a reversed interval is asked.
Estimate(o, c, d, now) ==
  LET until   == now + c.horizon
      found   == NextOpportunity(o, c, now)
      inside  == found.state = "inside_opportunity"
      opportunity == IF inside /\ found.kind \in {"solar", "both"} /\ o.remaining10 = None
                     THEN [found EXCEPT !.confidence = 0] ELSE found
      next    == NextOpportunity(o, c, opportunity.end)
      ahead   == IF opportunity.state = "before_opportunity"
                 THEN Upcoming(o, c, d, opportunity, now, o.energy, until)
                 ELSE NoSearch(IF inside THEN opportunity ELSE None)
      factor  == Factor[Rating(OverallScore(o, d, opportunity))]
      active  == Demand(d, now, opportunity.end)
      first   == IF inside THEN next.start ELSE Until(ahead, until)
      analysis == Analysis(o, c, opportunity, now, active,
                           Demand(d, opportunity.end, next.start), o.energy,
                           Uncertainty(Demand(d, now, first), factor, c))
      enough  == inside /\ analysis.sufficient = TRUE
      search  == IF ~inside THEN ahead
                 ELSE IF enough THEN NoSearch(opportunity)
                 ELSE Upcoming(o, c, d, next, opportunity.end, analysis.projected,
                               until)
      end     == IF enough THEN first ELSE Until(search, until)
      demand  == Demand(d, now, end)
      house   == IF inside THEN active ELSE demand
      known   == IF inside THEN OrZero(analysis.solar) ELSE 0
      skipped == search.skipped
                 + (IF inside /\ ~enough THEN OrZero(analysis.expected) ELSE 0)
      gross   == Gross(o, c, Positive(house - known), demand - house,
                       Uncertainty(demand, factor, c),
                       IF enough THEN analysis.expected ELSE 0, skipped)
      reserve == Min({c.capacity, gross})
  IN  IF inside /\ next.start < opportunity.end THEN None
      ELSE [end |-> end, demand |-> demand, opportunity |-> opportunity,
            boundary |-> search.boundary, skipped |-> skipped,
            analyses |-> (IF inside THEN <<analysis>> ELSE <<>>) \o search.analyses,
            reserve |-> reserve, buffer |-> Uncertainty(demand, factor, c),
            unmet |-> Positive(gross - c.capacity),
            tradable |-> IF search.boundary = None THEN None
                         ELSE Positive(OrZero(o.energy) - reserve)]

\* The solar energy that the opportunities were analysed with.
Sun(analyses) == MapThenSumSet(LAMBDA n : OrZero(analyses[n].solar), DOMAIN analyses)

\* An estimate's inputs: what is measured, forecast and configured are numbers, or
\* absent; a house does not produce, and a battery does not gain by being used.
Estimable(o, c, d, now) ==
  LET known == Int \cup {None}
  IN  /\ now \in Int
      /\ {c.capacity, c.technical, c.emergency} \subseteq Int
      /\ {c.ratio, c.charge} \subseteq Nat /\ {c.loss, c.horizon} \subseteq Nat \ {0}
      /\ {o.energy, o.remaining10, o.tomorrow10} \subseteq known /\ o.ev \in Int
      /\ o.prices \in Seq([from : Int, to : Int, price : known])
      /\ d.rate \in [0..(Day - 1) -> Nat]

\* The reserve lies between the safety floor and the capacity; the opportunities
\* it was planned over follow one another inside the horizon; and what it counts
\* on beyond the battery is at most the solar energy they were analysed with, not
\* for the house and the battery both.
Covered(o, c, d, now) ==
  LET e == Estimate(o, c, d, now)
      At(n) == e.analyses[n].opportunity
  IN  e # None =>
        /\ e.reserve \in Min({c.capacity, Floor(c)})..c.capacity
        /\ \A n \in DOMAIN e.analyses : At(n).start < now + c.horizon
        /\ \A n \in 2..Len(e.analyses) : At(n - 1).end <= At(n).start
        /\ e.reserve + e.unmet + Sun(e.analyses) >= Floor(c) + e.demand + o.ev + e.buffer

\* And no estimate is counted more than once.
Funded(o, c, d, now) ==
  LET e == Estimate(o, c, d, now)
  IN  /\ Covered(o, c, d, now)
      /\ e # None => Sun(e.analyses)
                       <= Positive(OrZero(o.remaining10)) + Positive(OrZero(o.tomorrow10))
=============================================================================
