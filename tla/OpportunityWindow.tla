--------------------------- MODULE OpportunityWindow ---------------------------
(***************************************************************************)
(* find_next_opportunity: the next window in which the battery may be       *)
(* refilled. Time is counted in half hours since midnight of the first day. *)
(*                                                                         *)
(* An observation o has the Solcast estimates for what remains of the day   *)
(* and for the next day (remaining, tomorrow; None when absent), whether    *)
(* solar power exceeds the house's (sunny), and the import price list, a    *)
(* sequence of [from, to, price]. c has the two thresholds, cheap and solar,*)
(* and the horizon.                                                         *)
(***************************************************************************)
EXTENDS Readings

Day  == 48
Dawn == 14   \* 07:00, the heuristic start of a solar window
Dusk == 35   \* 17:30, its heuristic end

Midnight(t) == (t \div Day) * Day

Window(kind, start, end, confidence) ==
  [kind |-> kind, start |-> start, end |-> end, confidence |-> confidence]

\* At most one window: a set, so that a missing one is the empty set.
SolarWindow(o, c, now) ==
  LET dusk == Midnight(now) + Dusk
  IN  IF o.remaining # None /\ now < dusk /\ o.remaining >= c.solar
      THEN {Window("solar",
                   IF o.sunny THEN Midnight(now) + Dawn ELSE Min({now + 2, dusk}),
                   dusk, 1)}
      ELSE IF o.tomorrow # None /\ o.tomorrow >= c.solar
      THEN {Window("solar", Midnight(now) + Day + Dawn,
                   Midnight(now) + Day + Dusk, 1)}
      ELSE {}

\* The earliest cheap interval that has not ended.
CheapGridWindow(o, c, now) ==
  LET cheap == {n \in DOMAIN o.prices :
                  /\ o.prices[n].price # None /\ o.prices[n].to > now
                  /\ o.prices[n].price <= c.cheap}
      First(n) == \A m \in cheap : \/ o.prices[n].from < o.prices[m].from
                                   \/ o.prices[n].from = o.prices[m].from /\ n <= m
  IN  {Window("cheap_grid", o.prices[n].from, o.prices[n].to, 2) :
         n \in {n \in cheap : First(n)}}

\* Where an opportunity lies from the time it was looked for.
StateAt(now, start, end) ==
  IF now < start THEN "before_opportunity"
  ELSE IF now < end THEN "inside_opportunity"
  ELSE "waiting_for_next_opportunity"

Opportunity(w, now) ==
  [kind |-> w.kind, start |-> w.start, end |-> w.end,
   confidence |-> w.confidence, state |-> StateAt(now, w.start, w.end)]

\* The earlier of two windows, of equal ones the solar one.
Earlier(v, w) == v.start < w.start \/ (v.start = w.start /\ v.kind = "solar")

\* The earliest window, or it and the other joined when they overlap.
Earliest(windows) ==
  LET one == CHOOSE w \in windows : \A v \in windows \ {w} : Earlier(w, v)
      two == CHOOSE w \in windows \ {one} : TRUE
  IN  IF windows # {one} /\ Max({one.start, two.start}) < Min({one.end, two.end})
      THEN Window("both", one.start, Max({one.end, two.end}),
                  Min({one.confidence, two.confidence}))
      ELSE one

NextOpportunity(o, c, now) ==
  LET windows == {w \in SolarWindow(o, c, now) \cup CheapGridWindow(o, c, now) :
                    w.start <= now + c.horizon}
  IN  IF windows = {}
      THEN [kind |-> "overnight_reserve", start |-> now + c.horizon,
            end |-> now + c.horizon, confidence |-> 0,
            state |-> "waiting_for_next_opportunity"]
      ELSE Opportunity(Earliest(windows), now)
=============================================================================
