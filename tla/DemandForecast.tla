----------------------------- MODULE DemandForecast -----------------------------
(***************************************************************************)
(* forecast_household_demand: the demand of each slot of a horizon, from    *)
(* the samples of the strongest tier that has enough of them.               *)
(*                                                                         *)
(* Time is in ticks, local to the house; a day has DaySlots slots and a     *)
(* bucket BucketSlots. A row is an observation: when it was made (at), its  *)
(* health and eligibility, its baseline power and the vehicle's evidence.   *)
(* A mean or a median is the pair (numerator, denominator). c has the       *)
(* policy, the four tiers' minimums, the ceilings, and, taken as given, what*)
(* the statistics of the samples say of them (erratic, aged) and the error  *)
(* of earlier forecasts in percent (mape).                                  *)
(***************************************************************************)
EXTENDS Readings

CONSTANTS DaySlots, BucketSlots

SlotOf(t) == (t \div Slot) % DaySlots
DayOf(t) == t \div (Slot * DaySlots)
Weekday(t) == DayOf(t) % 7
Bucket(t) == SlotOf(t) \div BucketSlots
Hour(t) == (24 * SlotOf(t)) \div DaySlots

Band(t) == CASE Hour(t) < 6 -> "overnight" [] Hour(t) < 9 -> "morning"
             [] Hour(t) < 17 -> "daytime" [] Hour(t) < 22 -> "evening"
             [] OTHER -> "late_evening"

----------------------------------------------------------------------------
(* Samples.                                                                 *)

\* What a row is evidence of. No cohort is inferred from the load.
Cohort(r) ==
  LET authoritative == /\ r.source = "byd_vehicle_cloud" /\ r.fresh
                       /\ r.confidence = "direct_fresh" /\ r.active # None
  IN  CASE r.source = "manual_annotation" \/ r.reason = "known_ev_session_without_ev_power"
             -> "manual_historical_ev"
        [] r.suspected -> "suspected_historical_ev"
        [] r.evPower # None /\ r.source = "charger" -> "direct_ev_separated"
        [] authoritative /\ r.active -> "verified_ev_excluded"
        [] authoritative /\ ~r.active -> "verified_non_ev"
        [] r.source \in {"none", "byd_vehicle_cloud", "home_assistant_helper"}
             -> "pre_ev_telemetry_unknown"
        [] OTHER -> "unknown"

Verified(r) == Cohort(r) \in {"verified_non_ev", "direct_ev_separated"}

\* In watts: a smaller negative value is noise.
MateriallyNegative(power) == power < -1

Ineligible(r) == ~r.healthy \/ ~r.eligible \/ r.power = None

\* Mutant of EligibleSamples: the day of the forecast is not left out.
SamplesBefore(rows, start) ==
  {r \in rows : /\ ~Ineligible(r) /\ ~MateriallyNegative(r.power)
                /\ r.at # None /\ r.at < start}

EligibleSamples(rows, start) ==
  {r \in rows : /\ ~Ineligible(r) /\ ~MateriallyNegative(r.power)
                /\ r.at # None /\ r.at < start /\ DayOf(r.at) # DayOf(start)}

----------------------------------------------------------------------------
(* Tiers.                                                                   *)

\* What each of the four tiers has for the time t.
TierSamples(samples, t, start, c) ==
  <<{s \in samples : Weekday(s.at) = Weekday(t) /\ SlotOf(s.at) = SlotOf(t)},
    {s \in samples : /\ (Weekday(s.at) \in c.weekend) = (Weekday(t) \in c.weekend)
                     /\ Bucket(s.at) = Bucket(t)},
    {s \in samples : Bucket(s.at) = Bucket(t)},
    {s \in samples : /\ s.at >= start - c.lookback * Slot * DaySlots
                     /\ Band(s.at) = Band(t)}>>

Chosen(tier, samples) == [tier |-> tier, samples |-> samples]

SelectTier(tiers, c) ==
  LET verified(n) == {s \in tiers[n] : Verified(s)}
      Clean(n) == c.policy # "legacy_all_eligible" /\ Cardinality(verified(n)) >= c.minimum[n]
      Mixed(n) == c.policy # "verified_only" /\ Cardinality(tiers[n]) >= c.minimum[n]
      enough == {n \in 1..4 : Clean(n) \/ Mixed(n)}
      n == Min(enough)
  IN  IF enough = {} THEN Chosen(5, {})
      ELSE Chosen(n, IF Clean(n) THEN verified(n) ELSE tiers[n])

Power(s) == Positive(s.power)

Mean(samples) == <<MapThenSumSet(Power, samples), Cardinality(samples)>>

Median(samples) ==
  LET sorted == SetToSortSeq(samples, LAMBDA r, s : Power(r) < Power(s))
      n == Len(sorted)
      At(k) == Power(sorted[k])
  IN  IF n % 2 = 1 THEN <<At((n + 1) \div 2), 1>>
      ELSE <<At(n \div 2) + At(n \div 2 + 1), 2>>

----------------------------------------------------------------------------
(* The slots, clipped to the horizon.                                       *)

SlotDecision(samples, at, start, end, c) ==
  LET choice == SelectTier(TierSamples(samples, at, start, c), c)
  IN  [from |-> Max({at, start}), to |-> Min({at + Slot, end}),
       tier |-> choice.tier, samples |-> choice.samples,
       power |-> CASE choice.tier = 5 -> <<c.powers[Band(at)], 1>>
                   [] choice.tier = 4 -> Median(choice.samples)
                   [] OTHER -> Mean(choice.samples)]

FloorSlot(t) == (t \div Slot) * Slot

SlotDecisions(samples, start, end, c) ==
  LET count == (Positive(end - FloorSlot(start)) + Slot - 1) \div Slot
      all == [n \in 1..count |-> SlotDecision(samples, FloorSlot(start) + (n - 1) * Slot,
                                              start, end, c)]
  IN  SelectSeq(all, LAMBDA d : d.to > d.from)

\* What estimate_battery_reserve finds wrong with a forecast's slots.
HorizonIssues(slots, start, end) ==
  {i \in {"not_positive", "not_contiguous", "duration_mismatch", "negative"} :
     CASE i = "not_positive" -> \E n \in DOMAIN slots : slots[n].to <= slots[n].from
       [] i = "not_contiguous" -> \E n \in 2..Len(slots) : slots[n].from # slots[n - 1].to
       [] i = "duration_mismatch" ->
            MapThenSumSet(LAMBDA n : slots[n].to - slots[n].from, DOMAIN slots)
              # Positive(end - start)
       [] i = "negative" -> end < start}

----------------------------------------------------------------------------
(* Confidence.                                                              *)

\* The days of history, and those with enough of their slots, or of their nights'.
HistoryDays(samples) == {DayOf(s.at) : s \in samples}
CompletePeriods(samples, slots, c) ==
  {day \in HistoryDays(samples) :
     100 * Cardinality({SlotOf(s.at) : s \in {s \in samples : DayOf(s.at) = day}}
                         \cap slots) >= c.complete * Cardinality(slots)}
Daily(samples, c) == Cardinality(CompletePeriods(samples, 0..(DaySlots - 1), c))
Overnight(samples, c) ==
  Cardinality(CompletePeriods(samples, 0..(DaySlots \div 4 - 1), c))

Weight == <<100, 80, 65, 50, 20>>

\* Slots of the given tiers.
CountOf(slots, tiers) == Cardinality({n \in DOMAIN slots : slots[n].tier \in tiers})

Adjustment(slots, c) ==
  (IF c.erratic THEN -15 ELSE 0) + (IF c.aged THEN -10 ELSE 0)
  + (IF 2 * CountOf(slots, {5}) > Len(slots) THEN -10 ELSE 0)
  + (IF c.mape = None THEN 0 ELSE IF c.mape > 30 THEN -15
     ELSE IF c.mape <= 15 THEN 5 ELSE 0)

\* The quality in percent, over the common denominator 28 * (number of slots).
Quality(samples, slots, c) ==
  LET total == Len(slots)
      used == MapThenSumSet(LAMBDA n : Cardinality(slots[n].samples), DOMAIN slots)
      Part(n, most) == Min({n, most})
      score == 28 * (MapThenSumSet(LAMBDA n : Weight[slots[n].tier], DOMAIN slots)
                     + Part(5 * used, 5 * total))
               + total * (5 * Part(Cardinality(HistoryDays(samples)), 28)
                          + 12 * Part(Overnight(samples, c), 7)
                          + 28 * (Part(Daily(samples, c), 7) + Adjustment(slots, c)))
  IN  Rounded(Min({Positive(score), 2800 * total}), 28 * total)

Ceilings(samples, slots, c) ==
  {IF Daily(samples, c) < c.low THEN 39
   ELSE IF Daily(samples, c) < c.mediumLow THEN 54 ELSE 100,
   IF CountOf(slots, {1}) = 0 THEN 79 ELSE 100,
   IF 100 * CountOf(slots, {3, 4, 5}) > c.weak * Len(slots) THEN 79 ELSE 100}

\* Selected samples without authoritative vehicle evidence.
Unverified(slots) == \E n \in DOMAIN slots : \E s \in slots[n].samples : ~Verified(s)

Score(samples, slots, c) ==
  IF slots = <<>> THEN 70
  ELSE Min({Quality(samples, slots, c)} \cup Ceilings(samples, slots, c)
           \cup {IF c.policy # "legacy_all_eligible" /\ Unverified(slots)
                 THEN 79 ELSE 100})

HouseholdDemand(rows, start, end, c) ==
  LET samples == EligibleSamples(rows, start)
      slots == SlotDecisions(samples, start, end, c)
      score == Score(samples, slots, c)
  IN  [slots |-> slots, score |-> score, rating |-> Rating(score)]

----------------------------------------------------------------------------

\* The slots tile the horizon. The forecast does not depend on what was observed
\* on its first day or later. A policy decides which samples of a tier count,
\* but preferring verified ones never weakens the tier, and requiring them uses
\* no others. A score built on anything less is not called high.
Learned(rows, start, end, c) ==
  LET Under(policy) == HouseholdDemand(rows, start, end, [c EXCEPT !.policy = policy])
      legacy == Under("legacy_all_eligible")
      preferred == Under("verified_preferred")
      only == Under("verified_only")
  IN  /\ HorizonIssues(legacy.slots, start, end) = {}
      /\ \A p \in {legacy, preferred, only} : p.slots # <<>> =>
           /\ p.score <= 79 \/ CountOf(p.slots, {1}) > 0
           /\ Daily(EligibleSamples(rows, start), c) < c.low => p.rating = "low"
      /\ HouseholdDemand({r \in rows : r.at = None \/ DayOf(r.at) < DayOf(start)},
                         start, end, c) = HouseholdDemand(rows, start, end, c)
      /\ \A n \in DOMAIN legacy.slots :
           /\ preferred.slots[n].tier = legacy.slots[n].tier
           /\ preferred.slots[n].samples \subseteq legacy.slots[n].samples
           /\ only.slots[n].tier >= legacy.slots[n].tier
           /\ \A s \in only.slots[n].samples : Verified(s)
      /\ Unverified(preferred.slots) => preferred.rating # "high"
=============================================================================
