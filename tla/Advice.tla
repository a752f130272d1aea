-------------------------------- MODULE Advice --------------------------------
(***************************************************************************)
(* The recorded advice (opportunity.py): from a capture of decision inputs, *)
(* the capture of sources it names and a declared research profile to a     *)
(* selection or to the reasons against one. All the reasons are collected   *)
(* where the code raises the first; either way the advice is blocked.       *)
(*                                                                         *)
(* inputs i and source s are captures: [id, captured, confirmed, intact]    *)
(* with what they hold; a report is [reported, rows], perhaps with a unit,  *)
(* and None when it is missing. A tick is a second's worth of difference    *)
(* between a price's start and its boundary.                                *)
(***************************************************************************)
EXTENDS ArbitrageSelection

\* Ten minutes.
AgeLimit == 2 * Slot

Within(age, limit) == 0 <= age /\ age <= limit

\* Mutant of SourceBefore: it need not have been witnessed.
SourceTaken(sources, before) ==
  CHOOSE s \in sources : /\ s.captured <= before
                         /\ \A r \in sources : r.captured <= before => r.captured <= s.captured

\* The latest source capture that was witnessed before a time.
SourceBefore(sources, before) ==
  LET known == {s \in sources :
                  s.captured <= before /\ s.confirmed # None /\ s.confirmed <= before}
  IN  IF known = {} THEN None
      ELSE CHOOSE s \in known : \A r \in known : r.captured <= s.captured

----------------------------------------------------------------------------
(* The state of charge.                                                     *)

RuntimeReasons(i, s, ready, limit) ==
  LET f == s.freshness
      r == i.reserve
      run == f.runtime
  IN  When(~f.bound \/ s.id # i.source \/ ~s.intact, "soc_freshness_binding_mismatch")
      \cup When(s.soc.value \notin 0..100, "soc_domain_missing")
      \cup When(~(/\ f.slot = s.slot /\ s.slot <= s.received /\ s.received = s.captured
                  /\ s.captured <= s.confirmed /\ s.confirmed <= i.captured
                  /\ i.captured <= ready),
                "soc_freshness_binding_mismatch")
      \cup (IF r = None THEN {}
            ELSE When(~(/\ s.slot <= r.observed /\ r.observed <= s.received
                        /\ r.observed < s.slot + Slot), "soc_freshness_binding_mismatch"))
      \cup When(limit > AgeLimit, "soc_freshness_limit_invalid")
      \cup IF run = None THEN {"soc_runtime_evidence_missing"}
           ELSE IF run.device = None THEN {"soc_runtime_clock_invalid"}
           ELSE When(\/ \E t \in {s.soc.reported, run.device, run.reported} : t > s.received
                     \/ \E t \in {run.device, run.reported} : ~Within(ready - t, limit),
                     "soc_runtime_stale_or_future")

\* Captures of before the runtime clock have the report of the value alone.
SocReasons(i, s, ready, limit) ==
  IF s.soc = None THEN {"soc_domain_missing"}
  ELSE IF s.freshness # None THEN RuntimeReasons(i, s, ready, limit)
  ELSE When(~Within(ready - s.soc.reported, limit), "soc_report_stale_or_future")

Upper(issued, available, until, healthy) ==
  [issued |-> issued, available |-> available, until |-> until,
   kind |-> "documented_upper_bound", based |-> TRUE, healthy |-> healthy]

SocEvidence(s, profile) ==
  IF s.freshness = None THEN profile.assumptions.evidence
  ELSE LET run == s.freshness.runtime
       IN  Upper(run.device, s.confirmed,
                 Lesser(run.device, run.reported) + profile.soc, TRUE)

----------------------------------------------------------------------------
(* The reserve that is linked to the inputs.                                *)

ReserveReasons(i, p, cutoff, from) ==
  LET r == i.reserve
  IN  IF ~i.intact THEN {"linked_reserve_input_hash_invalid"}
      ELSE IF r = None THEN {"linked_reserve_missing"}
      ELSE When(~r.linked, "linked_reserve_ids_mismatch")
           \cup When(r.capacity # p.capacity, "linked_reserve_capacity_or_units_incompatible")
           \cup When(r.floor < p.minimum \/ r.floor > p.capacity \/ ~r.consistent,
                     "linked_reserve_quantity_invalid_or_inconsistent")
           \cup When(~r.healthy, "linked_reserve_health_or_horizon_invalid")
           \cup When(~(/\ r.observed <= r.evaluated /\ r.evaluated <= i.captured
                       /\ i.captured <= cutoff /\ r.evaluated = i.created
                       /\ r.end > r.evaluated /\ r.end >= from + ActionTicks),
                     "linked_reserve_asof_or_horizon_invalid")
           \cup When(r.stale \/ ~Within(r.evaluated - r.observed, AgeLimit)
                       \/ ~Within(cutoff - r.observed, AgeLimit), "linked_reserve_stale")

Floor(i, profile) == IF profile.linked THEN i.reserve.floor ELSE profile.floor

----------------------------------------------------------------------------
(* Prices as recorded, or from the boundary a second before their start.    *)

Boundary(row) == row.from - (row.from % Slot)

Offset(row) == row.from - Boundary(row)

PriceReasons(report, boundary) ==
  IF report = None THEN {"price_unit_or_source_missing"}
  ELSE LET rows == report.rows
       IN  When(~report.unit, "price_unit_or_source_missing")
           \cup IF ~boundary THEN {}
                ELSE When(rows = <<>>, "amber_original_series_mismatch")
                     \cup When(\E n \in DOMAIN rows : rows[n].to <= rows[n].from,
                               "amber_period_reversed_or_empty")
                     \cup When(\E n \in DOMAIN rows : rows[n].value = None,
                               "amber_price_missing_or_nonfinite")
                     \cup When(\E n \in DOMAIN rows : Offset(rows[n]) \notin {0, 1},
                               "amber_unsupported_boundary_offset")
                     \cup When(\E n \in DOMAIN rows :
                                 \/ rows[n].slots \notin {1, 6}
                                 \/ rows[n].slots = 6 /\ Boundary(rows[n]) % ActionTicks # 0
                                 \/ rows[n].to # Boundary(rows[n]) + rows[n].slots * Slot,
                               "amber_period_metadata_inconsistent")
                     \cup When(\E n \in 2 .. Len(rows) : rows[n - 1].to # Boundary(rows[n]),
                               "amber_missing_period_overlap_or_duplicate")

PricePoints(report, boundary) ==
  Each(LAMBDA n : [from |-> IF boundary THEN Boundary(report.rows[n]) ELSE report.rows[n].from,
                   to |-> report.rows[n].to, value |-> report.rows[n].value],
       Len(report.rows))

----------------------------------------------------------------------------
(* The sun of today and tomorrow, by half-hours.                            *)

SunRows(s) == UNION {Range(r.rows) : r \in {s.today, s.tomorrow} \ {None}}

SunReasons(s) ==
  When(\E p, q \in SunRows(s) : p.from = q.from /\ p # q, "conflicting_pv_overlap")

SunPoints(s) ==
  LET starts == InOrder({r.from : r \in SunRows(s)})
      At(t) == CHOOSE r \in SunRows(s) : r.from = t
  IN  Each(LAMBDA n : [from |-> starts[n], to |-> starts[n] + ActionTicks,
                       value |-> At(starts[n]).value], Len(starts))

----------------------------------------------------------------------------
(* The context of a decision, and the advice.                               *)

\* reports are the times of what a series is made of, None where it is missing.
ReportEvidence(reports, issued, available, ready, limit) ==
  LET known == reports \ {None}
  IN  Upper(issued, available, (IF known = {} THEN issued ELSE Min(known)) + limit,
            None \notin reports /\ \A r \in known : Within(ready - r, limit))

ReportedAt(report) == IF report = None THEN None ELSE report.reported

Reports(i, s) ==
  [demand |-> {i.created}, importPrice |-> {ReportedAt(s.importPrice)},
   exportPrice |-> {ReportedAt(s.exportPrice)},
   pv |-> {ReportedAt(s.today), ReportedAt(s.tomorrow)}]

CaptureReasons(i, s) ==
  When(s.confirmed = None, "unconfirmed_capture")
  \cup When((s.confirmed # None /\ s.confirmed > i.confirmed) \/ ~s.intact \/ ~i.intact,
            "capture_unavailable_or_corrupt")
  \cup When(i.source # s.id, "source_link_mismatch")

InputReasons(i, s, profile) ==
  LET ready == i.confirmed
  IN  CaptureReasons(i, s)
      \cup SocReasons(i, s, ready, profile.soc)
      \cup (IF profile.linked
            THEN ReserveReasons(i, profile.assumptions.p, ready, CeilSlot(ready)) ELSE {})
      \cup When(\E name \in DOMAIN profile.ages : profile.ages[name] <= 0,
                "explicit_positive_report_age_required")
      \cup When(profile.load = None, "explicit_total_load_scenario_required")
      \cup PriceReasons(s.importPrice, profile.boundary)
      \cup PriceReasons(s.exportPrice, profile.boundary)
      \cup SunReasons(s)

DeclaredContext(i, s, profile) ==
  LET ready == i.confirmed
      from == CeilSlot(ready)
      own == profile.assumptions.evidence
      Told(name, points) ==
        [meaning |-> IF name = "demand" THEN "baseline" ELSE name, based |-> TRUE,
         points |-> points,
         evidence |-> ReportEvidence(Reports(i, s)[name],
                        IF name = "demand" THEN i.captured ELSE s.received,
                        IF name = "demand" THEN i.confirmed ELSE s.confirmed,
                        ready, profile.ages[name])]
  IN  [decision |-> ready, evaluated |-> ready, ready |-> ready, cutoff |-> ready,
       named |-> TRUE, origin |-> "archived_decision_inputs",
       from |-> from, to |-> from + ActionTicks,
       branch |-> [at |-> from, energy |-> (s.soc.value * profile.assumptions.p.capacity) \div 100,
                   kind |-> "dated_analytical_hypothesis", based |-> TRUE,
                   evidence |-> SocEvidence(s, profile)],
       reserve |-> [at |-> from, floor |-> Floor(i, profile), based |-> TRUE,
                    evidence |-> IF profile.linked
                                 THEN Upper(i.reserve.evaluated, ready,
                                            i.reserve.observed + AgeLimit, TRUE)
                                 ELSE own],
       assumptions |-> profile.assumptions,
       demand |-> Told("demand", i.points), pv |-> Told("pv", SunPoints(s)),
       importPrice |-> Told("importPrice", PricePoints(s.importPrice, profile.boundary)),
       exportPrice |-> Told("exportPrice", PricePoints(s.exportPrice, profile.boundary)),
       uncontrolled |-> [meaning |-> "uncontrolled", based |-> TRUE, evidence |-> own,
                         points |-> <<[from |-> from, to |-> from + Day,
                                       value |-> profile.load]>>]]

Blocked(reasons) ==
  [status |-> "blocked", selected |-> "HOLD", reasons |-> reasons, expires |-> None,
   context |-> None, receipt |-> None]

Advise(i, s, profile) ==
  IF i.confirmed = None THEN Blocked({"unconfirmed_capture"})
  ELSE IF profile = None THEN Blocked({"explicit_physical_and_total_load_profile_missing"})
  ELSE IF s = None THEN Blocked({"source_capture_missing"})
  ELSE IF InputReasons(i, s, profile) # {} THEN Blocked(InputReasons(i, s, profile))
  ELSE LET c == DeclaredContext(i, s, profile)
           receipt == Select(c)
       IN  IF receipt.faults # {} THEN Blocked({"invalid_declared_research_profile"})
           ELSE [status |-> IF receipt.estimate = None THEN "blocked" ELSE "research_only",
                 selected |-> receipt.selected, reasons |-> receipt.reasons,
                 expires |-> c.from, context |-> c, receipt |-> receipt]

\* What the dashboard shows of the latest advice, witnessed or not.
Board(advice, confirmed, now) ==
  IF confirmed = None THEN "unconfirmed"
  ELSE IF advice.expires # None /\ advice.expires <= now THEN "expired"
  ELSE advice.status

----------------------------------------------------------------------------
(* What advice promises.                                                    *)

\* A price of a series at a time, or None.
Quote(points, t) ==
  LET told == {n \in DOMAIN points : points[n].from <= t /\ t < points[n].to}
  IN  IF told = {} THEN None ELSE points[CHOOSE n \in told : TRUE].value

\* Advice is given on inputs that belong together, were known when the decision was
\* ready and recent by the declared limits; every tick of it has the one price that
\* was recorded for the tick or for the next; and it is not shown as advice once its
\* action would begin.
Bound(sources, i, profile, now) ==
  LET s == SourceBefore(sources, i.captured)
      a == Advise(i, s, profile)
      c == a.context
      \* The price that was recorded for a tick, or else for the one after it.
      Recorded(rows, t) == IF Quote(rows, t) # None THEN Quote(rows, t) ELSE Quote(rows, t + 1)
      Priced(series, report) ==
        \A t \in c.from .. a.receipt.end - 1 :
          /\ Quote(series.points, t) # None
          /\ Quote(series.points, t) = Recorded(report.rows, t)
  IN  /\ a.selected # "HOLD" => a.status = "research_only"
      /\ Board(a, i.confirmed, now) = "research_only" => now < c.from
      /\ a.status = "research_only" =>
           /\ s.id = i.source /\ s.confirmed <= i.captured /\ i.captured <= c.cutoff
           /\ \A name \in DOMAIN profile.ages : \A r \in Reports(i, s)[name] :
                r # None /\ Within(c.cutoff - r, profile.ages[name])
           /\ profile.linked =>
                /\ c.reserve.floor = i.reserve.floor /\ i.reserve.end >= c.to
                /\ s.freshness # None => i.reserve.observed \in s.slot .. s.received
           /\ Priced(c.importPrice, s.importPrice) /\ Priced(c.exportPrice, s.exportPrice)
           /\ c.to <= a.receipt.end
=============================================================================
