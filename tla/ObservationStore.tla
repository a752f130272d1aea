---------------------------- MODULE ObservationStore ----------------------------
(***************************************************************************)
(* The stored observations under the collector and the operator's tools:    *)
(* reprocessing, annotation of a vehicle's session and its removal, and     *)
(* reclassification of negative demand. A tool reads in one transaction and *)
(* writes in another: one may have read earlier, and whatever the collector *)
(* and other tools do meanwhile it writes what it made of that. A run       *)
(* without --apply is none.                                                 *)
(*                                                                         *)
(* rows maps the stored slots to their rows; audit is the recorded derivations;  *)
(* notes the annotations, with the columns they replaced by slot; scored    *)
(* the slots with forecasts scored against them; earlier what a tool has    *)
(* read that has yet to write, or None. History variables: the rows as they *)
(* were collected; the slots collected, annotated or restored since that    *)
(* tool read; and those of them it has then written (raced).               *)
(***************************************************************************)
EXTENDS Observation

CONSTANTS SlotIds, Sources, Conventions, Sessions, MaxNotes,
          Reuse,     \* whether an operator gives a session identifier twice
          Bounded    \* whether the bounds below apply

VARIABLES rows, audit, notes, scored, earlier, collected, rewritten, raced

\* None is nothing else, and house and charger power are numbers or not there.
ASSUME ReadingsAssumption ==
  /\ None \notin Int \cup Sessions \cup {UnknownPower(TRUE), UnknownPower(FALSE)}
  /\ \A st \in Sources : {ValueOf(st, "house"), ValueOf(st, "evPower")} \subseteq Int \cup {None}

vars == <<rows, audit, notes, scored, earlier, collected, rewritten, raced>>

\* The collector's configuration is the first; the others are tried by reprocessing.
Current == Conventions[1]

Stored == DOMAIN rows
Latest == Max(Stored)

\* A row of the first version, which derived no flows.
LegacyRow(st) == [Observe(st, Current, 0) EXCEPT !.flow = NoFlow("unconfirmed"),
                                                 !.flowHealthy = FALSE]

Init ==
  /\ \E st \in Sources : rows = [s \in {Min(SlotIds)} |-> LegacyRow(st)]
  /\ audit = {} /\ notes = <<>> /\ scored = Stored /\ earlier = None
  /\ collected = rows /\ rewritten = {} /\ raced = {}

\* Slots change of which a tool that has read may not know.  Bound: once while it has.
Disturb(slots) ==
  IF earlier = None THEN UNCHANGED rewritten
  ELSE (Bounded => rewritten = {}) /\ rewritten' = rewritten \cup slots

\* The current slot is written again when the App restarts within it; the bound: not
\* after the second annotation or a derivation.
Collect(s, st) ==
  /\ s \in {Latest, Latest + 1} \cap SlotIds
  /\ Bounded /\ s = Latest => Len(notes) < 2 /\ audit = {}
  /\ rows' = [n \in Stored \cup {s} |-> IF n = s THEN Observe(st, Current, 0) ELSE rows[n]]
  /\ collected' = [n \in Stored \cup {s} |-> IF n = s THEN rows'[s] ELSE collected[n]]
  /\ Disturb({s})
  /\ UNCHANGED <<audit, notes, scored, earlier, raced>>

----------------------------------------------------------------------------
(* A tool reads, and writes at once or later.                               *)

JustRead == [rows |-> rows, notes |-> notes]

\* Bound: before the second annotation and the first derivation.
ReadFirst ==
  /\ earlier = None
  /\ Bounded => Len(notes) < 2 /\ audit = {}
  /\ earlier' = JustRead
  /\ UNCHANGED <<rows, audit, notes, scored, collected, rewritten, raced>>

Seen(late) == IF late THEN earlier ELSE JustRead
StoredIn(seen) == DOMAIN seen.rows

Updated(row, columns) ==
  [name \in DOMAIN row |-> IF name \in DOMAIN columns THEN columns[name] ELSE row[name]]

\* A tool that read early or just now writes columns of the slots in their domain: of
\* those in stale what it makes of its own reading.
Writes(late, columns, stale) ==
  /\ rows' = [s \in Stored |-> IF s \in DOMAIN columns THEN Updated(rows[s], columns[s]) ELSE rows[s]]
  /\ earlier' = IF late THEN None ELSE earlier
  /\ raced' = IF late THEN stale \cap rewritten ELSE {}
  /\ UNCHANGED collected

DerivedColumns == {"flow", "flowHealthy", "baseline", "eligible", "reason", "version", "legacy"}

\* A derivation that is in the audit is not made again.
Reprocess(late, c, override) ==
  LET old(s) == Seen(late).rows[s]
      repairable == {s \in StoredIn(Seen(late)) :
                       /\ RepairStatus(old(s), Flow(old(s), c), override) = "repairable"
                       /\ <<s, FlowVersion, Fingerprint(old(s), c)>> \notin audit}
      columns == [s \in repairable |-> Restrict(Derived(old(s), c), DerivedColumns)]
  IN  /\ c.confidence \in {"medium", "high"} /\ "unknown" \notin {c.grid, c.battery}
      /\ audit' = audit \cup {<<s, FlowVersion, Fingerprint(old(s), c)>> : s \in repairable}
      /\ Writes(late, columns, repairable)
      /\ IF late THEN rewritten' = {} ELSE Disturb({})
      /\ UNCHANGED <<notes, scored>>

----------------------------------------------------------------------------
(* Annotation.                                                              *)

\* The columns that an annotation saves and its removal restores.
StateColumns == {"active", "source", "session", "confidence", "evPower", "baseline",
                 "eligible", "reason"}
StateOf(row) == [column \in StateColumns |-> row[column]]

\* Mutant of AnnotatedRow: a household load without the vehicle's power is trained on.
AnnotatedAnyway(row, session) ==
  [row EXCEPT !.active = TRUE, !.source = "manual_annotation", !.session = session,
              !.confidence = "confirmed_manual", !.reason = None,
              !.eligible = row.healthy /\ row.house # None]

AnnotatedRow(row, session) ==
  LET eligible == row.evPower # None /\ row.healthy /\ row.house # None
  IN  [row EXCEPT !.active = TRUE, !.source = "manual_annotation", !.session = session,
                  !.confidence = "confirmed_manual", !.eligible = eligible,
                  !.baseline = IF eligible THEN Positive(row.house - row.evPower) ELSE @,
                  !.reason = IF eligible THEN None ELSE "known_ev_session_without_ev_power"]

Noted(session, action, slots, seen) ==
  notes' = Append(notes, [session |-> session, action |-> action,
                          saved |-> [s \in slots |-> StateOf(seen.rows[s])]])

\* Without --session-id an annotation gets an identifier of its own.
Annotate(late, slots, session) ==
  LET seen == Seen(late)
      covered == slots \cap StoredIn(seen)
      columns == [s \in covered |->
                    Restrict(AnnotatedRow(seen.rows[s], session), StateColumns \ {"evPower"})]
  IN  /\ Len(notes) < MaxNotes
      /\ covered # {}
      /\ Writes(late, columns, covered)
      /\ IF late THEN rewritten' = {} ELSE Disturb(covered)
      /\ Reuse \/ \A n \in DOMAIN notes : notes[n].session # session
      /\ Noted(session, "apply", covered, seen)
      /\ UNCHANGED <<audit, scored>>

\* The last annotation with a session's identifier, or 0.
LastApply(noted, session) ==
  Max({0} \cup {n \in DOMAIN noted : noted[n].session = session /\ noted[n].action = "apply"})

Removable(seen, session) ==
  LET last == LastApply(seen.notes, session)
  IN  IF last = 0 THEN {}
      ELSE {s \in DOMAIN seen.notes[last].saved \cap StoredIn(seen) :
              seen.rows[s].session = session}

RemoveSession(late, session) ==
  LET seen == Seen(late)
      removed == Removable(seen, session)
      columns == Restrict(seen.notes[LastApply(seen.notes, session)].saved, removed)
  IN  /\ Len(notes) < MaxNotes
      /\ removed # {}
      /\ Writes(late, columns, removed)
      /\ IF late THEN rewritten' = {} ELSE Disturb(removed)
      /\ Noted(session, "remove", removed, seen)
      /\ UNCHANGED <<audit, scored>>

----------------------------------------------------------------------------
(* Reclassification of rows with materially negative demand.                *)

Invalid == "invalid_negative_household_demand"
DemandVersion == "negative-household-demand-validation-v1"

InvalidRow(row) ==
  IF row.reason = Invalid /\ row.baseline = None /\ ~row.eligible /\ ~row.healthy /\ ~row.overall
  THEN row
  ELSE [row EXCEPT !.baseline = None, !.eligible = FALSE, !.reason = Invalid,
                   !.healthy = FALSE, !.overall = FALSE, !.version = DemandVersion]

\* Which slots is read before, the rows are read again in the transaction that writes.
Reclassify(late) ==
  LET negative == {s \in StoredIn(Seen(late)) : MateriallyNegativeDemand(Seen(late).rows[s].house)}
      columns == [s \in negative |-> InvalidRow(rows[s])]
  IN  /\ negative # {}
      /\ Writes(late, columns, {})
      /\ IF late THEN rewritten' = {} ELSE Disturb({})
      /\ audit' = audit \cup {<<s, DemandVersion, rows[s].house>> : s \in negative}
      /\ scored' = scored \ negative
      /\ UNCHANGED notes

\* Bound: until a tool was overtaken.
Next ==
  /\ raced = {}
  /\ \/ \E s \in SlotIds, st \in Sources : Collect(s, st)
     \/ ReadFirst
     \/ \E late \in {FALSE, earlier # None} :
          \/ \E n \in DOMAIN Conventions, override \in BOOLEAN :
               Reprocess(late, Conventions[n], override)
          \/ \E slots \in SUBSET SlotIds, session \in Sessions : Annotate(late, slots, session)
          \/ \E session \in Sessions : RemoveSession(late, session)
          \/ Reclassify(late)

Spec == Init /\ [][Next]_vars

----------------------------------------------------------------------------
(* What the tools promise together.                                         *)

\* A row that the forecaster would learn from: its columns say so, and its baseline
\* is not negative.
Trains(row) ==
  row.healthy /\ row.eligible /\ row.baseline # None /\ ~MateriallyNegativeDemand(row.baseline)

\* What is learned from has the vehicle's power taken off, or no vehicle in it.  (Of a
\* negative power the collector takes nothing off, an annotation takes what it is.)
Clean(row) ==
  /\ row.house # None /\ ~MateriallyNegativeDemand(row.house)
  /\ row.baseline \in {Positive(Positive(row.house) - Positive(OrZero(row.evPower))),
                       Positive(row.house - OrZero(row.evPower))}
  /\ row.active = TRUE \/ row.session # None => row.evPower # None

VehicleColumns == {"active", "source", "session", "confidence", "evPower"}
AsCollected(s, state) == \A column \in VehicleColumns : state[column] = collected[s][column]

\* What the removal of a session would bring back of a slot.
Replaced(s, session) == notes[LastApply(notes, session)].saved[s]

\* A state of a slot is the one collected, or carries one of the sessions, annotated
\* before the n-th note.
Leads(s, state, sessions, n) ==
  IF state.session = None THEN AsCollected(s, state)
  ELSE state.session \in sessions /\ LastApply(notes, state.session) < n

\* The sessions under a slot's row: each can be removed and brings back an earlier one
\* of them, or the vehicle as it was collected.
Unwinds(s, sessions) ==
  /\ Leads(s, rows[s], sessions, Len(notes) + 1)
  /\ \A session \in sessions :
       /\ LastApply(notes, session) # 0
       /\ s \in DOMAIN notes[LastApply(notes, session)].saved
       /\ Leads(s, Replaced(s, session), sessions, LastApply(notes, session))

\* Annotations can be taken back: removing what a row carries, one session after the
\* other, ends at the vehicle as it was collected, unless a tool wrote over a row that
\* was collected, annotated or restored after it had read.
AnnotationIsReversible ==
  \A s \in Stored \ raced : \E sessions \in SUBSET Sessions : Unwinds(s, sessions)

\* With the same exception, which a derivation or a reclassification in between is not:
\* what the forecaster would learn from is clean.
TrainingIsClean == \A s \in Stored \ raced : Trains(rows[s]) => Clean(rows[s])

\* After any sequence of the tools, what the forecaster would learn from has no unknown
\* vehicle in it, and every annotation can be taken back.
HistoryIsSound == TrainingIsClean /\ AnnotationIsReversible
=============================================================================
