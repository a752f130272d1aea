------------------------ MODULE ObservationStoreProofs ------------------------
(***************************************************************************)
(* HistoryIsSound is an invariant of the observation store: after any       *)
(* sequence of the collector and the operator's tools, each of which may    *)
(* have read before others wrote, what the forecaster would learn from is   *)
(* clean and every annotation can be taken back. And what a reading that    *)
(* the store keeps says of the flows of power.                              *)
(*                                                                         *)
(* The induction is over one slot: its row is sound, and so is the row that *)
(* the removal of any session under it would leave (SlotInv). Three ways of *)
(* changing a row keep that: one that follows the row (a derivation, a      *)
(* reclassification), a new session over it, and its last session removed.  *)
(* A tool that read earlier makes its row of an older one; EarlierInv says  *)
(* what that still tells of the row.                                        *)
(***************************************************************************)
EXTENDS ObservationStore, TLAPS

----------------------------------------------------------------------------
(* Rows.                                                                    *)

RowColumns ==
  {"pv", "house", "grid", "battery", "healthy", "overall", "active", "evPower", "source",
   "confidence", "fresh", "session", "baseline", "eligible", "reason", "flow",
   "flowHealthy", "version", "legacy"}

\* A stored row: it is not healthy with a materially negative demand.
RowOK(row) ==
  /\ DOMAIN row = RowColumns
  /\ {row.house, row.evPower, row.baseline} \subseteq Int \cup {None}
  /\ row.healthy \in BOOLEAN /\ row.eligible \in BOOLEAN
  /\ row.healthy => ~MateriallyNegativeDemand(row.house)

Sound(row) == RowOK(row) /\ (Trains(row) => Clean(row))

\* What becomes of a row that nobody collects, annotates or restores.
Follows(row, old) ==
  /\ row.house = old.house
  /\ \A column \in VehicleColumns : row[column] = old[column]
  /\ row.healthy => old.healthy

LEMMA ColumnsUpdated ==
  ASSUME NEW row, NEW columns, DOMAIN columns \subseteq DOMAIN row
  PROVE  /\ DOMAIN Updated(row, columns) = DOMAIN row
         /\ \A x \in DOMAIN columns : Updated(row, columns)[x] = columns[x]
         /\ \A x \in DOMAIN row \ DOMAIN columns : Updated(row, columns)[x] = row[x]
  BY DEF Updated

\* A baseline that may be trained on has the vehicle's power taken off or no vehicle.
LEMMA BaselineIsClean ==
  ASSUME None \notin Int, None \notin {UnknownPower(TRUE), UnknownPower(FALSE)},
         NEW house \in Int \cup {None}, NEW power \in Int \cup {None}, NEW active,
         NEW vehicle
  PROVE  LET b == Baseline(house, active, power, None, UnknownPower(vehicle))
         IN  /\ b.power \in Int \cup {None} /\ b.eligible \in BOOLEAN
             /\ b.eligible =>
                  /\ house # None /\ ~MateriallyNegativeDemand(house)
                  /\ b.power = Positive(Positive(house) - Positive(OrZero(power)))
                  /\ active = TRUE => power # None
<1>1. UnknownPower(vehicle) # None
  BY DEF UnknownPower
<1>2. CASE house = None \/ MateriallyNegativeDemand(house)
  BY <1>2 DEF Baseline, NoBaseline
<1>3. CASE ~(house = None \/ MateriallyNegativeDemand(house)) /\ power # None
  <2>1. Baseline(house, active, power, None, UnknownPower(vehicle))
          = [power |-> Positive(Positive(house) - Positive(power)), eligible |-> TRUE,
             reason |-> None]
    BY <1>3 DEF Baseline
  <2>2. OrZero(power) = power /\ Positive(Positive(house) - Positive(power)) \in Int
    BY <1>3 DEF OrZero, Positive
  <2> QED
    BY <1>3, <2>1, <2>2
<1>4. CASE ~(house = None \/ MateriallyNegativeDemand(house)) /\ power = None
  BY <1>1, <1>4 DEF Baseline, Positive, OrZero
<1> QED
  BY <1>2, <1>3, <1>4

\* Deriving again from an earlier reading of a row.
LEMMA DerivingIsSound ==
  ASSUME NEW row, NEW old, NEW c,
         RowOK(row), Sound(old), Follows(row, old)
  PROVE  LET new == Updated(row, Restrict(Derived(old, c), DerivedColumns))
         IN  Sound(new) /\ Follows(new, old) /\ Follows(new, row)
<1> DEFINE derived == Derived(old, c)
           columns == Restrict(derived, DerivedColumns)
           new == Updated(row, columns)
           computed == Baseline(old.house, old.active, old.evPower, None,
                                UnknownPower(old.source = "byd_vehicle_cloud"))
<1>1. /\ RowOK(old)
      /\ DOMAIN old = RowColumns /\ DOMAIN row = RowColumns
      /\ None \notin Int /\ None \notin {UnknownPower(TRUE), UnknownPower(FALSE)}
  BY ReadingsAssumption DEF Sound, RowOK
<1>2. DOMAIN derived = RowColumns
  BY <1>1 DEF Derived
<1>3. DOMAIN columns = DerivedColumns /\ \A x \in DerivedColumns : columns[x] = derived[x]
  BY DEF Restrict
<1>4. /\ DOMAIN new = RowColumns
      /\ \A x \in DerivedColumns : new[x] = derived[x]
      /\ \A x \in RowColumns \ DerivedColumns : new[x] = row[x]
  <2>1. DerivedColumns \subseteq RowColumns
    BY DEF DerivedColumns, RowColumns
  <2> QED
    BY <1>1, <1>3, <2>1, ColumnsUpdated
<1>5. /\ new.house = row.house /\ new.healthy = row.healthy
      /\ \A column \in VehicleColumns : new[column] = row[column]
  BY <1>4 DEF RowColumns, DerivedColumns, VehicleColumns
<1>6. new.baseline = derived.baseline /\ new.eligible = derived.eligible
  BY <1>4 DEF DerivedColumns
<1>7. /\ derived.baseline = IF Annotated(old) THEN old.baseline ELSE computed.power
      /\ derived.eligible \in BOOLEAN
      /\ derived.eligible => IF Annotated(old) THEN old.eligible ELSE computed.eligible
  BY <1>1 DEF Derived, RowColumns
<1>8. /\ computed.power \in Int \cup {None} /\ computed.eligible \in BOOLEAN
      /\ computed.eligible =>
           /\ old.house # None /\ ~MateriallyNegativeDemand(old.house)
           /\ computed.power = Positive(Positive(old.house) - Positive(OrZero(old.evPower)))
           /\ old.active = TRUE => old.evPower # None
  BY <1>1, BaselineIsClean DEF RowOK
<1>9. new.evPower = old.evPower /\ new.active = old.active /\ new.session = old.session
  BY <1>5 DEF Follows, VehicleColumns
<1> HIDE DEF derived, columns, new, computed
<1>10. RowOK(new)
  BY <1>1, <1>4, <1>5, <1>6, <1>7, <1>8 DEF RowOK, VehicleColumns
<1>11. ASSUME Trains(new) PROVE Clean(new)
  <2>1. new.house = old.house /\ old.healthy
    BY <1>5, <1>11 DEF Follows, Trains
  <2>2. CASE Annotated(old)
    <3>1. Trains(old)
      BY <1>6, <1>7, <1>11, <2>1, <2>2 DEF Trains
    <3>2. Clean(old)
      BY <3>1 DEF Sound
    <3> QED
      BY <3>2, <1>6, <1>7, <1>9, <2>1, <2>2 DEF Clean
  <2>3. CASE ~Annotated(old)
    <3>1. computed.eligible /\ old.session = None /\ new.baseline = computed.power
      BY <1>6, <1>7, <1>11, <2>3 DEF Trains, Annotated
    <3> QED
      BY <3>1, <1>8, <1>9, <2>1 DEF Clean
  <2> QED
    BY <2>2, <2>3
<1>12. Follows(new, row) /\ Follows(new, old)
  BY <1>5 DEF Follows
<1> QED
  BY <1>10, <1>11, <1>12 DEF Sound, new, columns, derived

\* A collected row is sound and carries no session; one of the first version too.
LEMMA ObservingIsSound ==
  ASSUME NEW st \in Sources, NEW c, NEW now
  PROVE  LET row == Observe(st, c, now)
         IN  Sound(row) /\ row.session = None
<1> DEFINE house    == ValueOf(st, "house")
           power    == IF "evPower" \in c.has THEN ValueOf(st, "evPower") ELSE None
           active   == IF c.enabled THEN Vehicle(st, c, now).charging
                       ELSE IF "evActive" \in c.has THEN ValueOf(st, "evActive") ELSE None
           baseline == Baseline(house, active, power, None, UnknownPower(c.enabled))
           health   == Health(st, c, now, Flow(RawOf(st), c), active, power)
           row      == Observe(st, c, now)
<1>1. /\ None \notin Int /\ None \notin {UnknownPower(TRUE), UnknownPower(FALSE)}
      /\ house \in Int \cup {None} /\ power \in Int \cup {None}
  BY ReadingsAssumption
<1>2. /\ DOMAIN row = RowColumns
      /\ row.house = house /\ row.evPower = power /\ row.active = active /\ row.session = None
      /\ row.baseline = baseline.power /\ row.eligible = baseline.eligible
      /\ row.healthy = health.telemetry.healthy
  <2>1. RawOf(st).house = house
    BY DEF RawOf
  <2> HIDE DEF house, power, active, baseline, health
  <2> QED
    BY <2>1 DEF Observe, RowColumns, house, power, active, baseline, health
<1>3. /\ row.healthy \in BOOLEAN
      /\ row.healthy => ~MateriallyNegativeDemand(house)
  <2> DEFINE told == TelemetryHealth(st, c, now)
             wrong == <<"invalid_negative_household_demand", "house">>
  <2>1. row.healthy = told.healthy
    BY <1>2 DEF Health
  <2>2. told.healthy = \A i \in told.issues : Warns(i[1])
    BY DEF TelemetryHealth, Domain
  <2>3. MateriallyNegativeDemand(house) => wrong \in told.issues
    BY DEF TelemetryHealth, Domain
  <2>4. ~Warns(wrong[1])
    BY DEF Warns
  <2> HIDE DEF house, row, told, wrong
  <2> QED
    BY <2>1, <2>2, <2>3, <2>4
<1>4. /\ baseline.power \in Int \cup {None} /\ baseline.eligible \in BOOLEAN
      /\ baseline.eligible =>
           /\ house # None /\ ~MateriallyNegativeDemand(house)
           /\ baseline.power = Positive(Positive(house) - Positive(OrZero(power)))
           /\ active = TRUE => power # None
  <2> HIDE DEF house, power, active
  <2> QED
    BY <1>1, BaselineIsClean
<1> HIDE DEF house, power, active, baseline, health, row
<1>5. RowOK(row)
  BY <1>1, <1>2, <1>3, <1>4 DEF RowOK
<1>6. Trains(row) => Clean(row)
  BY <1>2, <1>4 DEF Trains, Clean
<1> QED
  BY <1>2, <1>5, <1>6 DEF Sound, row

\* A reclassified row is not trained on.
LEMMA InvalidatingIsSound ==
  ASSUME None \notin Int, NEW row, RowOK(row)
  PROVE  LET new == Updated(row, InvalidRow(row))
         IN  Sound(new) /\ Follows(new, row)
<1> DEFINE new == Updated(row, InvalidRow(row))
<1>1. DOMAIN row = RowColumns /\ DOMAIN InvalidRow(row) = RowColumns
  BY DEF RowOK, InvalidRow
<1>2. DOMAIN new = RowColumns /\ \A x \in RowColumns : new[x] = InvalidRow(row)[x]
  BY <1>1, ColumnsUpdated
<1>3. /\ new.house = row.house /\ \A column \in VehicleColumns : new[column] = row[column]
      /\ new.healthy = FALSE /\ new.eligible = FALSE /\ new.baseline = None
  <2> HIDE DEF new
  <2>1. CASE InvalidRow(row) = row
    BY <1>1, <1>2, <2>1 DEF InvalidRow, RowColumns, VehicleColumns, RowOK
  <2>2. CASE InvalidRow(row) # row
    BY <1>1, <1>2, <2>2 DEF InvalidRow, RowColumns, VehicleColumns
  <2> QED
    BY <2>1, <2>2
<1> HIDE DEF new
<1>4. RowOK(new) /\ ~Trains(new) /\ Follows(new, row)
  BY <1>2, <1>3 DEF RowOK, Trains, Follows, VehicleColumns
<1> QED
  BY <1>4 DEF Sound, new

\* What is saved of a slot: the values that a row can take back.
StateOK(state) ==
  /\ DOMAIN state = StateColumns
  /\ {state.evPower, state.baseline} \subseteq Int \cup {None}
  /\ state.eligible \in BOOLEAN

LEMMA SavedState ==
  ASSUME NEW row, RowOK(row)
  PROVE  /\ StateOK(StateOf(row))
         /\ \A column \in StateColumns : StateOf(row)[column] = row[column]
  BY DEF RowOK, StateOK, StateOf, StateColumns

\* A row that takes a state back has its columns, and keeps the others.
LEMMA StateRestored ==
  ASSUME NEW row, RowOK(row), NEW state, StateOK(state)
  PROVE  LET new == Updated(row, state)
         IN  /\ RowOK(new) /\ new.house = row.house /\ new.healthy = row.healthy
             /\ \A column \in StateColumns : new[column] = state[column]
             /\ DOMAIN new = RowColumns
<1>1. StateColumns \subseteq RowColumns /\ DOMAIN row = RowColumns /\ DOMAIN state = StateColumns
  BY DEF StateColumns, RowColumns, RowOK, StateOK
<1> DEFINE new == Updated(row, state)
<1>2. /\ DOMAIN new = RowColumns
      /\ \A x \in StateColumns : new[x] = state[x]
      /\ \A x \in RowColumns \ StateColumns : new[x] = row[x]
  BY <1>1, ColumnsUpdated
<1> HIDE DEF new
<1>3. new.house = row.house /\ new.healthy = row.healthy
  BY <1>2 DEF StateColumns, RowColumns
<1>4. RowOK(new)
  BY <1>1, <1>2, <1>3 DEF RowOK, StateOK, StateColumns
<1> QED
  BY <1>2, <1>3, <1>4 DEF new

\* Of two rows with one house, what is not trained on stays so when nothing heals.
LEMMA SoundnessIsKept ==
  ASSUME NEW row, NEW old, RowOK(row), Sound(old), row.house = old.house,
         row.healthy => old.healthy,
         \A column \in StateColumns : row[column] = old[column]
  PROVE  Sound(row)
  BY DEF Sound, Trains, Clean, StateColumns

\* A saved state that was sound for a row is sound for what becomes of that row.
LEMMA StateStaysSound ==
  ASSUME NEW row, RowOK(row), NEW new, RowOK(new), NEW state, StateOK(state),
         new.house = row.house, new.healthy => row.healthy, Sound(Updated(row, state))
  PROVE  Sound(Updated(new, state))
<1> DEFINE was == Updated(row, state)
           is == Updated(new, state)
<1>1. /\ was.house = row.house /\ was.healthy = row.healthy
      /\ \A column \in StateColumns : was[column] = state[column]
  BY StateRestored
<1>2. /\ RowOK(is) /\ is.house = new.house /\ is.healthy = new.healthy
      /\ \A column \in StateColumns : is[column] = state[column]
  BY StateRestored
<1> HIDE DEF was, is
<1>3. is.house = was.house /\ (is.healthy => was.healthy)
      /\ \A column \in StateColumns : is[column] = was[column]
  BY <1>1, <1>2
<1>4. Sound(was)
  BY DEF was
<1>5. Sound(is)
  BY <1>2, <1>3, <1>4, SoundnessIsKept
<1> QED
  BY <1>5 DEF is

\* An annotated row is trained on with the vehicle's power only, and what is saved of the
\* row that was read can be taken back.
LEMMA AnnotatingIsSound ==
  ASSUME None \notin Int, NEW row, NEW old, NEW session, session # None,
         RowOK(row), Sound(old), Follows(row, old)
  PROVE  LET columns == Restrict(AnnotatedRow(old, session), StateColumns \ {"evPower"})
             new == Updated(row, columns)
         IN  /\ Sound(new) /\ new.session = session
             /\ new.house = row.house /\ new.healthy = row.healthy
             /\ StateOK(StateOf(old)) /\ Sound(Updated(new, StateOf(old)))
             /\ \A column \in VehicleColumns : StateOf(old)[column] = row[column]
<1> DEFINE annotated == AnnotatedRow(old, session)
           columns == Restrict(annotated, StateColumns \ {"evPower"})
           new == Updated(row, columns)
<1>1. /\ DOMAIN row = RowColumns /\ DOMAIN old = RowColumns /\ RowOK(old)
      /\ StateColumns \ {"evPower"} \subseteq RowColumns
  BY DEF RowOK, Sound, StateColumns, RowColumns
<1>2. DOMAIN annotated = RowColumns
  BY <1>1 DEF AnnotatedRow
<1>3. /\ DOMAIN columns = StateColumns \ {"evPower"}
      /\ \A x \in StateColumns \ {"evPower"} : columns[x] = annotated[x]
  BY DEF Restrict
<1> HIDE DEF columns
<1>4. /\ DOMAIN new = RowColumns
      /\ \A x \in StateColumns \ {"evPower"} : new[x] = annotated[x]
      /\ \A x \in RowColumns \ (StateColumns \ {"evPower"}) : new[x] = row[x]
  BY <1>1, <1>3, ColumnsUpdated
<1> HIDE DEF new
<1>5. new.house = row.house /\ new.healthy = row.healthy /\ new.evPower = row.evPower
  BY <1>4 DEF StateColumns, RowColumns
<1>6. /\ new.session = annotated.session /\ new.eligible = annotated.eligible
      /\ new.baseline = annotated.baseline
  BY <1>4 DEF StateColumns
<1>7. row.house = old.house /\ row.evPower = old.evPower
  BY DEF Follows, VehicleColumns
<1> DEFINE eligible == old.evPower # None /\ old.healthy /\ old.house # None
<1>8. /\ annotated.session = session
      /\ annotated.eligible = eligible
      /\ annotated.baseline = IF eligible THEN Positive(old.house - old.evPower) ELSE old.baseline
  BY <1>1 DEF AnnotatedRow, RowColumns
<1> HIDE DEF annotated
<1>9. RowOK(new)
  <2>1. Positive(old.house - old.evPower) \in Int \/ ~eligible
    BY <1>1 DEF RowOK, Positive
  <2> QED
    BY <1>1, <1>4, <1>5, <1>6, <1>7, <1>8, <2>1 DEF RowOK
<1>10. Trains(new) => Clean(new)
  <2> SUFFICES ASSUME Trains(new) PROVE Clean(new)
    OBVIOUS
  <2>1. eligible /\ new.healthy
    BY <1>6, <1>8 DEF Trains
  <2>2. ~MateriallyNegativeDemand(new.house)
    BY <1>9, <2>1 DEF RowOK
  <2>3. new.baseline = Positive(new.house - OrZero(new.evPower))
    BY <1>5, <1>6, <1>7, <1>8, <2>1 DEF OrZero
  <2> QED
    BY <1>5, <1>7, <2>1, <2>2, <2>3 DEF Clean
<1>11. StateOK(StateOf(old)) /\ \A column \in StateColumns : StateOf(old)[column] = old[column]
  BY <1>1, SavedState
<1>12. Sound(Updated(new, StateOf(old)))
  <2> DEFINE back == Updated(new, StateOf(old))
  <2>1. /\ RowOK(back) /\ back.house = new.house /\ back.healthy = new.healthy
        /\ \A column \in StateColumns : back[column] = old[column]
    BY <1>9, <1>11, StateRestored
  <2> HIDE DEF back
  <2>2. back.house = old.house /\ (back.healthy => old.healthy)
    BY <1>5, <1>7, <2>1 DEF Follows
  <2>3. Sound(back)
    BY <2>1, <2>2, SoundnessIsKept
  <2> QED
    BY <2>3 DEF back
<1>13. \A column \in VehicleColumns : StateOf(old)[column] = row[column]
  BY <1>11 DEF Follows, VehicleColumns, StateColumns
<1> QED
  BY <1>5, <1>6, <1>8, <1>9, <1>10, <1>11, <1>12, <1>13 DEF Sound, new, columns, annotated

----------------------------------------------------------------------------
(* Notes.                                                                   *)

Applies(note, session) == note.session = session /\ note.action = "apply"
NoteOK(note) ==
  note.session \in Sessions /\ \A s \in DOMAIN note.saved : StateOK(note.saved[s])

\* No session is annotated twice.
LogOK(q) ==
  /\ \E S : q \in Seq(S)
  /\ \A n \in DOMAIN q : NoteOK(q[n])
  /\ \A m, n \in DOMAIN q : \A session :
       Applies(q[m], session) /\ Applies(q[n], session) => m = n

Extends(q, p) == DOMAIN p \subseteq DOMAIN q /\ \A n \in DOMAIN p : q[n] = p[n]

LEMMA LogDomain ==
  ASSUME NEW q, LogOK(q)
  PROVE  Len(q) \in Nat /\ DOMAIN q = 1..Len(q)
<1>1. PICK S : q \in Seq(S)
  BY DEF LogOK
<1> QED
  BY <1>1

LEMMA LastApplyFound ==
  ASSUME NEW q, NEW r, LogOK(r), Extends(r, q), NEW session
  PROVE  LET n == LastApply(q, session)
         IN  /\ n \in Nat
             /\ n # 0 => n \in DOMAIN q /\ Applies(q[n], session)
             /\ \A m \in DOMAIN q : Applies(q[m], session) => n = m
<1> DEFINE found == {n \in DOMAIN q : q[n].session = session /\ q[n].action = "apply"}
           S == {0} \cup found
<1>1. DOMAIN q \subseteq Nat \ {0}
  BY LogDomain DEF Extends
<1>2. \A m, n \in found : m = n
  BY DEF LogOK, Extends, Applies
<1>3. LastApply(q, session) = Max(S)
  BY DEF LastApply
<1>4. CASE found = {}
  <2>1. Max(S) = 0
    BY <1>4 DEF Max
  <2> QED
    BY <1>3, <1>4, <2>1 DEF Applies
<1>5. CASE found # {}
  <2>1. PICK m \in found : TRUE
    BY <1>5
  <2>2. S = {0, m} /\ m \in Nat \ {0}
    BY <1>1, <1>2, <2>1
  <2>3. Max(S) = m
    BY <2>2 DEF Max
  <2> QED
    BY <1>2, <1>3, <2>1, <2>2, <2>3 DEF Applies
<1> QED
  BY <1>4, <1>5

\* What is noted of a session stays its annotation.
LEMMA ApplyStays ==
  ASSUME NEW q, NEW r, LogOK(r), Extends(r, q), NEW session, LastApply(q, session) # 0
  PROVE  /\ LastApply(r, session) = LastApply(q, session)
         /\ r[LastApply(q, session)] = q[LastApply(q, session)]
         /\ LastApply(q, session) \in DOMAIN r
         /\ session \in Sessions
<1>1. Extends(r, r)
  BY DEF Extends
<1> QED
  BY <1>1, LastApplyFound DEF Extends, LogOK, NoteOK, Applies

LEMMA NoteAppended ==
  ASSUME LogOK(notes), NEW note, NoteOK(note), notes' = Append(notes, note),
         note.action = "apply" => LastApply(notes, note.session) = 0
  PROVE  /\ LogOK(notes)' /\ Extends(notes', notes)
         /\ Len(notes') = Len(notes) + 1 /\ notes'[Len(notes) + 1] = note
<1>1. PICK S : notes \in Seq(S)
  BY DEF LogOK
<1>2. notes \in Seq(S \cup {note})
  BY <1>1
<1>3. /\ notes' \in Seq(S \cup {note}) /\ Len(notes') = Len(notes) + 1
      /\ notes'[Len(notes) + 1] = note /\ Len(notes) \in Nat
      /\ DOMAIN notes = 1..Len(notes) /\ DOMAIN notes' = 1..(Len(notes) + 1)
      /\ \A n \in 1..Len(notes) : notes'[n] = notes[n]
  BY <1>2
<1>4. Extends(notes', notes)
  BY <1>3 DEF Extends
<1>5. \A n \in DOMAIN notes' : NoteOK(notes'[n])
  BY <1>3 DEF LogOK
<1>6. Extends(notes, notes)
  BY DEF Extends
<1>7. \A n \in DOMAIN notes : ~(note.action = "apply" /\ Applies(notes[n], note.session))
  BY <1>3, <1>6, LastApplyFound
<1>8. \A m, n \in DOMAIN notes' : \A session :
        Applies(notes'[m], session) /\ Applies(notes'[n], session) => m = n
  <2> TAKE m, n \in DOMAIN notes'
  <2> TAKE session
  <2>1. CASE m = Len(notes) + 1 /\ n \in 1..Len(notes)
    BY <2>1, <1>3, <1>7 DEF Applies
  <2>2. CASE n = Len(notes) + 1 /\ m \in 1..Len(notes)
    BY <2>2, <1>3, <1>7 DEF Applies
  <2>3. CASE m \in 1..Len(notes) /\ n \in 1..Len(notes)
    BY <2>3, <1>3 DEF LogOK
  <2> QED
    BY <1>3, <2>1, <2>2, <2>3
<1> QED
  BY <1>3, <1>4, <1>5, <1>8 DEF LogOK

----------------------------------------------------------------------------
(* Slots.                                                                   *)

\* A slot's row is sound, and so is what the removal of any session under it makes of it.
SlotInv(s) ==
  /\ Sound(rows[s])
  /\ \E sessions \in SUBSET Sessions :
       /\ Unwinds(s, sessions)
       /\ \A session \in sessions : Sound(Updated(rows[s], Replaced(s, session)))

\* A state that leads to a session under a row does so when more is noted.
LEMMA LeadsOn ==
  ASSUME LogOK(notes)', Extends(notes', notes), NEW s, NEW sessions, NEW more,
         sessions \subseteq more,
         \A session \in sessions : LastApply(notes, session) # 0,
         collected'[s] = collected[s], NEW state, NEW n, NEW again,
         Leads(s, state, sessions, n),
         \A column \in VehicleColumns : again[column] = state[column]
  PROVE  Leads(s, again, more, n)'
<1>1. again.session = state.session
  BY DEF VehicleColumns
<1>2. CASE state.session = None
  BY <1>1, <1>2 DEF Leads, AsCollected
<1>3. CASE state.session # None
  <2>1. LastApply(notes', state.session) = LastApply(notes, state.session)
    BY <1>3, ApplyStays DEF Leads
  <2> QED
    BY <1>1, <1>3, <2>1 DEF Leads
<1> QED
  BY <1>2, <1>3

\* The sessions under a row stay under what becomes of it, whatever else is noted.
LEMMA BelowStays ==
  ASSUME LogOK(notes), LogOK(notes)', Extends(notes', notes),
         NEW s, NEW K \in SUBSET Sessions, NEW more, K \subseteq more, Unwinds(s, K),
         \A session \in K : Sound(Updated(rows[s], Replaced(s, session))),
         Sound(rows[s]), RowOK(rows'[s]), rows'[s].house = rows[s].house,
         rows'[s].healthy => rows[s].healthy, collected'[s] = collected[s]
  PROVE  \A session \in K :
           /\ LastApply(notes, session) \in 1..Len(notes)
           /\ LastApply(notes', session) = LastApply(notes, session)
           /\ Replaced(s, session)' = Replaced(s, session)
           /\ StateOK(Replaced(s, session))
           /\ LastApply(notes', session) # 0
           /\ s \in DOMAIN notes'[LastApply(notes', session)].saved
           /\ Leads(s, Replaced(s, session), more, LastApply(notes, session))'
           /\ Sound(Updated(rows[s], Replaced(s, session)))'
<1> TAKE session \in K
<1>1. LastApply(notes, session) # 0 /\ s \in DOMAIN notes[LastApply(notes, session)].saved
  BY DEF Unwinds
<1>2. Extends(notes, notes)
  BY DEF Extends
<1>3. LastApply(notes, session) \in DOMAIN notes /\ LastApply(notes, session) \in 1..Len(notes)
  BY <1>1, <1>2, LastApplyFound, LogDomain
<1>4. /\ LastApply(notes', session) = LastApply(notes, session)
      /\ notes'[LastApply(notes, session)] = notes[LastApply(notes, session)]
      /\ Replaced(s, session)' = Replaced(s, session)
      /\ StateOK(Replaced(s, session))
  BY <1>1, <1>3, ApplyStays DEF Replaced, LogOK, NoteOK
<1>5. Sound(Updated(rows[s], Replaced(s, session)))'
  <2>1. RowOK(rows[s]) /\ Sound(Updated(rows[s], Replaced(s, session)))
    BY DEF Sound
  <2>2. Sound(Updated(rows'[s], Replaced(s, session)))
    BY <1>4, <2>1, StateStaysSound
  <2> QED
    BY <1>4, <2>2
<1>6. Leads(s, Replaced(s, session), more, LastApply(notes, session))'
  <2>1. Leads(s, Replaced(s, session), K, LastApply(notes, session))
    BY DEF Unwinds
  <2>2. \A other \in K : LastApply(notes, other) # 0
    BY DEF Unwinds
  <2> QED
    BY <1>4, <2>1, <2>2, LeadsOn DEF Leads, AsCollected
<1> QED
  BY <1>1, <1>3, <1>4, <1>5, <1>6

\* A row that no tool annotated or restored, whatever else was derived or noted.
LEMMA SlotKept ==
  ASSUME LogOK(notes), LogOK(notes)', Extends(notes', notes), NEW s, SlotInv(s),
         collected'[s] = collected[s], Sound(rows'[s]), Follows(rows'[s], rows[s])
  PROVE  SlotInv(s)'
<1>1. PICK K \in SUBSET Sessions :
        Unwinds(s, K) /\ \A session \in K : Sound(Updated(rows[s], Replaced(s, session)))
  BY DEF SlotInv
<1>2. Sound(rows[s]) /\ RowOK(rows'[s]) /\ rows'[s].house = rows[s].house
      /\ (rows'[s].healthy => rows[s].healthy)
  BY DEF SlotInv, Sound, Follows
<1>3. \A session \in K :
        /\ LastApply(notes, session) \in 1..Len(notes)
        /\ LastApply(notes', session) = LastApply(notes, session)
        /\ LastApply(notes', session) # 0
        /\ s \in DOMAIN notes'[LastApply(notes', session)].saved
        /\ Leads(s, Replaced(s, session), K, LastApply(notes, session))'
        /\ Sound(Updated(rows[s], Replaced(s, session)))'
  BY <1>1, <1>2, BelowStays
<1>4. Leads(s, rows[s], K, Len(notes) + 1)'
  <2>1. Leads(s, rows[s], K, Len(notes) + 1)
    BY <1>1 DEF Unwinds
  <2>2. rows'[s].session = rows[s].session
    BY DEF Follows, VehicleColumns
  <2>3. CASE rows[s].session = None
    BY <2>1, <2>2, <2>3 DEF Leads, AsCollected, Follows
  <2>4. CASE rows[s].session # None
    <3>1. rows[s].session \in K
      BY <2>1, <2>4 DEF Leads
    <3>2. LastApply(notes', rows[s].session) \in 1..Len(notes')
      BY <1>3, <3>1, LogDomain DEF Extends
    <3> QED
      BY <2>2, <2>4, <3>1, <3>2, LogDomain DEF Leads
  <2> QED
    BY <2>3, <2>4
<1>5. Unwinds(s, K)'
  BY <1>3, <1>4 DEF Unwinds
<1> QED
  BY <1>3, <1>5 DEF SlotInv

\* A row that a session's removal restores.
LEMMA SlotRestored ==
  ASSUME None \notin Sessions, LogOK(notes), LogOK(notes)', Extends(notes', notes), NEW s, SlotInv(s),
         collected'[s] = collected[s], rows[s].session \in Sessions,
         rows'[s] = Updated(rows[s], Replaced(s, rows[s].session))
  PROVE  SlotInv(s)'
<1>0. PICK removed \in Sessions : removed = rows[s].session
  OBVIOUS
<1>1. PICK K \in SUBSET Sessions :
        Unwinds(s, K) /\ \A session \in K : Sound(Updated(rows[s], Replaced(s, session)))
  BY DEF SlotInv
<1>2. removed \in K
  BY <1>0, <1>1 DEF Unwinds, Leads
<1>3. StateOK(Replaced(s, removed))
  <2>1. LastApply(notes, removed) # 0 /\ s \in DOMAIN notes[LastApply(notes, removed)].saved
    BY <1>1, <1>2 DEF Unwinds
  <2>2. Extends(notes, notes)
    BY DEF Extends
  <2> QED
    BY <2>1, <2>2, LastApplyFound DEF Replaced, LogOK, NoteOK
<1>4. /\ Sound(rows'[s]) /\ rows'[s].house = rows[s].house /\ rows'[s].healthy = rows[s].healthy
      /\ \A column \in StateColumns : rows'[s][column] = Replaced(s, removed)[column]
  <2>1. Sound(rows'[s]) /\ RowOK(rows[s])
    BY <1>0, <1>1, <1>2 DEF SlotInv, Sound
  <2> QED
    BY <1>0, <1>3, <2>1, StateRestored
<1>5. \A session \in K :
        /\ LastApply(notes, session) \in 1..Len(notes)
        /\ LastApply(notes', session) = LastApply(notes, session)
        /\ LastApply(notes', session) # 0
        /\ s \in DOMAIN notes'[LastApply(notes', session)].saved
        /\ Leads(s, Replaced(s, session), K, LastApply(notes, session))'
        /\ Sound(Updated(rows[s], Replaced(s, session)))'
        /\ Replaced(s, session)' = Replaced(s, session)
  BY <1>1, <1>4, BelowStays DEF SlotInv, Sound
<1>6. Leads(s, rows[s], K, Len(notes) + 1)'
  <2>1. Leads(s, Replaced(s, removed), K, LastApply(notes, removed))'
    BY <1>2, <1>5
  <2>2. LastApply(notes', removed) < Len(notes') + 1 /\ LastApply(notes', removed) \in Nat
        /\ Len(notes') \in Nat
    BY <1>2, <1>5, LogDomain DEF Extends
  <2>3. \A column \in VehicleColumns : rows'[s][column] = Replaced(s, removed)[column]
    BY <1>4 DEF VehicleColumns, StateColumns
  <2>4. rows'[s].session = Replaced(s, removed).session /\ "session" \in VehicleColumns
    BY <2>3 DEF VehicleColumns
  <2>5. Replaced(s, removed)' = Replaced(s, removed)
    BY <1>2, <1>5
  <2>6. CASE rows'[s].session = None
    BY <2>1, <2>3, <2>4, <2>5, <2>6 DEF Leads, AsCollected
  <2>7. CASE rows'[s].session # None
    <3>1. rows'[s].session \in K /\ LastApply(notes', rows'[s].session) < LastApply(notes', removed)
      BY <2>1, <2>4, <2>5, <2>7 DEF Leads
    <3>2. LastApply(notes', rows'[s].session) \in Nat
      BY <1>5, <3>1
    <3> QED
      BY <2>2, <2>7, <3>1, <3>2 DEF Leads
  <2> QED
    BY <2>6, <2>7
<1>7. Unwinds(s, K)'
  BY <1>5, <1>6 DEF Unwinds
<1> QED
  BY <1>4, <1>5, <1>7 DEF SlotInv

\* A row that a new session is annotated on.
LEMMA SlotAnnotated ==
  ASSUME None \notin Sessions, LogOK(notes), LogOK(notes)', Extends(notes', notes), NEW s, SlotInv(s),
         collected'[s] = collected[s], NEW session \in Sessions, NEW state,
         LastApply(notes, session) = 0, LastApply(notes', session) = Len(notes) + 1,
         Len(notes') = Len(notes) + 1,
         s \in DOMAIN notes'[Len(notes) + 1].saved, notes'[Len(notes) + 1].saved[s] = state,
         \A column \in VehicleColumns : state[column] = rows[s][column],
         Sound(rows'[s]), rows'[s].session = session, rows'[s].house = rows[s].house,
         rows'[s].healthy = rows[s].healthy, Sound(Updated(rows'[s], state))
  PROVE  SlotInv(s)'
<1>1. PICK K \in SUBSET Sessions :
        Unwinds(s, K) /\ \A other \in K : Sound(Updated(rows[s], Replaced(s, other)))
  BY DEF SlotInv
<1>0. PICK more \in SUBSET Sessions : more = K \cup {session}
  OBVIOUS
<1>2. \A other \in K :
        /\ LastApply(notes, other) \in 1..Len(notes)
        /\ LastApply(notes', other) = LastApply(notes, other)
        /\ LastApply(notes', other) # 0
        /\ s \in DOMAIN notes'[LastApply(notes', other)].saved
        /\ Leads(s, Replaced(s, other), more, LastApply(notes, other))'
        /\ Sound(Updated(rows[s], Replaced(s, other)))'
  <2>1. Sound(rows[s]) /\ RowOK(rows'[s]) /\ K \subseteq more
    BY <1>0 DEF SlotInv, Sound
  <2> QED
    BY <1>1, <2>1, BelowStays
<1>3. Len(notes) \in Nat
  BY LogDomain
<1>4. Replaced(s, session)' = state
  BY DEF Replaced
<1>5. Leads(s, Replaced(s, session), more, LastApply(notes, session))'
  <2>1. Leads(s, rows[s], K, Len(notes) + 1)
    BY <1>1 DEF Unwinds
  <2>2. \A other \in K : LastApply(notes, other) # 0
    BY <1>1 DEF Unwinds
  <2>3. K \subseteq more
    BY <1>0
  <2>4. state.session = rows[s].session
    BY DEF VehicleColumns
  <2>5. CASE rows[s].session = None
    BY <1>4, <2>1, <2>4, <2>5 DEF Leads, AsCollected
  <2>6. CASE rows[s].session # None
    <3>1. rows[s].session \in K /\ LastApply(notes, rows[s].session) < Len(notes) + 1
      BY <2>1, <2>6 DEF Leads
    <3>2. LastApply(notes', rows[s].session) < Len(notes) + 1 /\ rows[s].session \in more
      BY <1>2, <2>3, <3>1
    <3> QED
      BY <1>4, <2>4, <2>6, <3>2 DEF Leads
  <2> QED
    BY <2>5, <2>6
<1>6. Leads(s, rows[s], more, Len(notes) + 1)'
  BY <1>0, <1>3 DEF Leads
<1>7. Unwinds(s, more)'
  <2>1. /\ LastApply(notes', session) # 0
        /\ s \in DOMAIN notes'[LastApply(notes', session)].saved
    BY <1>3
  <2>2. \A other \in K : Leads(s, Replaced(s, other), more, LastApply(notes, other))'
    BY <1>2
  <2> QED
    BY <1>0, <1>2, <1>5, <1>6, <2>1, <2>2 DEF Unwinds
<1>8. \A other \in more : Sound(Updated(rows[s], Replaced(s, other)))'
  BY <1>0, <1>2, <1>4
<1> QED
  BY <1>7, <1>8 DEF SlotInv

\* A row as it was collected.
LEMMA SlotCollected ==
  ASSUME NEW s, Sound(rows[s]), rows[s].session = None, collected[s] = rows[s]
  PROVE  SlotInv(s)
<1>1. Unwinds(s, {})
  BY DEF Unwinds, Leads, AsCollected
<1> QED
  BY <1>1 DEF SlotInv
----------------------------------------------------------------------------
(* The inductive invariant.                                                 *)

\* What a tool has read: of a slot not collected, annotated or restored since, the row
\* is what derivations and reclassifications made of that.
EarlierInv ==
  earlier # None =>
    /\ Extends(notes, earlier.notes)
    /\ \A s \in DOMAIN earlier.rows :
         /\ s \in Stored /\ Sound(earlier.rows[s])
         /\ s \notin rewritten => Follows(rows[s], earlier.rows[s])

IInv == LogOK(notes) /\ EarlierInv /\ \A s \in Stored \ raced : SlotInv(s)

LEMMA FollowsSelf ==
  ASSUME NEW row
  PROVE  Follows(row, row)
  BY DEF Follows

LEMMA FollowsOn ==
  ASSUME NEW row, NEW between, NEW old, Follows(row, between), Follows(between, old)
  PROVE  Follows(row, old)
  BY DEF Follows

LEMMA ExtendsOn ==
  ASSUME NEW q, NEW p, NEW r, Extends(q, p), Extends(p, r)
  PROVE  Extends(q, r)
  BY DEF Extends

\* What a tool has in hand when it writes.
LEMMA SeenIsSound ==
  ASSUME IInv, raced = {}, NEW late \in {FALSE, earlier # None}
  PROVE  /\ Extends(notes, Seen(late).notes)
         /\ \A s \in StoredIn(Seen(late)) :
              /\ s \in Stored /\ Sound(Seen(late).rows[s])
              /\ (late /\ s \in rewritten) \/ Follows(rows[s], Seen(late).rows[s])
<1>1. CASE ~late
  <2>1. Seen(late).rows = rows /\ Seen(late).notes = notes
    BY <1>1 DEF Seen, JustRead
  <2>2. \A s \in Stored : Sound(rows[s]) /\ Follows(rows[s], rows[s])
    BY FollowsSelf DEF IInv, SlotInv
  <2> QED
    BY <2>1, <2>2 DEF StoredIn, Stored, Extends
<1>2. CASE late
  <2>1. Seen(late) = earlier /\ earlier # None
    BY <1>2 DEF Seen
  <2> QED
    BY <1>2, <2>1 DEF IInv, EarlierInv, StoredIn
<1> QED
  BY <1>1, <1>2

\* A slot that the step does not write.
LEMMA UntouchedIsKept ==
  ASSUME IInv, LogOK(notes)', Extends(notes', notes), NEW s \in Stored \ raced,
         rows'[s] = rows[s], collected'[s] = collected[s]
  PROVE  SlotInv(s)'
<1>1. SlotInv(s) /\ LogOK(notes)
  BY DEF IInv
<1>2. Sound(rows'[s]) /\ Follows(rows'[s], rows[s])
  BY <1>1, FollowsSelf DEF SlotInv
<1> QED
  BY <1>1, <1>2, SlotKept

\* It suffices of a tool that the slots that it writes are sound, and that those another
\* tool has read are noted when they are no derivation of that.
LEMMA WritingIsSound ==
  ASSUME IInv, raced = {}, NEW late \in {FALSE, earlier # None}, NEW columns, NEW stale,
         Writes(late, columns, stale), DOMAIN columns \subseteq Stored,
         LogOK(notes)', Extends(notes', notes),
         \A s \in DOMAIN columns \ raced' : SlotInv(s)',
         \/ late
         \/ earlier = None
         \/ /\ rewritten \subseteq rewritten'
            /\ \A s \in DOMAIN columns \ rewritten' : Follows(rows'[s], rows[s])
  PROVE  IInv'
<1>1. /\ DOMAIN rows' = DOMAIN rows /\ collected' = collected
      /\ \A s \in Stored \ DOMAIN columns : rows'[s] = rows[s]
  BY DEF Writes, Stored
<1>2. \A s \in (Stored \ raced)' : SlotInv(s)'
  <2> SUFFICES ASSUME NEW s \in Stored, s \notin raced' PROVE SlotInv(s)'
    BY <1>1 DEF Stored
  <2>1. CASE s \in DOMAIN columns
    BY <2>1
  <2>2. CASE s \notin DOMAIN columns
    BY <1>1, <2>2, UntouchedIsKept
  <2> QED
    BY <2>1, <2>2
<1>3. EarlierInv'
  <2> SUFFICES ASSUME earlier' # None
               PROVE  /\ Extends(notes', earlier'.notes)
                      /\ \A s \in DOMAIN earlier'.rows :
                           /\ s \in DOMAIN rows' /\ Sound(earlier'.rows[s])
                           /\ s \notin rewritten' => Follows(rows'[s], earlier'.rows[s])
    BY DEF EarlierInv, Stored
  <2>1. /\ ~late /\ earlier' = earlier /\ earlier # None
        /\ rewritten \subseteq rewritten'
        /\ \A s \in DOMAIN columns \ rewritten' : Follows(rows'[s], rows[s])
    BY DEF Writes
  <2>2. Extends(notes, earlier.notes)
    BY <2>1 DEF IInv, EarlierInv
  <2>3. Extends(notes', earlier.notes)
    BY <2>2, ExtendsOn
  <2>4. ASSUME NEW s \in DOMAIN earlier.rows, s \notin rewritten'
        PROVE  Follows(rows'[s], earlier.rows[s])
    <3>1. s \in Stored /\ Follows(rows[s], earlier.rows[s])
      BY <2>1, <2>4 DEF IInv, EarlierInv
    <3>2. Follows(rows'[s], rows[s])
      BY <1>1, <2>1, <2>4, <3>1, FollowsSelf
    <3> QED
      BY <3>1, <3>2, FollowsOn
  <2>5. \A s \in DOMAIN earlier.rows : s \in DOMAIN rows' /\ Sound(earlier.rows[s])
    BY <1>1, <2>1 DEF IInv, EarlierInv, Stored
  <2> QED
    BY <2>1, <2>3, <2>4, <2>5
<1> QED
  BY <1>2, <1>3 DEF IInv

----------------------------------------------------------------------------
(* One lemma for each action.                                               *)

LEMMA NotesUnchanged ==
  ASSUME LogOK(notes), notes' = notes
  PROVE  LogOK(notes)' /\ Extends(notes', notes)
  BY DEF LogOK, Extends

LEMMA LegacyIsSound ==
  ASSUME NEW st \in Sources
  PROVE  Sound(LegacyRow(st)) /\ LegacyRow(st).session = None
<1>1. Sound(Observe(st, Current, 0)) /\ Observe(st, Current, 0).session = None
  BY ObservingIsSound
<1> DEFINE row == Observe(st, Current, 0)
<1> HIDE DEF row
<1>2. Sound(row) /\ row.session = None
  BY <1>1 DEF row
<1>3. LegacyRow(st) = [row EXCEPT !.flow = NoFlow("unconfirmed"), !.flowHealthy = FALSE]
  BY DEF LegacyRow, row
<1>4. DOMAIN row = RowColumns
  BY <1>2 DEF Sound, RowOK
<1>5. /\ DOMAIN LegacyRow(st) = RowColumns
      /\ \A x \in RowColumns \ {"flow", "flowHealthy"} : LegacyRow(st)[x] = row[x]
  BY <1>3, <1>4 DEF RowColumns
<1>6. /\ \A x \in {"house", "evPower", "baseline", "healthy", "eligible", "active", "session"} :
           LegacyRow(st)[x] = row[x]
  BY <1>5 DEF RowColumns
<1> QED
  BY <1>2, <1>5, <1>6 DEF Sound, RowOK, Trains, Clean

LEMMA InitIsSound ==
  ASSUME Init
  PROVE  IInv
<1>1. LogOK(notes)
  BY DEF Init, LogOK
<1>2. EarlierInv
  BY DEF Init, EarlierInv
<1>3. \A s \in Stored : SlotInv(s)
  <2>1. PICK st \in Sources : rows = [s \in {Min(SlotIds)} |-> LegacyRow(st)]
    BY DEF Init
  <2>2. \A s \in Stored : Sound(rows[s]) /\ rows[s].session = None /\ collected[s] = rows[s]
    BY <2>1, LegacyIsSound DEF Init, Stored
  <2> QED
    BY <2>2, SlotCollected
<1> QED
  BY <1>1, <1>2, <1>3 DEF IInv

LEMMA CollectIsSound ==
  ASSUME IInv, raced = {}, NEW s \in SlotIds, NEW st \in Sources, Collect(s, st)
  PROVE  IInv'
<1>1. LogOK(notes)' /\ Extends(notes', notes)
  BY NotesUnchanged DEF Collect, IInv
<1>2. /\ DOMAIN rows' = Stored \cup {s} /\ rows'[s] = Observe(st, Current, 0)
      /\ collected'[s] = rows'[s]
      /\ \A n \in Stored \ {s} : rows'[n] = rows[n] /\ collected'[n] = collected[n]
  BY DEF Collect
<1>3. Sound(rows'[s]) /\ rows'[s].session = None
  BY <1>2, ObservingIsSound
<1>4. \A n \in (Stored \ raced)' : SlotInv(n)'
  <2> SUFFICES ASSUME NEW n \in Stored \cup {s} PROVE SlotInv(n)'
    BY <1>2 DEF Stored
  <2>1. CASE n = s
    <3>1. Unwinds(s, {})'
      BY <1>2, <1>3 DEF Unwinds, Leads, AsCollected
    <3> QED
      BY <1>3, <2>1, <3>1 DEF SlotInv
  <2>2. CASE n # s
    BY <1>1, <1>2, <2>2, UntouchedIsKept
  <2> QED
    BY <2>1, <2>2
<1>5. EarlierInv'
  <2>1. CASE earlier # None
    <3>1. earlier' = earlier /\ notes' = notes /\ rewritten' = rewritten \cup {s}
      BY <2>1 DEF Collect, Disturb
    <3>2. \A n \in DOMAIN earlier.rows :
            /\ n \in DOMAIN rows' /\ Sound(earlier.rows[n])
            /\ n \notin rewritten' => Follows(rows'[n], earlier.rows[n])
      BY <1>2, <2>1, <3>1 DEF IInv, EarlierInv
    <3> QED
      BY <2>1, <3>1, <3>2 DEF IInv, EarlierInv, Stored
  <2>2. CASE earlier = None
    BY <2>2 DEF Collect, EarlierInv
  <2> QED
    BY <2>1, <2>2
<1> QED
  BY <1>1, <1>4, <1>5 DEF IInv

LEMMA ReadFirstIsSound ==
  ASSUME IInv, raced = {}, ReadFirst
  PROVE  IInv'
<1>1. LogOK(notes)' /\ Extends(notes', notes)
  BY NotesUnchanged DEF ReadFirst, IInv
<1>2. rows' = rows /\ collected' = collected /\ raced' = raced /\ notes' = notes
      /\ earlier'.rows = rows /\ earlier'.notes = notes
  BY DEF ReadFirst, JustRead
<1>3. \A s \in (Stored \ raced)' : SlotInv(s)'
  <2> SUFFICES ASSUME NEW s \in Stored \ raced PROVE SlotInv(s)'
    BY <1>2 DEF Stored
  <2> QED
    BY <1>1, <1>2, UntouchedIsKept
<1>4. EarlierInv'
  <2>1. \A s \in Stored : Sound(rows[s]) /\ Follows(rows[s], rows[s])
    BY FollowsSelf DEF IInv, SlotInv
  <2> QED
    BY <1>2, <2>1 DEF EarlierInv, Stored, Extends
<1> QED
  BY <1>1, <1>3, <1>4 DEF IInv

LEMMA ReprocessIsSound ==
  ASSUME IInv, raced = {}, NEW late \in {FALSE, earlier # None},
         NEW c, NEW override, Reprocess(late, c, override)
  PROVE  IInv'
<1> DEFINE old(s) == Seen(late).rows[s]
           repairable == {s \in StoredIn(Seen(late)) :
                            /\ RepairStatus(old(s), Flow(old(s), c), override) = "repairable"
                            /\ <<s, FlowVersion, Fingerprint(old(s), c)>> \notin audit}
           columns == [s \in repairable |-> Restrict(Derived(old(s), c), DerivedColumns)]
<1>1. Writes(late, columns, repairable) /\ notes' = notes
  BY DEF Reprocess
<1>2. IF late THEN rewritten' = {} ELSE Disturb({})
  BY DEF Reprocess
<1>3. /\ DOMAIN columns = repairable /\ repairable \subseteq StoredIn(Seen(late))
      /\ \A s \in repairable : columns[s] = Restrict(Derived(old(s), c), DerivedColumns)
  OBVIOUS
<1> HIDE DEF columns, repairable
<1>4. LogOK(notes)' /\ Extends(notes', notes)
  BY <1>1, NotesUnchanged DEF IInv
<1>5. repairable \subseteq Stored
  BY <1>3, SeenIsSound
<1>6. ASSUME NEW s \in repairable, ~(late /\ s \in rewritten)
      PROVE  Sound(rows'[s]) /\ Follows(rows'[s], rows[s])
  <2>1. Sound(old(s)) /\ Follows(rows[s], old(s))
    BY <1>3, <1>6, SeenIsSound
  <2>2. SlotInv(s)
    BY <1>5 DEF IInv
  <2>3. RowOK(rows[s])
    BY <2>2 DEF SlotInv, Sound
  <2>4. rows'[s] = Updated(rows[s], Restrict(Derived(old(s), c), DerivedColumns))
    BY <1>1, <1>3, <1>5 DEF Writes
  <2> QED
    BY <2>1, <2>3, <2>4, DerivingIsSound
<1>7. \A s \in DOMAIN columns \ raced' : SlotInv(s)'
  <2> SUFFICES ASSUME NEW s \in repairable, s \notin raced' PROVE SlotInv(s)'
    BY <1>3
  <2>1. ~(late /\ s \in rewritten) /\ collected' = collected
    BY <1>1 DEF Writes
  <2>2. SlotInv(s) /\ LogOK(notes)
    BY <1>5 DEF IInv
  <2> QED
    BY <1>4, <1>6, <2>1, <2>2, SlotKept
<1>8. \/ late
      \/ earlier = None
      \/ /\ rewritten \subseteq rewritten'
         /\ \A s \in DOMAIN columns \ rewritten' : Follows(rows'[s], rows[s])
  BY <1>2, <1>3, <1>6 DEF Disturb
<1> QED
  BY <1>1, <1>3, <1>4, <1>5, <1>7, <1>8, WritingIsSound

LEMMA ReclassifyIsSound ==
  ASSUME IInv, raced = {}, NEW late \in {FALSE, earlier # None}, Reclassify(late)
  PROVE  IInv'
<1> DEFINE negative == {s \in StoredIn(Seen(late)) :
                          MateriallyNegativeDemand(Seen(late).rows[s].house)}
           columns == [s \in negative |-> InvalidRow(rows[s])]
<1>1. Writes(late, columns, {}) /\ notes' = notes
  BY DEF Reclassify
<1>2. IF late THEN rewritten' = {} ELSE Disturb({})
  BY DEF Reclassify
<1>3. /\ DOMAIN columns = negative /\ negative \subseteq StoredIn(Seen(late))
      /\ \A s \in negative : columns[s] = InvalidRow(rows[s])
  OBVIOUS
<1> HIDE DEF columns, negative
<1>4. LogOK(notes)' /\ Extends(notes', notes)
  BY <1>1, NotesUnchanged DEF IInv
<1>5. negative \subseteq Stored
  BY <1>3, SeenIsSound
<1>6. ASSUME NEW s \in negative
      PROVE  SlotInv(s) /\ Sound(rows'[s]) /\ Follows(rows'[s], rows[s])
  <2>1. SlotInv(s)
    BY <1>5 DEF IInv
  <2>2. RowOK(rows[s]) /\ None \notin Int
    BY <2>1, ReadingsAssumption DEF SlotInv, Sound
  <2>3. rows'[s] = Updated(rows[s], InvalidRow(rows[s]))
    BY <1>1, <1>3, <1>5 DEF Writes
  <2> QED
    BY <2>1, <2>2, <2>3, InvalidatingIsSound
<1>7. \A s \in DOMAIN columns \ raced' : SlotInv(s)'
  <2> SUFFICES ASSUME NEW s \in negative PROVE SlotInv(s)'
    BY <1>3
  <2>1. collected' = collected /\ LogOK(notes)
    BY <1>1 DEF Writes, IInv
  <2> QED
    BY <1>4, <1>6, <2>1, SlotKept
<1>8. \/ late
      \/ earlier = None
      \/ /\ rewritten \subseteq rewritten'
         /\ \A s \in DOMAIN columns \ rewritten' : Follows(rows'[s], rows[s])
  BY <1>2, <1>3, <1>6 DEF Disturb
<1> QED
  BY <1>1, <1>3, <1>4, <1>5, <1>7, <1>8, WritingIsSound

LEMMA AnnotateIsSound ==
  ASSUME ~Reuse, IInv, raced = {}, NEW late \in {FALSE, earlier # None},
         NEW slots, NEW session \in Sessions, Annotate(late, slots, session)
  PROVE  IInv'
<1> DEFINE seen == Seen(late)
           covered == slots \cap StoredIn(seen)
           columns == [s \in covered |->
                         Restrict(AnnotatedRow(seen.rows[s], session), StateColumns \ {"evPower"})]
           note == [session |-> session, action |-> "apply",
                    saved |-> [s \in covered |-> StateOf(seen.rows[s])]]
<1>1. /\ Writes(late, columns, covered)
      /\ \A n \in DOMAIN notes : notes[n].session # session
      /\ notes' = Append(notes, note)
  BY ReadingsAssumption DEF Annotate, Noted
<1>2. IF late THEN rewritten' = {} ELSE Disturb(covered)
  BY DEF Annotate
<1>3. /\ DOMAIN columns = covered /\ covered \subseteq StoredIn(seen)
      /\ \A s \in covered : columns[s] = Restrict(AnnotatedRow(seen.rows[s], session),
                                                  StateColumns \ {"evPower"})
  OBVIOUS
<1>4. /\ note.session = session /\ note.action = "apply" /\ DOMAIN note.saved = covered
      /\ \A s \in covered : note.saved[s] = StateOf(seen.rows[s])
  OBVIOUS
<1> HIDE DEF columns, covered, note
<1>5. covered \subseteq Stored /\ \A s \in covered : Sound(seen.rows[s])
  BY <1>3, SeenIsSound
<1>6. NoteOK(note)
  <2>1. \A s \in covered : StateOK(StateOf(seen.rows[s]))
    BY <1>5, SavedState DEF Sound
  <2> QED
    BY <1>4, <2>1 DEF NoteOK
<1>7. LastApply(notes, session) = 0 /\ LogOK(notes) /\ None \notin Sessions /\ None \notin Int
  <2>1. Extends(notes, notes) /\ LogOK(notes) /\ None \notin Sessions /\ None \notin Int
    BY ReadingsAssumption DEF Extends, IInv
  <2> QED
    BY <1>1, <2>1, LastApplyFound DEF Applies
<1>8. /\ LogOK(notes)' /\ Extends(notes', notes)
      /\ Len(notes') = Len(notes) + 1 /\ notes'[Len(notes) + 1] = note
  BY <1>1, <1>4, <1>6, <1>7, NoteAppended
<1>9. LastApply(notes', session) = Len(notes) + 1
  <2>1. Len(notes) + 1 \in DOMAIN notes'
    BY <1>7, <1>8, LogDomain DEF LogOK
  <2>2. LogOK(notes') /\ Extends(notes', notes') /\ Applies(notes'[Len(notes) + 1], session)
    BY <1>4, <1>8 DEF Applies, Extends, LogOK
  <2> QED
    BY <2>1, <2>2, LastApplyFound
<1>10. \A s \in DOMAIN columns \ raced' : SlotInv(s)'
  <2> SUFFICES ASSUME NEW s \in covered, s \notin raced' PROVE SlotInv(s)'
    BY <1>3
  <2> DEFINE old == seen.rows[s]
  <2>1. ~(late /\ s \in rewritten) /\ collected' = collected
    BY <1>1 DEF Writes
  <2>2. Sound(old) /\ Follows(rows[s], old)
    BY <1>3, <2>1, SeenIsSound
  <2>3. SlotInv(s)
    BY <1>5 DEF IInv
  <2>4. RowOK(rows[s]) /\ session # None
    BY <1>7, <2>3 DEF SlotInv, Sound
  <2>5. rows'[s] = Updated(rows[s], Restrict(AnnotatedRow(old, session), StateColumns \ {"evPower"}))
    BY <1>1, <1>3, <1>5 DEF Writes
  <2> HIDE DEF seen
  <2>6. /\ Sound(rows'[s]) /\ rows'[s].session = session
        /\ rows'[s].house = rows[s].house /\ rows'[s].healthy = rows[s].healthy
        /\ Sound(Updated(rows'[s], StateOf(old)))
        /\ \A column \in VehicleColumns : StateOf(old)[column] = rows[s][column]
    BY <1>7, <2>2, <2>4, <2>5, AnnotatingIsSound
  <2>7. s \in DOMAIN notes'[Len(notes) + 1].saved /\ notes'[Len(notes) + 1].saved[s] = StateOf(old)
    BY <1>4, <1>8
  <2> QED
    BY <1>7, <1>8, <1>9, <2>1, <2>3, <2>6, <2>7, SlotAnnotated
<1>11. \/ late
       \/ earlier = None
       \/ /\ rewritten \subseteq rewritten'
          /\ \A s \in DOMAIN columns \ rewritten' : Follows(rows'[s], rows[s])
  BY <1>2, <1>3 DEF Disturb
<1> QED
  BY <1>1, <1>3, <1>5, <1>8, <1>10, <1>11, WritingIsSound

LEMMA RemoveSessionIsSound ==
  ASSUME IInv, raced = {}, NEW late \in {FALSE, earlier # None},
         NEW session \in Sessions, RemoveSession(late, session)
  PROVE  IInv'
<1> DEFINE seen == Seen(late)
           last == LastApply(seen.notes, session)
           removed == Removable(seen, session)
           columns == Restrict(seen.notes[last].saved, removed)
           note == [session |-> session, action |-> "remove",
                    saved |-> [s \in removed |-> StateOf(seen.rows[s])]]
<1>1. Writes(late, columns, removed) /\ notes' = Append(notes, note) /\ removed # {}
  BY DEF RemoveSession, Noted
<1>2. IF late THEN rewritten' = {} ELSE Disturb(removed)
  BY DEF RemoveSession
<1>3. /\ last # 0 /\ removed \subseteq StoredIn(seen)
      /\ \A s \in removed : seen.rows[s].session = session
  BY <1>1 DEF Removable
<1>4. DOMAIN columns = removed /\ \A s \in removed : columns[s] = seen.notes[last].saved[s]
  BY DEF Restrict
<1>5. /\ note.session = session /\ note.action = "remove" /\ DOMAIN note.saved = removed
      /\ \A s \in removed : note.saved[s] = StateOf(seen.rows[s])
  OBVIOUS
<1> HIDE DEF columns, note, removed
<1>6. /\ removed \subseteq Stored /\ Extends(notes, seen.notes)
      /\ \A s \in removed : Sound(seen.rows[s])
  BY <1>3, SeenIsSound
<1>7. NoteOK(note)
  <2>1. \A s \in removed : StateOK(StateOf(seen.rows[s]))
    BY <1>6, SavedState DEF Sound
  <2> QED
    BY <1>5, <2>1 DEF NoteOK
<1>8. LogOK(notes) /\ None \notin Sessions
  BY ReadingsAssumption DEF IInv
<1>9. LogOK(notes)' /\ Extends(notes', notes)
  BY <1>1, <1>5, <1>7, <1>8, NoteAppended
<1>10. \A s \in removed : columns[s] = Replaced(s, session)
  <2>1. LastApply(notes, session) = last /\ notes[last] = seen.notes[last]
    BY <1>3, <1>6, <1>8, ApplyStays
  <2> QED
    BY <1>4, <2>1 DEF Replaced
<1>11. \A s \in DOMAIN columns \ raced' : SlotInv(s)'
  <2> SUFFICES ASSUME NEW s \in removed, s \notin raced' PROVE SlotInv(s)'
    BY <1>4
  <2>1. ~(late /\ s \in rewritten) /\ collected' = collected
    BY <1>1 DEF Writes
  <2>2. Follows(rows[s], seen.rows[s])
    BY <1>3, <2>1, SeenIsSound
  <2>3. rows[s].session = session
    BY <1>3, <2>2 DEF Follows, VehicleColumns
  <2>4. SlotInv(s)
    BY <1>6 DEF IInv
  <2>5. rows'[s] = Updated(rows[s], Replaced(s, session))
    BY <1>1, <1>4, <1>6, <1>10 DEF Writes
  <2> QED
    BY <1>8, <1>9, <2>1, <2>3, <2>4, <2>5, SlotRestored
<1>12. \/ late
       \/ earlier = None
       \/ /\ rewritten \subseteq rewritten'
          /\ \A s \in DOMAIN columns \ rewritten' : Follows(rows'[s], rows[s])
  BY <1>2, <1>4 DEF Disturb
<1> QED
  BY <1>1, <1>4, <1>6, <1>9, <1>11, <1>12, WritingIsSound

----------------------------------------------------------------------------
(* The theorem.                                                             *)

LEMMA NextIsSound ==
  ASSUME ~Reuse, IInv, [Next]_vars
  PROVE  IInv'
<1>1. ASSUME NEW s \in SlotIds, NEW st \in Sources, raced = {}, Collect(s, st)
      PROVE  IInv'
  BY <1>1, CollectIsSound
<1>2. CASE raced = {} /\ ReadFirst
  BY <1>2, ReadFirstIsSound
<1>3. ASSUME NEW late \in {FALSE, earlier # None}, NEW c, NEW override, raced = {},
             Reprocess(late, c, override)
      PROVE  IInv'
  BY <1>3, ReprocessIsSound
<1>4. ASSUME NEW late \in {FALSE, earlier # None}, NEW slots, NEW session \in Sessions,
             raced = {}, Annotate(late, slots, session)
      PROVE  IInv'
  BY <1>4, AnnotateIsSound
<1>5. ASSUME NEW late \in {FALSE, earlier # None}, NEW session \in Sessions, raced = {},
             RemoveSession(late, session)
      PROVE  IInv'
  BY <1>5, RemoveSessionIsSound
<1>6. ASSUME NEW late \in {FALSE, earlier # None}, raced = {}, Reclassify(late)
      PROVE  IInv'
  BY <1>6, ReclassifyIsSound
<1>7. CASE UNCHANGED vars
  <2>1. LogOK(notes)' /\ Extends(notes', notes)
    BY <1>7, NotesUnchanged DEF vars, IInv
  <2>2. \A s \in (Stored \ raced)' : SlotInv(s)'
    <3> SUFFICES ASSUME NEW s \in Stored \ raced PROVE SlotInv(s)'
      BY <1>7 DEF vars, Stored
    <3> QED
      BY <1>7, <2>1, UntouchedIsKept DEF vars
  <2>3. EarlierInv'
    BY <1>7 DEF vars, IInv, EarlierInv, Stored
  <2> QED
    BY <2>1, <2>2, <2>3 DEF IInv
<1> QED
  BY <1>1, <1>2, <1>3, <1>4, <1>5, <1>6, <1>7 DEF Next

LEMMA SoundnessFollows ==
  ASSUME IInv
  PROVE  HistoryIsSound
<1>1. \A s \in Stored \ raced : Sound(rows[s]) /\ \E sessions \in SUBSET Sessions : Unwinds(s, sessions)
  BY DEF IInv, SlotInv
<1> QED
  BY <1>1 DEF HistoryIsSound, TrainingIsClean, AnnotationIsReversible, Sound

\* After any sequence of the collector and the tools, for any readings, sign conventions,
\* number of slots and notes, and with or without the bounds: as long as no session
\* identifier is given twice and no tool wrote over a row that changed after it had read,
\* what the forecaster would learn from has no unknown vehicle in it, and removing
\* sessions one after the other ends at the vehicle as it was collected.
THEOREM HistoryStaysSound ==
  ASSUME ~Reuse
  PROVE  Spec => []HistoryIsSound
<1>1. Init => IInv
  BY InitIsSound
<1>2. IInv /\ [Next]_vars => IInv'
  BY NextIsSound
<1>3. IInv => HistoryIsSound
  BY SoundnessFollows
<1> QED
  BY <1>1, <1>2, <1>3, PTL DEF Spec

----------------------------------------------------------------------------
(* Flows: what derive_energy_flow tells of any four meters. The directions  *)
(* are never negative, each storage and each supply is split exactly, and   *)
(* each meter is missed by no more than the meters disagree by.             *)

\* At most one of the two directions of a meter.
LEMMA OneWay ==
  ASSUME NEW x \in Int
  PROVE  /\ Positive(x) \in Nat /\ Positive(-x) \in Nat
         /\ Positive(x) = 0 \/ Positive(-x) = 0
  BY DEF Positive

\* Whatever the meters say, the split of a reading into directions is accounted for up
\* to the residual it reports: a direction is never negative, charge and discharge are
\* told exactly, and the sun, the house and the two grid totals within the residual.
THEOREM DirectionsAreAccounted ==
  ASSUME NEW pv \in Nat, NEW house \in Nat,
         NEW import \in Nat, NEW export \in Nat, NEW charge \in Nat, NEW discharge \in Nat,
         import = 0 \/ export = 0, charge = 0 \/ discharge = 0
  PROVE  LET f == Directed(pv, house, import, export, charge, discharge)
         IN  /\ \A name \in FlowFields \ {"residual"} : f[name] \in Nat
             /\ f.charge = f.solarToBattery + f.gridToBattery
             /\ f.discharge = f.batteryToHouse + f.batteryToGrid
             /\ Abs(pv - (f.solarToHouse + f.solarToBattery + f.solarToGrid)) <= Abs(f.residual)
             /\ Abs(house - (f.solarToHouse + f.batteryToHouse + f.gridToHouse))
                  <= Abs(f.residual)
             /\ Abs(import - (f.gridToHouse + f.gridToBattery)) <= Abs(f.residual)
             /\ Abs(export - (f.solarToGrid + f.batteryToGrid)) <= Abs(f.residual)
             /\ f.solarToHouse <= pv /\ f.gridToHouse <= import
<1> DEFINE sh == Lesser(pv, house)
           sb == SunToBattery(pv, house, charge)
           bh == Lesser(discharge, house - sh)
           sg == Lesser(pv - sh - sb, export)
           bg == discharge - bh
           gh == Lesser(import, house - sh - bh)
           gb == charge - sb
           res == pv + import + discharge - house - export - charge
           f == Directed(pv, house, import, export, charge, discharge)
<1>1. sh \in Nat /\ sh <= pv /\ sh <= house /\ (sh = pv \/ sh = house)
  BY DEF Lesser
<1>2. /\ sb \in Nat /\ sb <= pv - sh /\ sb <= charge /\ (sb = pv - sh \/ sb = charge)
  BY <1>1 DEF SunToBattery, Lesser, Positive
<1>3. bh \in Nat /\ bh <= discharge /\ bh <= house - sh /\ (bh = discharge \/ bh = house - sh)
  BY <1>1 DEF Lesser
<1>4. sg \in Nat /\ sg <= pv - sh - sb /\ sg <= export /\ (sg = pv - sh - sb \/ sg = export)
  BY <1>1, <1>2 DEF Lesser
<1>5. gh \in Nat /\ gh <= import /\ gh <= house - sh - bh /\ (gh = import \/ gh = house - sh - bh)
  BY <1>1, <1>3 DEF Lesser
<1>6. /\ f.solarToHouse = sh /\ f.solarToBattery = sb /\ f.batteryToHouse = bh
      /\ f.solarToGrid = sg /\ f.batteryToGrid = bg /\ f.gridToHouse = gh /\ f.gridToBattery = gb
      /\ f.residual = res /\ f.charge = charge /\ f.discharge = discharge
      /\ f.import = import /\ f.export = export
  BY DEF Directed
<1>7. bg \in Nat /\ gb \in Nat /\ res \in Int
  BY <1>2, <1>3
<1> HIDE DEF sh, sb, bh, sg, gh, f
<1>8. Abs(pv - (sh + sb + sg)) <= Abs(res)
  BY <1>1, <1>2, <1>3, <1>4, <1>5 DEF Abs
<1>9. Abs(house - (sh + bh + gh)) <= Abs(res)
  BY <1>1, <1>2, <1>3, <1>4, <1>5 DEF Abs
<1>10. Abs(import - (gh + gb)) <= Abs(res)
  BY <1>1, <1>2, <1>3, <1>4, <1>5 DEF Abs
<1>11. Abs(export - (sg + bg)) <= Abs(res)
  BY <1>1, <1>2, <1>3, <1>4, <1>5 DEF Abs
<1>12. \A name \in FlowFields \ {"residual"} : f[name] \in Nat
  BY <1>1, <1>2, <1>3, <1>4, <1>5, <1>6, <1>7 DEF FlowFields
<1>13. charge = sb + gb /\ discharge = bh + bg
  BY <1>2, <1>3
<1>14. QED
  BY <1>1, <1>5, <1>6, <1>8, <1>9, <1>10, <1>11, <1>12, <1>13 DEF f

\* What the flow of a reading tells of the four meters.
FlowAccounts(flow, raw) ==
  /\ flow.residual \in Int /\ flow.import \in Nat /\ flow.export \in Nat
  /\ \A name \in FlowFields \ {"residual"} : flow[name] \in Nat
  /\ flow.charge = flow.solarToBattery + flow.gridToBattery
  /\ flow.discharge = flow.batteryToHouse + flow.batteryToGrid
  /\ Abs(Positive(raw.pv) - (flow.solarToHouse + flow.solarToBattery + flow.solarToGrid))
       <= Abs(flow.residual)
  /\ Abs(Positive(raw.house) - (flow.solarToHouse + flow.batteryToHouse + flow.gridToHouse))
       <= Abs(flow.residual)
  /\ Abs(flow.import - (flow.gridToHouse + flow.gridToBattery)) <= Abs(flow.residual)
  /\ Abs(flow.export - (flow.solarToGrid + flow.batteryToGrid)) <= Abs(flow.residual)
  /\ flow.solarToHouse <= Positive(raw.pv) /\ flow.gridToHouse <= flow.import

Metered(raw) == {raw.pv, raw.house, raw.grid, raw.battery} \subseteq Int \cup {None}

\* The two sides of a meter under a sign convention are its two directions; a flow is
\* confirmed only when all four meters say something and both conventions are known.
LEMMA ConfirmedIsAccounted ==
  ASSUME None \notin Int, NEW raw, Metered(raw), NEW c
  PROVE  LET flow == Flow(raw, c)
         IN  /\ flow.status = "confirmed" => FlowAccounts(flow, raw)
             /\ flow.status = "unconfirmed" <=> "unknown" \in {c.grid, c.battery}
             /\ flow.status = "unavailable" <=>
                  "unknown" \notin {c.grid, c.battery} /\ Incomplete(raw)
             /\ flow.status \in {"confirmed", "unconfirmed", "unavailable"}
<1> DEFINE i == IF c.grid = "positive_import" THEN raw.grid ELSE -raw.grid
           g == IF c.battery = "positive_charge" THEN raw.battery ELSE -raw.battery
           f == Flow(raw, c)
           d == Directed(Positive(raw.pv), Positive(raw.house), Positive(i), Positive(-i),
                         Positive(g), Positive(-g))
<1>1. CASE "unknown" \in {c.grid, c.battery}
  BY <1>1 DEF Flow, NoFlow
<1>2. CASE "unknown" \notin {c.grid, c.battery} /\ Incomplete(raw)
  BY <1>2 DEF Flow, NoFlow
<1>3. CASE "unknown" \notin {c.grid, c.battery} /\ ~Incomplete(raw)
  <2>1. raw.pv \in Int /\ raw.house \in Int /\ i \in Int /\ g \in Int
    BY <1>3 DEF Incomplete, Metered
  <2>2. f = d
    BY <1>3 DEF Flow
  <2> HIDE DEF i, g, f
  <2>3. /\ Positive(raw.pv) \in Nat /\ Positive(raw.house) \in Nat
        /\ Positive(i) \in Nat /\ Positive(-i) \in Nat
        /\ Positive(g) \in Nat /\ Positive(-g) \in Nat
        /\ Positive(i) = 0 \/ Positive(-i) = 0
        /\ Positive(g) = 0 \/ Positive(-g) = 0
    BY <2>1, OneWay
  <2>4. /\ d.import = Positive(i) /\ d.export = Positive(-i) /\ d.status = "confirmed"
        /\ d.residual = Positive(raw.pv) + Positive(i) + Positive(-g) - Positive(raw.house)
                          - Positive(-i) - Positive(g)
    BY DEF Directed
  <2> DEFINE Told(h) ==
               /\ \A name \in FlowFields \ {"residual"} : h[name] \in Nat
               /\ h.charge = h.solarToBattery + h.gridToBattery
               /\ h.discharge = h.batteryToHouse + h.batteryToGrid
               /\ Abs(Positive(raw.pv) - (h.solarToHouse + h.solarToBattery + h.solarToGrid))
                    <= Abs(h.residual)
               /\ Abs(Positive(raw.house) - (h.solarToHouse + h.batteryToHouse + h.gridToHouse))
                    <= Abs(h.residual)
               /\ Abs(Positive(i) - (h.gridToHouse + h.gridToBattery)) <= Abs(h.residual)
               /\ Abs(Positive(-i) - (h.solarToGrid + h.batteryToGrid)) <= Abs(h.residual)
               /\ h.solarToHouse <= Positive(raw.pv) /\ h.gridToHouse <= Positive(i)
  <2>5. Told(d)
    BY <2>3, DirectionsAreAccounted
  <2> HIDE DEF d
  <2>6. d.residual \in Int
    BY <2>3, <2>4
  <2>7. FlowAccounts(d, raw)
    BY <2>3, <2>4, <2>5, <2>6 DEF FlowAccounts
  <2>8. /\ f.status = "confirmed" /\ FlowAccounts(f, raw)
    BY <2>2, <2>4, <2>7
  <2> QED
    BY <1>3, <2>8 DEF f
<1> QED
  BY <1>1, <1>2, <1>3

LEMMA MaxOfTwo ==
  ASSUME NEW a \in Int, NEW b \in Int
  PROVE  Max({a, b}) \in {a, b} /\ Max({a, b}) >= a /\ Max({a, b}) >= b
<1>1. \E m \in {a, b} : \A y \in {a, b} : m >= y
  OBVIOUS
<1> QED
  BY <1>1 DEF Max

\* The first part of ObservationIsGrounded for any reading: what is told of the flows of
\* a confirmed reading accounts for the meters up to the residual, and a label of a
\* balanced one, of the battery as of a charger, names a supply whose meter shows it.
THEOREM ReadingIsAccounted ==
  ASSUME None \notin Int, NEW raw, Metered(raw), NEW c, c.tolerance \in Int,
         NEW active, NEW power \in Int \cup {None}
  PROVE  Accounted(raw, c, active, power)
<1> DEFINE flow == Flow(raw, c)
           told == EventLabels(flow, active, power, c.tolerance)
           threshold == Max({c.tolerance, 1})
<1>1. flow.status = "confirmed" => FlowAccounts(flow, raw)
  BY ConfirmedIsAccounted
<1>2. threshold \in Int /\ threshold >= c.tolerance /\ threshold >= 1
  <2>1. c.tolerance \in Int /\ 1 \in Int
    OBVIOUS
  <2>2. /\ Max({c.tolerance, 1}) \in {c.tolerance, 1}
        /\ Max({c.tolerance, 1}) >= c.tolerance /\ Max({c.tolerance, 1}) >= 1
    BY <2>1, MaxOfTwo
  <2> QED
    BY <2>1, <2>2
<1> HIDE DEF flow, threshold
<1>3. ASSUME flow.status = "confirmed"
      PROVE  /\ \A f \in FlowFields \ {"residual"} : flow[f] >= 0
             /\ {"solarToHouse", "gridToHouse", "gridToBattery", "batteryToGrid", "solarToGrid",
                 "solarToBattery", "batteryToHouse", "charge", "discharge"}
                  \subseteq FlowFields \ {"residual"}
  BY <1>1, <1>3 DEF FlowAccounts, FlowFields
<1>4. ASSUME told.confidence = "high"
      PROVE  flow.status = "confirmed" /\ Abs(flow.residual) <= threshold
  <2>1. flow.status = "confirmed"
    BY <1>4 DEF EventLabels
  <2>2. told.confidence = IF Abs(flow.residual) <= c.tolerance THEN "high" ELSE "low"
    BY <2>1 DEF EventLabels
  <2>3. Abs(flow.residual) \in Int
    BY <1>1, <2>1 DEF FlowAccounts, Abs
  <2> QED
    BY <1>2, <1>4, <2>1, <2>2, <2>3
<1>5. ASSUME flow.status = "confirmed"
      PROVE  /\ "grid_battery_charge" \in told.labels => flow.gridToBattery > threshold
             /\ "battery_export" \in told.labels => flow.batteryToGrid > threshold
             /\ "ev_charge_solar" \in told.labels => flow.solarToHouse > 0
             /\ "ev_charge_grid" \in told.labels => flow.gridToHouse > 0
  <2> DEFINE batteries == {l \in {"solar_battery_charge", "grid_battery_charge", "solar_export",
                                  "battery_export"} :
                             threshold < CASE l = "solar_battery_charge" -> flow.solarToBattery
                                           [] l = "grid_battery_charge" -> flow.gridToBattery
                                           [] l = "solar_export" -> flow.solarToGrid
                                           [] OTHER -> flow.batteryToGrid}
             charging == active = TRUE /\ power # None /\ OrZero(power) > threshold
             label == ChargerLabel(flow, OrZero(power), threshold)
             events == batteries \cup {l \in {label} : charging}
  <2>1. told.labels = IF events # {} THEN events
                      ELSE IF flow.solarToHouse > threshold THEN {"normal_self_consumption"}
                      ELSE {"unknown"}
    BY <1>5 DEF EventLabels, threshold
  <2> HIDE DEF told
  <2>2. \A l \in {"grid_battery_charge", "battery_export", "ev_charge_solar", "ev_charge_grid"} :
          l \in told.labels => l \in events
    BY <2>1
  <2>3. /\ "grid_battery_charge" \in batteries => flow.gridToBattery > threshold
        /\ "battery_export" \in batteries => flow.batteryToGrid > threshold
        /\ "ev_charge_solar" \notin batteries /\ "ev_charge_grid" \notin batteries
    BY <1>1, <1>2, <1>3, <1>5 DEF FlowAccounts
  <2>4. label \in {"ev_charge_solar", "ev_charge_grid", "ev_charge_mixed"}
    BY DEF ChargerLabel
  <2>5. charging => OrZero(power) \in Int
    BY DEF OrZero
  <2>6. /\ label = "ev_charge_solar" => flow.solarToHouse >= OrZero(power) - threshold
        /\ label = "ev_charge_grid" => flow.gridToHouse >= OrZero(power) - threshold
    BY DEF ChargerLabel
  <2>7. flow.solarToHouse \in Nat /\ flow.gridToHouse \in Nat
    BY <1>1, <1>3, <1>5 DEF FlowAccounts
  <2> HIDE DEF batteries, label
  <2>8. "ev_charge_solar" \in events => flow.solarToHouse > 0
    BY <1>2, <2>3, <2>5, <2>6, <2>7
  <2>9. "ev_charge_grid" \in events => flow.gridToHouse > 0
    BY <1>2, <2>3, <2>5, <2>6, <2>7
  <2>10. /\ "grid_battery_charge" \in events => "grid_battery_charge" \in batteries
         /\ "battery_export" \in events => "battery_export" \in batteries
    BY <2>4
  <2> HIDE DEF events
  <2> QED
    BY <2>2, <2>3, <2>8, <2>9, <2>10
<1>6. ASSUME told.confidence = "high"
      PROVE  /\ "grid_battery_charge" \in told.labels => flow.import > 0
             /\ "battery_export" \in told.labels => flow.export > 0
             /\ "ev_charge_solar" \in told.labels => raw.pv > 0
             /\ "ev_charge_grid" \in told.labels => flow.import > 0
  <2> HIDE DEF told
  <2>1. flow.status = "confirmed" /\ Abs(flow.residual) <= threshold
    BY <1>4, <1>6
  <2>2. FlowAccounts(flow, raw)
    BY <1>1, <2>1
  <2>3. /\ flow.residual \in Int /\ flow.gridToBattery \in Nat /\ flow.gridToHouse \in Nat
        /\ flow.solarToGrid \in Nat /\ flow.batteryToGrid \in Nat /\ flow.solarToHouse \in Nat
        /\ flow.import \in Nat /\ flow.export \in Nat
    BY <1>3, <2>1, <2>2 DEF FlowAccounts
  <2>4. Abs(flow.residual) \in Int
    BY <2>3 DEF Abs
  <2>5. flow.gridToBattery > threshold => flow.import > 0
    <3>1. Abs(flow.import - (flow.gridToHouse + flow.gridToBattery)) <= threshold
      <4>1. Abs(flow.import - (flow.gridToHouse + flow.gridToBattery)) \in Int
        BY <2>3 DEF Abs
      <4> QED
        BY <1>2, <2>1, <2>2, <2>4, <4>1 DEF FlowAccounts
    <3> QED
      BY <1>2, <2>3, <3>1 DEF Abs
  <2>6. flow.batteryToGrid > threshold => flow.export > 0
    <3>1. Abs(flow.export - (flow.solarToGrid + flow.batteryToGrid)) <= threshold
      <4>1. Abs(flow.export - (flow.solarToGrid + flow.batteryToGrid)) \in Int
        BY <2>3 DEF Abs
      <4> QED
        BY <1>2, <2>1, <2>2, <2>4, <4>1 DEF FlowAccounts
    <3> QED
      BY <1>2, <2>3, <3>1 DEF Abs
  <2>7. raw.pv \in Int
    <3>1. ~Incomplete(raw)
      BY <2>1, ConfirmedIsAccounted DEF flow
    <3> QED
      BY <3>1 DEF Incomplete, Metered
  <2>8. flow.solarToHouse > 0 => raw.pv > 0
    BY <2>2, <2>3, <2>7 DEF FlowAccounts, Positive
  <2>9. flow.gridToHouse > 0 => flow.import > 0
    BY <2>2, <2>3 DEF FlowAccounts
  <2> QED
    BY <1>5, <2>1, <2>5, <2>6, <2>8, <2>9
<1> QED
  BY <1>1, <1>3, <1>6 DEF Accounted, FlowAccounts, flow

----------------------------------------------------------------------------
(* A row, its readiness and its reprocessing.                               *)

\* What the entities may say: numbers where numbers are read.
StatesOK(st) ==
  /\ \A e \in DOMAIN st : /\ st[e].kind \in {"ok", "missing", "bad"}
                          /\ st[e].kind = "ok" => st[e].value # None
  /\ \A e \in PowerEntities \cup {"evPower"} : ValueOf(st, e) \in Int \cup {None}

LEMMA RawIsMetered ==
  ASSUME NEW st, StatesOK(st)
  PROVE  Metered(RawOf(st))
  BY DEF StatesOK, PowerEntities, Metered, RawOf

\* The reasons to exclude a row, which None is not.
Reasons == {"required_raw_telemetry_missing", "data_quality_insufficient",
            "balance_residual_outside_tolerance", UnknownPower(TRUE), UnknownPower(FALSE)}

\* What of a new row its reprocessing looks at.
AsObserved(row, st, c, now) ==
  LET base == Baseline(row.house, row.active, row.evPower, None, UnknownPower(c.enabled))
  IN  /\ DOMAIN row = RowColumns /\ ~Annotated(row)
      /\ row.flow = Flow(RawOf(st), c) /\ Flow(row, c) = row.flow
      /\ row.baseline = base.power /\ row.eligible = base.eligible
      /\ row.reason = base.reason /\ row.healthy \in BOOLEAN
      /\ row.legacy = FALSE
      /\ row.house = ValueOf(st, "house")
      /\ row.flowHealthy = FlowHealth(row.flow, c, row.active, row.evPower).healthy
      /\ row.healthy = TelemetryHealth(st, c, now).healthy

LEMMA ObservedRow ==
  ASSUME NEW st, NEW c, NEW now
  PROVE  AsObserved(Observe(st, c, now), st, c, now)
<1> DEFINE row == Observe(st, c, now)
           raw == RawOf(st)
<1>1. /\ row.pv = raw.pv /\ row.house = raw.house /\ row.grid = raw.grid
      /\ row.battery = raw.battery /\ row.flow = Flow(raw, c)
      /\ row.house = ValueOf(st, "house") /\ row.session = None /\ row.legacy = FALSE
  BY DEF Observe, RawOf
<1>2. row.source \in {"charger", "byd_vehicle_cloud", "home_assistant_helper", "none"}
  BY DEF Observe, SourceOf
<1>3. row.healthy = TelemetryHealth(st, c, now).healthy
  BY DEF Observe, Health
<1>4. row.healthy \in BOOLEAN
  BY <1>3 DEF TelemetryHealth, Domain
<1>5. DOMAIN row = RowColumns
  BY DEF Observe, RowColumns
<1>6. LET base == Baseline(row.house, row.active, row.evPower, None, UnknownPower(c.enabled))
      IN  row.baseline = base.power /\ row.eligible = base.eligible /\ row.reason = base.reason
  BY DEF Observe
<1>7. row.flowHealthy = FlowHealth(row.flow, c, row.active, row.evPower).healthy
  BY DEF Observe, Health
<1> HIDE DEF row, raw
<1>8. Flow(row, c) = Flow(raw, c)
  BY <1>1 DEF Flow, Incomplete
<1>9. ~Annotated(row)
  BY <1>1, <1>2 DEF Annotated
<1> QED
  BY <1>1, <1>3, <1>4, <1>5, <1>6, <1>7, <1>8, <1>9 DEF AsObserved, row, raw

\* An issue that is not a warning makes a domain unhealthy.
LEMMA HealthyHasNone ==
  ASSUME NEW issues, Domain(issues).healthy, NEW code, ~Warns(code), NEW e
  PROVE  <<code, e>> \notin issues
<1>1. \A i \in issues : Warns(i[1])
  BY DEF Domain
<1> QED
  BY <1>1

\* A flow that is healthy and confirmed is in balance.
LEMMA HealthyIsBalanced ==
  ASSUME None \notin Int, NEW flow, flow.status = "confirmed", flow.residual \in Int, NEW c,
         NEW active, NEW power, FlowHealth(flow, c, active, power).healthy
  PROVE  Balanced(flow, c)
<1> SUFFICES ASSUME ~Balanced(flow, c) PROVE FALSE
  OBVIOUS
<1> DEFINE wrong == {code \in {"sign_conventions_unknown", "derived_flow_unavailable",
                               "balance_residual_too_large", "ev_telemetry_inconsistent"} :
                       CASE code = "sign_conventions_unknown" -> flow.status = "unconfirmed"
                         [] code = "derived_flow_unavailable" -> flow.status = "unavailable"
                         [] code = "balance_residual_too_large" ->
                              flow.residual # None /\ ~Balanced(flow, c)
                         [] OTHER -> active = FALSE /\ OrZero(power) > c.tolerance}
           issues == {<<code, None>> : code \in wrong}
<1>1. "balance_residual_too_large" \in wrong
  OBVIOUS
<1>2. Domain(issues).healthy
  BY DEF FlowHealth
<1> HIDE DEF wrong
<1>3. <<"balance_residual_too_large", None>> \in issues
  BY <1>1
<1>4. ~Warns("balance_residual_too_large")
  BY DEF Warns
<1> QED
  BY <1>2, <1>3, <1>4, HealthyHasNone

\* Deriving a row again changes the columns of Derived, to what the row and c say.
LEMMA DerivedColumnsOnly ==
  ASSUME NEW row, DOMAIN row = RowColumns, NEW c
  PROVE  LET again == Derived(row, c)
         IN  /\ DOMAIN again = RowColumns
             /\ \A column \in RowColumns \ DerivedColumns : again[column] = row[column]
  BY DEF Derived, DerivedColumns, RowColumns

\* The second part: reprocessing a row that was collected, under the conventions it was
\* collected with, changes neither its flows nor its baseline; the row trains when it
\* did, was healthy and was in balance; and doing it twice is doing it once.
THEOREM ReprocessingChangesNothing ==
  ASSUME None \notin Int \cup Reasons, NEW st, StatesOK(st), NEW c, NEW now
  PROVE  ReprocessingAgrees(Observe(st, c, now), c)
<1> DEFINE row == Observe(st, c, now)
           again == Derived(row, c)
           twice == Derived(again, c)
           name == UnknownPower(row.source = "byd_vehicle_cloud")
           first == Baseline(row.house, row.active, row.evPower, None, UnknownPower(c.enabled))
           computed == Baseline(row.house, row.active, row.evPower, None, name)
           exclusion == Exclusion(row, row.flow, c)
<1> SUFFICES ASSUME row.flow.status = "confirmed"
             PROVE  /\ again.flow = row.flow /\ again.baseline = row.baseline
                    /\ again.eligible = (row.eligible /\ row.healthy /\ Balanced(row.flow, c))
                    /\ ~again.eligible \/ again.reason = row.reason
                    /\ row.flowHealthy => again.flowHealthy
                    /\ twice = again /\ Fingerprint(again, c) = Fingerprint(row, c)
  BY DEF ReprocessingAgrees
<1>1. /\ DOMAIN row = RowColumns /\ ~Annotated(row) /\ Flow(row, c) = row.flow
      /\ row.flow = Flow(RawOf(st), c)
      /\ row.baseline = first.power /\ row.eligible = first.eligible
      /\ row.reason = first.reason /\ row.healthy \in BOOLEAN /\ row.legacy = FALSE
      /\ row.flowHealthy = FlowHealth(row.flow, c, row.active, row.evPower).healthy
  <2>1. AsObserved(row, st, c, now)
    BY ObservedRow
  <2> HIDE DEF row
  <2> QED
    BY <2>1 DEF AsObserved
<1> HIDE DEF row
<1>2. row.flow.residual \in Int
  BY <1>1, RawIsMetered, ConfirmedIsAccounted DEF FlowAccounts
<1>3. UnknownPower(c.enabled) # None /\ name # None
  BY DEF UnknownPower, Reasons
<1>4. /\ first.power = computed.power /\ first.eligible = computed.eligible
      /\ first.eligible => first.reason = computed.reason
      /\ first.eligible \in BOOLEAN
      /\ row.evPower = None /\ row.active = TRUE => ~first.eligible
  <2> HIDE DEF name
  <2> QED
    BY <1>3 DEF Baseline, NoBaseline
<1> HIDE DEF first
<1>5. /\ again.flow = row.flow /\ again.flowHealthy = Balanced(row.flow, c)
      /\ again.baseline = computed.power
      /\ again.eligible = (computed.eligible /\ ~(exclusion # None))
      /\ again.reason = (IF exclusion # None THEN exclusion ELSE computed.reason)
      /\ again.version = FlowVersion /\ again.legacy = FALSE
  BY <1>1 DEF Derived, RowColumns
<1>6. /\ DOMAIN again = RowColumns
      /\ \A column \in RowColumns \ DerivedColumns : again[column] = row[column]
  BY <1>1, DerivedColumnsOnly
<1> HIDE DEF computed, exclusion, again, name
<1>7. exclusion # None <=> \/ ~row.healthy \/ ~Balanced(row.flow, c)
                           \/ row.active = TRUE /\ row.evPower = None
  BY <1>1, <1>3 DEF exclusion, Exclusion, name, Reasons
<1>8. again.eligible = (row.eligible /\ row.healthy /\ Balanced(row.flow, c))
  BY <1>1, <1>4, <1>5, <1>7
<1>9. ~again.eligible \/ again.reason = row.reason
  BY <1>1, <1>4, <1>5
<1>10. row.flowHealthy => again.flowHealthy
  BY <1>1, <1>2, <1>5, HealthyIsBalanced
<1>11. /\ again.pv = row.pv /\ again.house = row.house /\ again.grid = row.grid
       /\ again.battery = row.battery /\ again.healthy = row.healthy
       /\ again.active = row.active /\ again.evPower = row.evPower
       /\ again.source = row.source /\ again.session = row.session
  BY <1>6 DEF RowColumns, DerivedColumns
<1>12. Flow(again, c) = row.flow /\ ~Annotated(again)
  <2>1. Flow(again, c) = Flow(row, c)
    BY <1>11 DEF Flow, Incomplete
  <2> QED
    BY <1>1, <1>11, <2>1 DEF Annotated
<1>13. Exclusion(again, row.flow, c) = exclusion
  BY <1>1, <1>11, <1>12 DEF Exclusion, exclusion
<1>14. /\ DOMAIN twice = RowColumns
       /\ \A column \in RowColumns \ DerivedColumns : twice[column] = again[column]
  BY <1>6, DerivedColumnsOnly
<1>15. /\ twice.flow = row.flow /\ twice.flowHealthy = Balanced(row.flow, c)
       /\ twice.baseline = computed.power
       /\ twice.eligible = (computed.eligible /\ ~(exclusion # None))
       /\ twice.reason = (IF exclusion # None THEN exclusion ELSE computed.reason)
       /\ twice.version = FlowVersion /\ twice.legacy = FALSE
  BY <1>5, <1>6, <1>11, <1>12, <1>13 DEF Derived, RowColumns, computed, name
<1> HIDE DEF twice
<1>16. \A column \in RowColumns : twice[column] = again[column]
  BY <1>5, <1>14, <1>15 DEF DerivedColumns
<1>17. twice = again
  <2>1. twice = [column \in RowColumns |-> twice[column]]
    BY <1>14 DEF twice, Derived
  <2>2. again = [column \in RowColumns |-> again[column]]
    BY <1>6 DEF again, Derived
  <2> QED
    BY <1>16, <2>1, <2>2
<1>18. Fingerprint(again, c) = Fingerprint(row, c)
  BY <1>5, <1>11, <1>15 DEF Fingerprint, again, twice
<1> QED
  BY <1>1, <1>4, <1>5, <1>8, <1>9, <1>10, <1>17, <1>18

\* An entity without an issue other than that it is old has been read.
LEMMA ReadWhenSilent ==
  ASSUME NEW st, StatesOK(st), NEW e, NEW limit, NEW grace, NEW zero,
         \A code \in {"missing_entity", "unavailable_state", "malformed_number"} :
           <<code, e>> \notin NumericIssues(st, e, limit, grace, zero)
  PROVE  Parses(st, e)
<1>1. Present(st, e)
  BY DEF NumericIssues
<1> DEFINE codes == {k \in {"unavailable_state", "malformed_number", "source_update_stale"} :
                       CASE k = "unavailable_state" -> st[e].kind = "missing"
                         [] k = "malformed_number" -> st[e].kind = "bad"
                         [] OTHER -> st[e].age > limit /\ ~Unchanged(st[e], grace, zero)}
<1>2. NumericIssues(st, e, limit, grace, zero) = {<<code, e>> : code \in codes}
  BY <1>1 DEF NumericIssues
<1>3. "unavailable_state" \notin codes /\ "malformed_number" \notin codes
  <2> HIDE DEF codes
  <2> QED
    BY <1>2
<1>4. st[e].kind # "missing" /\ st[e].kind # "bad"
  BY <1>3
<1> QED
  BY <1>1, <1>4 DEF Parses, Present, StatesOK

Codes == {"missing_entity", "unavailable_state", "malformed_number", "soc_out_of_range",
          "implausible_power", "invalid_negative_household_demand", "missing_amber_forecast",
          "missing_solcast_summary"}

\* Whatever such a code is reported for makes its domain unhealthy.
LEMMA CodesAreGrave ==
  ASSUME NEW issues, Domain(issues).healthy, NEW code \in Codes, NEW e
  PROVE  <<code, e>> \notin issues
  BY HealthyHasNone DEF Codes, Warns

\* Telemetry that is healthy has all five values, which are plausible.
LEMMA HealthyTelemetry ==
  ASSUME None \notin Int, NEW st, StatesOK(st), NEW c, NEW now, TelemetryHealth(st, c, now).healthy
  PROVE  /\ \A e \in TelemetryEntities : Parses(st, e)
         /\ \A e \in PowerEntities : ~Implausible(st, e, c)
         /\ ValueOf(st, "soc") \in {None} \cup 0..100
         /\ ~MateriallyNegativeDemand(ValueOf(st, "house"))
<1> DEFINE power == UNION {NumericIssues(st, e, c.power, None, e = "pv") : e \in PowerEntities}
           soc == NumericIssues(st, "soc", c.soc, Max({c.soc, c.hour}), FALSE)
           stale == <<"source_update_stale", "soc">>
           numeric == power \cup soc
           timed == IF ~c.timestamp THEN numeric
                    ELSE IF SocFreshness(st, c, now) = "source_update_stale"
                         THEN numeric \cup {stale} ELSE numeric \ {stale}
           range == IF ValueOf(st, "soc") \in {None} \cup 0..100 THEN {}
                    ELSE {<<"soc_out_of_range", "soc">>}
           wild == {<<"implausible_power", e>> : e \in {x \in PowerEntities : Implausible(st, x, c)}}
           negative == {<<"invalid_negative_household_demand", e>> :
                          e \in {x \in {"house"} : MateriallyNegativeDemand(ValueOf(st, x))}}
           issues == timed \cup range \cup wild \cup negative
<1>1. Domain(issues).healthy
  <2>1. TelemetryHealth(st, c, now) = Domain(issues)
    BY DEF TelemetryHealth
  <2> HIDE DEF issues
  <2> QED
    BY <2>1
<1> HIDE DEF power, soc, range, wild, negative
<1>2. \A code \in Codes : \A e : <<code, e>> \notin issues
  <2> HIDE DEF issues
  <2> QED
    BY <1>1, CodesAreGrave
<1>3. \A code \in Codes : \A e : <<code, e>> \notin numeric
  <2> SUFFICES ASSUME NEW code \in Codes, NEW e PROVE <<code, e>> \notin numeric
    OBVIOUS
  <2>1. <<code, e>> # stale
    BY DEF Codes
  <2>2. <<code, e>> \notin timed
    BY <1>2
  <2> HIDE DEF numeric, stale
  <2> QED
    BY <2>1, <2>2
<1>4. \A e \in PowerEntities : Parses(st, e)
  <2> TAKE e \in PowerEntities
  <2>1. NumericIssues(st, e, c.power, None, e = "pv") \subseteq power
    BY DEF power
  <2>2. \A code \in Codes : <<code, e>> \notin NumericIssues(st, e, c.power, None, e = "pv")
    BY <1>3, <2>1
  <2> QED
    BY <2>2, ReadWhenSilent DEF Codes
<1>5. Parses(st, "soc")
  BY <1>3, ReadWhenSilent DEF Codes, soc
<1>6. \A e \in PowerEntities : ~Implausible(st, e, c)
  <2> TAKE e \in PowerEntities
  <2>1. "implausible_power" \in Codes
    BY DEF Codes
  <2>2. <<"implausible_power", e>> \notin wild
    BY <1>2, <2>1
  <2> QED
    BY <2>2 DEF wild
<1>7. ValueOf(st, "soc") \in {None} \cup 0..100
  <2>1. "soc_out_of_range" \in Codes
    BY DEF Codes
  <2>2. <<"soc_out_of_range", "soc">> \notin range
    BY <1>2, <2>1
  <2> QED
    BY <2>2 DEF range
<1>8. ~MateriallyNegativeDemand(ValueOf(st, "house"))
  <2>1. "invalid_negative_household_demand" \in Codes
    BY DEF Codes
  <2>2. <<"invalid_negative_household_demand", "house">> \notin negative
    BY <1>2, <2>1
  <2> QED
    BY <2>2 DEF negative
<1> QED
  BY <1>4, <1>5, <1>6, <1>7, <1>8 DEF TelemetryEntities

\* Prices that are healthy are there, with forecasts that are not empty.
LEMMA HealthyPrices ==
  ASSUME NEW st, StatesOK(st), NEW c, PriceHealth(st, c).healthy
  PROVE  \A e \in PriceEntities \cup PriceForecasts : Parses(st, e)
<1> DEFINE numeric == UNION {NumericIssues(st, e, c.price, None, FALSE) : e \in PriceEntities}
           missing == {<<"missing_entity", e>> : e \in PriceForecasts \ DOMAIN st}
           empty == {<<"missing_amber_forecast", e>> :
                       e \in {x \in PriceForecasts \cap DOMAIN st : ValueOf(st, x) \in {None, 0}}}
           stale == {<<"stale_state", e>> :
                       e \in {x \in PriceForecasts \cap DOMAIN st : st[x].age > c.priceForecast}}
           issues == numeric \cup missing \cup empty \cup stale
<1>1. Domain(issues).healthy
  <2>1. PriceHealth(st, c) = Domain(issues)
    BY DEF PriceHealth
  <2> HIDE DEF issues
  <2> QED
    BY <2>1
<1> HIDE DEF numeric, missing, empty, stale
<1>2. \A code \in Codes : \A e : <<code, e>> \notin issues
  <2> HIDE DEF issues
  <2> QED
    BY <1>1, CodesAreGrave
<1>3. \A e \in PriceEntities : Parses(st, e)
  <2> TAKE e \in PriceEntities
  <2>1. NumericIssues(st, e, c.price, None, FALSE) \subseteq numeric
    BY DEF numeric
  <2>2. \A code \in Codes : <<code, e>> \notin NumericIssues(st, e, c.price, None, FALSE)
    BY <1>2, <2>1
  <2> QED
    BY <2>2, ReadWhenSilent DEF Codes
<1>4. \A e \in PriceForecasts : Parses(st, e)
  <2> TAKE e \in PriceForecasts
  <2>1. "missing_entity" \in Codes /\ "missing_amber_forecast" \in Codes
    BY DEF Codes
  <2>2. <<"missing_entity", e>> \notin missing /\ <<"missing_amber_forecast", e>> \notin empty
    BY <1>2, <2>1
  <2>3. e \in DOMAIN st
    BY <2>2 DEF missing
  <2>4. ValueOf(st, e) \notin {None, 0}
    BY <2>2, <2>3 DEF empty
  <2> QED
    BY <2>4 DEF ValueOf
<1> QED
  BY <1>3, <1>4

LEMMA HealthySolar ==
  ASSUME NEW st, StatesOK(st), NEW c, SolarHealth(st, c).healthy
  PROVE  \A e \in SolarEntities : Parses(st, e)
<1> DEFINE missing == {<<"missing_entity", e>> : e \in SolarEntities \ DOMAIN st}
           bad == {<<"missing_solcast_summary", e>> :
                     e \in {x \in SolarEntities \cap DOMAIN st : ~Parses(st, x)}}
           stale == {<<"stale_state", e>> :
                       e \in {x \in SolarEntities \cap DOMAIN st : st[x].age > c.solarForecast}}
           issues == missing \cup bad \cup stale
<1>1. Domain(issues).healthy
  BY DEF SolarHealth
<1> HIDE DEF missing, bad, stale
<1>2. \A code \in Codes : \A e : <<code, e>> \notin issues
  <2> HIDE DEF issues
  <2> QED
    BY <1>1, CodesAreGrave
<1> TAKE e \in SolarEntities
<1>3. "missing_entity" \in Codes /\ "missing_solcast_summary" \in Codes
  BY DEF Codes
<1>4. <<"missing_entity", e>> \notin missing /\ <<"missing_solcast_summary", e>> \notin bad
  BY <1>2, <1>3
<1>5. e \in DOMAIN st
  BY <1>4 DEF missing
<1> QED
  BY <1>4, <1>5 DEF bad

\* The third part: a reading that is ready for charging from the grid or for exporting
\* the battery has every meter, every price, every forecast and the battery's level, none of
\* them implausible, its flow is confirmed and in balance, and it has a baseline.
THEOREM ReadyIsWhole ==
  ASSUME None \notin Int, NEW st, StatesOK(st), NEW c, NEW now,
         c.maximumPv \in Int, c.maximumPower \in Int
  PROVE  ReadinessIsGrounded(st, c, now)
<1> DEFINE row == Observe(st, c, now)
           health == Health(st, c, now, row.flow, row.active, row.evPower)
<1>1. AsObserved(row, st, c, now)
  BY ObservedRow
<1> HIDE DEF row
<1>2. /\ health.telemetry = TelemetryHealth(st, c, now) /\ health.price = PriceHealth(st, c)
      /\ health.solar = SolarHealth(st, c)
      /\ health.flow = FlowHealth(row.flow, c, row.active, row.evPower)
  BY DEF Health
<1> HIDE DEF health
<1> SUFFICES ASSUME NEW action \in {"grid_charge", "battery_export"}, ReadyFor(health, action)
             PROVE  /\ \A e \in TelemetryEntities \cup PriceEntities \cup PriceForecasts
                               \cup SolarEntities : Parses(st, e)
                    /\ st["soc"].value \in 0..100 /\ row.house >= -1
                    /\ \A e \in PowerEntities : Abs(st[e].value) <= Max({c.maximumPv, c.maximumPower})
                    /\ Balanced(row.flow, c) /\ row.baseline # None
                    /\ ReadyFor(health, "load_profile")
  BY DEF ReadinessIsGrounded, row, health
<1>3. /\ TelemetryHealth(st, c, now).healthy /\ PriceHealth(st, c).healthy
      /\ SolarHealth(st, c).healthy
      /\ FlowHealth(row.flow, c, row.active, row.evPower).healthy
      /\ ReadyFor(health, "load_profile")
  <2>1. \A d \in {"telemetry", "price", "solar", "flow"} : health[d].healthy
    BY DEF ReadyFor
  <2> QED
    BY <1>2, <2>1 DEF ReadyFor
<1>4. /\ \A e \in TelemetryEntities : Parses(st, e)
      /\ \A e \in PowerEntities : ~Implausible(st, e, c)
      /\ ValueOf(st, "soc") \in {None} \cup 0..100
      /\ ~MateriallyNegativeDemand(ValueOf(st, "house"))
  BY <1>3, HealthyTelemetry
<1>5. \A e \in PriceEntities \cup PriceForecasts \cup SolarEntities : Parses(st, e)
  BY <1>3, HealthyPrices, HealthySolar
<1>6. st["soc"].value \in 0..100
  BY <1>4 DEF TelemetryEntities, ValueOf, Parses, Present, StatesOK
<1>7. \A e \in PowerEntities : st[e].value = ValueOf(st, e) /\ st[e].value \in Int
  <2> TAKE e \in PowerEntities
  <2>1. Parses(st, e)
    BY <1>4 DEF TelemetryEntities
  <2> QED
    BY <2>1 DEF ValueOf, Parses, Present, StatesOK
<1>8. \A e \in PowerEntities : Abs(st[e].value) <= Max({c.maximumPv, c.maximumPower})
  <2> TAKE e \in PowerEntities
  <2>1. Parses(st, e) /\ ~Implausible(st, e, c)
    BY <1>4 DEF TelemetryEntities
  <2>2. Abs(st[e].value) \in Int
    BY <1>7 DEF Abs
  <2>3. Abs(st[e].value) <= c.maximumPv \/ Abs(st[e].value) <= c.maximumPower
    BY <1>7, <2>1, <2>2 DEF Implausible
  <2>4. /\ Max({c.maximumPv, c.maximumPower}) \in {c.maximumPv, c.maximumPower}
        /\ Max({c.maximumPv, c.maximumPower}) >= c.maximumPv
        /\ Max({c.maximumPv, c.maximumPower}) >= c.maximumPower
    BY MaxOfTwo
  <2> QED
    BY <2>2, <2>3, <2>4
<1>9. row.house \in Int /\ row.house >= -1
  BY <1>1, <1>4, <1>7 DEF AsObserved, PowerEntities, MateriallyNegativeDemand
<1>10. row.baseline # None
  <2>1. row.baseline
          = Baseline(row.house, row.active, row.evPower, None, UnknownPower(c.enabled)).power
    BY <1>1 DEF AsObserved
  <2>2. row.evPower \in Int \cup {None}
    BY DEF row, Observe, StatesOK
  <2> QED
    BY <1>9, <2>1, <2>2 DEF Baseline, MateriallyNegativeDemand, Positive
<1>11. Balanced(row.flow, c)
  <2> DEFINE raw == RawOf(st)
  <2>1. row.flow = Flow(raw, c)
    BY <1>1 DEF AsObserved
  <2>2. ~Incomplete(raw)
    BY <1>7 DEF Incomplete, RawOf, PowerEntities
  <2>3. row.flow.status = "confirmed"
    <3> DEFINE wrong == {code \in {"sign_conventions_unknown", "derived_flow_unavailable",
                                   "balance_residual_too_large", "ev_telemetry_inconsistent"} :
                 CASE code = "sign_conventions_unknown" -> row.flow.status = "unconfirmed"
                   [] code = "derived_flow_unavailable" -> row.flow.status = "unavailable"
                   [] code = "balance_residual_too_large" ->
                        row.flow.residual # None /\ ~Balanced(row.flow, c)
                   [] OTHER -> row.active = FALSE /\ OrZero(row.evPower) > c.tolerance}
                 issues == {<<code, None>> : code \in wrong}
    <3>1. Domain(issues).healthy
      BY <1>3 DEF FlowHealth
    <3> HIDE DEF wrong
    <3>2. "sign_conventions_unknown" \notin wrong /\ "derived_flow_unavailable" \notin wrong
      <4>1. /\ <<"sign_conventions_unknown", None>> \notin issues
            /\ <<"derived_flow_unavailable", None>> \notin issues
        <5> HIDE DEF issues
        <5> QED
          BY <3>1, HealthyHasNone DEF Warns
      <4> QED
        BY <4>1
    <3>3. row.flow.status # "unconfirmed" /\ row.flow.status # "unavailable"
      BY <3>2 DEF wrong
    <3>4. row.flow.status \in {"confirmed", "unconfirmed", "unavailable"}
      BY <2>1, RawIsMetered, ConfirmedIsAccounted
    <3> QED
      BY <3>3, <3>4
  <2>4. row.flow.residual \in Int
    BY <2>1, <2>3, RawIsMetered, ConfirmedIsAccounted DEF FlowAccounts
  <2> QED
    BY <1>3, <2>3, <2>4, HealthyIsBalanced
<1> QED
  BY <1>3, <1>4, <1>5, <1>6, <1>8, <1>9, <1>10, <1>11

=============================================================================
