-------------------------- MODULE CollectorAppProofs --------------------------
(***************************************************************************)
(* Machine-checked facts about CollectorApp, for any interval and slot,    *)
(* any number of attempts, readings, faults, clocks set back and restarts. *)
(*                                                                         *)
(* The argument: the reading at hand is the last one taken and is stored   *)
(* before anything is kept of it; a witness is dated after the commit of   *)
(* the capture it is for; and what is kept belongs to a slot before the    *)
(* one in which the wait of the main thread will end.                      *)
(***************************************************************************)
EXTENDS CollectorApp, TLAPS

-----------------------------------------------------------------------------
(* Slots and boundaries.                                                   *)

LEMMA Quotient ==
  ASSUME NEW n \in Nat \ {0}, NEW a \in Nat
  PROVE  a \div n \in Nat /\ n * (a \div n) <= a /\ a < n * (a \div n) + n
  OBVIOUS

\* A later time is in no earlier slot.
LEMMA SlotMonotone ==
  ASSUME NEW s \in Nat, NEW t \in Nat, s <= t
  PROVE  SlotOf(s) \in Nat /\ SlotOf(t) \in Nat /\ SlotOf(s) <= SlotOf(t)
<1> DEFINE a == SlotOf(s)
           b == SlotOf(t)
<1>1. /\ a \in Nat /\ Slot * a <= s
      /\ b \in Nat /\ t < Slot * b + Slot
      /\ Slot \in Nat \ {0}
  BY Quotient, CollectorAssumption DEF SlotOf
<1> HIDE DEF a, b
<1>2. SUFFICES ASSUME a > b PROVE FALSE
  BY <1>1 DEF a, b
<1>3. Slot * a >= Slot * (b + 1)
  BY <1>1, <1>2, SMTT(30)
<1>4. Slot * (b + 1) = Slot * b + Slot
  BY <1>1
<1>5. QED
  BY <1>1, <1>3, <1>4

LEMMA SlotIsKnown ==
  ASSUME NEW t \in Times
  PROVE  SlotOf(t) \in Slots
<1>1. SlotOf(t) <= SlotOf(Last) /\ SlotOf(t) \in Nat /\ SlotOf(Last) \in Nat
  BY SlotMonotone, CollectorAssumption DEF Times
<1>2. QED
  BY <1>1 DEF Slots, SlotOf

LEMMA WaitIsBounded ==
  ASSUME NEW t \in Nat
  PROVE  ToBoundary(t) \in 1 .. Period
  BY CollectorAssumption DEF ToBoundary

\* The next boundary is in a later slot when intervals are whole slots.
LEMMA NextBoundary ==
  ASSUME NEW t \in Nat, Period % Slot = 0
  PROVE  SlotOf(t) < SlotOf(t + ToBoundary(t))
<1> DEFINE q == t \div Period
           k == Period \div Slot
           m == k * (q + 1)
           e == t + ToBoundary(t)
           a == SlotOf(t)
           b == SlotOf(e)
<1>1. Slot \in Nat \ {0} /\ Period \in Nat \ {0}
  BY CollectorAssumption
<1>2. q \in Nat /\ t = Period * q + (t % Period) /\ t % Period \in 0 .. Period - 1
  BY <1>1
<1>3. e = Period * q + Period /\ e \in Nat /\ t < e
  BY <1>1, <1>2 DEF ToBoundary
<1>4. k \in Nat /\ Period = Slot * k
  BY <1>1
<1>5. /\ a \in Nat /\ Slot * a <= t
      /\ b \in Nat /\ e < Slot * b + Slot
  BY <1>1, <1>3, Quotient DEF SlotOf
<1> HIDE DEF q, k, e, a, b
<1>6. m \in Nat /\ e = Slot * m
  <2>1. Period * q + Period = Period * (q + 1)
    BY <1>1, <1>2
  <2>2. Period * (q + 1) = Slot * (k * (q + 1))
    BY <1>1, <1>2, <1>4, SMTT(30)
  <2>3. m \in Nat
    BY <1>2, <1>4
  <2>4. QED
    BY <1>3, <2>1, <2>2, <2>3
<1> HIDE DEF m
<1>7. a < m
  BY <1>1, <1>3, <1>5, <1>6, SMTT(30)
<1>8. m <= b
  <2>1. Slot * m < Slot * (b + 1)
    BY <1>1, <1>5, <1>6
  <2>2. QED
    BY <1>1, <1>5, <1>6, <2>1, SMTT(30)
<1>9. QED
  BY <1>5, <1>6, <1>7, <1>8 DEF a, b, e

\* What a tick leaves of a wait.
LEMMA LessWait ==
  ASSUME NEW x \in Nat
  PROVE  Max({0, x - 1}) \in Nat /\ Max({0, x - 1}) <= x /\ Max({0, x - 1}) >= x - 1
<1>1. \E y \in {0, x - 1} : \A z \in {0, x - 1} : y >= z
  <2>1. CASE x = 0
    BY <2>1
  <2>2. CASE x # 0
    BY <2>2
  <2>3. QED
    BY <2>1, <2>2
<1>2. Max({0, x - 1}) \in {0, x - 1} /\ Max({0, x - 1}) >= 0 /\ Max({0, x - 1}) >= x - 1
  BY <1>1 DEF Max
<1>3. QED
  BY <1>2

LEMMA LaterEnd ==
  ASSUME NEW t \in Nat, NEW u \in Nat, NEW l \in Nat, NEW k \in Nat, u = t + 1, k >= l - 1
  PROVE  t + l \in Nat /\ u + k \in Nat /\ t + l <= u + k
  OBVIOUS

-----------------------------------------------------------------------------
(* Types.                                                                  *)

\* Going back to the top of the loop starts a wait that ends.
LEMMA LoopTyped ==
  ASSUME TypeOK, Loop
  PROVE  /\ pc' = "wait" /\ left' \in 0 .. Period
         /\ reading' \in Reading /\ tries' \in 0 .. Attempts
         /\ stamp' \in {None} \cup Times
<1>1. now \in Nat /\ left' \in 0 .. Period
  BY WaitIsBounded, CollectorAssumption DEF Loop, TypeOK, Times
<1>2. 0 \in Slots /\ 0 \in Times
  BY SlotIsKnown, SlotMonotone, CollectorAssumption DEF Slots, Times, SlotOf
<1>3. QED
  BY <1>1, <1>2, CollectorAssumption DEF Loop, Forget, NoReading, Reading

LEMMA NothingTyped ==
  NoReading \in Reading /\ NoInputs \in Inputs /\ None \in {None} \cup Times
<1>1. 0 \in Slots /\ 0 \in Times
  BY SlotIsKnown, SlotMonotone, CollectorAssumption DEF Slots, Times, SlotOf
<1>2. QED
  BY <1>1 DEF NoReading, Reading, NoInputs, Inputs

\* Every step of a thread or of its environment keeps the types.
LEMMA TypeStep == TypeOK /\ [Next]_vars => TypeOK'
<1> SUFFICES ASSUME TypeOK, [Next]_vars
             PROVE  TypeOK'
  OBVIOUS
<1> USE CollectorAssumption
<1>1. CASE UNCHANGED vars
  BY <1>1 DEF TypeOK, vars
<1>2. CASE Wake
  <2>1. reading' \in Reading
    BY <1>2, SlotIsKnown DEF Wake, Reading, TypeOK, Times
  <2>2. QED
    BY <1>2, <2>1 DEF Wake, TypeOK, clocks, database, thread, Busy
<1>3. CASE Break \/ Unwind \/ Join \/ Signal
  BY <1>3 DEF Break, Unwind, Join, Signal, TypeOK, clocks, database, memory, attempt,
              thread, Ending
<1>4. CASE Read
  BY <1>4 DEF Read, TypeOK, Reading, clocks, database, thread, Busy
<1>5. CASE ReadFails
  BY <1>5, LoopTyped DEF ReadFails, TypeOK, Faulty, clocks, database, thread
<1>6. CASE Save
  <2>1. rows' \in [Slots -> Nat]
    BY <1>6 DEF Save, Store, TypeOK, Reading
  <2>2. QED
    BY <1>6, <2>1 DEF Save, TypeOK, clocks, memory, attempt, thread, Busy
<1>7. CASE Reconnect
  <2>1. rows' \in [Slots -> Nat]
    BY <1>7 DEF Reconnect, Store, TypeOK, Reading
  <2>2. CASE tries < Attempts
    BY <1>7, <2>1, <2>2 DEF Reconnect, TypeOK, Faulty, clocks, thread
  <2>3. CASE ~(tries < Attempts)
    BY <1>7, <2>1, <2>3, LoopTyped DEF Reconnect, TypeOK, Faulty, clocks, thread
  <2>4. QED
    BY <2>2, <2>3
<1>8. CASE SaveFails
  BY <1>8, LoopTyped DEF SaveFails, TypeOK, Faulty, clocks, database, thread
<1>9. CASE Context
  <2>1. context' \in [Slots -> Nat]
    BY <1>9 DEF Context, TypeOK, Reading
  <2>2. QED
    BY <1>9, <2>1 DEF Context, TypeOK, Faulty, clocks, memory, attempt, thread, Busy
<1>10. CASE Capture
  <2>1. captures' \in [Slots -> [n : Nat, got : {None} \cup Times,
                                 committed : {None} \cup Times]]
    BY <1>10 DEF Capture, TypeOK, Reading
  <2>2. pc' \in Busy
    BY <1>10 DEF Capture, Busy
  <2>3. faults' \in Nat
    BY <1>10 DEF Capture, Faulty, TypeOK
  <2>4. QED
    BY <1>10, <2>1, <2>2, <2>3 DEF Capture, TypeOK, clocks, memory, attempt, thread
<1>11. CASE Stamp
  BY <1>11 DEF Stamp, TypeOK, clocks, database, thread, Busy
<1>12. CASE Confirm
  <2>1. witness' \in [Slots -> {None} \cup Times]
    BY <1>12 DEF Confirm, TypeOK, Reading
  <2>2. QED
    BY <1>12, <2>1 DEF Confirm, TypeOK, Faulty, clocks, memory, attempt, thread, Busy
<1>13. CASE Report
  BY <1>13, LoopTyped DEF Report, TypeOK, clocks, database, thread
<1>14. CASE Ready
  BY <1>14 DEF Ready, TypeOK, NoInputs, Inputs, clocks, database, memory, attempt
<1>15. CASE Look
  <2>1. found' \in Inputs
    BY <1>15 DEF Look, TypeOK, Inputs, Newest, Confirmed
  <2>2. QED
    BY <1>15, <2>1 DEF Look, TypeOK, clocks, database, memory, attempt
<1>16. CASE Archive
  BY <1>16, NothingTyped DEF Archive, TypeOK, Faulty, clocks, memory, attempt
<1>17. CASE Return
  BY <1>17 DEF Return, TypeOK, clocks, database, memory, attempt
<1>18. CASE Hang
  BY <1>18, NothingTyped DEF Hang, TypeOK, Faulty, clocks, database, memory, attempt
<1>19. CASE Raise
  BY <1>19, NothingTyped DEF Raise, Forget, TypeOK, Faulty, clocks, database, thread, Ending
<1>20. CASE Exit \/ Kill
  BY <1>20, NothingTyped DEF Exit, Kill, Exited, Forget, TypeOK, Faulty, clocks, database,
                             Ending
<1>21. CASE Start
  BY <1>21, LoopTyped, NothingTyped DEF Start, TypeOK, clocks, database
<1>22. CASE Tick
  <2>1. now' \in Times /\ left' \in 0 .. Period
    BY <1>22, LessWait DEF Tick, TypeOK, Times
  <2>2. QED
    BY <1>22, <2>1 DEF Tick, TypeOK, database, memory, attempt, thread
<1>23. CASE SetBack
  BY <1>23 DEF SetBack, TypeOK, Times, database, memory, attempt, thread
<1>24. QED
  BY <1>1, <1>2, <1>3, <1>4, <1>5, <1>6, <1>7, <1>8, <1>9, <1>10, <1>11, <1>12, <1>13,
     <1>14, <1>15, <1>16, <1>17, <1>18, <1>19, <1>20, <1>21, <1>22, <1>23
     DEF Next, Main, Coordinate

-----------------------------------------------------------------------------
(* What is stored, and before what.                                        *)

\* Storing the last reading that was taken makes no row older.
LEMMA RowsGrow ==
  ASSUME TypeOK, Stored, pc = "save", Store \/ UNCHANGED rows
  PROVE  /\ \A s \in Slots : rows[s] <= rows'[s] /\ rows'[s] <= taken
         /\ Store => rows'[reading.slot] = reading.n
  BY DEF TypeOK, Stored, Busy, Store, Reading

LEMMA StoredStep ==
  ASSUME TypeOK, TypeOK', Stored, StoredFirst, [Next]_vars
  PROVE  Stored' /\ StoredFirst'
<1> USE DEF Stored, StoredFirst, Busy
<1>1. CASE UNCHANGED vars
  BY <1>1 DEF vars
<1>2. CASE Wake
  BY <1>2 DEF Wake, TypeOK, Reading, database
<1>3. CASE Break \/ Unwind \/ Join \/ Signal
  BY <1>3 DEF Break, Unwind, Join, Signal, database, memory, attempt
<1>4. CASE Read
  BY <1>4 DEF Read, TypeOK, Reading, database
<1>5. CASE ReadFails \/ SaveFails \/ Raise
  BY <1>5 DEF ReadFails, SaveFails, Raise, Loop, database
<1>6. CASE Save
  <2>1. /\ \A s \in Slots : rows[s] <= rows'[s] /\ rows'[s] <= taken
        /\ rows'[reading.slot] = reading.n
    BY <1>6, RowsGrow DEF Save
  <2>2. QED
    BY <1>6, <2>1 DEF Save, TypeOK, Reading, memory, attempt
<1>7. CASE Reconnect
  <2>1. \A s \in Slots : rows[s] <= rows'[s] /\ rows'[s] <= taken
    BY <1>7, RowsGrow DEF Reconnect
  <2>2. pc' \in {"save", "wait"} /\ (pc' = "save" => reading' = reading)
    BY <1>7 DEF Reconnect, Loop
  <2>3. QED
    BY <1>7, <2>1, <2>2 DEF Reconnect, TypeOK, Reading
<1>8. CASE Context
  <2>1. \A s \in Slots :
          \/ context'[s] = context[s]
          \/ /\ s = reading.slot
             /\ context'[s] = reading.n
    BY <1>8 DEF Context, TypeOK, Reading
  <2>2. QED
    BY <1>8, <2>1 DEF Context, TypeOK, Reading, memory, attempt
<1>9. CASE Capture
  <2>1. \A s \in Slots :
          \/ captures'[s] = captures[s]
          \/ /\ s = reading.slot
             /\ captures'[s].n = reading.n
    BY <1>9 DEF Capture, TypeOK, Reading
  <2>2. pc' \in {"stamp", "report"}
    BY <1>9 DEF Capture
  <2>3. QED
    BY <1>9, <2>1, <2>2 DEF Capture, TypeOK, Reading, memory, attempt
<1>10. CASE Stamp \/ Confirm
  BY <1>10 DEF Stamp, Confirm, database, memory, attempt
<1>11. CASE Report
  BY <1>11 DEF Report, TypeOK, Reading, Loop, database
<1>12. CASE Ready \/ Look \/ Archive \/ Return \/ Hang
  BY <1>12 DEF Ready, Look, Archive, Return, Hang, database, memory, attempt
<1>13. CASE Exit \/ Kill
  BY <1>13, NothingTyped DEF Exit, Kill, Exited, NoReading, TypeOK, Reading, database
<1>14. CASE Start
  BY <1>14 DEF Start, Loop, database
<1>15. CASE Tick \/ SetBack
  BY <1>15 DEF Tick, SetBack, database, memory, attempt
<1>16. QED
  BY <1>1, <1>2, <1>3, <1>4, <1>5, <1>6, <1>7, <1>8, <1>9, <1>10, <1>11, <1>12, <1>13,
     <1>14, <1>15 DEF Next, Main, Coordinate

-----------------------------------------------------------------------------
(* Evidence is written once.                                               *)

Final(s) ==
  /\ context[s] # 0 => context'[s] = context[s]
  /\ captures[s] # NoCapture => captures'[s] = captures[s]
  /\ witness[s] # None => witness'[s] = witness[s]

LEMMA FinalStep ==
  ASSUME TypeOK, [Next]_vars
  PROVE  \A s \in Slots : Final(s)
<1> USE DEF Final
<1>1. CASE Context
  BY <1>1 DEF Context, TypeOK
<1>2. CASE Capture
  BY <1>2 DEF Capture, TypeOK
<1>3. CASE Confirm
  BY <1>3 DEF Confirm, TypeOK
<1>4. CASE ~(Context \/ Capture \/ Confirm)
  <2>1. UNCHANGED <<context, captures, witness>>
    BY <1>4 DEF Next, Main, Coordinate, Wake, Break, Read, Save, Stamp, Report, Unwind,
                Join, Exit, Ready, Look, Archive, Return, ReadFails, Reconnect, SaveFails,
                Raise, Hang, Kill, Signal, Start, Tick, SetBack, vars, database
  <2>2. QED
    BY <2>1
<1>5. QED
  BY <1>1, <1>2, <1>3, <1>4

-----------------------------------------------------------------------------
(* A witness is dated after the commit of its capture.                     *)

LEMMA WitnessedStep ==
  ASSUME TypeOK, TypeOK', Witnessed, [Next]_vars
  PROVE  Witnessed'
<1> USE DEF Witnessed
<1>1. CASE UNCHANGED vars
  BY <1>1 DEF vars
<1>2. CASE Wake \/ Break \/ Read \/ Unwind \/ Join \/ Signal
  BY <1>2 DEF Wake, Break, Read, Unwind, Join, Signal, clocks, database, memory, attempt
<1>3. CASE ReadFails \/ SaveFails \/ Raise
  BY <1>3 DEF ReadFails, SaveFails, Raise, Loop, clocks, database
<1>4. CASE Save
  BY <1>4 DEF Save, clocks
<1>5. CASE Reconnect
  BY <1>5 DEF Reconnect, Loop, clocks
<1>6. CASE Context
  BY <1>6 DEF Context, clocks
<1>7. CASE Capture
  <2>1. \A s \in Slots :
          \/ captures'[s] = captures[s]
          \/ /\ s = reading.slot /\ captures[s] = NoCapture
             /\ captures'[s] # NoCapture /\ captures'[s].committed = now
    BY <1>7 DEF Capture, TypeOK, Reading, Times, NoCapture, None
  <2>2. pc' = "stamp" => captures'[reading.slot] # NoCapture
    BY <1>7 DEF Capture, TypeOK, Reading, Times, NoCapture, None
  <2>3. pc' \in {"stamp", "report"} /\ UNCHANGED <<clocks, witness, memory>>
    BY <1>7 DEF Capture
  <2>4. now \in Nat
    BY DEF TypeOK, Times
  <2>5. QED
    BY <2>1, <2>2, <2>3, <2>4 DEF clocks, memory, attempt
<1>8. CASE Stamp
  BY <1>8 DEF Stamp, TypeOK, Reading, Times, clocks, database
<1>9. CASE Confirm
  <2>1. \A s \in Slots :
          \/ witness'[s] = witness[s]
          \/ s = reading.slot /\ witness'[s] = stamp
    BY <1>9 DEF Confirm, TypeOK
  <2>2. QED
    BY <1>9, <2>1 DEF Confirm, TypeOK, Reading, clocks
<1>10. CASE Report
  BY <1>10 DEF Report, Loop, clocks, database
<1>11. CASE Ready \/ Look \/ Archive \/ Return \/ Hang
  BY <1>11 DEF Ready, Look, Archive, Return, Hang, clocks, database, memory, attempt
<1>12. CASE Exit \/ Kill
  BY <1>12 DEF Exit, Kill, Exited, clocks, database
<1>13. CASE Start
  BY <1>13 DEF Start, Loop, clocks, database
<1>14. CASE Tick
  BY <1>14 DEF Tick, TypeOK, Times, database, memory, attempt
<1>15. CASE SetBack
  <2>1. setbacks' # 0
    BY <1>15 DEF SetBack, TypeOK
  <2>2. QED
    BY <1>15, <2>1 DEF SetBack, database, memory, attempt
<1>16. QED
  BY <1>1, <1>2, <1>3, <1>4, <1>5, <1>6, <1>7, <1>8, <1>9, <1>10, <1>11, <1>12, <1>13,
     <1>14, <1>15 DEF Next, Main, Coordinate

-----------------------------------------------------------------------------
(* Decision inputs name a capture that was committed when they were ready. *)

\* What is known of inputs stays known: captures are final, and a clock that
\* was set back stays so.
LEMMA KnownStays ==
  ASSUME TypeOK, [Next]_vars, NEW d \in Inputs, Known(d), setbacks' = 0 => setbacks = 0
  PROVE  Known(d)'
<1>1. d.source # None => d.source \in Slots
  BY DEF Inputs
<1>2. d.source # None => captures'[d.source] = captures[d.source]
  BY <1>1, FinalStep DEF Known, Final
<1>3. QED
  BY <1>2 DEF Known

LEMMA SetbacksStay ==
  ASSUME TypeOK, [Next]_vars, setbacks' = 0
  PROVE  setbacks = 0
<1>1. CASE SetBack
  BY <1>1 DEF SetBack, TypeOK
<1>2. CASE ~SetBack
  BY <1>2 DEF Next, Main, Coordinate, Wake, Break, Read, Save, Context, Capture, Stamp,
              Confirm, Report, Unwind, Join, Exit, Ready, Look, Archive, Return, ReadFails,
              Reconnect, SaveFails, Raise, Hang, Kill, Signal, Start, Tick, vars, clocks
<1>3. QED
  BY <1>1, <1>2

LEMMA KnownStep ==
  ASSUME TypeOK, TypeOK', Witnessed, \A d \in decisions \cup {found} : Known(d),
         [Next]_vars
  PROVE  \A d \in (decisions \cup {found})' : Known(d)'
<1>1. Known(NoInputs)'
  BY DEF Known, NoInputs
<1>2. ASSUME NEW d \in decisions \cup {found}
      PROVE  Known(d)'
  BY <1>2, KnownStays, SetbacksStay DEF TypeOK
<1>3. CASE Look
  <2>1. decisions' = decisions /\ captures' = captures /\ setbacks' = setbacks
    BY <1>3 DEF Look, database, clocks
  <2>2. CASE found' = found
    BY <1>2, <2>1, <2>2
  <2>3. ASSUME NEW s \in Newest(Confirmed(found.ready)),
               found' = [found EXCEPT !.source = s, !.n = captures[s].n]
        PROVE  Known(found)'
    <3>1. s \in Slots /\ witness[s] \in 0 .. found.ready
      BY <2>3 DEF Newest, Confirmed
    <3>2. /\ found'.ready = found.ready /\ found'.source = s
          /\ found'.n = captures[s].n
      BY <2>3 DEF TypeOK, Inputs
    <3>3. captures[s] # NoCapture
      BY <3>1 DEF Witnessed, None
    <3>4. setbacks = 0 => captures[s].committed \in 0 .. found.ready
      <4>1. witness[s] # None /\ found.ready \in Int
        BY <3>1 DEF None, TypeOK, Inputs, Times
      <4>2. setbacks = 0 => captures[s].committed \in 0 .. now
                              /\ captures[s].committed <= witness[s]
        BY <3>1, <3>3, <4>1 DEF Witnessed
      <4>3. QED
        BY <3>1, <4>1, <4>2 DEF TypeOK, Times
    <3>5. QED
      BY <2>1, <3>2, <3>3, <3>4 DEF Known
  <2>4. QED
    BY <1>2, <1>3, <2>1, <2>2, <2>3 DEF Look
<1>4. CASE ~Look
  <2>1. /\ decisions' \subseteq decisions \cup {found}
        /\ found' = found \/ found' = NoInputs \/ found'.source = None
    BY <1>4, NothingTyped
       DEF Next, Main, Coordinate, Wake, Break, Read, Save, Context, Capture, Stamp, Confirm,
           Report, Unwind, Join, Exit, Exited, Ready, Archive, Return, ReadFails,
           Reconnect, SaveFails, Raise, Hang, Kill, Signal, Start, Tick, SetBack, vars,
           database, thread, NoInputs
  <2>2. found'.source = None => Known(found)'
    BY DEF Known
  <2>3. QED
    BY <1>1, <1>2, <2>1, <2>2
<1>5. QED
  BY <1>3, <1>4

-----------------------------------------------------------------------------
(* A slot is read once.                                                    *)

Forward == setbacks = 0 /\ Period % Slot = 0

KeptTogether == \A s \in Slots :
  /\ context[s] # 0 => context[s] = rows[s]
  /\ captures[s] # NoCapture => captures[s].n = rows[s]

\* Back to the top of the loop: what is kept is of a slot before the next boundary.
LEMMA LoopPassed ==
  ASSUME TypeOK, Loop, Forward, UNCHANGED <<now, context, captures>>,
         \A s \in Slots : Kept(s) => s <= SlotOf(now)
  PROVE  Passed'
<1>1. now \in Nat
  BY DEF TypeOK, Times
<1>2. SlotOf(now) < SlotOf(now + ToBoundary(now))
  BY <1>1, NextBoundary DEF Forward
<1>3. SlotOf(now) \in Nat /\ SlotOf(now + ToBoundary(now)) \in Nat
  BY <1>1, SlotMonotone, WaitIsBounded, CollectorAssumption
<1>4. /\ SlotOf(now') = SlotOf(now)
      /\ SlotOf(now' + left') = SlotOf(now + ToBoundary(now))
      /\ pc' = "wait" /\ now' = now /\ left' = ToBoundary(now)
  BY DEF Loop
<1>5. \A s \in Slots : Kept(s)' <=> Kept(s)
  BY DEF Kept
<1>6. \A s \in Slots : s \in Nat
  BY DEF Slots
<1>7. QED
  BY <1>2, <1>3, <1>4, <1>5, <1>6 DEF Passed, Busy

LEMMA PassedStep ==
  ASSUME TypeOK, TypeOK', Forward', Forward, Passed, [Next]_vars
  PROVE  Passed'
<1>0. \A s \in Slots : s \in Nat
  BY DEF Slots
<1>n. now \in Nat /\ now' \in Nat /\ left \in Nat /\ left' \in Nat /\ reading.slot \in Slots
  BY DEF TypeOK, Times, Reading
<1>u. CASE UNCHANGED <<now, left, context, captures>> /\ pc' \notin {"wait"} \cup Busy
  BY <1>u DEF Passed, Kept, SlotOf, Busy
<1>1. CASE UNCHANGED vars
  BY <1>1 DEF vars, Passed, Kept, SlotOf
<1>2. CASE Wake
  <2>1. /\ now' = now /\ left = 0 /\ pc = "wait" /\ pc' = "read"
        /\ reading'.slot = SlotOf(now) /\ UNCHANGED <<context, captures>>
    BY <1>2 DEF Wake, clocks, database
  <2>2. SlotOf(now) \in Slots /\ SlotOf(now + left) = SlotOf(now)
    BY <1>n, <2>1, SlotIsKnown DEF TypeOK
  <2>3. \A s \in Slots : Kept(s) => s <= SlotOf(now) /\ s < SlotOf(now)
    BY <2>1, <2>2 DEF Passed
  <2>4. ~Kept(SlotOf(now))
    BY <1>0, <2>2, <2>3
  <2>5. SlotOf(now)' = SlotOf(now) /\ (\A s \in Slots : Kept(s)' <=> Kept(s))
    BY <2>1 DEF Kept, SlotOf
  <2>6. reading'.slot <= SlotOf(now)' /\ ~Kept(reading.slot)'
    BY <1>0, <2>1, <2>2, <2>4, <2>5
  <2>7. QED
    BY <2>1, <2>3, <2>5, <2>6 DEF Passed
<1>3. CASE Read \/ Save \/ Stamp \/ Confirm
  <2>1. /\ UNCHANGED <<now, context, captures>>
        /\ reading'.slot = reading.slot /\ pc \in Busy /\ pc' \in Busy
        /\ pc' \in {"read", "save"} => pc \in {"read", "save"}
    BY <1>3 DEF Read, Save, Stamp, Confirm, clocks, database, memory, attempt, Busy,
                TypeOK, Reading
  <2>2. QED
    BY <2>1 DEF Passed, Kept, SlotOf, Busy
<1>4. CASE ReadFails \/ SaveFails \/ Report
  BY <1>4, LoopPassed DEF ReadFails, SaveFails, Report, clocks, database, Passed
<1>5. CASE Reconnect
  <2>1. CASE tries < Attempts
    BY <1>5, <2>1 DEF Reconnect, Passed, Kept, SlotOf, clocks
  <2>2. CASE ~(tries < Attempts)
    BY <1>5, <2>2, LoopPassed DEF Reconnect, clocks, Passed
  <2>3. QED
    BY <2>1, <2>2
<1>6. CASE Context \/ Capture
  <2>1. /\ now' = now /\ reading' = reading /\ pc \in Busy
        /\ pc' \in {"capture", "stamp", "report"}
    BY <1>6 DEF Context, Capture, clocks, memory, attempt, Busy
  <2>2. \A s \in Slots : s # reading.slot => (Kept(s)' <=> Kept(s))
    BY <1>6, <1>n DEF Context, Capture, Kept, TypeOK
  <2>3. reading.slot <= SlotOf(now) /\ SlotOf(now)' = SlotOf(now)
    BY <2>1 DEF Passed, SlotOf
  <2>4. \A s \in Slots : Kept(s)' => s <= SlotOf(now)
    BY <2>2, <2>3 DEF Passed
  <2>5. QED
    BY <2>1, <2>3, <2>4 DEF Passed
<1>7. CASE Ready \/ Look \/ Archive \/ Return \/ Hang
  BY <1>7 DEF Ready, Look, Archive, Return, Hang, clocks, database, memory, attempt, Passed,
              Kept, SlotOf
<1>8. CASE Break \/ Unwind \/ Join \/ Exit \/ Raise \/ Kill
  BY <1>8, <1>u DEF Break, Unwind, Join, Exit, Raise, Kill, Exited, clocks, database, Busy
<1>9. CASE Signal
  BY <1>9 DEF Signal, clocks, database, memory, attempt, Passed, Kept, SlotOf
<1>10. CASE Start
  BY <1>10, LoopPassed DEF Start, clocks, database, Passed
<1>11. CASE Tick
  <2>1. /\ now' = now + 1 /\ left' >= left - 1
        /\ UNCHANGED <<context, captures, pc, reading>>
    BY <1>11, <1>n, LessWait DEF Tick, database, memory, attempt
  <2>2. SlotOf(now) <= SlotOf(now') /\ SlotOf(now) \in Nat /\ SlotOf(now') \in Nat
    BY <1>n, <2>1, SlotMonotone
  <2>3. /\ SlotOf(now + left) <= SlotOf(now' + left')
        /\ SlotOf(now + left) \in Nat /\ SlotOf(now' + left') \in Nat
    <3>1. now + left \in Nat /\ now' + left' \in Nat /\ now + left <= now' + left'
      BY <1>n, <2>1, LaterEnd
    <3>2. QED
      BY <3>1, SlotMonotone
  <2>4. \A s \in Slots : Kept(s)' <=> Kept(s)
    BY <2>1 DEF Kept
  <2>5. SlotOf(now)' = SlotOf(now') /\ SlotOf(now + left)' = SlotOf(now' + left')
    BY DEF SlotOf
  <2>6. QED
    BY <1>0, <1>n, <2>1, <2>2, <2>3, <2>4, <2>5 DEF Passed
<1>12. CASE SetBack
  BY <1>12 DEF SetBack, Forward, TypeOK
<1>13. QED
  BY <1>1, <1>2, <1>3, <1>4, <1>5, <1>6, <1>7, <1>8, <1>9, <1>10, <1>11, <1>12
     DEF Next, Main, Coordinate

\* The observation of a slot is replaced before anything is kept of the slot.
LEMMA TogetherStep ==
  ASSUME TypeOK, Stored, Passed, KeptTogether, [Next]_vars
  PROVE  KeptTogether'
<1>1. CASE Save \/ Reconnect
  <2>1. /\ UNCHANGED <<context, captures>> /\ pc = "save"
        /\ Store \/ UNCHANGED rows
    BY <1>1 DEF Save, Reconnect
  <2>2. ~Kept(reading.slot)
    BY <2>1 DEF Passed
  <2>3. \A s \in Slots : s # reading.slot => rows'[s] = rows[s]
    BY <2>1 DEF Store, TypeOK
  <2>4. QED
    BY <2>1, <2>2, <2>3 DEF KeptTogether, Kept
<1>2. CASE Context
  <2>1. rows' = rows /\ captures' = captures /\ rows[reading.slot] = reading.n
    BY <1>2 DEF Context, Stored, Busy
  <2>2. \A s \in Slots :
          \/ context'[s] = context[s]
          \/ /\ s = reading.slot
             /\ context'[s] = reading.n
    BY <1>2 DEF Context, TypeOK, Reading
  <2>3. QED
    BY <2>1, <2>2 DEF KeptTogether
<1>3. CASE Capture
  <2>1. rows' = rows /\ context' = context /\ rows[reading.slot] = reading.n
    BY <1>3 DEF Capture, Stored, Busy
  <2>2. \A s \in Slots :
          \/ captures'[s] = captures[s]
          \/ /\ s = reading.slot
             /\ captures'[s].n = reading.n
    BY <1>3 DEF Capture, TypeOK, Reading
  <2>3. QED
    BY <2>1, <2>2 DEF KeptTogether
<1>4. CASE ~(Save \/ Reconnect \/ Context \/ Capture)
  <2>1. UNCHANGED <<rows, context, captures>>
    BY <1>4 DEF Next, Main, Coordinate, Wake, Break, Read, Stamp, Confirm, Report, Unwind,
                Join, Exit, Ready, Look, Archive, Return, ReadFails, SaveFails, Raise, Hang,
                Kill, Signal, Start, Tick, SetBack, vars, database
  <2>2. QED
    BY <2>1 DEF KeptTogether
<1>5. QED
  BY <1>1, <1>2, <1>3, <1>4

-----------------------------------------------------------------------------
(* The inductive invariant.                                                *)

LEMMA IInvInit == Init => IInv
<1> SUFFICES ASSUME Init PROVE IInv
  OBVIOUS
<1>1. 0 \in Nat /\ 0 \in Slots /\ 0 \in Times
  BY SlotIsKnown, SlotMonotone, CollectorAssumption DEF Slots, Times, SlotOf
<1>2. ToBoundary(0) \in 1 .. Period
  BY WaitIsBounded
<1>3. TypeOK
  <2>1. /\ rows \in [Slots -> Nat] /\ context \in [Slots -> Nat]
        /\ witness \in [Slots -> {None} \cup Times]
    BY DEF Init
  <2>2. captures \in [Slots -> [n : Nat, got : {None} \cup Times,
                                committed : {None} \cup Times]]
    BY DEF Init, NoCapture
  <2>3. /\ now \in Times /\ setbacks \in Nat /\ faults \in Nat /\ taken \in Nat
        /\ left \in 0 .. Period /\ tries \in 0 .. Attempts
    BY <1>1, <1>2, CollectorAssumption DEF Init
  <2>4. /\ decisions \subseteq Inputs /\ found \in Inputs
        /\ reading \in Reading /\ reported \in Reading
        /\ stamp \in {None} \cup Times
    BY NothingTyped DEF Init
  <2>5. QED
    BY <2>1, <2>2, <2>3, <2>4 DEF Init, TypeOK
<1>4. Stored /\ StoredFirst
  BY <1>1 DEF Init, Stored, StoredFirst, Busy, NoReading, NoCapture
<1>5. Witnessed
  BY DEF Init, Witnessed
<1>6. \A d \in decisions \cup {found} : Known(d)
  BY DEF Init, Known, NoInputs
<1>7. Passed /\ SlotIsReadOnce
  BY DEF Init, Passed, Kept, Busy, SlotIsReadOnce
<1>8. QED
  BY <1>3, <1>4, <1>5, <1>6, <1>7 DEF IInv

LEMMA IInvStep == IInv /\ [Next]_vars => IInv'
<1> SUFFICES ASSUME IInv, [Next]_vars PROVE IInv'
  OBVIOUS
<1>1. TypeOK'
  BY TypeStep DEF IInv
<1>2. Stored' /\ StoredFirst'
  BY <1>1, StoredStep DEF IInv
<1>3. Witnessed'
  BY <1>1, WitnessedStep DEF IInv
<1>4. \A d \in (decisions \cup {found})' : Known(d)'
  BY <1>1, KnownStep DEF IInv
<1>5. ASSUME Forward'
      PROVE  Forward /\ Passed' /\ KeptTogether'
  <2>1. Forward
    BY <1>5, SetbacksStay DEF IInv, Forward
  <2>2. Passed /\ KeptTogether
    BY <2>1 DEF IInv, Forward, SlotIsReadOnce, KeptTogether
  <2>3. QED
    BY <1>1, <1>5, <2>1, <2>2, PassedStep, TogetherStep DEF IInv
<1>6. QED
  BY <1>1, <1>2, <1>3, <1>4, <1>5 DEF IInv, Forward, SlotIsReadOnce, KeptTogether

LEMMA Invariant == Spec => []IInv
  BY IInvInit, IInvStep, PTL DEF Spec

-----------------------------------------------------------------------------
(* Theorems.                                                               *)

\* The state of the App and its store stays within its types, whatever fails and
\* however often the App is restarted.
THEOREM TypeIsPreserved == Spec => []TypeOK
  BY Invariant, PTL DEF IInv

\* Context, a capture or a success never stands for a reading whose core
\* observation was not stored before it (run_collector.py, save_with_retry first).
THEOREM ObservationComesFirst == Spec => []StoredFirst
  BY Invariant, PTL DEF IInv

\* Observation, context and capture of a slot are of one reading while the clock
\* runs forward and intervals are whole slots.
THEOREM SlotHasOneReading == Spec => []SlotIsReadOnce
  BY Invariant, PTL DEF IInv

\* Decision inputs name a capture committed before they were ready: the witness,
\* of a later transaction, is dated after the commit (arbitrage/capture.py).
THEOREM ArchiveNamesKnownInputs == Spec => []InputsWereKnown
<1>1. IInv => InputsWereKnown
  BY DEF IInv, InputsWereKnown, Known
<1>2. QED
  BY <1>1, Invariant, PTL

\* No step rewrites context, captures or witnesses.
THEOREM EvidenceNeverChanges == Spec => EvidenceIsFinal
<1>1. TypeOK /\ [Next]_vars =>
        [\A s \in Slots :
          /\ context[s] # 0 => context'[s] = context[s]
          /\ captures[s] # NoCapture => captures'[s] = captures[s]
          /\ witness[s] # None => witness'[s] = witness[s]]_vars
  BY FinalStep DEF Final
<1>2. QED
  BY <1>1, TypeIsPreserved, PTL DEF Spec, EvidenceIsFinal

=============================================================================
