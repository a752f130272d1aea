--------------------- MODULE ForecastCoordinatorProofs ---------------------
(***************************************************************************)
(* Machine-checked facts about ForecastCoordinator, for any number of Apps *)
(* and boundaries and whichever of the faults may happen.                  *)
(*                                                                         *)
(* The argument: an attempt never becomes unclaimed again, so a boundary   *)
(* has one owner, the App whose INSERT returned the id; what is stored for *)
(* the boundary follows from how far that owner has come, and without an   *)
(* owner nothing is stored any more.                                       *)
(***************************************************************************)
EXTENDS ForecastCoordinator, TLAPS

\* Where an App owns the boundary it works on: the claim was its own.
Owning    == {"busy_finish", "locked_finish", "forecast", "score", "reserve",
              "decide", "finish"}
Producing == {"forecast", "score", "reserve", "decide", "finish"}

\* Where an App's session does not hold the advisory lock.
Unlocked == Skipping \cup {"down", "recover", "schedule", "wait", "enter",
                           "try_lock"}

Nothing(b) == \A k \in Kinds : rows[b][k] = 0

ClaimInv ==
  /\ \A a \in Apps : pc[a] \in Owning => attempt[at[a]] # "none"
  /\ \A a, c \in Apps :
       pc[a] \in Owning /\ pc[c] \in Owning /\ at[a] = at[c] => a = c
  /\ \A a \in Apps :
       pc[a] \in Operating \ {"enter"} /\ claimed[a] => attempt[at[a]] # "none"

\* How far the owner of a boundary has come with its rows.
ProgressInv ==
  \A a \in Apps :
    /\ pc[a] \in Producing => attempt[at[a]] # "skipped"
    /\ pc[a] \in {"busy_finish", "locked_finish", "forecast"} => Nothing(at[a])
    /\ pc[a] \in {"score", "reserve", "decide", "finish"} =>
         rows[at[a]]["forecast"] = 1
    /\ pc[a] \in {"score", "reserve"} => rows[at[a]]["reserve"] = 0
    /\ pc[a] \in {"decide", "finish"} => rows[at[a]]["reserve"] = 1
    /\ pc[a] \in {"score", "reserve", "decide"} => rows[at[a]]["decision"] = 0

\* What is stored for each boundary.
LedgerInv ==
  \A b \in Boundaries :
    /\ attempt[b] \in {"none", "skipped"} => Nothing(b)
    /\ \A k \in Kinds : rows[b][k] <= 1
    /\ rows[b]["reserve"] > 0 => rows[b]["forecast"] > 0
    /\ rows[b]["decision"] > 0 => rows[b]["reserve"] > 0
    /\ attempt[b] = "success" =>
         rows[b]["forecast"] = 1 /\ rows[b]["reserve"] = 1

LockInv ==
  \A a \in Apps :
    /\ token[a] = "held" <=> lock = a
    /\ pc[a] \in Working => token[a] # "none"
    /\ pc[a] \in Unlocked => token[a] # "held"

IInv == TypeOK /\ ClaimInv /\ ProgressInv /\ LedgerInv /\ LockInv

-----------------------------------------------------------------------------
(* Lemmas.                                                                 *)

\* An exception leads out of the work on the boundary, except a decision's.
LEMMA HandlerTarget ==
  ASSUME NEW l
  PROVE  /\ Handler(l) \in {"schedule", "finish", "cleanup", "fail"}
         /\ Handler(l) = "finish" <=> l = "decide"
         /\ Handler(l) = "schedule" =>
              l \in {"recover", "enter", "busy_claim", "busy_finish"}
  BY DEF Handler

\* What the position after a statement can be, whatever happens to it.
LEMMA TargetOfDone ==
  ASSUME NEW a \in Apps, NEW l, InTime(a, l) \/ Done(a, l)
  PROVE  \E m \in {l, Handler(pc[a]), "fail"} : Jump(a, m)
  BY DEF InTime, Done

\* A jump from inside an operation, or out of it, keeps the types.
LEMMA JumpTyped ==
  ASSUME TypeOK, NEW a \in Apps,
         NEW m \in Operating \cup {"down", "recover", "schedule", "wait"},
         Jump(a, m), m \in Operating \cup {"wait"} => at[a] \in Boundaries,
         at' = at
  PROVE  /\ pc' \in [Apps -> Operating
                               \cup {"down", "recover", "schedule", "wait"}]
         /\ \A c \in Apps :
              pc'[c] \in Operating \cup {"wait"} => at'[c] \in Boundaries
  BY DEF TypeOK, Jump

\* A row more, or a new status, is well-typed.
LEMMA SaveTyped ==
  ASSUME TypeOK, NEW a \in Apps, at[a] \in Boundaries, NEW kind \in Kinds,
         Save(a, kind)
  PROVE  rows' \in [Boundaries -> [Kinds -> Nat]]
<1> DEFINE row == [rows[at[a]] EXCEPT ![kind] = @ + 1]
<1>1. rows[at[a]] \in [Kinds -> Nat]
  BY DEF TypeOK
<1>2. row \in [Kinds -> Nat]
  BY <1>1
<1>3. rows' = [rows EXCEPT ![at[a]] = row]
  BY DEF Save
<1> QED
  BY <1>2, <1>3 DEF TypeOK

LEMMA StatusTyped ==
  ASSUME TypeOK, NEW a \in Apps, NEW st \in Status, SetStatus(a, st)
  PROVE  attempt' \in [Boundaries -> Status]
  BY DEF TypeOK, SetStatus

\* Every step of an App or of its environment keeps the types.
LEMMA TypeStep == TypeOK /\ [Next]_vars => TypeOK'
<1> SUFFICES ASSUME TypeOK, [Next]_vars
             PROVE  TypeOK'
  OBVIOUS
<1> DEFINE Places == Operating \cup {"down", "recover", "schedule", "wait"}
<1>1. CASE UNCHANGED vars
  BY <1>1 DEF TypeOK, vars
<1>2. CASE Tick
  BY <1>2 DEF TypeOK, Tick, database, local
<1>3. ASSUME NEW b \in Boundaries, Age(b)
      PROVE  TypeOK'
  BY <1>3 DEF TypeOK, Age, local
<1>4. ASSUME NEW a \in Apps, Start(a) \/ Kill(a) \/ Drop(a) \/ DatabaseFault(a)
      PROVE  TypeOK'
  <2>1. CASE Start(a)
    BY <2>1 DEF TypeOK, Start, Goto, Jump, local, database, Operating, Working,
                Skipping
  <2>2. CASE Kill(a)
    BY <2>2 DEF TypeOK, Kill, Jump, Operating, Working, Skipping
  <2>3. CASE Drop(a)
    BY <2>3 DEF TypeOK, Drop
  <2>4. CASE DatabaseFault(a)
    <3>1. Handler(pc[a]) \in {"schedule", "finish", "cleanup", "fail"}
      BY HandlerTarget
    <3>2. Handler(pc[a]) \in Operating => at[a] \in Boundaries
      BY <2>4 DEF DatabaseFault, Handler, TypeOK, Operating, Working, Skipping
    <3> QED
      BY <2>4, <3>1, <3>2, JumpTyped
         DEF DatabaseFault, Goto, local, database, TypeOK, Operating, Working
  <2> QED
    BY <1>4, <2>1, <2>2, <2>3, <2>4
<1>5. ASSUME NEW a \in Apps, Run(a)
      PROVE  TypeOK'
  <2>1. CASE Recover(a)
    <3>1. Jump(a, "schedule")
      BY <2>1 DEF Recover, Done, Handler
    <3>2. attempt' \in [Boundaries -> Status]
      BY <2>1 DEF Recover, TypeOK, Status
    <3> QED
      BY <2>1, <3>1, <3>2 DEF TypeOK, Recover, Jump, local, Operating, Working,
                              Skipping
  <2>2. CASE Schedule(a)
    BY <2>2 DEF TypeOK, Schedule, Jump, database, Operating, Working, Skipping
  <2>3. ASSUME pc[a] \in Operating
        PROVE  TypeOK'
    <3>1. at[a] \in Boundaries
      BY <2>3 DEF TypeOK
    <3>2. ASSUME NEW m \in Operating \cup {"schedule"}, Jump(a, m), at' = at
          PROVE  /\ pc' \in [Apps -> Places]
                 /\ \A c \in Apps :
                      pc'[c] \in Operating \cup {"wait"} =>
                        at'[c] \in Boundaries
      BY <3>1, <3>2, JumpTyped
    <3>3. ASSUME NEW l \in Operating \cup {"schedule"},
                 InTime(a, l) \/ Done(a, l), at' = at
          PROVE  /\ pc' \in [Apps -> Places]
                 /\ \A c \in Apps :
                      pc'[c] \in Operating \cup {"wait"} =>
                        at'[c] \in Boundaries
      <4>1. PICK m \in {l, Handler(pc[a]), "fail"} : Jump(a, m)
        BY <3>3, TargetOfDone
      <4>2. m \in Operating \cup {"schedule"}
        BY <4>1, HandlerTarget DEF Operating, Working
      <4> QED
        BY <3>2, <3>3, <4>1, <4>2
    <3>4. CASE Enter(a) \/ TryLock(a)
      BY <3>1, <3>4 DEF TypeOK, Enter, TryLock, Jump, database, Operating,
                        Working, Skipping
    <3>5. ASSUME NEW l, NEW won \in Operating,
                 NEW lost \in Operating \cup {"schedule"},
                 Claim(a, l, won, lost)
          PROVE  TypeOK'
      <4>1. PICK m \in {won, lost, Handler(l)} : Jump(a, m)
        BY <3>5 DEF Claim
      <4>2. m \in Operating \cup {"schedule"}
        BY <4>1, HandlerTarget DEF Operating, Working
      <4>3. attempt' \in [Boundaries -> Status]
        BY <3>5, StatusTyped DEF Claim, Status, TypeOK
      <4>4. claimed' \in [Apps -> BOOLEAN]
        BY <3>5 DEF Claim, TypeOK
      <4>5. at' = at /\ UNCHANGED <<now, aged, rows, lock, active, token>>
        BY <3>5 DEF Claim
      <4> QED
        BY <3>2, <4>1, <4>2, <4>3, <4>4, <4>5 DEF TypeOK
    <3>6. CASE BusyClaim(a) \/ LockedClaim(a) \/ ClaimBoundary(a)
      BY <3>5, <3>6 DEF BusyClaim, LockedClaim, ClaimBoundary, Operating,
                        Working, Skipping
    <3>7. CASE FinishSkipped(a) \/ Finish(a)
      <4>1. attempt' \in [Boundaries -> Status]
        BY <3>7, StatusTyped DEF FinishSkipped, Finish, Status
      <4> QED
        BY <3>7, <3>3, <4>1 DEF FinishSkipped, Finish, TypeOK, local, Operating,
                                Working
    <3>8. CASE SaveForecast(a) \/ SaveReserve(a) \/ SaveDecision(a)
      <4>1. rows' \in [Boundaries -> [Kinds -> Nat]]
        BY <3>1, <3>8, SaveTyped
           DEF SaveForecast, SaveReserve, SaveDecision, Kinds, TypeOK
      <4> QED
        BY <3>8, <3>3, <4>1 DEF SaveForecast, SaveReserve, SaveDecision, TypeOK,
                                local, Operating, Working
    <3>9. CASE Score(a)
      BY <3>9, <3>3 DEF Score, TypeOK, local, database, Operating, Working
    <3>10. CASE Unlock(a) \/ Retain(a) \/ Cleanup(a)
      BY <3>1, <3>10 DEF TypeOK, Unlock, Retain, Cleanup, Goto, Jump, local,
                         database, Operating, Working, Skipping
    <3>11. CASE Fail(a)
      <4>1. attempt' \in [Boundaries -> Status]
        BY <3>11, StatusTyped DEF Fail, Status, TypeOK
      <4> QED
        BY <3>11, <3>2, <4>1 DEF Fail, TypeOK, local, Operating
    <3> QED
      BY <1>5, <2>3, <3>4, <3>6, <3>7, <3>8, <3>9, <3>10, <3>11
         DEF Run, Recover, Schedule, Fire, Operating, Working, Skipping
  <2>4. CASE Fire(a)
    BY <2>4 DEF TypeOK, Fire, Goto, Jump, local, database, Operating, Working,
                Skipping
  <2> QED
    BY <1>5, <2>1, <2>2, <2>3, <2>4
       DEF Run, Enter, BusyClaim, LockedClaim, Claim, FinishSkipped, TryLock,
           ClaimBoundary, SaveForecast, Score, SaveReserve, SaveDecision,
           Finish, Unlock, Retain, Fail, Cleanup, Operating, Working, Skipping
<1> QED
  BY <1>1, <1>2, <1>3, <1>4, <1>5 DEF Next

-----------------------------------------------------------------------------
(* The owner of a boundary.                                                *)

\* A step of one App that unclaims nothing, and becomes the owner of a boundary
\* only by claiming it, keeps the claims.
LEMMA ClaimKept ==
  ASSUME TypeOK, TypeOK', ClaimInv, NEW a \in Apps, NEW m, Jump(a, m),
         \A c \in Apps \ {a} : at'[c] = at[c] /\ claimed'[c] = claimed[c],
         \A b \in Boundaries : attempt[b] # "none" => attempt'[b] # "none",
         m \in Owning => /\ at'[a] = at[a]
                         /\ pc[a] \in Owning \/ attempt[at[a]] = "none"
                         /\ attempt'[at[a]] # "none",
         m \in Operating \ {"enter"} /\ claimed'[a] =>
           attempt'[at'[a]] # "none"
  PROVE  ClaimInv'
<1>1. pc'[a] = m /\ \A c \in Apps \ {a} : pc'[c] = pc[c]
  BY DEF Jump, TypeOK
<1>2. \A c \in Apps : pc[c] \in Operating => at[c] \in Boundaries
  BY DEF TypeOK
<1>3. Owning \subseteq Operating
  BY DEF Owning, Operating, Working, Skipping
<1>4. ASSUME NEW c \in Apps, pc'[c] \in Owning
      PROVE  attempt'[at'[c]] # "none"
  BY <1>1, <1>2, <1>3, <1>4 DEF ClaimInv
<1>5. ASSUME NEW c \in Apps, NEW d \in Apps, c # d,
             pc'[c] \in Owning, pc'[d] \in Owning, at'[c] = at'[d]
      PROVE  FALSE
  <2>1. CASE c # a /\ d # a
    BY <1>1, <1>5, <2>1 DEF ClaimInv
  <2>2. ASSUME NEW e \in Apps \ {a}, pc'[e] \in Owning, at'[e] = at'[a],
               pc'[a] \in Owning
        PROVE  FALSE
    <3>1. pc[e] \in Owning /\ at[e] = at[a] /\ attempt[at[e]] # "none"
      BY <1>1, <2>2 DEF ClaimInv
    <3> QED
      BY <1>1, <2>2, <3>1 DEF ClaimInv
  <2> QED
    BY <1>5, <2>1, <2>2
<1>6. ASSUME NEW c \in Apps, pc'[c] \in Operating \ {"enter"}, claimed'[c]
      PROVE  attempt'[at'[c]] # "none"
  BY <1>1, <1>2, <1>6 DEF ClaimInv
<1> QED
  BY <1>4, <1>5, <1>6 DEF ClaimInv

\* Every step keeps the claims.
LEMMA ClaimStep == TypeOK /\ TypeOK' /\ ClaimInv /\ [Next]_vars => ClaimInv'
<1> SUFFICES ASSUME TypeOK, TypeOK', ClaimInv, [Next]_vars
             PROVE  ClaimInv'
  OBVIOUS
<1>1. CASE UNCHANGED vars
  BY <1>1 DEF ClaimInv, vars
<1>2. CASE Tick
  BY <1>2 DEF ClaimInv, Tick, database, local
<1>3. ASSUME NEW b \in Boundaries, Age(b)
      PROVE  ClaimInv'
  BY <1>3 DEF ClaimInv, Age, local
<1>4. ASSUME NEW a \in Apps, Start(a) \/ Kill(a) \/ Drop(a) \/ DatabaseFault(a)
      PROVE  ClaimInv'
  <2>1. CASE Start(a)
    BY <2>1, ClaimKept DEF Start, Goto, local, database, Owning, Operating,
                           Working, Skipping
  <2>2. CASE Kill(a)
    BY <2>2, ClaimKept DEF Kill, TypeOK, Owning, Operating, Working, Skipping
  <2>3. CASE Drop(a)
    BY <2>3 DEF ClaimInv, Drop
  <2>4. CASE DatabaseFault(a)
    <3>1. /\ Handler(pc[a]) \in Owning => pc[a] \in Owning
          /\ Handler(pc[a]) \in Operating =>
               pc[a] \in Operating \ {"enter"}
      BY <2>4 DEF DatabaseFault, Handler, Owning, Operating, Working, Skipping
    <3> QED
      BY <2>4, <3>1, ClaimKept DEF DatabaseFault, Goto, local, database,
                                   ClaimInv
  <2> QED
    BY <1>4, <2>1, <2>2, <2>3, <2>4
<1>5. ASSUME NEW a \in Apps, Run(a)
      PROVE  ClaimInv'
  <2>1. CASE Recover(a)
    <3>1. Jump(a, "schedule")
      BY <2>1 DEF Recover, Done, Handler
    <3>2. \A b \in Boundaries : attempt[b] # "none" => attempt'[b] # "none"
      BY <2>1 DEF Recover
    <3> QED
      BY <2>1, <3>1, <3>2, ClaimKept DEF Recover, local, Owning, Operating,
                                         Working, Skipping
  <2>2. CASE Schedule(a)
    BY <2>2, ClaimKept DEF Schedule, TypeOK, database, Owning, Operating,
                           Working, Skipping
  <2>3. CASE Fire(a)
    BY <2>3, ClaimKept DEF Fire, Goto, local, database, Owning, Operating,
                           Working, Skipping
  <2>4. CASE Enter(a)
    BY <2>4, ClaimKept DEF Enter, TypeOK, database, Owning
  <2>5. ASSUME NEW l \in Operating \ {"enter"}, NEW won \in Operating,
               NEW lost \in {"schedule", "cleanup"}, Claim(a, l, won, lost),
               Handler(l) \notin Owning, Handler(l) # "enter"
        PROVE  ClaimInv'
    <3>1. pc[a] = l /\ at[a] \in Boundaries /\ at' = at
      BY <2>5 DEF Claim, TypeOK
    <3>2. CASE attempt[at[a]] = "none"
      <4>1. attempt' = [attempt EXCEPT ![at[a]] = "running"]
        BY <2>5, <3>2 DEF Claim, SetStatus
      <4>2. attempt'[at[a]] = "running"
        BY <3>1, <4>1 DEF TypeOK
      <4>3. PICK m : /\ Jump(a, m)
                     /\ claimed' = [claimed EXCEPT ![a] = TRUE]
                          \/ claimed' = claimed
        BY <2>5, <3>2 DEF Claim
      <4> QED
        BY <3>1, <3>2, <4>1, <4>2, <4>3, ClaimKept DEF TypeOK
    <3>3. CASE attempt[at[a]] # "none"
      BY <2>5, <3>1, <3>3, ClaimKept DEF Claim, Owning
    <3> QED
      BY <3>2, <3>3
  <2>6. CASE BusyClaim(a) \/ LockedClaim(a) \/ ClaimBoundary(a)
    BY <2>5, <2>6 DEF BusyClaim, LockedClaim, ClaimBoundary, Operating, Working,
                      Skipping, Handler, Owning
  <2>7. ASSUME pc[a] \in Owning,
               \E l : InTime(a, l) \/ Done(a, l), UNCHANGED <<at, claimed>>,
               attempt' = attempt \/ \E st \in {"skipped", "success"} :
                                       SetStatus(a, st)
        PROVE  ClaimInv'
    <3>1. attempt[at[a]] # "none" /\ at[a] \in Boundaries
      BY <2>7 DEF ClaimInv, TypeOK, Owning, Operating, Working, Skipping
    <3>2. PICK m : Jump(a, m)
      BY <2>7, TargetOfDone
    <3>3. \A b \in Boundaries : attempt[b] # "none" => attempt'[b] # "none"
      BY <2>7 DEF SetStatus, TypeOK
    <3> QED
      BY <2>7, <3>1, <3>2, <3>3, ClaimKept
  <2>8. CASE \/ FinishSkipped(a) \/ SaveForecast(a) \/ Score(a)
             \/ SaveReserve(a) \/ SaveDecision(a) \/ Finish(a)
    BY <2>7, <2>8 DEF FinishSkipped, SaveForecast, Score, SaveReserve,
                      SaveDecision, Finish, local, database, Owning
  <2>9. ASSUME pc[a] \in Operating \ {"enter"}, NEW m, Jump(a, m),
               m \notin Owning, UNCHANGED <<attempt, at, claimed>>
        PROVE  ClaimInv'
    BY <2>9, ClaimKept DEF ClaimInv
  <2>10. CASE TryLock(a) \/ Unlock(a) \/ Retain(a) \/ Cleanup(a)
    BY <2>9, <2>10 DEF TryLock, Unlock, Retain, Cleanup, Goto, local, database,
                       Owning, Operating, Working, Skipping
  <2>11. CASE Fail(a)
    <3>1. \A b \in Boundaries : attempt[b] # "none" => attempt'[b] # "none"
      BY <2>11 DEF Fail, SetStatus, TypeOK
    <3>2. claimed[a] => attempt[at[a]] # "none" /\ at[a] \in Boundaries
      BY <2>11 DEF Fail, ClaimInv, TypeOK, Operating
    <3> QED
      BY <2>11, <3>1, <3>2, ClaimKept DEF Fail, local, Owning
  <2> QED
    BY <1>5, <2>1, <2>2, <2>3, <2>4, <2>6, <2>8, <2>10, <2>11 DEF Run
<1> QED
  BY <1>1, <1>2, <1>3, <1>4, <1>5 DEF Next

-----------------------------------------------------------------------------
(* What is stored for a boundary.                                          *)

\* Statuses a step of App a may write without a look at the rows: a running or
\* failed attempt anywhere, and at its own boundary the outcome it has reached.
Audited(a) ==
  \A b \in Boundaries :
    \/ attempt'[b] = attempt[b]
    \/ attempt'[b] \in {"running", "failed"}
    \/ /\ b = at[a]
       /\ \/ pc[a] \in {"busy_finish", "locked_finish"}
             /\ attempt'[b] = "skipped"
          \/ pc[a] = "finish" /\ attempt'[b] = "success"

\* How an App gets to a place of an owner without a new row.
Advances(a, m) ==
  \/ /\ m \in {"busy_finish", "locked_finish", "forecast"}
     /\ attempt[at[a]] = "none" /\ attempt'[at[a]] = "running"
  \/ <<pc[a], m>> \in {<<"score", "reserve">>, <<"decide", "finish">>}

\* Steps of one App that store no row keep what is known of the rows.
LEMMA AuditKept ==
  ASSUME TypeOK, TypeOK', ClaimInv, ProgressInv, LedgerInv,
         NEW a \in Apps, NEW m, Jump(a, m), rows' = rows, Audited(a),
         \A c \in Apps \ {a} : at'[c] = at[c],
         m \in Owning => at'[a] = at[a] /\ Advances(a, m)
  PROVE  ProgressInv' /\ LedgerInv'
<1>1. pc'[a] = m /\ \A c \in Apps \ {a} : pc'[c] = pc[c]
  BY DEF Jump, TypeOK
<1>2. Owning \subseteq Operating /\ Producing \subseteq Owning
  BY DEF Owning, Producing, Operating, Working, Skipping
<1>3. \A c \in Apps : pc[c] \in Operating => at[c] \in Boundaries
  BY DEF TypeOK
<1>4. ASSUME NEW b \in Boundaries
      PROVE  LedgerInv!(b)'
  <2>1. CASE attempt'[b] \in {"running", "failed"}
    BY <2>1 DEF LedgerInv, Nothing
  <2>2. CASE attempt'[b] = attempt[b]
    BY <2>2 DEF LedgerInv, Nothing
  <2>3. CASE b = at[a] /\ pc[a] \in {"busy_finish", "locked_finish"}
               /\ attempt'[b] = "skipped"
    BY <2>3 DEF LedgerInv, ProgressInv, Nothing
  <2>4. CASE b = at[a] /\ pc[a] = "finish" /\ attempt'[b] = "success"
    BY <2>4 DEF LedgerInv, ProgressInv
  <2> QED
    BY <2>1, <2>2, <2>3, <2>4 DEF Audited
<1>5. ASSUME NEW c \in Apps \ {a}
      PROVE  ProgressInv!(c)'
  <2>1. CASE pc[c] \in Owning
    <3>1. pc'[c] = pc[c] /\ at'[c] = at[c] /\ at[c] \in Boundaries
      BY <1>1, <1>2, <1>3, <2>1
    <3>2. ~(pc[a] \in Owning /\ at[a] = at[c])
      BY <2>1 DEF ClaimInv
    <3>3. attempt'[at[c]] = "skipped" => attempt[at[c]] = "skipped"
      BY <3>1, <3>2 DEF Audited, Owning
    <3> QED
      BY <3>1, <3>3 DEF ProgressInv, Nothing
  <2>2. CASE pc[c] \notin Owning
    BY <1>1, <2>2 DEF ProgressInv, Owning, Producing
  <2> QED
    BY <2>1, <2>2
<1>6. ProgressInv!(a)'
  <2>1. CASE m \in {"busy_finish", "locked_finish", "forecast"}
               /\ attempt[at[a]] = "none" /\ attempt'[at[a]] = "running"
    <3>1. at'[a] = at[a] /\ at[a] \in Boundaries
      BY <2>1, <1>1 DEF Owning, TypeOK, Operating, Working, Skipping
    <3>2. Nothing(at[a])
      BY <2>1, <3>1 DEF LedgerInv
    <3> QED
      BY <1>1, <2>1, <3>1, <3>2 DEF Producing, Nothing
  <2>2. CASE <<pc[a], m>> \in {<<"score", "reserve">>, <<"decide", "finish">>}
    <3>1. at'[a] = at[a] /\ at[a] \in Boundaries
      BY <2>2, <1>3 DEF Owning, Operating, Working
    <3>2. attempt'[at[a]] # "skipped"
      BY <2>2, <3>1 DEF Audited, ProgressInv, Producing
    <3>3. CASE pc[a] = "score" /\ m = "reserve"
      BY <1>1, <3>1, <3>2, <3>3 DEF ProgressInv
    <3>4. CASE pc[a] = "decide" /\ m = "finish"
      BY <1>1, <3>1, <3>2, <3>4 DEF ProgressInv
    <3> QED
      BY <2>2, <3>3, <3>4
  <2>3. CASE m \notin Owning
    BY <1>1, <2>3 DEF Owning, Producing
  <2> QED
    BY <2>1, <2>2, <2>3 DEF Advances
<1> QED
  BY <1>4, <1>5, <1>6 DEF ProgressInv, LedgerInv

\* The owner's next row, stored in its turn, keeps what is known of the rows.
LEMMA RowKept ==
  ASSUME TypeOK, TypeOK', ClaimInv, ProgressInv, LedgerInv,
         NEW a \in Apps, NEW kind, NEW next, NEW m \in {next, "fail", "finish"},
         <<pc[a], kind, next>> \in {<<"forecast", "forecast", "score">>,
                                    <<"reserve", "reserve", "decide">>,
                                    <<"decide", "decision", "finish">>},
         m = "finish" => next = "finish",
         Jump(a, m), Save(a, kind), UNCHANGED <<attempt, at>>
  PROVE  ProgressInv' /\ LedgerInv'
<1>1. pc'[a] = m /\ \A c \in Apps \ {a} : pc'[c] = pc[c]
  BY DEF Jump, TypeOK
<1>2. /\ at[a] \in Boundaries /\ kind \in Kinds
      /\ pc[a] \in Owning /\ pc[a] \in Producing
  BY DEF TypeOK, Kinds, Owning, Producing, Operating, Working
<1>3. /\ \A b \in Boundaries \ {at[a]} : rows'[b] = rows[b]
      /\ \A k \in Kinds \ {kind} : rows'[at[a]][k] = rows[at[a]][k]
      /\ rows'[at[a]][kind] = rows[at[a]][kind] + 1
  BY <1>2 DEF Save, TypeOK
<1>4. /\ attempt[at[a]] \notin {"none", "skipped"}
      /\ rows[at[a]][kind] = 0
  BY <1>2 DEF ClaimInv, ProgressInv, Nothing
<1>5. ASSUME NEW b \in Boundaries
      PROVE  LedgerInv!(b)'
  <2>1. CASE b # at[a]
    BY <1>3, <2>1 DEF LedgerInv, Nothing
  <2>2. CASE b = at[a]
    <3>1. kind = "reserve" => rows[b]["forecast"] = 1
      BY <2>2 DEF ProgressInv
    <3>2. kind = "decision" => rows[b]["reserve"] = 1
      BY <2>2 DEF ProgressInv
    <3>3. kind = "forecast" => rows[b]["reserve"] = 0 /\ rows[b]["decision"] = 0
      BY <2>2 DEF ProgressInv, Nothing, Kinds
    <3>4. attempt[b] = "success" => kind = "decision"
      BY <1>4, <2>2 DEF LedgerInv
    <3>5. \A k \in Kinds : rows'[b][k] <= 1
      BY <1>2, <1>3, <1>4, <2>2 DEF LedgerInv
    <3> QED
      BY <1>2, <1>3, <1>4, <2>2, <3>1, <3>2, <3>3, <3>4, <3>5
         DEF LedgerInv, Kinds
  <2> QED
    BY <2>1, <2>2
<1>6. ASSUME NEW c \in Apps \ {a}
      PROVE  ProgressInv!(c)'
  <2>1. CASE pc[c] \in Owning
    <3>1. at[c] # at[a] /\ at[c] \in Boundaries /\ pc'[c] = pc[c]
      BY <1>1, <1>2, <2>1 DEF ClaimInv, TypeOK, Owning, Operating, Working,
                              Skipping
    <3> QED
      BY <1>3, <3>1 DEF ProgressInv, Nothing
  <2>2. CASE pc[c] \notin Owning
    BY <1>1, <2>2 DEF ProgressInv, Owning, Producing
  <2> QED
    BY <2>1, <2>2
<1>7. ProgressInv!(a)'
  <2>1. CASE m = "fail"
    BY <1>1, <2>1 DEF Producing
  <2>2. CASE m = next /\ pc[a] = "forecast"
    BY <1>1, <1>3, <1>4, <2>2 DEF ProgressInv, Nothing, Kinds
  <2>3. CASE m = next /\ pc[a] = "reserve"
    BY <1>1, <1>3, <1>4, <2>3 DEF ProgressInv, Kinds
  <2>4. CASE m = next /\ pc[a] = "decide"
    BY <1>1, <1>3, <1>4, <2>4 DEF ProgressInv, Kinds
  <2> QED
    BY <2>1, <2>2, <2>3, <2>4
<1> QED
  BY <1>5, <1>6, <1>7 DEF ProgressInv, LedgerInv

\* Every step keeps what is known of the rows.
LEMMA LedgerStep ==
  /\ TypeOK /\ TypeOK' /\ ClaimInv /\ ProgressInv /\ LedgerInv
  /\ [Next]_vars
  => ProgressInv' /\ LedgerInv'
<1> SUFFICES ASSUME TypeOK, TypeOK', ClaimInv, ProgressInv, LedgerInv,
                    [Next]_vars
             PROVE  ProgressInv' /\ LedgerInv'
  OBVIOUS
<1>1. CASE UNCHANGED vars
  BY <1>1 DEF ProgressInv, LedgerInv, Nothing, vars
<1>2. CASE Tick
  BY <1>2 DEF ProgressInv, LedgerInv, Nothing, Tick, database, local
<1>3. ASSUME NEW b \in Boundaries, Age(b)
      PROVE  ProgressInv' /\ LedgerInv'
  BY <1>3 DEF ProgressInv, LedgerInv, Nothing, Age, local
<1>4. ASSUME NEW a \in Apps, NEW m, Jump(a, m), UNCHANGED <<attempt, rows>>,
             \A c \in Apps \ {a} : at'[c] = at[c],
             m \in Owning => at' = at /\ pc[a] = "decide" /\ m = "finish"
      PROVE  ProgressInv' /\ LedgerInv'
  BY <1>4, AuditKept DEF Audited, Advances
<1>5. ASSUME NEW a \in Apps, Start(a) \/ Kill(a) \/ Drop(a) \/ DatabaseFault(a)
      PROVE  ProgressInv' /\ LedgerInv'
  <2>1. CASE Start(a)
    BY <1>4, <2>1 DEF Start, Goto, local, database, Owning
  <2>2. CASE Kill(a)
    BY <1>4, <2>2 DEF Kill, TypeOK, Owning
  <2>3. CASE Drop(a)
    BY <2>3 DEF ProgressInv, LedgerInv, Nothing, Drop
  <2>4. CASE DatabaseFault(a)
    BY <1>4, <2>4, HandlerTarget DEF DatabaseFault, Goto, local, database, Owning
  <2> QED
    BY <1>5, <2>1, <2>2, <2>3, <2>4
<1>6. ASSUME NEW a \in Apps, Run(a)
      PROVE  ProgressInv' /\ LedgerInv'
  <2>1. CASE Recover(a)
    <3>1. Jump(a, "schedule")
      BY <2>1 DEF Recover, Done, Handler
    <3>2. Audited(a)
      BY <2>1 DEF Recover, Audited
    <3> QED
      BY <2>1, <3>1, <3>2, AuditKept DEF Recover, local, Owning
  <2>2. CASE Schedule(a)
    BY <1>4, <2>2 DEF Schedule, TypeOK, database, Owning
  <2>3. CASE \/ Fire(a) \/ Enter(a) \/ TryLock(a) \/ Unlock(a) \/ Retain(a)
             \/ Cleanup(a)
    BY <1>4, <2>3 DEF Fire, Enter, TryLock, Unlock, Retain, Cleanup, Goto,
                      local, database, Owning
  <2>4. ASSUME NEW l, NEW won \in {"busy_finish", "locked_finish", "forecast"},
               NEW lost \in {"schedule", "cleanup"}, Claim(a, l, won, lost),
               l \in Operating, Handler(l) \notin Owning
        PROVE  ProgressInv' /\ LedgerInv'
    <3>1. at[a] \in Boundaries /\ UNCHANGED <<rows, at>>
      BY <2>4 DEF Claim, TypeOK
    <3>2. CASE attempt[at[a]] = "none"
      <4>1. attempt' = [attempt EXCEPT ![at[a]] = "running"]
        BY <2>4, <3>2 DEF Claim, SetStatus
      <4>2. attempt'[at[a]] = "running" /\ Audited(a)
        BY <3>1, <4>1 DEF TypeOK, Audited
      <4>3. PICK m \in {won, Handler(l)} : Jump(a, m)
        BY <2>4, <3>2 DEF Claim
      <4> QED
        BY <2>4, <3>1, <3>2, <4>2, <4>3, AuditKept DEF Advances
    <3>3. CASE attempt[at[a]] # "none"
      BY <1>4, <2>4, <3>1, <3>3 DEF Claim, Owning
    <3> QED
      BY <3>2, <3>3
  <2>5. CASE BusyClaim(a) \/ LockedClaim(a) \/ ClaimBoundary(a)
    BY <2>4, <2>5 DEF BusyClaim, LockedClaim, ClaimBoundary, Handler, Owning,
                      Operating, Working, Skipping
  <2>6. CASE FinishSkipped(a) \/ Finish(a)
    <3>1. PICK m \in {"schedule", "cleanup", "unlock", "fail"} : Jump(a, m)
      BY <2>6 DEF FinishSkipped, Finish, Done, Handler
    <3>2. Audited(a)
      BY <2>6 DEF FinishSkipped, Finish, SetStatus, Audited, TypeOK
    <3> QED
      BY <2>6, <3>1, <3>2, AuditKept DEF FinishSkipped, Finish, local, Owning
  <2>7. CASE Score(a)
    <3>1. PICK m \in {"reserve", "fail"} : Jump(a, m)
      BY <2>7 DEF Score, InTime, Done, Handler
    <3> QED
      BY <2>7, <3>1, AuditKept DEF Score, local, database, Audited, Advances,
                                   Owning
  <2>8. CASE SaveForecast(a)
    <3>1. PICK m \in {"score", "fail"} : Jump(a, m)
      BY <2>8 DEF SaveForecast, InTime, Done, Handler
    <3> QED
      BY <2>8, <3>1, RowKept DEF SaveForecast, local
  <2>9. CASE SaveReserve(a)
    <3>1. PICK m \in {"decide", "fail"} : Jump(a, m)
      BY <2>9 DEF SaveReserve, InTime, Done, Handler
    <3> QED
      BY <2>9, <3>1, RowKept DEF SaveReserve, local
  <2>10. CASE SaveDecision(a)
    <3>1. PICK m \in {"finish", "fail"} : Jump(a, m)
      BY <2>10 DEF SaveDecision, InTime, Done, Handler
    <3>2. CASE Save(a, "decision")
      BY <2>10, <3>1, <3>2, RowKept DEF SaveDecision, local
    <3>3. CASE UNCHANGED rows
      BY <1>4, <2>10, <3>1, <3>3 DEF SaveDecision, local, Owning
    <3> QED
      BY <2>10, <3>2, <3>3 DEF SaveDecision
  <2>11. CASE Fail(a)
    <3>1. Audited(a)
      BY <2>11 DEF Fail, SetStatus, Audited, TypeOK
    <3> QED
      BY <2>11, <3>1, AuditKept DEF Fail, local, Owning
  <2> QED
    BY <1>6, <2>1, <2>2, <2>3, <2>5, <2>6, <2>7, <2>8, <2>9, <2>10, <2>11
       DEF Run
<1> QED
  BY <1>1, <1>2, <1>3, <1>5, <1>6 DEF Next

-----------------------------------------------------------------------------
(* The advisory lock.                                                      *)

\* A step of one App that leaves every lock alone keeps the lock invariant.
LEMMA LockKept ==
  ASSUME TypeOK, LockInv, NEW a \in Apps, NEW m, Jump(a, m),
         UNCHANGED <<lock, token>>,
         m \in Working => token[a] # "none",
         m \in Unlocked => token[a] # "held"
  PROVE  LockInv'
  BY DEF TypeOK, LockInv, Jump

\* Every step keeps the lock invariant.
LEMMA LockStep == TypeOK /\ LockInv /\ [Next]_vars => LockInv'
<1> SUFFICES ASSUME TypeOK, LockInv, [Next]_vars
             PROVE  LockInv'
  OBVIOUS
<1>1. CASE UNCHANGED vars
  BY <1>1 DEF LockInv, vars
<1>2. CASE Tick
  BY <1>2 DEF LockInv, Tick, database, local
<1>3. ASSUME NEW b \in Boundaries, Age(b)
      PROVE  LockInv'
  BY <1>3 DEF LockInv, Age, local
<1>4. ASSUME NEW a \in Apps, NEW m, Jump(a, m), UNCHANGED <<lock, token>>,
             \/ pc[a] \in Unlocked /\ m \in Unlocked
             \/ m \notin Unlocked \cup Working
             \/ pc[a] \in Working /\ m \in Working
             \/ pc[a] \in Unlocked /\ m \notin Working
      PROVE  LockInv'
  BY <1>4, LockKept DEF LockInv, Unlocked, Working, Skipping
<1>5. ASSUME NEW a \in Apps, Start(a) \/ Kill(a) \/ Drop(a) \/ DatabaseFault(a)
      PROVE  LockInv'
  <2>1. CASE Start(a)
    BY <1>4, <2>1 DEF Start, Goto, local, database, Unlocked
  <2>2. CASE Kill(a)
    BY <2>2, CoordinatorAssumption
       DEF Kill, Jump, TypeOK, LockInv, Unlocked, Working, Skipping
  <2>3. CASE Drop(a)
    BY <2>3, CoordinatorAssumption DEF Drop, TypeOK, LockInv
  <2>4. CASE DatabaseFault(a)
    BY <1>4, <2>4 DEF DatabaseFault, Goto, local, database, Handler, Unlocked,
                      Working, Skipping
  <2> QED
    BY <1>5, <2>1, <2>2, <2>3, <2>4
<1>6. ASSUME NEW a \in Apps, Run(a)
      PROVE  LockInv'
  <2>1. CASE \/ Recover(a) \/ Schedule(a) \/ Fire(a)
    BY <1>4, <2>1 DEF Recover, Schedule, Fire, Goto, Done, Handler, local,
                      database, Unlocked
  <2>2. CASE Enter(a)
    BY <2>2 DEF Enter, Jump, database, TypeOK, LockInv, Unlocked, Working,
                Skipping
  <2>3. CASE BusyClaim(a) \/ LockedClaim(a) \/ ClaimBoundary(a)
    BY <1>4, <2>3 DEF BusyClaim, LockedClaim, ClaimBoundary, Claim, Handler,
                      Unlocked, Working, Skipping
  <2>4. CASE FinishSkipped(a)
    BY <1>4, <2>4 DEF FinishSkipped, Done, Handler, local, Unlocked, Working,
                      Skipping
  <2>5. CASE TryLock(a)
    BY <2>5, CoordinatorAssumption
       DEF TryLock, Jump, TypeOK, LockInv, Unlocked, Working, Skipping
  <2>6. CASE \/ SaveForecast(a) \/ Score(a) \/ SaveReserve(a)
             \/ SaveDecision(a) \/ Finish(a)
    BY <1>4, <2>6 DEF SaveForecast, Score, SaveReserve, SaveDecision, Finish,
                      InTime, Done, Handler, local, database, Unlocked, Working,
                      Skipping
  <2>7. CASE Unlock(a) \/ Cleanup(a)
    BY <2>7, CoordinatorAssumption
       DEF Unlock, Cleanup, Jump, TypeOK, LockInv, Unlocked, Working, Skipping
  <2>8. CASE Retain(a) \/ Fail(a)
    BY <1>4, <2>8 DEF Retain, Fail, Goto, local, database, Unlocked, Working,
                      Skipping
  <2> QED
    BY <1>6, <2>1, <2>2, <2>3, <2>4, <2>5, <2>6, <2>7, <2>8 DEF Run
<1> QED
  BY <1>1, <1>2, <1>3, <1>5, <1>6 DEF Next

-----------------------------------------------------------------------------
(* Theorems.                                                               *)

\* The initial state satisfies the invariant.
LEMMA InitInv == Init => IInv
<1> SUFFICES ASSUME Init
             PROVE  IInv
  OBVIOUS
<1>1. TypeOK
  BY DEF Init, TypeOK, Status, Operating, Working, Skipping
<1>2. ClaimInv /\ ProgressInv
  BY DEF Init, ClaimInv, ProgressInv, Owning, Producing, Operating, Working,
         Skipping
<1>3. LedgerInv
  BY DEF Init, LedgerInv, Nothing, Kinds
<1>4. LockInv
  BY CoordinatorAssumption DEF Init, LockInv, Unlocked, Working, Skipping
<1> QED
  BY <1>1, <1>2, <1>3, <1>4 DEF IInv

\* Whatever faults happen, each boundary has one owner, its rows are what that
\* owner has stored, and the advisory lock is where the Apps believe it is.
THEOREM InductiveInvariant == Spec => []IInv
<1>1. IInv /\ [Next]_vars => IInv'
  BY TypeStep, ClaimStep, LedgerStep, LockStep DEF IInv
<1> QED
  BY InitInv, <1>1, PTL DEF Spec

\* Every variable keeps its type.
THEOREM TypeInvariant == Spec => []TypeOK
<1>1. IInv => TypeOK
  BY DEF IInv
<1> QED
  BY <1>1, InductiveInvariant, PTL

\* No boundary is forecast, estimated or decided twice, with any number of Apps,
\* crashes, refused statements, lost replies and dropped connections.
THEOREM NoDuplicateRows == Spec => []OneRunPerBoundary
<1>1. IInv => OneRunPerBoundary
  BY DEF IInv, LedgerInv, OneRunPerBoundary
<1> QED
  BY <1>1, InductiveInvariant, PTL

\* What is stored for a boundary was claimed, and stored in order.
THEOREM RowsFollowClaim == Spec => []RowsAreClaimed
<1>1. IInv => RowsAreClaimed
  BY DEF IInv, TypeOK, LedgerInv, Nothing, RowsAreClaimed, Kinds, Status
<1> QED
  BY <1>1, InductiveInvariant, PTL

\* An attempt audited as a success has its forecast and its reserve snapshot.
THEOREM SuccessHasRows == Spec => []SuccessIsComplete
<1>1. IInv => SuccessIsComplete
  BY DEF IInv, LedgerInv, SuccessIsComplete
<1> QED
  BY <1>1, InductiveInvariant, PTL

\* The advisory lock keeps operations apart (try_forecast_operation_lock): two
\* are at work at once only when PostgreSQL dropped a connection that held it.
THEOREM LockExcludes == Spec => []OneOperation
<1>1. IInv => OneOperation
  <2> SUFFICES ASSUME IInv, NEW a \in Apps, NEW c \in Apps, a # c,
                      pc[a] \in Working, pc[c] \in Working
               PROVE  "broken" \in {token[a], token[c]}
    BY DEF OneOperation
  <2>1. /\ token[a] \in {"held", "broken"} /\ token[c] \in {"held", "broken"}
        /\ ~(token[a] = "held" /\ token[c] = "held")
    BY DEF IInv, TypeOK, LockInv
  <2> QED
    BY <2>1
<1> QED
  BY <1>1, InductiveInvariant, PTL

-----------------------------------------------------------------------------
(* What is audited is final.                                               *)

\* Every statement is answered, the lock's connection stays, and an operation that
\* overruns has no other App beside it that could recover its attempt.
Answered ==
  /\ Faults \cap {"reply", "drop"} = {}
  /\ "slow" \notin Faults \/ \A a, c \in Apps : a = c

\* An App that will say how the attempt at its boundary ended.
Owes(a) == pc[a] \in Owning \/ (pc[a] = "fail" /\ claimed[a])
Finished == {"success", "failed", "skipped"}
Unclaimed == {"try_lock", "claim", "busy_claim", "locked_claim"}

OwedInv ==
  /\ \A a \in Apps :
       /\ Owes(a) => /\ attempt[at[a]] = "running"
                     /\ "slow" \notin Faults => at[a] \notin aged
       /\ pc[a] \in Unclaimed => ~claimed[a]
       /\ token[a] # "broken"
  /\ \A a, c \in Apps : Owes(a) /\ Owes(c) /\ at[a] = at[c] => a = c
  /\ \A b \in aged : attempt[b] # "none"

Finality == \A b \in Boundaries : attempt[b] \in Finished => attempt'[b] = attempt[b]

\* A step of one App that writes the status of its own boundary only, and only to claim
\* it or as its owner.
LEMMA OwedKept ==
  ASSUME TypeOK, TypeOK', OwedInv, NEW a \in Apps, NEW m, Jump(a, m), aged' = aged,
         \A c \in Apps \ {a} : at'[c] = at[c] /\ claimed'[c] = claimed[c],
         \A c \in Apps : token'[c] # "broken",
         \A b \in Boundaries :
           \/ attempt'[b] = attempt[b]
           \/ b = at[a] /\ attempt'[b] # "none"
              /\ (Owes(a) \/ (attempt[b] = "none" /\ attempt'[b] = "running")),
         Owes(a)' => /\ at'[a] = at[a] /\ at[a] \in Boundaries
                     /\ attempt'[at[a]] = "running"
                     /\ Owes(a) \/ attempt[at[a]] = "none",
         m \in Unclaimed => ~claimed'[a]
  PROVE  OwedInv' /\ Finality
<1>1. pc'[a] = m /\ \A c \in Apps \ {a} : pc'[c] = pc[c]
  BY DEF Jump, TypeOK
<1>2. \A c \in Apps : Owes(c) => at[c] \in Boundaries
  BY DEF Owes, Owning, TypeOK, Operating, Working, Skipping
<1>3. \A c \in Apps \ {a} : Owes(c)' <=> Owes(c)
  BY <1>1 DEF Owes
<1>4. \A c \in Apps \ {a} : Owes(c) => attempt'[at[c]] = attempt[at[c]] /\ ~(Owes(a)' /\ at[a] = at[c])
  <2> SUFFICES ASSUME NEW c \in Apps \ {a}, Owes(c)
               PROVE  attempt'[at[c]] = attempt[at[c]] /\ ~(Owes(a)' /\ at[a] = at[c])
    OBVIOUS
  <2>1. attempt[at[c]] = "running" /\ ~(Owes(a) /\ at[a] = at[c]) /\ at[c] \in Boundaries
    BY <1>2 DEF OwedInv
  <2> QED
    BY <2>1
<1>5. \A c \in Apps :
        /\ Owes(c)' => /\ attempt'[at'[c]] = "running"
                       /\ "slow" \notin Faults => at'[c] \notin aged'
        /\ pc'[c] \in Unclaimed => ~claimed'[c]
        /\ token'[c] # "broken"
  <2> SUFFICES ASSUME NEW c \in Apps
               PROVE  /\ Owes(c)' => /\ attempt'[at'[c]] = "running"
                                     /\ "slow" \notin Faults => at'[c] \notin aged'
                      /\ pc'[c] \in Unclaimed => ~claimed'[c]
    OBVIOUS
  <2>1. CASE c # a
    BY <1>1, <1>3, <1>4, <2>1 DEF OwedInv
  <2>2. CASE c = a
    BY <1>1, <2>2 DEF OwedInv
  <2> QED
    BY <2>1, <2>2
<1>6. \A c, d \in Apps : Owes(c)' /\ Owes(d)' /\ at'[c] = at'[d] => c = d
  <2> SUFFICES ASSUME NEW c \in Apps, NEW d \in Apps, c # d, Owes(c)', Owes(d)', at'[c] = at'[d]
               PROVE  FALSE
    OBVIOUS
  <2>1. CASE c # a /\ d # a
    BY <1>3, <2>1 DEF OwedInv
  <2>2. CASE c = a
    BY <1>3, <1>4, <2>2
  <2>3. CASE d = a
    BY <1>3, <1>4, <2>3
  <2> QED
    BY <2>1, <2>2, <2>3
<1>7. \A b \in aged' : attempt'[b] # "none"
  BY DEF OwedInv, TypeOK
<1>8. Finality
  <2> SUFFICES ASSUME NEW b \in Boundaries, attempt[b] \in Finished, attempt'[b] # attempt[b]
               PROVE  FALSE
    BY DEF Finality
  <2>1. b = at[a] /\ Owes(a)
    BY DEF Finished
  <2> QED
    BY <2>1 DEF OwedInv, Finished
<1> QED
  BY <1>5, <1>6, <1>7, <1>8 DEF OwedInv

\* A step of an App to a place where it owes nothing, with no status written.
LEMMA NothingOwed ==
  ASSUME TypeOK, TypeOK', OwedInv, NEW a \in Apps, NEW m, Jump(a, m),
         m \notin Owning \cup {"fail"}, attempt' = attempt, aged' = aged,
         \A c \in Apps \ {a} : at'[c] = at[c] /\ claimed'[c] = claimed[c],
         \A c \in Apps : token'[c] # "broken",
         m \in Unclaimed => ~claimed'[a]
  PROVE  OwedInv' /\ Finality
<1>1. ~Owes(a)'
  BY DEF Owes, Jump, TypeOK
<1> QED
  BY <1>1, OwedKept

\* Every step keeps what is owed, and rewrites no finished status.
LEMMA OwedStep ==
  ASSUME Answered, IInv, TypeOK', OwedInv, [Next]_vars
  PROVE  OwedInv' /\ Finality
<1> USE DEF Finality
<1>0. TypeOK /\ LockInv
  BY DEF IInv
<1>1. CASE UNCHANGED vars
  BY <1>1 DEF vars, OwedInv, Owes
<1>2. CASE Tick
  BY <1>2 DEF Tick, database, local, OwedInv, Owes
<1>3. ASSUME NEW b \in Boundaries, Age(b)
      PROVE  OwedInv' /\ Finality
  <2>1. UNCHANGED <<attempt, pc, at, claimed, token>> /\ aged' = aged \cup {b}
        /\ attempt[b] = "running"
    BY <1>3 DEF Age, local
  <2>2. "slow" \notin Faults => \A a \in Apps : Owes(a) => at[a] # b
    BY <1>3 DEF Age, Owes, Owning, Operating, Working, Skipping
  <2> QED
    BY <2>1, <2>2 DEF OwedInv, Owes
<1>4. ASSUME NEW a \in Apps, Start(a) \/ Kill(a) \/ Drop(a) \/ DatabaseFault(a)
      PROVE  OwedInv' /\ Finality
  <2>1. CASE Start(a)
    BY <1>0, <2>1, NothingOwed DEF Start, Goto, local, database, Owning, OwedInv, Unclaimed
  <2>2. CASE Kill(a)
    <3>1. /\ \A c \in Apps \ {a} : at'[c] = at[c] /\ claimed'[c] = claimed[c]
          /\ \A c \in Apps : token'[c] # "broken"
      BY <1>0, <2>2 DEF Kill, TypeOK, OwedInv
    <3> QED
      BY <1>0, <2>2, <3>1, NothingOwed DEF Kill, Owning, Unclaimed
  <2>3. CASE Drop(a)
    BY <2>3 DEF Drop, Answered
  <2>4. CASE DatabaseFault(a)
    <3>1. /\ Jump(a, Handler(pc[a])) /\ UNCHANGED <<attempt, aged, at, claimed, token>>
          /\ pc'[a] = Handler(pc[a])
      BY <1>0, <2>4 DEF DatabaseFault, Goto, Jump, local, database, TypeOK
    <3>2. Handler(pc[a]) \notin Unclaimed
      BY HandlerTarget DEF Unclaimed
    <3>3. Owes(a)' => Owes(a)
      BY <2>4, <3>1
         DEF DatabaseFault, Handler, Owes, Owning, OwedInv, Unclaimed, Working, Skipping
    <3>4. Owes(a)' => at[a] \in Boundaries /\ attempt[at[a]] = "running"
      BY <1>0, <3>3 DEF OwedInv, Owes, Owning, TypeOK, Operating, Working, Skipping
    <3> QED
      BY <1>0, <3>1, <3>2, <3>3, <3>4, OwedKept DEF OwedInv
  <2> QED
    BY <1>4, <2>1, <2>2, <2>3, <2>4
<1>5. ASSUME NEW a \in Apps, Run(a)
      PROVE  OwedInv' /\ Finality
  <2>1. CASE Recover(a)
    <3>1. /\ Jump(a, "schedule") /\ UNCHANGED <<aged, at, claimed, token>>
          /\ attempt' = [b \in Boundaries |->
                           IF attempt[b] = "running" /\ b \in aged THEN "failed" ELSE attempt[b]]
      BY <2>1 DEF Recover, Done, Handler, local
    <3>2. pc'[a] = "schedule" /\ \A c \in Apps \ {a} : pc'[c] = pc[c]
      BY <1>0, <3>1 DEF Jump, TypeOK
    <3>3. ~Owes(a) /\ ~Owes(a)' /\ \A c \in Apps \ {a} : Owes(c)' <=> Owes(c)
      BY <2>1, <3>1, <3>2 DEF Recover, Owes, Owning
    <3>4. \A c \in Apps : Owes(c) => at[c] \notin aged /\ at[c] \in Boundaries
      BY <1>0, <3>3 DEF Answered, OwedInv, Owes, Owning, TypeOK, Operating, Working, Skipping
    <3>5. \A c \in Apps : Owes(c) => attempt'[at[c]] = "running"
      BY <3>1, <3>4 DEF OwedInv
    <3>6. \A b \in aged : attempt'[b] # "none"
      BY <1>0, <3>1 DEF OwedInv, TypeOK
    <3> QED
      BY <3>1, <3>2, <3>3, <3>4, <3>5, <3>6 DEF OwedInv, Finished, Unclaimed
  <2>2. CASE Schedule(a)
    <3>1. \A c \in Apps \ {a} : at'[c] = at[c]
      BY <1>0, <2>2 DEF Schedule, TypeOK
    <3> QED
      BY <1>0, <2>2, <3>1, NothingOwed DEF Schedule, database, Owning, OwedInv, Unclaimed
  <2>3. CASE Fire(a)
    BY <1>0, <2>3, NothingOwed DEF Fire, Goto, local, database, Owning, OwedInv, Unclaimed
  <2>4. CASE Enter(a)
    <3>1. /\ ~claimed'[a] /\ \A c \in Apps \ {a} : claimed'[c] = claimed[c]
          /\ \A c \in Apps : token'[c] # "broken"
      BY <1>0, <2>4 DEF Enter, TypeOK, OwedInv
    <3>2. PICK m \in {"busy_claim", "try_lock"} : Jump(a, m)
      BY <2>4 DEF Enter
    <3> QED
      BY <1>0, <2>4, <3>1, <3>2, NothingOwed DEF Enter, database, Owning
  <2>5. ASSUME NEW l \in {"busy_claim", "locked_claim", "claim"},
               NEW won \in Owning, NEW lost \in {"schedule", "cleanup"}, Claim(a, l, won, lost)
        PROVE  OwedInv' /\ Finality
    <3>1. /\ pc[a] = l /\ at[a] \in Boundaries /\ at' = at /\ aged' = aged /\ token' = token
          /\ ~Owes(a) /\ \A c \in Apps \ {a} : claimed'[c] = claimed[c]
      BY <1>0, <2>5 DEF Claim, TypeOK, Operating, Working, Skipping, Owes, Owning
    <3>2. CASE attempt[at[a]] = "none"
      <4>1. attempt' = [attempt EXCEPT ![at[a]] = "running"] /\ Jump(a, won)
        BY <2>5, <3>2 DEF Claim, SetStatus, Answered
      <4>2. won \notin Unclaimed
        BY DEF Owning, Unclaimed
      <4>3. attempt'[at[a]] = "running"
            /\ \A b \in Boundaries : attempt'[b] = attempt[b] \/ b = at[a]
        BY <1>0, <3>1, <4>1 DEF TypeOK
      <4> QED
        BY <1>0, <3>1, <3>2, <4>1, <4>2, <4>3, OwedKept DEF OwedInv
    <3>3. CASE attempt[at[a]] # "none"
      <4>1. attempt' = attempt /\ Jump(a, lost) /\ pc'[a] = lost
        BY <1>0, <2>5, <3>3 DEF Claim, Jump, TypeOK
      <4>2. ~Owes(a)' /\ lost \notin Unclaimed
        BY <4>1 DEF Owes, Owning, Unclaimed
      <4> QED
        BY <1>0, <3>1, <4>1, <4>2, OwedKept DEF OwedInv
    <3> QED
      BY <3>2, <3>3
  <2>6. CASE BusyClaim(a) \/ LockedClaim(a) \/ ClaimBoundary(a)
    BY <2>5, <2>6 DEF BusyClaim, LockedClaim, ClaimBoundary, Owning
  <2>7. CASE TryLock(a)
    BY <1>0, <2>7, OwedKept DEF TryLock, Jump, TypeOK, Owes, Owning, OwedInv, Unclaimed
  <2>8. ASSUME pc[a] \in Owning, NEW m \in Owning \cup {"fail"}, Jump(a, m),
               UNCHANGED <<attempt, aged, at, claimed, token>>
        PROVE  OwedInv' /\ Finality
    <3>1. Owes(a) /\ at[a] \in Boundaries /\ attempt[at[a]] = "running"
      BY <1>0, <2>8 DEF OwedInv, Owes, Owning, TypeOK, Operating, Working, Skipping
    <3> QED
      BY <1>0, <2>8, <3>1, OwedKept DEF OwedInv, Owning, Unclaimed
  <2>9. CASE SaveForecast(a) \/ Score(a) \/ SaveReserve(a) \/ SaveDecision(a)
    BY <2>8, <2>9 DEF SaveForecast, Score, SaveReserve, SaveDecision, InTime, Done, Answered,
                      local, database, Owning
  <2>10. ASSUME pc[a] \in Owning, NEW m \in {"schedule", "cleanup", "unlock"}, Jump(a, m),
                NEW st \in Finished, SetStatus(a, st), UNCHANGED <<aged, at, claimed, token>>
         PROVE  OwedInv' /\ Finality
    <3>1. Owes(a) /\ at[a] \in Boundaries /\ pc'[a] = m /\ ~Owes(a)'
      BY <1>0, <2>10 DEF Owes, Owning, TypeOK, Operating, Working, Skipping, Jump
    <3>2. st # "none" /\ attempt'[at[a]] = st
          /\ \A b \in Boundaries : attempt'[b] = attempt[b] \/ b = at[a]
      BY <1>0, <2>10, <3>1 DEF SetStatus, TypeOK, Finished
    <3> QED
      BY <1>0, <2>10, <3>1, <3>2, OwedKept DEF OwedInv, Unclaimed
  <2>11. CASE FinishSkipped(a) \/ Finish(a)
    BY <2>10, <2>11 DEF FinishSkipped, Finish, Done, Answered, local, Owning, Finished
  <2>12. ASSUME NEW m \in {"retain", "cleanup", "schedule"}, Jump(a, m), ~Owes(a),
                attempt' = attempt, aged' = aged, at' = at, claimed' = claimed,
                \A c \in Apps : token'[c] # "broken"
         PROVE  OwedInv' /\ Finality
    <3>1. ~Owes(a)'
      BY <1>0, <2>12 DEF Owes, Owning, Jump, TypeOK
    <3> QED
      BY <1>0, <2>12, <3>1, OwedKept DEF Unclaimed
  <2>13. CASE Unlock(a) \/ Retain(a) \/ Cleanup(a)
    <3>1. pc[a] = "unlock" => token[a] = "held"
      BY <1>0 DEF LockInv, OwedInv, TypeOK, Working
    <3>2. \A c \in Apps : token'[c] # "broken"
      BY <1>0, <2>13 DEF Unlock, Retain, Cleanup, Goto, local, TypeOK, OwedInv
    <3> QED
      BY <2>12, <2>13, <3>1, <3>2 DEF Unlock, Retain, Cleanup, Goto, local, database, Owes, Owning
  <2>14. CASE Fail(a)
    <3>1. at[a] \in Boundaries /\ Jump(a, "cleanup") /\ ~Owes(a)' /\ (Owes(a) <=> claimed[a])
      BY <1>0, <2>14 DEF Fail, Owes, Owning, TypeOK, Operating, Jump
    <3>2. \A b \in Boundaries : attempt'[b] = attempt[b]
                                \/ (b = at[a] /\ attempt'[b] = "failed" /\ claimed[a])
      BY <1>0, <2>14, <3>1 DEF Fail, SetStatus, TypeOK
    <3> QED
      BY <1>0, <2>14, <3>1, <3>2, OwedKept DEF Fail, local, OwedInv, Unclaimed
  <2> QED
    BY <1>5, <2>1, <2>2, <2>3, <2>4, <2>6, <2>7, <2>9, <2>11, <2>13, <2>14 DEF Run
<1> QED
  BY <1>1, <1>2, <1>3, <1>4, <1>5 DEF Next

\* What the audit says of a finished attempt is never rewritten, with any number of
\* boundaries and any crashes and refused statements, as long as every statement that
\* commits is answered and the lock's connection stays, and an operation overruns its
\* runtime only where one App runs.
THEOREM StatusStaysFinal ==
  ASSUME Answered
  PROVE  Spec => StatusIsFinal
<1>1. Init => OwedInv
  BY DEF Init, OwedInv, Owes, Owning, Unclaimed
<1>2. IInv /\ IInv' /\ OwedInv /\ [Next]_vars => OwedInv' /\ Finality
  BY OwedStep DEF IInv
<1>3. Finality => [\A b \in Boundaries : attempt[b] \in {"success", "failed", "skipped"} =>
                     attempt'[b] = attempt[b]]_vars
  BY DEF Finality, Finished
<1> QED
  BY <1>1, <1>2, <1>3, InductiveInvariant, PTL DEF Spec, StatusIsFinal
=============================================================================
