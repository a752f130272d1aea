-------------------------- MODULE ForecastRetention --------------------------
(***************************************************************************)
(* Forecast detail from its creation to its deletion: the coordinator saves *)
(* points (db/repository.py), scores them and rebuilds accuracy rollups of *)
(* whole local dates (forecast_operations.py, forecast_rollups.py);        *)
(* retention (forecast_retention.py) deletes the old detail in batches     *)
(* under one claim per UTC date, after a preflight on row counts.          *)
(*                                                                         *)
(* Retention runs after the advisory lock is released, and an operator may *)
(* run it at the same time (tools/inspect_forecast_retention.py --apply).  *)
(*                                                                         *)
(* Time is counted in slots, a slot being the time between two boundaries  *)
(* and the targets of the points that start in it.  A run at slot n makes  *)
(* one point for n and one for n + 1, the near and the far horizon.        *)
(***************************************************************************)
EXTENDS Integers, FiniteSets, FiniteSetsExt

CONSTANTS Days,        \* local dates 0 .. Days - 1
          Slots,       \* slots of a day
          Offset,      \* slots by which the UTC date lags the local one
          Window,      \* calibration_window_days
          Keep,        \* forecast_point_retention_days
          RunKeep,     \* forecast_run_retention_days
          DetailBatch, \* DETAIL_BATCH_SIZE
          RunBatch,    \* METADATA_BATCH_SIZE
          MaxBatches,  \* MAX_DETAIL_ and MAX_METADATA_BATCHES_PER_RUN
          Tools,       \* operator processes that run retention
          Active,      \* slots in which the App runs
          Missing,     \* slots that may have no eligible observation
          Shadow       \* slots in which shadow decisions are enabled

ASSUME RetentionAssumption ==
  /\ {Days, Slots, Window, Keep, RunKeep, DetailBatch, RunBatch, MaxBatches}
       \subseteq Nat \ {0}
  /\ Offset \in 0 .. Slots
  /\ Window + 1 < Keep
  /\ "app" \notin Tools

Now      == 0 .. Days * Slots - 1
Horizons == {"near", "far"}
Points   == (0 .. Days * Slots) \X Horizons
Dates    == 0 .. Days
Workers  == Tools \cup {"app"}

Target(p)  == p[1]
Date(t)    == t \div Slots
UtcDate(t) == (t + Slots - Offset) \div Slots
MadeBy(n)  == {<<n, "near">>, <<n + 1, "far">>}

VARIABLES now,      \* the current slot
          points,   \* forecast_points
          deleted,  \* by UTC date, the points its retention run has deleted
          scored,   \* points with a target before it have a score
          measured, \* the slots whose household load is eligible
          rollup,   \* by local date, the points its rollup rows count
          latest,   \* maximum_target_utc of a rollup row, -1: NULL
          runs,     \* forecast_runs, with their reserve run
          decided,  \* the runs a shadow decision refers to
          attempts, \* forecast_operation_attempts
          claim,    \* forecast_maintenance_runs.status, by UTC date
          audited,  \* forecast_maintenance_runs.points_deleted
          step,     \* where the coordinator's operation is
          op,       \* its boundary
          todo,     \* the local dates it is about to refresh
          pc,       \* where a worker is in run_forecast_retention
          cut,      \* the last slot before its point_cutoff
          day,      \* its boundary_date
          batches   \* batches done in its present loop

detail     == <<points, deleted>>
accuracy   == <<scored, measured, rollup, latest>>
metadata   == <<runs, decided, attempts>>
audit      == <<claim, audited>>
operation  == <<step, op, todo>>
retention  == <<pc, cut, day, batches>>
vars       == <<now, points, deleted, scored, measured, rollup, latest, runs,
                decided, attempts, claim, audited, step, op, todo, pc, cut, day,
                batches>>

TypeOK ==
  /\ now \in Now
  /\ points \subseteq Points /\ deleted \in [Dates -> SUBSET Points]
  /\ scored \in 0 .. Days * Slots
  /\ measured \subseteq Now
  /\ rollup \in [Dates -> SUBSET Points]
  /\ latest \in [Dates \X Horizons -> Int]
  /\ runs \subseteq Now /\ decided \subseteq runs /\ attempts \subseteq Now
  /\ claim \in [Dates -> {"none", "running", "success", "failed"}]
  /\ audited \in [Dates -> Nat]
  /\ step \in {"idle", "save", "score", "inventory", "refresh", "decide"}
  /\ op \in Now
  /\ todo \subseteq Dates
  /\ pc \in [Workers -> {"idle", "preflight", "claim", "detail", "attempts",
                         "runs", "success", "failed"}]
  /\ cut \in [Workers -> Int]
  /\ day \in [Workers -> Dates]
  /\ batches \in [Workers -> 0 .. MaxBatches]

Init ==
  /\ now = 0
  /\ points = {} /\ deleted = [d \in Dates |-> {}]
  /\ scored = 0
  /\ measured = {}
  /\ rollup = [d \in Dates |-> {}]
  /\ latest = [g \in Dates \X Horizons |-> -1]
  /\ runs = {} /\ decided = {} /\ attempts = {}
  /\ claim = [d \in Dates |-> "none"]
  /\ audited = [d \in Dates |-> 0]
  /\ step = "idle" /\ op = 0 /\ todo = {}
  /\ pc = [w \in Workers |-> "idle"]
  /\ cut = [w \in Workers |-> -1]
  /\ day = [w \in Workers |-> 0]
  /\ batches = [w \in Workers |-> 0]

EndOperation == step' = "idle" /\ op' = 0 /\ todo' = {}

\* The local variables of a worker of run_forecast_retention.
Begin(w) ==
  /\ now >= Keep * Slots
  /\ pc' = [pc EXCEPT ![w] = "preflight"]
  /\ \E edge \in {0, 1} : cut' = [cut EXCEPT ![w] = now - Keep * Slots - edge]
  /\ day' = [day EXCEPT ![w] = UtcDate(now)]
  /\ UNCHANGED batches
Leave(w) ==
  /\ pc' = [pc EXCEPT ![w] = "idle"]
  /\ cut' = [cut EXCEPT ![w] = -1]
  /\ day' = [day EXCEPT ![w] = 0]
  /\ batches' = [batches EXCEPT ![w] = 0]
Goto(w, l) == pc' = [pc EXCEPT ![w] = l] /\ UNCHANGED <<cut, day, batches>>

-----------------------------------------------------------------------------
(* Time and faults.                                                        *)

\* A slot ends, with or without an eligible observation of its load.  An
\* operation is over in the slot after its own (max_runtime_seconds).
Tick ==
  /\ now + 1 \in Now
  /\ step # "idle" => now = op
  /\ now' = now + 1
  /\ \/ measured' = measured \cup {now}
     \/ now \in Missing /\ UNCHANGED measured
  /\ UNCHANGED <<detail, scored, rollup, latest, metadata, audit, operation,
                 retention>>

\* The App's process ends.
Kill ==
  /\ step # "idle" \/ pc["app"] # "idle"
  /\ EndOperation
  /\ Leave("app")
  /\ UNCHANGED <<now, detail, accuracy, metadata, audit>>

\* A statement of the operation is refused.  The refresh is contained, anything
\* else ends the operation, and retention is not reached.
OperationFault ==
  /\ step # "idle"
  /\ IF step \in {"inventory", "refresh"}
     THEN step' = "decide" /\ todo' = {} /\ UNCHANGED op
     ELSE EndOperation
  /\ UNCHANGED <<now, detail, accuracy, metadata, audit, retention>>

-----------------------------------------------------------------------------
(* One operation of the coordinator, under its advisory lock.              *)

\* run_boundary claims the present boundary.
StartOperation ==
  /\ step = "idle" /\ pc["app"] = "idle"
  /\ now \in Active \ attempts
  /\ attempts' = attempts \cup {now}
  /\ op' = now
  /\ step' = "save"
  /\ UNCHANGED <<now, detail, accuracy, runs, decided, audit, todo, retention>>

SaveRun ==
  /\ step = "save"
  /\ runs' = runs \cup {op}
  /\ points' = points \cup MadeBy(op)
  /\ step' = "score"
  /\ UNCHANGED <<now, deleted, accuracy, decided, attempts, audit, op, todo,
                 retention>>

\* score_completed_forecast_points: the earliest points that are due, as many
\* as the batch takes.
Score ==
  /\ step = "score"
  /\ scored' \in {scored, now}
  /\ step' = "inventory"
  /\ UNCHANGED <<now, detail, measured, rollup, latest, metadata, audit, op,
                 todo, retention>>

InWindow(d) == Date(op) - Window <= d /\ d < Date(op)

\* forecast_rollup_backfill_status: the dates of the window with scored detail
\* for which some horizon has no rollup row.
Remaining ==
  {d \in Dates :
     /\ InWindow(d)
     /\ \E p \in points : Date(Target(p)) = d /\ Target(p) < scored
     /\ \E h \in Horizons : \A p \in rollup[d] : p[2] # h}

\* Mutant: the refresh takes the present date too.
InventoryToday ==
  /\ step = "inventory"
  /\ todo' = {d \in Remaining : Cardinality({e \in Remaining : e < d}) < 2}
               \cup {d \in Dates : InWindow(d) /\ d = Date(op) - 1}
               \cup {Date(op)}
  /\ step' = "refresh"
  /\ UNCHANGED <<now, detail, accuracy, metadata, audit, op, retention>>

\* Mutant: every date with a missing horizon is rebuilt, however old.
InventoryAll ==
  /\ step = "inventory"
  /\ todo' = {d \in Dates : d < Date(op)
                /\ \E h \in Horizons : \A p \in rollup[d] : p[2] # h}
  /\ step' = "refresh"
  /\ UNCHANGED <<now, detail, accuracy, metadata, audit, op, retention>>

\* The two earliest of them, and yesterday.
Inventory ==
  /\ step = "inventory"
  /\ todo' = {d \in Remaining : Cardinality({e \in Remaining : e < d}) < 2}
               \cup {d \in Dates : InWindow(d) /\ d = Date(op) - 1}
  /\ step' = "refresh"
  /\ UNCHANGED <<now, detail, accuracy, metadata, audit, op, retention>>

Of(d) == {p \in points : Date(Target(p)) = d}
Eligible(p) == Target(p) < scored /\ Target(p) \in measured

\* refresh_forecast_accuracy_rollups, one date: its rollups are replaced by
\* those of the detail there is.  Reading and replacing are one step, because
\* only the operation itself, under its lock, writes detail of these dates.
Refresh ==
  /\ step = "refresh"
  /\ IF todo = {}
     THEN /\ step' = "decide"
          /\ UNCHANGED <<rollup, latest, todo>>
     ELSE LET d == Min(todo)
              Last(h) == Max({Target(p) : p \in {q \in Of(d) : q[2] = h /\ Eligible(q)}}
                               \cup {-1})
          IN  /\ rollup' = [rollup EXCEPT ![d] = Of(d)]
              /\ latest' = [g \in Dates \X Horizons |->
                              IF g[1] = d THEN Last(g[2]) ELSE latest[g]]
              /\ todo' = todo \ {d}
              /\ UNCHANGED step
  /\ UNCHANGED <<now, detail, scored, measured, metadata, audit, op, retention>>

\* A shadow decision is stored, the lock is released, and retention begins if
\* it is enabled.
Decide ==
  /\ step = "decide"
  /\ decided' = decided \cup ({op} \cap Shadow)
  /\ EndOperation
  /\ UNCHANGED retention \/ Begin("app")
  /\ UNCHANGED <<now, detail, accuracy, runs, attempts, audit>>

-----------------------------------------------------------------------------
(* run_forecast_retention.  Its cutoffs may fall before or after the points *)
(* of a slot; it is looked at from the time detail can be old enough.      *)

\* An operator starts the tool: inspect_forecast_retention.py --apply.
StartTool(w) ==
  /\ w \in Tools /\ pc[w] = "idle"
  /\ Begin(w)
  /\ UNCHANGED <<now, detail, accuracy, metadata, audit, operation>>

Candidates(w) == {p \in points : Target(p) <= cut[w]}

\* The points counted by the rollup rows whose latest target has expired.
Counted(w) == {p \in UNION {rollup[d] : d \in Dates} :
                 latest[<<Date(Target(p)), p[2]>>] \in 0 .. cut[w]}

\* safe_to_prune of _rollup_coverage_preflight: a comparison of numbers of rows.
SafeToPrune(w) == \/ Candidates(w) = {}
                  \/ Cardinality(Candidates(w)) = Cardinality(Counted(w))

\* _daily_run, _detail_counts and the preflight read one after the other, but
\* what they read only shrinks, through the other workers' batches.
Preflight(w) ==
  /\ pc[w] = "preflight"
  /\ IF claim[day[w]] = "none" /\ SafeToPrune(w) THEN Goto(w, "claim")
                                                ELSE Leave(w)
  /\ UNCHANGED <<now, detail, accuracy, metadata, audit, operation>>

\* Mutant: the insert does not look for a conflict, the preflight did.
ClaimAgain(w) ==
  /\ pc[w] = "claim"
  /\ claim' = [claim EXCEPT ![day[w]] = "running"]
  /\ Goto(w, "detail")
  /\ UNCHANGED <<now, detail, accuracy, metadata, audited, operation>>

\* _claim_daily_run; a lost reply leaves the claim running and nobody at work.
Claim(w) ==
  /\ pc[w] = "claim"
  /\ IF claim[day[w]] = "none"
     THEN /\ claim' = [claim EXCEPT ![day[w]] = "running"]
          /\ Goto(w, "detail") \/ Leave(w)
     ELSE Leave(w) /\ UNCHANGED claim
  /\ UNCHANGED <<now, detail, accuracy, metadata, audited, operation>>

\* The n first of a set of points by period_start and id: of two points with
\* one target, the far one was saved first.
Before(p, q) == \/ Target(p) < Target(q)
                \/ Target(p) = Target(q) /\ p[2] = "far" /\ q[2] = "near"
Oldest(S, n) == {p \in S : Cardinality({q \in S : Before(q, p)}) < n}

\* After a batch of size done in a loop: a full one is followed by another.
Continue(w, size, full, here, next) ==
  IF size = full /\ batches[w] + 1 < MaxBatches
  THEN /\ batches' = [batches EXCEPT ![w] = @ + 1]
       /\ pc' = [pc EXCEPT ![w] = here]
       /\ UNCHANGED <<cut, day>>
  ELSE /\ batches' = [batches EXCEPT ![w] = 0]
       /\ pc' = [pc EXCEPT ![w] = next]
       /\ UNCHANGED <<cut, day>>

\* Mutant: the delete and its audit are two transactions, the second is lost.
PruneUnaudited(w) ==
  /\ pc[w] = "detail"
  /\ LET batch == Oldest(Candidates(w), DetailBatch)
     IN  /\ points' = points \ batch
         /\ deleted' = [deleted EXCEPT ![day[w]] = @ \cup batch]
         /\ Continue(w, Cardinality(batch), DetailBatch, "detail", "attempts")
  /\ UNCHANGED <<now, accuracy, metadata, claim, audited, operation>>

\* _prune_detail_batch: points, their scores and the audit in one transaction.
PruneDetail(w) ==
  /\ pc[w] = "detail"
  /\ LET batch == Oldest(Candidates(w), DetailBatch)
     IN  /\ points' = points \ batch
         /\ deleted' = [deleted EXCEPT ![day[w]] = @ \cup batch]
         /\ audited' = [audited EXCEPT ![day[w]] = @ + Cardinality(batch)]
         /\ Continue(w, Cardinality(batch), DetailBatch, "detail", "attempts")
  /\ UNCHANGED <<now, accuracy, metadata, claim, operation>>

RunCut(w) == cut[w] + (Keep - RunKeep) * Slots
OldestSlots(S, n) == {m \in S : Cardinality({k \in S : k < m}) < n}

\* _prune_attempt_batch
PruneAttempts(w) ==
  /\ pc[w] = "attempts"
  /\ LET batch == OldestSlots({n \in attempts : n <= RunCut(w)}, RunBatch)
     IN  /\ attempts' = attempts \ batch
         /\ Continue(w, Cardinality(batch), RunBatch, "attempts", "runs")
  /\ UNCHANGED <<now, detail, accuracy, runs, decided, audit, operation>>

\* _prune_run_batch: runs without points, with their reserve runs.  A decision
\* or an attempt that refers to one of them refuses the whole batch.
PruneRuns(w) ==
  /\ pc[w] = "runs"
  /\ LET batch == OldestSlots({n \in runs : n <= RunCut(w)
                                /\ MadeBy(n) \cap points = {}}, RunBatch)
     IN  IF batch \cap (decided \cup attempts) = {}
         THEN /\ runs' = runs \ batch
              /\ Continue(w, Cardinality(batch), RunBatch, "runs", "success")
         ELSE Goto(w, "failed") /\ UNCHANGED runs
  /\ UNCHANGED <<now, detail, accuracy, decided, attempts, audit, operation>>

\* The deadline, a shutdown or a refused statement between two batches.
Interrupt(w) ==
  /\ pc[w] \in {"detail", "attempts", "runs"}
  /\ Goto(w, "failed")
  /\ UNCHANGED <<now, detail, accuracy, metadata, audit, operation>>

\* _finish_daily_run
Finish(w) ==
  /\ pc[w] \in {"success", "failed"}
  /\ claim' = [claim EXCEPT ![day[w]] = pc[w]]
  /\ Leave(w)
  /\ UNCHANGED <<now, detail, accuracy, metadata, audited, operation>>

\* A read or the final update is refused: run_forecast_retention raises.
RetentionFault(w) ==
  /\ pc[w] \in {"preflight", "claim", "success", "failed"}
  /\ Leave(w)
  /\ UNCHANGED <<now, detail, accuracy, metadata, audit, operation>>

-----------------------------------------------------------------------------
Operate == \/ StartOperation \/ SaveRun \/ Score \/ Inventory \/ Refresh
           \/ Decide
Retain(w) == \/ StartTool(w) \/ Preflight(w) \/ Claim(w) \/ PruneDetail(w)
             \/ PruneAttempts(w) \/ PruneRuns(w) \/ Interrupt(w) \/ Finish(w)
             \/ RetentionFault(w)

Next == \/ Tick \/ Kill \/ OperationFault \/ Operate
        \/ \E w \in Workers : Retain(w)

Spec == Init /\ [][Next]_vars

-----------------------------------------------------------------------------
(* Properties.                                                             *)

\* What is deleted on one UTC date stays within one run's capacity, however
\* many Apps and tools start retention on that date, fail, or are killed and
\* started again ("at most one run per UTC date", "no same-day retry").
DailyCapacity ==
  \A d \in Dates : audited[d] <= DetailBatch * MaxBatches

\* The audit of a date counts every point deleted under its claim, whenever the run
\* was interrupted (_prune_detail_batch updates points_deleted with the delete).
AuditIsExact ==
  \A d \in Dates : audited[d] = Cardinality(deleted[d])

Gone == UNION {deleted[d] : d \in Dates}

\* A rollup row counts whole local dates only: a date that has one and of which
\* nothing has been deleted is counted to the last point ("partial batches are
\* never treated as calibration-complete").
RollupIsWhole ==
  \A d \in Dates :
    rollup[d] # {} /\ (\A p \in Gone : Date(Target(p)) # d) => rollup[d] = Of(d)

\* A deleted point that a rollup counts is counted for good: no refresh
\* rebuilds a date from what retention has left of it ("compact daily accuracy
\* rollups indefinitely").
DeletedStayCounted ==
  [][\A d \in Dates : rollup[d] \cap Gone \subseteq rollup'[d]]_vars

\* "Fail closed unless durable rollups cover every candidate detail row"
\* (_rollup_coverage_preflight): what is deleted is counted by a rollup.
DeletedAreCounted ==
  \A p \in Gone : p \in rollup[Date(Target(p))]

-----------------------------------------------------------------------------
(* The inductive invariant.                                                *)

Working == {"detail", "attempts", "runs", "success", "failed"}
Expired == now - Keep * Slots

\* An operation is over in the slot after its own; what it saved is there still.
OperationInv ==
  /\ step # "idle" => op <= now /\ now <= op + 1 /\ pc["app"] = "idle"
  /\ step \in {"score", "inventory", "refresh", "decide"} => op \in runs /\ MadeBy(op) \subseteq points
  /\ step # "refresh" => todo = {}
  /\ \A d \in todo : InWindow(d)

\* What is deleted is old, for good, and not there any more.
GoneInv ==
  /\ \A w \in Workers : pc[w] # "idle" => cut[w] <= Expired
  /\ \A p \in Gone : Target(p) <= Expired
  /\ points \cap Gone = {}

\* A rollup is of a date before that of the operation.
RollupInv ==
  \A d \in Dates :
    /\ \A p \in rollup[d] : Date(Target(p)) = d
    /\ rollup[d] # {} => d < Date(now) /\ (step # "idle" => d < Date(op))

\* A claim has one worker, who has deleted what its batches allow.
ClaimInv ==
  /\ \A v, w \in Workers : pc[v] \in Working /\ pc[w] \in Working /\ day[v] = day[w] => v = w
  /\ \A w \in Workers :
       /\ pc[w] \in Working => claim[day[w]] # "none"
       /\ pc[w] \in {"idle", "preflight", "claim"} => batches[w] = 0
       /\ pc[w] = "detail" => /\ batches[w] < MaxBatches
                              /\ audited[day[w]] <= DetailBatch * batches[w]
  /\ \A d \in Dates : claim[d] = "none" => audited[d] = 0

IInv == /\ TypeOK /\ OperationInv /\ GoneInv /\ RollupInv /\ ClaimInv
        /\ DailyCapacity /\ AuditIsExact /\ RollupIsWhole
=============================================================================
