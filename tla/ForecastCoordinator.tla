------------------------ MODULE ForecastCoordinator ------------------------
(***************************************************************************)
(* ForecastCoordinator (forecast_operations.py) in App instances that      *)
(* share one PostgreSQL database: the in-process lock _active, the session *)
(* advisory lock, the durable claim of each aligned boundary, the rows an  *)
(* operation saves, its audit status, and recovery at start-up.            *)
(*                                                                         *)
(* Every statement is a step: the App may be killed, the database may      *)
(* refuse, or the reply may be lost after the commit, between any two.     *)
(* Scoring, rollups, outcomes, capture and retention change tables of      *)
(* their own; here they are the time they take and the errors they raise.  *)
(***************************************************************************)
EXTENDS Integers

CONSTANTS Last,        \* how many aligned boundaries pass
          Apps,        \* App instances
          Faults,      \* what the environment may do, of Environment
          None         \* nobody

(***************************************************************************)
(*   kill      the process of an App ends anywhere                         *)
(*   database  a statement is refused (timeout, connection)                *)
(*   reply     a statement commits and its reply is lost                   *)
(*   drop      the connection that holds the advisory lock is dropped      *)
(*   slow      an operation takes longer than max_runtime_seconds          *)
(***************************************************************************)
Boundaries  == 1 .. Last
Environment == {"kill", "database", "reply", "drop", "slow"}

ASSUME CoordinatorAssumption ==
  /\ Last \in Nat
  /\ Faults \subseteq Environment
  /\ None \notin Apps

VARIABLES now,      \* the last boundary that has passed
          attempt,  \* forecast_operation_attempts.status
          aged,     \* the attempts started longer than max_runtime ago
          rows,     \* the rows saved for a boundary, by kind
          lock,     \* the App whose session holds the advisory lock
          pc,       \* where each coordinator thread is
          at,       \* the boundary it waits for or works on
          active,   \* the in-process lock _active
          token,    \* durable_lock: none, held or (dropped) broken
          claimed   \* attempt_id is not None

database == <<attempt, aged, rows, lock>>
local    == <<at, active, token, claimed>>
vars     == <<now, attempt, aged, rows, lock, pc, at, active, token, claimed>>

Kinds  == {"forecast", "reserve", "decision"}
Status == {"none", "running", "success", "failed", "skipped"}

\* Under the advisory lock, with the boundary still to be claimed or claimed.
Working == {"claim", "forecast", "score", "reserve", "decide", "finish",
            "unlock"}
Skipping  == {"busy_claim", "busy_finish", "locked_claim", "locked_finish"}
Operating == Working \cup Skipping \cup {"enter", "try_lock", "retain", "fail",
                                         "cleanup"}

TypeOK ==
  /\ now \in Boundaries \cup {0}
  /\ attempt \in [Boundaries -> Status]
  /\ aged \subseteq Boundaries
  /\ rows \in [Boundaries -> [Kinds -> Nat]]
  /\ lock \in Apps \cup {None}
  /\ pc \in [Apps -> Operating \cup {"down", "recover", "schedule", "wait"}]
  /\ at \in [Apps -> Boundaries \cup {0}]
  /\ active \in [Apps -> BOOLEAN]
  /\ token \in [Apps -> {"none", "held", "broken"}]
  /\ claimed \in [Apps -> BOOLEAN]
  /\ \A a \in Apps :
       pc[a] \in Operating \cup {"wait"} => at[a] \in Boundaries

Init ==
  /\ now = 0
  /\ attempt = [b \in Boundaries |-> "none"]
  /\ aged = {}
  /\ rows = [b \in Boundaries |-> [k \in Kinds |-> 0]]
  /\ lock = None
  /\ pc = [a \in Apps |-> "down"]
  /\ at = [a \in Apps |-> 0]
  /\ active = [a \in Apps |-> FALSE]
  /\ token = [a \in Apps |-> "none"]
  /\ claimed = [a \in Apps |-> FALSE]

Jump(a, l) == pc' = [pc EXCEPT ![a] = l]
Goto(a, l) == Jump(a, l) /\ UNCHANGED local

\* Mutant: the reserve snapshot is optional, its errors contained like a decision's.
HandlerReserve(l) == IF l \in {"recover", "enter", "busy_claim", "busy_finish"}
                     THEN "schedule"
                     ELSE IF l \in {"reserve", "decide"} THEN "finish"
                     ELSE IF l = "fail" THEN "cleanup"
                     ELSE "fail"

\* Where an exception raised at l is handled: by the caller's try, by the one
\* around the optional part, or by the handler of run_boundary.
Handler(l) == IF l \in {"recover", "enter", "busy_claim", "busy_finish"}
              THEN "schedule"
              ELSE IF l = "decide" THEN "finish"
              ELSE IF l = "fail" THEN "cleanup"
              ELSE "fail"

\* The statement at pc[a] is done: go on at l, or take its exception.
Done(a, l) == \/ Jump(a, l)
              \/ "reply" \in Faults /\ Jump(a, Handler(pc[a]))

\* _check_deadline: an operation older than its runtime may be over it.
InTime(a, l) == \/ Done(a, l)
                \/ at[a] \in aged /\ Jump(a, "fail")

SetStatus(a, st) == attempt' = [attempt EXCEPT ![at[a]] = st]
Save(a, kind) == rows' = [rows EXCEPT ![at[a]][kind] = @ + 1]

-----------------------------------------------------------------------------
(* Time, processes and faults.                                             *)

\* The next boundary passes.  An operation is only overtaken by it when slow.
Tick ==
  /\ now + 1 \in Boundaries
  /\ "slow" \in Faults \/ \A a \in Apps : pc[a] \notin Operating
  /\ now' = now + 1
  /\ UNCHANGED <<database, pc, local>>

\* A running attempt becomes older than max_runtime_seconds.
Age(b) ==
  /\ attempt[b] = "running" /\ b \notin aged
  /\ \/ "slow" \in Faults
     \/ \A a \in Apps : ~(pc[a] \in Operating /\ at[a] = b)
  /\ aged' = aged \cup {b}
  /\ UNCHANGED <<now, attempt, rows, lock, pc, local>>

Start(a) ==
  /\ pc[a] = "down"
  /\ Goto(a, "recover")
  /\ UNCHANGED <<now, database>>

\* The process ends; its sessions, and the advisory lock with them, end too.
Kill(a) ==
  /\ "kill" \in Faults
  /\ pc[a] # "down"
  /\ Jump(a, "down")
  /\ at' = [at EXCEPT ![a] = 0]
  /\ active' = [active EXCEPT ![a] = FALSE]
  /\ token' = [token EXCEPT ![a] = "none"]
  /\ claimed' = [claimed EXCEPT ![a] = FALSE]
  /\ lock' = IF lock = a THEN None ELSE lock
  /\ UNCHANGED <<now, attempt, aged, rows>>

\* The lock's connection sits idle in its transaction for the whole operation.
Drop(a) ==
  /\ "drop" \in Faults
  /\ token[a] = "held"
  /\ token' = [token EXCEPT ![a] = "broken"]
  /\ lock' = None
  /\ UNCHANGED <<now, attempt, aged, rows, pc, at, active, claimed>>

DatabaseFault(a) ==
  /\ "database" \in Faults
  /\ pc[a] \in Skipping \cup (Working \ {"unlock"})
               \cup {"recover", "enter", "try_lock", "fail"}
  /\ Goto(a, Handler(pc[a]))
  /\ UNCHANGED <<now, database>>

-----------------------------------------------------------------------------
(* The scheduling thread.                                                  *)

\* Mutant: recovery does not look at the status.
RecoverAny(a) ==
  /\ pc[a] = "recover"
  /\ attempt' = [b \in Boundaries |-> IF b \in aged THEN "failed" ELSE attempt[b]]
  /\ Done(a, "schedule")
  /\ UNCHANGED <<now, aged, rows, lock, local>>

\* _recover_forecast_operations, once per process.
Recover(a) ==
  /\ pc[a] = "recover"
  /\ attempt' = [b \in Boundaries |->
                   IF attempt[b] = "running" /\ b \in aged
                   THEN "failed" ELSE attempt[b]]
  /\ Done(a, "schedule")
  /\ UNCHANGED <<now, aged, rows, lock, local>>

\* next_aligned_boundary is strictly later than the time it is given.
Schedule(a) ==
  /\ pc[a] = "schedule"
  /\ now + 1 \in Boundaries
  /\ at' = [at EXCEPT ![a] = now + 1]
  /\ Jump(a, "wait")
  /\ UNCHANGED <<now, database, active, token, claimed>>

\* The grace period is over; the operation opens its own repository.
Fire(a) ==
  /\ pc[a] = "wait"
  /\ at[a] <= now
  /\ Goto(a, "enter")
  /\ UNCHANGED <<now, database>>

-----------------------------------------------------------------------------
(* run_boundary.                                                           *)

\* _active.acquire(blocking=False)
Enter(a) ==
  /\ pc[a] = "enter"
  /\ claimed' = [claimed EXCEPT ![a] = FALSE]
  /\ token' = [token EXCEPT ![a] = "none"]
  /\ active' = [active EXCEPT ![a] = TRUE]
  /\ Jump(a, IF active[a] THEN "busy_claim" ELSE "try_lock")
  /\ UNCHANGED <<now, database, at>>

\* Mutant: a boundary whose operation failed may be claimed again.
ClaimFailed(a, l, won, lost) ==
  /\ pc[a] = l
  /\ IF attempt[at[a]] \in {"none", "failed"}
     THEN /\ SetStatus(a, "running")
          /\ \/ Jump(a, won) /\ claimed' = [claimed EXCEPT ![a] = TRUE]
             \/ /\ "reply" \in Faults
                /\ Jump(a, Handler(l))
                /\ UNCHANGED claimed
     ELSE Jump(a, lost) /\ UNCHANGED <<attempt, claimed>>
  /\ UNCHANGED <<now, aged, rows, lock, at, active, token>>

\* INSERT ... ON CONFLICT DO NOTHING RETURNING id: the claim of the boundary.
\* A claim whose reply is lost leaves attempt_id None.
Claim(a, l, won, lost) ==
  /\ pc[a] = l
  /\ IF attempt[at[a]] = "none"
     THEN /\ SetStatus(a, "running")
          /\ \/ Jump(a, won) /\ claimed' = [claimed EXCEPT ![a] = TRUE]
             \/ /\ "reply" \in Faults
                /\ Jump(a, Handler(l))
                /\ UNCHANGED claimed
     ELSE Jump(a, lost) /\ UNCHANGED <<attempt, claimed>>
  /\ UNCHANGED <<now, aged, rows, lock, at, active, token>>

\* An operation is skipped: another one runs in this process, or in another.
BusyClaim(a)   == Claim(a, "busy_claim", "busy_finish", "schedule")
LockedClaim(a) == Claim(a, "locked_claim", "locked_finish", "cleanup")

FinishSkipped(a) ==
  /\ pc[a] \in {"busy_finish", "locked_finish"}
  /\ SetStatus(a, "skipped")
  /\ Done(a, IF pc[a] = "busy_finish" THEN "schedule" ELSE "cleanup")
  /\ UNCHANGED <<now, aged, rows, lock, local>>

\* Mutant: the answer of pg_try_advisory_lock is not looked at.
TryLockIgnored(a) ==
  /\ pc[a] = "try_lock"
  /\ lock' = IF lock = None THEN a ELSE lock
  /\ token' = [token EXCEPT ![a] = "held"]
  /\ Jump(a, "claim")
  /\ UNCHANGED <<now, attempt, aged, rows, at, active, claimed>>

\* pg_try_advisory_lock
TryLock(a) ==
  /\ pc[a] = "try_lock"
  /\ IF lock = None
     THEN /\ lock' = a
          /\ token' = [token EXCEPT ![a] = "held"]
          /\ Jump(a, "claim")
     ELSE Jump(a, "locked_claim") /\ UNCHANGED <<lock, token>>
  /\ UNCHANGED <<now, attempt, aged, rows, at, active, claimed>>

ClaimBoundary(a) == Claim(a, "claim", "forecast", "cleanup")

\* _build_forecast and save_forecast_run: the run and its points in one
\* transaction; then the deadline.
SaveForecast(a) ==
  /\ pc[a] = "forecast"
  /\ Save(a, "forecast")
  /\ InTime(a, "score")
  /\ UNCHANGED <<now, attempt, aged, lock, local>>

\* Scoring, and the contained rollup refresh after it.
Score(a) ==
  /\ pc[a] = "score"
  /\ InTime(a, "reserve")
  /\ UNCHANGED <<now, database, local>>

SaveReserve(a) ==
  /\ pc[a] = "reserve"
  /\ Save(a, "reserve")
  /\ InTime(a, "decide")
  /\ UNCHANGED <<now, attempt, aged, lock, local>>

\* evaluate_shadow_decision may block or fail without a row, save_shadow_
\* decision stores one; outcomes are scored; the last deadline is checked.
SaveDecision(a) ==
  /\ pc[a] = "decide"
  /\ Save(a, "decision") \/ UNCHANGED rows
  /\ InTime(a, "finish")
  /\ UNCHANGED <<now, attempt, aged, lock, local>>

Finish(a) ==
  /\ pc[a] = "finish"
  /\ SetStatus(a, "success")
  /\ Done(a, "unlock")
  /\ UNCHANGED <<now, aged, rows, lock, local>>

\* pg_advisory_unlock raises on a dropped connection.
Unlock(a) ==
  /\ pc[a] = "unlock"
  /\ IF token[a] = "held"
     THEN /\ lock' = None
          /\ token' = [token EXCEPT ![a] = "none"]
          /\ Jump(a, "retain")
     ELSE Jump(a, "fail") /\ UNCHANGED <<lock, token>>
  /\ UNCHANGED <<now, attempt, aged, rows, at, active, claimed>>

\* Retention runs without the lock, and its errors are contained.
Retain(a) ==
  /\ pc[a] = "retain"
  /\ Goto(a, "cleanup")
  /\ UNCHANGED <<now, database>>

\* The handler: the attempt, if there is one, is recorded as failed.
Fail(a) ==
  /\ pc[a] = "fail"
  /\ IF claimed[a] THEN SetStatus(a, "failed") ELSE UNCHANGED attempt
  /\ Jump(a, "cleanup")
  /\ UNCHANGED <<now, aged, rows, lock, local>>

\* Mutant: a failed operation keeps the in-process lock.
CleanupFailed(a) ==
  /\ pc[a] = "cleanup"
  /\ IF token[a] = "held"
     THEN lock' = None /\ token' = [token EXCEPT ![a] = "none"]
     ELSE UNCHANGED <<lock, token>>
  /\ active' = [active EXCEPT ![a] = attempt[at[a]] = "failed"]
  /\ Jump(a, "schedule")
  /\ UNCHANGED <<now, attempt, aged, rows, at, claimed>>

\* finally: release the durable lock, close the repository, release _active,
\* in this order; a dropped connection raises in the first of them.
Cleanup(a) ==
  /\ pc[a] = "cleanup"
  /\ IF token[a] = "held"
     THEN lock' = None /\ token' = [token EXCEPT ![a] = "none"]
     ELSE UNCHANGED <<lock, token>>
  /\ active' = [active EXCEPT ![a] = token[a] = "broken"]
  /\ Jump(a, "schedule")
  /\ UNCHANGED <<now, attempt, aged, rows, at, claimed>>

-----------------------------------------------------------------------------
Run(a) ==
  \/ Recover(a) \/ Schedule(a) \/ Fire(a) \/ Enter(a)
  \/ BusyClaim(a) \/ LockedClaim(a) \/ FinishSkipped(a)
  \/ TryLock(a) \/ ClaimBoundary(a) \/ SaveForecast(a) \/ Score(a)
  \/ SaveReserve(a) \/ SaveDecision(a) \/ Finish(a) \/ Unlock(a)
  \/ Retain(a) \/ Fail(a) \/ Cleanup(a)

Next == \/ Tick
        \/ \E b \in Boundaries : Age(b)
        \/ \E a \in Apps : Start(a) \/ Kill(a) \/ Drop(a) \/ DatabaseFault(a)
                             \/ Run(a)

Spec == Init /\ [][Next]_vars

\* Time passes, Apps are restarted by the Supervisor, and a coordinator thread
\* that can go on does.
Fairness == /\ WF_vars(Tick)
            /\ \A b \in Boundaries : WF_vars(Age(b))
            /\ \A a \in Apps : WF_vars(Start(a)) /\ WF_vars(Run(a))

LiveSpec == Spec /\ Fairness

-----------------------------------------------------------------------------
(* Properties.                                                             *)

\* However often Apps are killed and started again, and whatever commits
\* without an answer, a boundary is forecast, estimated and decided at most
\* once: the durable claim prevents duplicate creation (claim_forecast_
\* operation before every save of run_boundary).
OneRunPerBoundary == \A b \in Boundaries, k \in Kinds : rows[b][k] <= 1

\* Rows are saved in the order forecast, reserve, decision, and only for a
\* boundary that an operation claimed and did not give up as skipped
\* (run_boundary's skip and duplicate paths save nothing).
RowsAreClaimed ==
  \A b \in Boundaries :
    /\ rows[b]["forecast"] > 0 => attempt[b] \in {"running", "success", "failed"}
    /\ rows[b]["reserve"] > 0 => rows[b]["forecast"] > 0
    /\ rows[b]["decision"] > 0 => rows[b]["reserve"] > 0

\* An attempt is audited as a success only with its forecast and its reserve
\* snapshot stored (finish_forecast_operation at the end of run_boundary).
SuccessIsComplete ==
  \A b \in Boundaries : attempt[b] = "success" =>
    rows[b]["forecast"] > 0 /\ rows[b]["reserve"] > 0

\* Two operations are at work on the database at once only after PostgreSQL
\* dropped the connection of one of them (try_forecast_operation_lock).
OneOperation ==
  \A a, c \in Apps :
    pc[a] \in Working /\ pc[c] \in Working /\ a # c =>
      "broken" \in {token[a], token[c]}

\* With one App and every statement answered, what the audit says of a
\* finished attempt is never rewritten, by recovery or by a failure handler
\* (recover_stale_forecast_operations, the except clause of run_boundary).
StatusIsFinal ==
  [][\A b \in Boundaries : attempt[b] \in {"success", "failed", "skipped"} =>
       attempt'[b] = attempt[b]]_vars

\* Every boundary whose operation begins is forecast, unless an App is killed:
\* run_boundary's "claim and execute one boundary", when the database answers.
\* In particular an operation that overruns does not block the next ones.
EnteredIsForecast ==
  \A b \in Boundaries :
    (\E a \in Apps : pc[a] = "enter" /\ at[a] = b)
      ~> (rows[b]["forecast"] = 1 \/ \E a \in Apps : pc[a] = "down")

\* The in-process lock is held only while an operation runs; the skipped
\* attempts say "Prior forecast operation still active".
ActiveMeansRunning == \A a \in Apps : active[a] => pc[a] \in Operating
=============================================================================
