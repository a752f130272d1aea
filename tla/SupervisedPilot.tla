-------------------------- MODULE SupervisedPilot --------------------------
(***************************************************************************)
(* The supervised commissioning rehearsal: SupervisedPilot (arbitrage/     *)
(* supervised_pilot.py) over Journal and DisabledExecutor (arbitrage/      *)
(* executor.py), as operator processes sharing one SQLite journal.         *)
(*                                                                         *)
(* The journal connection is in autocommit mode, so every statement of an  *)
(* operation, and every Journal.transition, is a step of its own: another  *)
(* process may act, the process may die, or the database may refuse        *)
(* between any two.  A session is the process that holds it: it starts     *)
(* once and a restart is another session.                                  *)
(*                                                                         *)
(* Times are abstracted: whether a clock reading is refused is part of the *)
(* verdict on a state or a feedback, and a feedback says whether it is     *)
(* past the maximum duration.  The contract's clock (last_at, last_mono)   *)
(* and the bound on evidence records per intent are left to a module       *)
(* about feedback evidence.                                                *)
(***************************************************************************)
EXTENDS Integers, ExecutionJournal

CONSTANTS Intents,    \* commissioning intents
          Sessions,   \* operator processes, in the order they happen to start
          Exclusive,  \* TRUE: one process at a time; FALSE: overlapping ones
          Survivor,   \* a session that neither dies nor meets a database
                      \* fault (outside Sessions: there is none)
          None        \* no session, no intent, no feedback

ASSUME PilotAssumption ==
  /\ Exclusive \in BOOLEAN
  /\ None \notin Intents \cup Sessions

VARIABLES istate,    \* intents.state
          session,   \* pilot_contracts.session, None: no contract row
          approval,  \* the intents with a pilot_approvals row
          evidence,  \* the intents with a SEND_PRECHECK evidence row
          sends,     \* FakeTransport.calls of all processes together
          pc,        \* where each process is
          on,        \* the intent its operation is about
          seen,      \* the local variable "state" of observe
          fb         \* the feedback observe was called with

journal == <<istate, session, approval, evidence>>
local   == <<on, seen, fb>>
vars    == <<istate, session, approval, evidence, sends,
             pc, on, seen, fb>>

Operation == {"insert_contract", "insert_approval", "bind_session",
              "mark_approved", "check_own", "check_other", "refuse",
              "record_precheck", "precheck", "mark_sent", "transmit",
              "acknowledge", "lose_ack",
              "mark_unknown", "assess", "reconcile", "settle"}

(***************************************************************************)
(* What a feedback record amounts to, in the order the checks are made:    *)
(*   override  another owner, generation or device                         *)
(*   unsound   stale, clock fault, service, mode, timeout, frame, numeric, *)
(*             cost, site-flow, ceiling, regression or power-time failure  *)
(*   missing   a delivery value (or a charging cost) is absent             *)
(*   unsafe    wrong direction or outside the approved envelope            *)
(*   measured  complete and inside the envelope                            *)
(***************************************************************************)
Verdicts == {"override", "unsound", "missing", "unsafe", "measured"}
Feedback == [verdict : Verdicts, expired : BOOLEAN, effect : BOOLEAN,
             full : BOOLEAN, neutral : BOOLEAN]

\* The claims of a feedback that is turned down before they are read are
\* irrelevant: only one representative of those is given to observe.
Given == {f \in Feedback :
            /\ f.verdict \in {"override", "unsound"} =>
                 ~(f.expired \/ f.effect \/ f.full \/ f.neutral)
            /\ f.verdict # "measured" => ~(f.effect \/ f.full)}

TypeOK ==
  /\ istate \in [Intents -> STATES \cup {"ABSENT"}]
  /\ session \in [Intents -> Sessions \cup {None}]
  /\ approval \subseteq Intents
  /\ evidence \subseteq Intents
  /\ sends \in [Intents -> Nat]
  /\ pc \in [Sessions -> Operation \cup {"off", "idle", "dead"}]
  /\ on \in [Sessions -> Intents \cup {None}]
  /\ seen \in [Sessions -> STATES \cup {"ABSENT", None}]
  /\ fb \in [Sessions -> Feedback \cup {None}]
  /\ \A p \in Sessions : pc[p] \in Operation => on[p] \in Intents

Init ==
  /\ istate = [i \in Intents |-> "ABSENT"]
  /\ session = [i \in Intents |-> None]
  /\ approval = {}
  /\ evidence = {}
  /\ sends = [i \in Intents |-> 0]
  /\ pc = [p \in Sessions |-> "off"]
  /\ on = [p \in Sessions |-> None]
  /\ seen = [p \in Sessions |-> None]
  /\ fb = [p \in Sessions |-> None]

Running(p) == pc[p] \notin {"off", "dead"}

\* Control of process p: continue at l, start an operation, or leave it.
Goto(p, l) == pc' = [pc EXCEPT ![p] = l] /\ UNCHANGED local
Begin(p, i, l) == /\ pc' = [pc EXCEPT ![p] = l]
                  /\ on' = [on EXCEPT ![p] = i]
                  /\ UNCHANGED <<seen, fb>>
Leave(p, l) == /\ pc' = [pc EXCEPT ![p] = l]
               /\ on' = [on EXCEPT ![p] = None]
               /\ seen' = [seen EXCEPT ![p] = None]
               /\ fb' = [fb EXCEPT ![p] = None]
Return(p) == Leave(p, "idle")

\* Journal.transition of p's intent, then "next" if it committed; a refused
\* transition raises and leaves the operation.
Mark(p, new, next) ==
  /\ istate' = Transition(istate, on[p], new)
  /\ IF Accepts(istate, on[p], new) /\ next # "return"
     THEN Goto(p, next)
     ELSE Return(p)

-----------------------------------------------------------------------------
(* Processes.                                                              *)

\* A process opens the journal and makes a SupervisedPilot with a new uuid4
\* session.
Start(p) ==
  /\ pc[p] = "off"
  /\ Exclusive => \A q \in Sessions : ~Running(q)
  /\ Goto(p, "idle")
  /\ UNCHANGED <<journal, sends>>

\* The process ends, between operations or in the middle of one.
Stop(p) ==
  /\ Running(p)
  /\ p # Survivor
  /\ Leave(p, "dead")
  /\ UNCHANGED <<journal, sends>>

\* SQLite refuses a statement (busy, full, closed): the operation raises.
DatabaseFault(p) ==
  /\ pc[p] \in Operation \ {"transmit"}
  /\ p # Survivor
  /\ Return(p)
  /\ UNCHANGED <<journal, sends>>

-----------------------------------------------------------------------------
(* propose, approve, reject.                                               *)

\* The duplicate check, and INSERT OR IGNORE of the intent.
Propose(p, i) ==
  /\ pc[p] = "idle"
  /\ session[i] = None
  /\ istate' = [istate EXCEPT ![i] = IF @ = "ABSENT" THEN "PROPOSED" ELSE @]
  /\ Begin(p, i, "insert_contract")
  /\ UNCHANGED <<session, approval, evidence, sends>>

\* The contract row is keyed by the intent: a second insert raises.
InsertContract(p) ==
  /\ pc[p] = "insert_contract"
  /\ session' = [session EXCEPT ![on[p]] = IF @ = None THEN p ELSE @]
  /\ Return(p)
  /\ UNCHANGED <<istate, approval, evidence, sends>>

\* approve reads a PROPOSED intent, with the exact binding and operator and
\* inside the approval window; otherwise it raises before it changes anything.
Approve(p, i) ==
  /\ pc[p] = "idle"
  /\ session[i] # None
  /\ istate[i] = "PROPOSED"
  /\ Begin(p, i, "insert_approval")
  /\ UNCHANGED <<istate, session, approval, evidence, sends>>

InsertApproval(p) ==
  /\ pc[p] = "insert_approval"
  /\ IF on[p] \in approval
     THEN Return(p) /\ UNCHANGED approval
     ELSE approval' = approval \cup {on[p]} /\ Goto(p, "bind_session")
  /\ UNCHANGED <<istate, session, evidence, sends>>

BindSession(p) ==
  /\ pc[p] = "bind_session"
  /\ session' = [session EXCEPT ![on[p]] = p]
  /\ Goto(p, "mark_approved")
  /\ UNCHANGED <<istate, approval, evidence, sends>>

MarkApproved(p) ==
  /\ pc[p] = "mark_approved"
  /\ Mark(p, "APPROVED", "return")
  /\ UNCHANGED <<session, approval, evidence, sends>>

Reject(p, i) ==
  /\ pc[p] = "idle"
  /\ session[i] # None
  /\ Accepts(istate, i, "REJECTED")
  /\ istate' = Transition(istate, i, "REJECTED")
  /\ UNCHANGED <<session, approval, evidence, sends, pc, local>>

-----------------------------------------------------------------------------
(* dispatch, then DisabledExecutor.dispatch.                               *)

\* dispatch reads the contract row, and with it the session, before the state.
Dispatch(p, i) ==
  /\ pc[p] = "idle"
  /\ session[i] # None
  /\ Begin(p, i, IF session[i] = p THEN "check_own" ELSE "check_other")
  /\ UNCHANGED <<journal, sends>>

\* Mutant of Check: a later session may send what an earlier one approved.
CheckFromQueue(p) ==
  /\ pc[p] \in {"check_own", "check_other"}
  /\ istate[on[p]] = "APPROVED"
  /\ Goto(p, IF on[p] \notin approval THEN "refuse" ELSE "record_precheck")
  /\ UNCHANGED <<journal, sends>>

\* The state, the approval and the session read before; "fault" stands for the
\* other send-time reasons (age, clock, frame, freshness, services, site
\* flow, price, mode, owners, capacity), each of which only refuses.
Check(p) ==
  /\ pc[p] \in {"check_own", "check_other"}
  /\ IF istate[on[p]] # "APPROVED"
     THEN Return(p)
     ELSE \E fault \in BOOLEAN :
            Goto(p, IF \/ fault
                       \/ on[p] \notin approval
                       \/ pc[p] = "check_other"
                    THEN "refuse" ELSE "record_precheck")
  /\ UNCHANGED <<journal, sends>>

Refuse(p) ==
  /\ pc[p] = "refuse"
  /\ Mark(p, "REJECTED", "return")
  /\ UNCHANGED <<session, approval, evidence, sends>>

\* Mutant of RecordPrecheck: the evidence of the send is not recorded.
RecordNothing(p) ==
  /\ pc[p] = "record_precheck"
  /\ Goto(p, "precheck")
  /\ UNCHANGED <<journal, sends>>

RecordPrecheck(p) ==
  /\ pc[p] = "record_precheck"
  /\ evidence' = evidence \cup {on[p]}
  /\ Goto(p, "precheck")
  /\ UNCHANGED <<istate, session, approval, sends>>

\* Mutant of Precheck: the command goes out before SENT is committed.
PrecheckThenSend(p) ==
  /\ pc[p] = "precheck"
  /\ istate[on[p]] = "APPROVED"
  /\ Mark(p, "PRECHECKED", "transmit")
  /\ UNCHANGED <<session, approval, evidence, sends>>

\* executor.dispatch reads APPROVED again and evaluates precheck_reasons.
\* Only APPROVED may become PRECHECKED, so reading and marking in one step
\* loses no behaviour: a change in between makes the transition raise.
Precheck(p) ==
  /\ pc[p] = "precheck"
  /\ \/ istate[on[p]] # "APPROVED" /\ Return(p) /\ UNCHANGED istate
     \/ istate[on[p]] = "APPROVED" /\ Goto(p, "refuse") /\ UNCHANGED istate
     \/ istate[on[p]] = "APPROVED" /\ Mark(p, "PRECHECKED", "mark_sent")
  /\ UNCHANGED <<session, approval, evidence, sends>>

MarkSent(p) ==
  /\ pc[p] = "mark_sent"
  /\ Mark(p, "SENT", "transmit")
  /\ UNCHANGED <<session, approval, evidence, sends>>

\* FakeTransport.send appends the call, and may lose the acknowledgement.
Transmit(p) ==
  /\ pc[p] = "transmit"
  /\ sends' = [sends EXCEPT ![on[p]] = @ + 1]
  /\ \E next \in {"acknowledge", "lose_ack"} : Goto(p, next)
  /\ UNCHANGED journal

Acknowledge(p) ==
  /\ pc[p] = "acknowledge"
  /\ Mark(p, "ACKNOWLEDGED", "return")
  /\ UNCHANGED <<session, approval, evidence, sends>>

\* Mutant of LoseAck: a lost acknowledgement is retried.
LoseAckRetry(p) ==
  /\ pc[p] = "lose_ack"
  /\ Goto(p, "transmit")
  /\ UNCHANGED <<journal, sends>>

LoseAck(p) ==
  /\ pc[p] = "lose_ack"
  /\ Mark(p, "UNKNOWN_DELIVERY", "return")
  /\ UNCHANGED <<session, approval, evidence, sends>>

-----------------------------------------------------------------------------
(* observe, then DisabledExecutor.observe.                                 *)

\* Mutant of Observe: a SENT intent is left to the process that sent it.
ObserveAnswered(p, i, f) ==
  /\ pc[p] = "idle"
  /\ session[i] # None
  /\ istate[i] \in AfterSend \ {"NEUTRAL_STATE_VERIFIED", "SENT"}
  /\ pc' = [pc EXCEPT ![p] = "assess"]
  /\ on' = [on EXCEPT ![p] = i]
  /\ seen' = [seen EXCEPT ![p] = istate[i]]
  /\ fb' = [fb EXCEPT ![p] = f]
  /\ UNCHANGED <<journal, sends>>

Observe(p, i, f) ==
  /\ pc[p] = "idle"
  /\ session[i] # None
  /\ istate[i] \in AfterSend \ {"NEUTRAL_STATE_VERIFIED"}
  /\ pc' = [pc EXCEPT ![p] = IF istate[i] = "SENT" THEN "mark_unknown"
                                                   ELSE "assess"]
  /\ on' = [on EXCEPT ![p] = i]
  /\ seen' = [seen EXCEPT ![p] = istate[i]]
  /\ fb' = [fb EXCEPT ![p] = f]
  /\ UNCHANGED <<journal, sends>>

\* A SENT intent found by observe: the dispatching process is gone, or slow.
MarkUnknown(p) ==
  /\ pc[p] = "mark_unknown"
  /\ istate' = Transition(istate, on[p], "UNKNOWN_DELIVERY")
  /\ IF Accepts(istate, on[p], "UNKNOWN_DELIVERY")
     THEN /\ pc' = [pc EXCEPT ![p] = "assess"]
          /\ seen' = [seen EXCEPT ![p] = "UNKNOWN_DELIVERY"]
          /\ UNCHANGED <<on, fb>>
     ELSE Return(p)
  /\ UNCHANGED <<session, approval, evidence, sends>>

\* Mutant of Assess: an ABORTED intent is reconciled like any other.
AssessAborted(p) ==
  /\ pc[p] = "assess"
  /\ IF fb[p].verdict \notin {"override", "unsound"}
     THEN Goto(p, "reconcile") /\ UNCHANGED istate
     ELSE Mark(p, "ABORTED", "return")
  /\ UNCHANGED <<session, approval, evidence, sends>>

\* The pilot's own checks, on the state it read first: owner, generation and
\* device, then ABORTED, then everything that makes the feedback unsound.
Assess(p) ==
  /\ pc[p] = "assess"
  /\ IF seen[p] = "ABORTED"
     THEN Return(p) /\ UNCHANGED istate
     ELSE IF fb[p].verdict \in {"override", "unsound"}
     THEN Mark(p, "ABORTED", "return")
     ELSE Goto(p, "reconcile") /\ UNCHANGED istate
  /\ UNCHANGED <<session, approval, evidence, sends>>

\* executor.observe reads the state again.  It cannot be SENT any more.
Reconcile(p) ==
  /\ pc[p] = "reconcile"
  /\ seen' = [seen EXCEPT ![p] = istate[on[p]]]
  /\ pc' = [pc EXCEPT ![p] = "settle"]
  /\ UNCHANGED <<on, fb, journal, sends>>

\* COMPLETED, EXPIRED or RESTORE_FAILED: ordinary operation is witnessed or not.
Closing(st, f) == IF f.neutral THEN "NEUTRAL_STATE_VERIFIED"
                               ELSE "RESTORE_FAILED"

\* The next state executor.observe gives an intent it believes to be in st, or
\* st itself when it has nothing further to record.
Due(st, f) ==
  IF st = "NEUTRAL_STATE_VERIFIED" THEN st
  ELSE IF st = "ABORTED"
  THEN IF f.neutral THEN "NEUTRAL_STATE_VERIFIED" ELSE st
  ELSE IF f.expired /\ st \in {"ACKNOWLEDGED", "UNKNOWN_DELIVERY",
                               "EFFECT_OBSERVED"} THEN "EXPIRED"
  ELSE IF f.verdict = "missing"
  THEN IF st = "EXPIRED" THEN "RESTORE_FAILED" ELSE st
  ELSE IF f.verdict = "unsafe" THEN "ABORTED"
  ELSE IF ~f.expired /\ f.effect /\ st \in {"ACKNOWLEDGED",
                                            "UNKNOWN_DELIVERY"}
  THEN "EFFECT_OBSERVED"
  ELSE IF st = "EFFECT_OBSERVED" /\ f.full THEN "COMPLETED"
  ELSE IF st \in {"COMPLETED", "EXPIRED", "RESTORE_FAILED"}
  THEN Closing(st, f)
  ELSE st

\* Each transition executor.observe makes is committed before the next check;
\* it returns after the last one, or when one is refused.
Settle(p) ==
  /\ pc[p] = "settle"
  /\ LET new == Due(seen[p], fb[p])
     IN  IF /\ new # seen[p]
            /\ Accepts(istate, on[p], new)
            /\ new \in {"EXPIRED", "EFFECT_OBSERVED", "COMPLETED"}
         THEN /\ istate' = Transition(istate, on[p], new)
              /\ seen' = [seen EXCEPT ![p] = new]
              /\ UNCHANGED <<pc, on, fb>>
         ELSE /\ istate' = IF new = seen[p] THEN istate
                           ELSE Transition(istate, on[p], new)
              /\ Return(p)
  /\ UNCHANGED <<session, approval, evidence, sends>>

-----------------------------------------------------------------------------
\* The continuation of the operation p is in.
Step(p) ==
  \/ InsertContract(p) \/ InsertApproval(p) \/ BindSession(p)
  \/ MarkApproved(p) \/ Check(p) \/ Refuse(p) \/ RecordPrecheck(p) \/ Precheck(p)
  \/ MarkSent(p) \/ Transmit(p) \/ Acknowledge(p) \/ LoseAck(p)
  \/ MarkUnknown(p) \/ Assess(p) \/ Reconcile(p) \/ Settle(p)

\* What the operator may ask of p.
Call(p, i) ==
  \/ Propose(p, i) \/ Approve(p, i) \/ Reject(p, i) \/ Dispatch(p, i)
  \/ \E f \in Given : Observe(p, i, f)

Next ==
  \E p \in Sessions :
    \/ Start(p) \/ Stop(p) \/ DatabaseFault(p)
    \/ Step(p)
    \/ \E i \in Intents : Call(p, i)

Spec == Init /\ [][Next]_vars

-----------------------------------------------------------------------------
(* Fairness: a process goes on with its operation, processes that can end  *)
(* do end, and the surviving operator keeps dispatching what is approved   *)
(* and keeps recording a late, complete feedback of ordinary operation.    *)

Witness == [verdict |-> "measured", expired |-> TRUE, effect |-> FALSE,
            full |-> FALSE, neutral |-> TRUE]

Fairness ==
  /\ \A p \in Sessions :
       WF_vars(Start(p)) /\ WF_vars(Step(p)) /\ WF_vars(Stop(p))
  /\ \A i \in Intents :
       SF_vars(Dispatch(Survivor, i)) /\ SF_vars(Observe(Survivor, i, Witness))

LiveSpec == Spec /\ Fairness

-----------------------------------------------------------------------------
(* Safety.                                                                 *)

Sent(i) == sends[i] > 0

\* No command is given to the transport twice for one intent, whatever
\* processes die, overlap, retry approve and dispatch, or lose the
\* acknowledgement ("Lost acknowledgement and restart after SENT never retry").
AtMostOneSend == \A i \in Intents : sends[i] <= 1

\* A command that left a process left a journal row behind it: the row says
\* SENT or later, so no crash makes a sent intent look unsent, and the
\* send-time evidence and the approval it was sent under are durable.
SendIsJournaled ==
  \A i \in Intents : Sent(i) =>
    istate[i] \in AfterSend /\ i \in evidence /\ i \in approval

\* At most one commanded intent has not been seen back in ordinary operation.
\* This is what the UNIQUE active column is for: it is about the commands
\* really sent, not about the rows.
OneCommandOutstanding ==
  \A i, j \in Intents :
    /\ Sent(i) /\ istate[i] # "NEUTRAL_STATE_VERIFIED"
    /\ Sent(j) /\ istate[j] # "NEUTRAL_STATE_VERIFIED"
    => i = j

\* Only the session that approved an intent ever sends it: "persisted approval
\* is not a queue" for another process, after a restart or beside it.
SentByApprover ==
  [][\A p \in Sessions, i \in Intents :
       pc[p] = "transmit" /\ on[p] = i /\ sends'[i] # sends[i]
         => session[i] = p]_vars

\* "ABORTED remains held for explicit human reconciliation ...; this wrapper
\* has no automatic release": no operation of the pilot moves an intent out of
\* ABORTED, whatever it is told about the ordinary state.
AbortedIsHeld ==
  [][\A i \in Intents :
       istate[i] = "ABORTED" => istate'[i] = "ABORTED"]_istate

-----------------------------------------------------------------------------
(* Liveness.                                                               *)

\* A restart after SENT is reconciled: an intent whose command may be out ends
\* held for a human or seen back in ordinary operation, not in between.
SentIsSettled ==
  \A i \in Intents :
    istate[i] = "SENT" ~> istate[i] \in {"ABORTED", "NEUTRAL_STATE_VERIFIED"}

-----------------------------------------------------------------------------
(* What is promised of a sequence of operator processes.                   *)

PhaseOf(st) == IF st \in {"ABSENT", "PROPOSED"} THEN "waiting"
               ELSE IF st = "ABORTED" THEN "locked"
               ELSE IF st \in ACTIVE THEN "held"
               ELSE "closed"

PhaseMap == [i \in Intents |-> PhaseOf(istate[i])]

Slot == INSTANCE SingleUseSlot WITH phase <- PhaseMap, commands <- sends

\* Every step of the rehearsal is a step of the slot, or none: commands go out
\* once, under the slot, and an aborted intent never gives it back.
SlotContract == Slot!Spec
=============================================================================
