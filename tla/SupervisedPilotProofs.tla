------------------------ MODULE SupervisedPilotProofs ------------------------
(***************************************************************************)
(* Machine-checked facts about SupervisedPilot, for any number of intents  *)
(* and of operator processes, overlapping or not.                          *)
(*                                                                         *)
(* The argument: only the process that inserted the approval row can mark  *)
(* the intent APPROVED, and APPROVED becomes PRECHECKED, and PRECHECKED    *)
(* becomes SENT, at most once, so at most one process is ever between      *)
(* PRECHECKED and the transport for one intent.                            *)
(***************************************************************************)
EXTENDS SupervisedPilot, TLAPS

Unapproved  == {"ABSENT", "PROPOSED", "REJECTED"}
Approving   == {"bind_session", "mark_approved"}
Dispatching == {"record_precheck", "precheck", "mark_sent", "transmit"}
Sending     == {"mark_sent", "transmit"}
Observing   == {"mark_unknown", "assess", "reconcile", "settle"}

\* What the position of one process says about its intent.
ProcessInv(p) ==
  /\ pc[p] \in Approving =>
       on[p] \in approval /\ istate[on[p]] \in Unapproved
  /\ pc[p] \in Dispatching => on[p] \in approval
  /\ pc[p] \in {"precheck"} \cup Sending => on[p] \in evidence
  /\ pc[p] = "mark_sent" => istate[on[p]] = "PRECHECKED"
  /\ pc[p] = "transmit" => istate[on[p]] \in AfterSend /\ sends[on[p]] = 0
  /\ pc[p] \in Observing => istate[on[p]] \in AfterSend

\* What the journal says about an intent.
IntentInv(i) ==
  /\ i \notin approval => istate[i] \in Unapproved
  /\ istate[i] \in BeforeSend => sends[i] = 0
  /\ sends[i] \in {0, 1}
  /\ sends[i] = 1 => i \in evidence /\ i \in approval

\* Two processes that are in the same stretch of code for the same intent.
ExclusionInv ==
  \A p, q \in Sessions :
    on[p] = on[q] =>
      /\ pc[p] \in Approving /\ pc[q] \in Approving => p = q
      /\ pc[p] \in Sending /\ pc[q] \in Sending => p = q

OneActive == \A i, j \in Intents :
               istate[i] \in ACTIVE /\ istate[j] \in ACTIVE => i = j

IInv == /\ TypeOK
        /\ \A p \in Sessions : ProcessInv(p)
        /\ \A i \in Intents : IntentInv(i)
        /\ ExclusionInv
        /\ OneActive

-----------------------------------------------------------------------------
(* Types.                                                                  *)

\* The states a journal transition can lead to are states.
LEMMA TransitionTyped ==
  ASSUME NEW st \in [Intents -> STATES \cup {"ABSENT"}],
         NEW i \in Intents, NEW new \in STATES
  PROVE  Transition(st, i, new) \in [Intents -> STATES \cup {"ABSENT"}]
  BY DEF Transition

\* What executor.observe makes of a state is a state.
LEMMA DueTyped ==
  ASSUME NEW st, NEW f
  PROVE  Due(st, f) \in STATES \cup {st}
  BY DEF Due, Closing, STATES

\* A journal transition, and leaving or continuing after it, keeps the types.
LEMMA MarkTyped ==
  ASSUME TypeOK, NEW p \in Sessions, pc[p] \in Operation, NEW new \in STATES,
         NEW next \in Operation \cup {"return"}, Mark(p, new, next),
         UNCHANGED <<session, approval, evidence, sends>>
  PROVE  TypeOK'
  <1>1. on[p] \in Intents
    BY DEF TypeOK
  <1>2. istate' \in [Intents -> STATES \cup {"ABSENT"}]
    BY <1>1, TransitionTyped DEF TypeOK, Mark
  <1>3. CASE Goto(p, next) /\ next # "return"
    BY <1>1, <1>2, <1>3 DEF TypeOK, Goto, local, Operation
  <1>4. CASE Return(p)
    BY <1>1, <1>2, <1>4 DEF TypeOK, Return, Leave, Operation
  <1> QED
    BY <1>3, <1>4 DEF Mark

\* Every step keeps the types.
LEMMA TypeStep == TypeOK /\ [Next]_vars => TypeOK'
<1> SUFFICES ASSUME TypeOK, [Next]_vars
             PROVE  TypeOK'
  OBVIOUS
<1>1. CASE UNCHANGED vars
  BY <1>1 DEF TypeOK, vars
<1>2. ASSUME NEW p \in Sessions, Start(p) \/ Stop(p) \/ DatabaseFault(p)
      PROVE  TypeOK'
  BY <1>2 DEF TypeOK, Start, Stop, DatabaseFault, Goto, Leave, Return,
              journal, local, Operation
<1>3. ASSUME NEW p \in Sessions, Step(p)
      PROVE  TypeOK'
  <2>1. CASE InsertContract(p) \/ InsertApproval(p) \/ BindSession(p)
    BY <2>1 DEF TypeOK, InsertContract, InsertApproval, BindSession, Goto,
                Return, Leave, local, Operation
  <2>9. CASE Check(p)
    BY <2>9 DEF TypeOK, Check, Goto, Return, Leave, journal, local, Operation
  <2>2. CASE MarkApproved(p) \/ Refuse(p) \/ MarkSent(p)
               \/ Acknowledge(p) \/ LoseAck(p)
    <3>1. PICK new \in STATES, next \in Operation \cup {"return"} :
            Mark(p, new, next)
      BY <2>2 DEF MarkApproved, Refuse, MarkSent, Acknowledge, LoseAck,
                  STATES, Operation
    <3>2. pc[p] \in Operation /\ UNCHANGED <<session, approval, evidence,
                                             sends>>
      BY <2>2 DEF MarkApproved, Refuse, MarkSent, Acknowledge, LoseAck,
                  Operation
    <3> QED
      BY <3>1, <3>2, MarkTyped DEF TypeOK
  <2>3. CASE RecordPrecheck(p) \/ Transmit(p)
    BY <2>3 DEF TypeOK, RecordPrecheck, Transmit, Goto, journal, local,
                Operation
  <2>8. CASE Reconcile(p)
    BY <2>8 DEF TypeOK, Reconcile, journal, Operation
  <2>4. CASE Precheck(p)
    <3>1. CASE Mark(p, "PRECHECKED", "mark_sent")
      BY <2>4, <3>1, MarkTyped DEF Precheck, TypeOK, STATES, Operation
    <3> QED
      BY <2>4, <3>1 DEF TypeOK, Precheck, Goto, Return, Leave, local,
                        Operation
  <2>5. CASE MarkUnknown(p)
    <3>1. istate' \in [Intents -> STATES \cup {"ABSENT"}]
      BY <2>5, TransitionTyped DEF MarkUnknown, TypeOK, STATES, Operation
    <3> QED
      BY <2>5, <3>1 DEF TypeOK, MarkUnknown, Return, Leave, Operation, STATES
  <2>6. CASE Assess(p)
    <3>1. pc[p] \in Operation /\ on[p] \in Intents
      BY <2>6 DEF Assess, TypeOK, Operation
    <3>3. CASE Mark(p, "ABORTED", "return")
      BY <2>6, <3>1, <3>3, MarkTyped DEF Assess, STATES
    <3>4. CASE ~Mark(p, "ABORTED", "return")
      BY <2>6, <3>1, <3>4 DEF TypeOK, Assess, Goto, Return, Leave,
                                    local, Operation
    <3> QED
      BY <3>3, <3>4
  <2>7. CASE Settle(p)
    <3> DEFINE new == Due(seen[p], fb[p])
    <3>1. pc[p] \in Operation /\ on[p] \in Intents
      BY <2>7 DEF Settle, TypeOK, Operation
    <3>2. istate' \in [Intents -> STATES \cup {"ABSENT"}]
      <4>1. new # seen[p] => new \in STATES
        BY DueTyped
      <4> QED
        BY <2>7, <3>1, <4>1, TransitionTyped DEF Settle, TypeOK
    <3> QED
      BY <2>7, <3>1, <3>2 DEF TypeOK, Settle, Return, Leave, Operation, STATES
  <2> QED
    BY <1>3, <2>1, <2>2, <2>3, <2>4, <2>5, <2>6, <2>7,
       <2>8, <2>9 DEF Step
<1>4. ASSUME NEW p \in Sessions, NEW i \in Intents, Call(p, i)
      PROVE  TypeOK'
  <2>1. CASE Propose(p, i) \/ Approve(p, i) \/ Dispatch(p, i)
    BY <2>1 DEF TypeOK, Propose, Approve, Dispatch, Begin, journal, local,
                Operation, STATES
  <2>2. CASE Reject(p, i)
    BY <2>2, TransitionTyped DEF Reject, TypeOK, local, STATES
  <2>3. ASSUME NEW f \in Given, Observe(p, i, f)
        PROVE  TypeOK'
    BY <2>3 DEF TypeOK, Observe, Given, journal, Operation, AfterSend
  <2> QED
    BY <1>4, <2>1, <2>2, <2>3 DEF Call
<1> QED
  BY <1>1, <1>2, <1>3, <1>4 DEF Next

\* Every process, row and record keeps its type.
THEOREM TypeInvariant == Spec => []TypeOK
<1>1. Init => TypeOK
  BY DEF Init, TypeOK, Operation
<1>2. TypeOK /\ [Next]_vars => TypeOK'
  BY TypeStep
<1> QED
  BY <1>1, <1>2, PTL DEF Spec

-----------------------------------------------------------------------------
(* The inductive invariant.                                                *)

\* What the table says about the way into each state.
LEMMA Lifecycle ==
  ASSUME NEW old, NEW new \in TRANSITIONS(old)
  PROVE  /\ new = "APPROVED" => old = "PROPOSED"
         /\ new = "REJECTED" => old \in {"PROPOSED", "APPROVED"}
         /\ new = "PRECHECKED" => old = "APPROVED"
         /\ new = "SENT" => old = "PRECHECKED"
         /\ new \in {"ACKNOWLEDGED", "UNKNOWN_DELIVERY"} => old \in AfterSend
         /\ old \in AfterSend => new \in AfterSend
         /\ new \notin {"ABSENT", "PROPOSED"}
  BY DEF TRANSITIONS, AfterSend, BeforeSend, STATES

\* A transition either changes nothing or moves one intent along the table.
LEMMA TransitionMoves ==
  ASSUME TypeOK, NEW i \in Intents, NEW new,
         istate' = Transition(istate, i, new)
  PROVE  \/ istate' = istate /\ ~Accepts(istate, i, new)
         \/ /\ Accepts(istate, i, new)
            /\ istate'[i] = new
            /\ \A j \in Intents \ {i} : istate'[j] = istate[j]
  BY DEF Transition, TypeOK

\* The unique active column: a transition cannot make a second intent active.
LEMMA OneActiveMoves ==
  ASSUME TypeOK, OneActive, NEW i \in Intents, NEW new,
         istate' = Transition(istate, i, new)
  PROVE  OneActive'
  <1>1. CASE istate' = istate
    BY <1>1 DEF OneActive
  <1>2. CASE Accepts(istate, i, new)
    <2>1. new \in ACTIVE => \A j \in Intents \ {i} : istate[j] \notin ACTIVE
      BY <1>2 DEF Accepts, TypeOK
    <2>2. /\ istate'[i] = new
          /\ \A j \in Intents \ {i} : istate'[j] = istate[j]
      BY <1>2 DEF Transition, TypeOK
    <2> QED
      BY <2>1, <2>2 DEF OneActive
  <1> QED
    BY <1>1, <1>2 DEF Transition

\* No intent and no process: the invariant holds at the start.
LEMMA InvInit == Init => IInv
  <1> SUFFICES ASSUME Init
               PROVE  IInv
    OBVIOUS
  <1>1. TypeOK
    BY DEF Init, TypeOK, Operation
  <1>2. \A p \in Sessions : ProcessInv(p)
    BY DEF Init, ProcessInv, Approving, Dispatching, Sending, Observing
  <1>3. \A i \in Intents : IntentInv(i)
    BY DEF Init, IntentInv, Unapproved
  <1>4. ExclusionInv
    BY DEF Init, ExclusionInv, Approving, Sending
  <1>5. OneActive
    BY DEF Init, OneActive, ACTIVE
  <1> QED
    BY <1>1, <1>2, <1>3, <1>4, <1>5 DEF IInv

\* A process that only leaves its operation, or goes idle, disturbs nothing.
LEMMA LeaveKeepsInv ==
  ASSUME IInv, TypeOK', NEW p \in Sessions, NEW l \in {"idle", "dead"},
         Leave(p, l) \/ Goto(p, l), UNCHANGED <<journal, sends>>
  PROVE  IInv'
  <1>1. pc' = [pc EXCEPT ![p] = l]
    BY DEF Leave, Goto
  <1>2. \A q \in Sessions \ {p} : pc'[q] = pc[q] /\ on'[q] = on[q]
    BY DEF Leave, Goto, IInv, TypeOK, local
  <1>3. pc'[p] \notin Operation
    BY <1>1 DEF IInv, TypeOK, Operation
  <1>4. \A q \in Sessions : ProcessInv(q)'
    BY <1>2, <1>3 DEF ProcessInv, IInv, Approving, Dispatching, Sending,
                      Observing, Operation, journal
  <1>5. \A i \in Intents : IntentInv(i)'
    BY DEF IntentInv, IInv, journal
  <1>6. ExclusionInv'
    BY <1>2, <1>3 DEF ExclusionInv, IInv, Approving, Dispatching, Sending,
                      Operation
  <1>7. OneActive'
    BY DEF OneActive, IInv, journal
  <1> QED
    BY <1>4, <1>5, <1>6, <1>7 DEF IInv

\* The parts of the invariant that an action of process p, about intent i,
\* has to re-establish: everything else is framed.
LEMMA InvFrame ==
  ASSUME IInv, TypeOK', NEW p \in Sessions, NEW i \in Intents,
         \A q \in Sessions \ {p} : pc'[q] = pc[q] /\ on'[q] = on[q],
         \A j \in Intents \ {i} :
           /\ istate'[j] = istate[j]
           /\ session'[j] = session[j]
           /\ sends'[j] = sends[j]
           /\ j \in approval' <=> j \in approval
           /\ j \in evidence' <=> j \in evidence,
         pc'[p] \in Operation => on'[p] = i,
         ProcessInv(p)',
         \A q \in Sessions \ {p} : on[q] = i => ProcessInv(q)',
         IntentInv(i)',
         \A q \in Sessions \ {p} : on[q] = i =>
           /\ ~(pc'[p] \in Approving /\ pc[q] \in Approving)
           /\ ~(pc'[p] \in Sending /\ pc[q] \in Sending),
         OneActive'
  PROVE  IInv'
  <1>1. ASSUME NEW q \in Sessions \ {p}, on[q] # i
        PROVE  ProcessInv(q)'
    <2>1. CASE pc[q] \in Operation
      <3>1. on[q] \in Intents \ {i}
        BY <1>1, <2>1 DEF IInv, TypeOK
      <3> QED
        BY <3>1 DEF ProcessInv, IInv
    <2>2. CASE pc[q] \notin Operation
      BY <2>2 DEF ProcessInv, Approving, Dispatching, Sending, Observing,
                  Operation
    <2> QED
      BY <2>1, <2>2
  <1>2. \A q \in Sessions : ProcessInv(q)'
    BY <1>1
  <1>3. \A j \in Intents : IntentInv(j)'
    BY DEF IntentInv, IInv
  <1>4. ExclusionInv'
    <2> SUFFICES ASSUME NEW q \in Sessions, NEW r \in Sessions, q # r,
                        on'[q] = on'[r]
                 PROVE  /\ ~(pc'[q] \in Approving /\ pc'[r] \in Approving)
                        /\ ~(pc'[q] \in Sending /\ pc'[r] \in Sending)
      BY DEF ExclusionInv
    <2>1. CASE q # p /\ r # p
      BY <2>1 DEF ExclusionInv, IInv
    <2>2. CASE q = p
      BY <2>2 DEF Operation, Approving, Sending, Dispatching
    <2>3. CASE r = p
      BY <2>3 DEF Operation, Approving, Sending, Dispatching
    <2> QED
      BY <2>1, <2>2, <2>3
  <1> QED
    BY <1>2, <1>3, <1>4 DEF IInv

\* Journal.transition by p, then a continuation that is not guarded.
LEMMA MarkKeepsInv ==
  ASSUME IInv, TypeOK', NEW p \in Sessions, NEW new \in STATES,
         NEW i \in Intents, i = on[p], pc[p] \in Operation,
         istate' = Transition(istate, i, new),
         UNCHANGED <<session, approval, evidence, sends>>,
         \A q \in Sessions \ {p} : pc'[q] = pc[q] /\ on'[q] = on[q],
         pc'[p] \in Operation => on'[p] = i,
         pc'[p] \notin Approving \cup Dispatching,
         pc'[p] \in Observing => istate'[i] \in AfterSend,
         new = "APPROVED" => pc[p] = "mark_approved",
         new = "PRECHECKED" => FALSE,
         new = "SENT" => FALSE,
         new \in {"ABORTED", "EXPIRED"} => istate[i] \in AfterSend
  PROVE  IInv'
  <1>0. i \in Intents /\ IntentInv(i) /\ ProcessInv(p)
    BY DEF IInv, TypeOK
  <1>1. /\ istate' = istate \/ (Accepts(istate, i, new) /\ istate'[i] = new)
        /\ \A j \in Intents \ {i} : istate'[j] = istate[j]
    BY <1>0, TransitionMoves DEF IInv
  <1>2. OneActive'
    BY <1>0, OneActiveMoves DEF IInv
  <1>3. CASE istate' = istate
    <2>1. \A q \in Sessions \ {p} : on[q] = i => ProcessInv(q)'
      BY <1>3 DEF ProcessInv, IInv
    <2>2. IntentInv(i)'
      BY <1>0, <1>3 DEF IntentInv
    <2>3. ProcessInv(p)'
      BY DEF ProcessInv, Dispatching, Sending, Observing, Operation
    <2> QED
      BY <1>0, <1>1, <1>2, <2>1, <2>2, <2>3, InvFrame DEF Sending, Dispatching
  <1>4. CASE Accepts(istate, i, new) /\ istate'[i] = new
    <2>1. new \in TRANSITIONS(istate[i])
      BY <1>4 DEF Accepts
    <2>2. new \in AfterSend => istate[i] \in AfterSend
      BY <2>1, Lifecycle
         DEF AfterSend, BeforeSend, STATES, TRANSITIONS
    <2>3. IntentInv(i)'
      BY <1>0, <1>4, <2>1, <2>2, Lifecycle
         DEF IntentInv, ProcessInv, Unapproved, AfterSend, BeforeSend, Approving
    <2>4. ASSUME NEW q \in Sessions \ {p}, on[q] = i
          PROVE  ProcessInv(q)'
      <3>1. ProcessInv(q) /\ (pc[p] \in Approving => pc[q] \notin Approving)
        BY <2>4 DEF IInv, ExclusionInv
      <3> QED
        BY <1>4, <2>1, <2>2, <2>4, <3>1, Lifecycle
           DEF ProcessInv, Approving, Unapproved, AfterSend, BeforeSend
    <2>5. ProcessInv(p)'
      BY DEF ProcessInv, Dispatching, Sending, Observing, Operation
    <2> QED
      BY <1>0, <1>1, <1>2, <2>3, <2>4, <2>5, InvFrame DEF Sending, Dispatching
  <1> QED
    BY <1>1, <1>3, <1>4

\* Steps of approve.
LEMMA ApproveKeepsInv ==
  ASSUME IInv, TypeOK', NEW p \in Sessions,
         InsertContract(p) \/ InsertApproval(p) \/ BindSession(p)
           \/ MarkApproved(p)
  PROVE  IInv'
  <1>1. PICK i \in Intents : i = on[p]
    BY DEF IInv, TypeOK, InsertContract, InsertApproval, BindSession,
           MarkApproved, Operation
  <1>2. IntentInv(i) /\ ProcessInv(p) /\ p # None
    BY <1>1, PilotAssumption DEF IInv
  <1>3. ASSUME NEW q \in Sessions \ {p}, on[q] = i
        PROVE  /\ ProcessInv(q) /\ q # None
               /\ pc[p] \in Approving => pc[q] \notin Approving
    BY <1>1, <1>3, PilotAssumption DEF IInv, ExclusionInv
  <1>4. CASE InsertContract(p)
    <2>1. ProcessInv(p)' /\ IntentInv(i)' /\ OneActive'
      BY <1>2, <1>4 DEF InsertContract, Return, Leave, ProcessInv, IntentInv,
         OneActive, IInv, TypeOK, Approving, Dispatching, Sending, Observing
    <2>2. \A q \in Sessions \ {p} : on[q] = i => ProcessInv(q)'
      BY <1>1, <1>3, <1>4 DEF InsertContract, Return, Leave, ProcessInv, IInv,
                              TypeOK
    <2> QED
      BY <1>1, <1>4, <2>1, <2>2, InvFrame
         DEF InsertContract, Return, Leave, IInv, TypeOK, Approving,
             Dispatching, Sending, Operation
  <1>5. CASE InsertApproval(p)
    <2>1. CASE i \in approval
      BY <1>1, <1>5, <2>1, LeaveKeepsInv
         DEF InsertApproval, Return, journal
    <2>2. CASE i \notin approval
      <3>1. ProcessInv(p)' /\ IntentInv(i)' /\ OneActive'
        BY <1>1, <1>2, <1>5, <2>2 DEF InsertApproval, Goto, local, ProcessInv,
           IntentInv, OneActive, IInv, TypeOK, Approving, Dispatching, Sending,
           Observing
      <3>2. \A q \in Sessions \ {p} : on[q] = i => ProcessInv(q)'
        BY <1>1, <1>3, <1>5, <2>2 DEF InsertApproval, Goto, local, ProcessInv,
                                      IInv, TypeOK
      <3> QED
        BY <1>1, <1>3, <1>5, <2>2, <3>1, <3>2, InvFrame
           DEF InsertApproval, Goto, local, IInv, TypeOK, Approving,
               Dispatching, Sending, Operation, ProcessInv
    <2> QED
      BY <2>1, <2>2
  <1>6. CASE BindSession(p)
    <2>1. ProcessInv(p)' /\ IntentInv(i)' /\ OneActive'
      BY <1>1, <1>2, <1>6 DEF BindSession, Goto, local, ProcessInv, IntentInv,
         OneActive, IInv, TypeOK, Approving, Dispatching, Sending, Observing
    <2>2. \A q \in Sessions \ {p} : on[q] = i => ProcessInv(q)'
      BY <1>1, <1>3, <1>6 DEF BindSession, Goto, local, ProcessInv, IInv,
                              TypeOK, Approving
    <2> QED
      BY <1>1, <1>3, <1>6, <2>1, <2>2, InvFrame
         DEF BindSession, Goto, local, IInv, TypeOK, Approving, Dispatching,
             Sending, Operation
  <1>7. CASE MarkApproved(p)
    BY <1>1, <1>7, MarkKeepsInv
       DEF MarkApproved, Mark, Return, Leave, Goto, local, IInv, TypeOK,
           Approving, Dispatching, Observing, Operation, STATES
  <1> QED
    BY <1>4, <1>5, <1>6, <1>7

\* Steps of dispatch up to the transport.
LEMMA DispatchKeepsInv ==
  ASSUME IInv, TypeOK', NEW p \in Sessions,
         Check(p) \/ Refuse(p) \/ RecordPrecheck(p) \/ Precheck(p) \/ MarkSent(p)
  PROVE  IInv'
  <1>1. PICK i \in Intents : i = on[p]
    BY DEF IInv, TypeOK, Check, Refuse, RecordPrecheck, Precheck, MarkSent, Operation
  <1>2. IntentInv(i) /\ ProcessInv(p)
    BY <1>1 DEF IInv
  <1>3. ASSUME NEW q \in Sessions \ {p}, on[q] = i
        PROVE  /\ ProcessInv(q)
               /\ pc[p] \in Sending => pc[q] \notin Sending
    BY <1>1, <1>3 DEF IInv, ExclusionInv
  <1>10. CASE Check(p)
    <2>1. CASE Return(p)
      BY <1>10, <2>1, LeaveKeepsInv DEF Check, Return, journal
    <2>2. ASSUME NEW l \in {"refuse", "record_precheck"}, Goto(p, l),
                 l = "record_precheck" => i \in approval
          PROVE  IInv'
      <3>1. /\ pc'[p] = l /\ on'[p] = i
            /\ \A q \in Sessions \ {p} : pc'[q] = pc[q] /\ on'[q] = on[q]
        BY <1>1, <2>2 DEF Goto, local, IInv, TypeOK
      <3>2. ProcessInv(p)' /\ IntentInv(i)' /\ OneActive'
        BY <1>2, <1>10, <2>2, <3>1 DEF Check, journal, ProcessInv, IntentInv,
           OneActive, IInv, Approving, Dispatching, Sending, Observing
      <3>3. \A q \in Sessions \ {p} : on[q] = i => ProcessInv(q)'
        BY <1>3, <1>10, <3>1 DEF Check, journal, ProcessInv
      <3> QED
        BY <1>10, <3>1, <3>2, <3>3, InvFrame DEF Check, journal, Approving,
           Sending
    <2> QED
      BY <1>1, <1>10, <2>1, <2>2 DEF Check
  <1>4. CASE Refuse(p)
    BY <1>1, <1>4, MarkKeepsInv
       DEF Refuse, Mark, Return, Leave, Goto, local, IInv, TypeOK,
           Approving, Dispatching, Observing, Operation, STATES
  <1>5. CASE RecordPrecheck(p)
    <2>1. ProcessInv(p)' /\ IntentInv(i)' /\ OneActive'
      BY <1>1, <1>2, <1>5 DEF RecordPrecheck, Goto, local, ProcessInv,
         IntentInv, OneActive, IInv, TypeOK, Approving, Dispatching, Sending,
         Observing
    <2>2. \A q \in Sessions \ {p} : on[q] = i => ProcessInv(q)'
      BY <1>1, <1>3, <1>5 DEF RecordPrecheck, Goto, local, ProcessInv, IInv,
                              TypeOK
    <2> QED
      BY <1>1, <1>3, <1>5, <2>1, <2>2, InvFrame
         DEF RecordPrecheck, Goto, local, IInv, TypeOK, Approving, Dispatching,
             Sending, Operation
  <1>6. CASE Precheck(p) /\ ~Mark(p, "PRECHECKED", "mark_sent")
    <2>1. CASE Return(p)
      BY <1>6, <2>1, LeaveKeepsInv DEF Precheck, Return, journal
    <2>2. CASE Goto(p, "refuse")
      <3>1. istate' = Transition(istate, i, istate[i])
        BY <1>6 DEF Precheck, Transition, IInv, TypeOK
      <3>2. ProcessInv(p)' /\ IntentInv(i)' /\ OneActive'
        BY <1>1, <1>2, <1>6, <2>2 DEF Precheck, Goto, local, ProcessInv,
           IntentInv, OneActive, IInv, TypeOK, Approving, Dispatching, Sending,
           Observing
      <3>3. \A q \in Sessions \ {p} : on[q] = i => ProcessInv(q)'
        BY <1>1, <1>3, <1>6, <2>2 DEF Precheck, Goto, local, ProcessInv, IInv,
                                      TypeOK
      <3> QED
        BY <1>1, <1>3, <1>6, <2>2, <3>2, <3>3, InvFrame
           DEF Precheck, Goto, local, IInv, TypeOK, Approving, Dispatching,
               Sending, Operation
    <2> QED
      BY <1>6, <2>1, <2>2 DEF Precheck
  <1>7. ASSUME NEW new \in {"PRECHECKED", "SENT"}, Accepts(istate, i, new),
               istate' = Transition(istate, i, new),
               UNCHANGED <<session, approval, evidence, sends, on>>,
               \/ new = "PRECHECKED" /\ pc[p] = "precheck"
                    /\ pc' = [pc EXCEPT ![p] = "mark_sent"]
               \/ new = "SENT" /\ pc[p] = "mark_sent"
                    /\ pc' = [pc EXCEPT ![p] = "transmit"]
        PROVE  IInv'
    <2>1. istate'[i] = new /\ \A j \in Intents \ {i} : istate'[j] = istate[j]
      BY <1>7 DEF Transition, IInv, TypeOK
    <2>2. istate[i] = IF new = "SENT" THEN "PRECHECKED" ELSE "APPROVED"
      BY <1>7, Lifecycle DEF Accepts
    <2>3. OneActive'
      BY <1>7, OneActiveMoves DEF IInv
    <2>4. ProcessInv(p)' /\ IntentInv(i)'
      BY <1>1, <1>2, <1>7, <2>1, <2>2 DEF ProcessInv, IntentInv, IInv, TypeOK,
         Approving, Dispatching, Sending, Observing, Unapproved, AfterSend,
         BeforeSend, STATES
    <2>5. \A q \in Sessions \ {p} : on[q] = i => ProcessInv(q)'
      BY <1>1, <1>3, <1>7, <2>1, <2>2 DEF ProcessInv, IInv, TypeOK, Approving,
         Unapproved, Dispatching, Sending, AfterSend, BeforeSend, STATES
    <2>6. \A q \in Sessions \ {p} : on[q] = i => pc[q] \notin Sending
      BY <1>3, <1>7, <2>2 DEF ProcessInv, Sending, AfterSend, BeforeSend
    <2>7. pc[p] \in Dispatching /\ pc'[p] \in Dispatching /\ on'[p] = i
      BY <1>1, <1>7 DEF IInv, TypeOK, Dispatching
    <2>8. \A q \in Sessions \ {p} : pc'[q] = pc[q] /\ on'[q] = on[q]
      BY <1>7 DEF IInv, TypeOK
    <2>9. pc'[p] \notin Approving
      BY <2>7 DEF Approving, Dispatching
    <2> QED
      BY <1>3, <1>7, <2>1, <2>3, <2>4, <2>5, <2>6, <2>7, <2>8, <2>9, InvFrame
  <1>8. CASE Precheck(p) /\ Mark(p, "PRECHECKED", "mark_sent")
    <2>2. CASE Accepts(istate, i, "PRECHECKED")
      BY <1>1, <1>7, <1>8, <2>2 DEF Precheck, Mark, Goto, local
    <2>3. CASE ~Accepts(istate, i, "PRECHECKED")
      <3>1. Leave(p, "idle") /\ istate' = istate
        BY <1>1, <1>8, <2>3 DEF Mark, Transition, Return
      <3> QED
        BY <1>8, <3>1, LeaveKeepsInv DEF Precheck, journal
    <2> QED
      BY <2>2, <2>3
  <1>9. CASE MarkSent(p)
    <2>1. CASE Accepts(istate, i, "SENT")
      BY <1>1, <1>7, <1>9, <2>1 DEF MarkSent, Mark, Goto, local
    <2>2. CASE ~Accepts(istate, i, "SENT")
      <3>1. Leave(p, "idle") /\ istate' = istate
        BY <1>1, <1>9, <2>2 DEF MarkSent, Mark, Transition, Return
      <3> QED
        BY <1>9, <3>1, LeaveKeepsInv DEF MarkSent, journal
    <2> QED
      BY <2>1, <2>2
  <1> QED
    BY <1>4, <1>5, <1>6, <1>8, <1>9, <1>10

\* The transport call and what is recorded of it.
LEMMA SendKeepsInv ==
  ASSUME IInv, TypeOK', NEW p \in Sessions,
         Transmit(p) \/ Acknowledge(p) \/ LoseAck(p)
  PROVE  IInv'
  <1>1. PICK i \in Intents : i = on[p]
    BY DEF IInv, TypeOK, Transmit, Acknowledge, LoseAck, Operation
  <1>2. IntentInv(i) /\ ProcessInv(p)
    BY <1>1 DEF IInv
  <1>3. CASE Transmit(p)
    <2>1. sends[i] = 0 /\ sends'[i] = 1 /\ pc'[p] \in {"acknowledge", "lose_ack"}
      BY <1>1, <1>2, <1>3 DEF Transmit, ProcessInv, Goto, IInv, TypeOK
    <2>2. \A q \in Sessions \ {p} : on[q] = i => pc[q] # "transmit"
      BY <1>1, <1>3 DEF Transmit, IInv, ExclusionInv, Sending
    <2>3. ProcessInv(p)' /\ IntentInv(i)' /\ OneActive'
      BY <1>1, <1>2, <1>3, <2>1 DEF Transmit, journal, ProcessInv, IntentInv,
         OneActive, IInv, TypeOK, Approving, Dispatching, Sending, Observing,
         AfterSend
    <2>4. \A q \in Sessions \ {p} :
            on[q] = i => ProcessInv(q)'
      <3>1. \A q \in Sessions \ {p} : pc'[q] = pc[q] /\ on'[q] = on[q]
        BY <1>3 DEF Transmit, Goto, local, IInv, TypeOK
      <3> QED
        BY <1>1, <1>3, <2>2, <3>1 DEF Transmit, journal, ProcessInv, IInv
    <2> QED
      BY <1>1, <1>3, <2>1, <2>3, <2>4, InvFrame
         DEF Transmit, Goto, local, journal, IInv, TypeOK, Approving,
             Dispatching, Sending, Operation
  <1>4. CASE Acknowledge(p) \/ LoseAck(p)
    <2>1. PICK new \in {"ACKNOWLEDGED", "UNKNOWN_DELIVERY"} :
            istate' = Transition(istate, i, new) /\ Leave(p, "idle")
      BY <1>1, <1>4 DEF Acknowledge, LoseAck, Mark, Return
    <2> QED
      BY <1>1, <1>4, <2>1, MarkKeepsInv
         DEF Acknowledge, LoseAck, Leave, IInv, TypeOK, Approving,
             Dispatching, Observing, Operation, STATES
  <1> QED
    BY <1>3, <1>4

\* What executor.observe can make of a state.
LEMMA DueStates ==
  ASSUME NEW st, NEW f, Due(st, f) # st
  PROVE  Due(st, f) \in STATES \ {"APPROVED", "PRECHECKED", "SENT"}
  BY DEF Due, Closing, STATES

\* Steps of observe: they only move intents that are past SENT.
LEMMA ObserveKeepsInv ==
  ASSUME IInv, TypeOK', NEW p \in Sessions,
         MarkUnknown(p) \/ Assess(p) \/ Reconcile(p) \/ Settle(p)
  PROVE  IInv'
  <1>1. PICK i \in Intents : i = on[p]
    BY DEF IInv, TypeOK, MarkUnknown, Assess, Reconcile, Settle, Operation
  <1>2. istate[i] \in AfterSend /\ pc[p] \in Operation
    BY <1>1 DEF IInv, ProcessInv, Observing, MarkUnknown, Assess, Reconcile,
                Settle, Operation
  <1>3. CASE UNCHANGED istate
    <2>1. istate' = Transition(istate, i, "PROPOSED")
      BY <1>3 DEF Transition, Accepts, TRANSITIONS
    <2>2. /\ \A q \in Sessions \ {p} : pc'[q] = pc[q] /\ on'[q] = on[q]
          /\ pc'[p] \in Operation => on'[p] = i
          /\ pc'[p] \notin Approving \cup Dispatching
      BY <1>1, <1>2 DEF MarkUnknown, Assess, Reconcile, Settle, Mark, Goto, Return,
         Leave, local, IInv, TypeOK, Operation, Approving, Dispatching
    <2>3. UNCHANGED <<session, approval, evidence, sends>>
      BY DEF MarkUnknown, Assess, Reconcile, Settle, journal
    <2> QED
      BY <1>1, <1>2, <1>3, <2>1, <2>2, <2>3, MarkKeepsInv DEF STATES
  <1>4. ASSUME NEW new \in STATES \ {"APPROVED", "PRECHECKED", "SENT"},
               istate' = Transition(istate, i, new),
               \/ Leave(p, "idle")
               \/ /\ pc'[p] \in Observing
                  /\ \A q \in Sessions \ {p} : pc'[q] = pc[q]
                  /\ UNCHANGED on,
               UNCHANGED <<session, approval, evidence, sends>>
        PROVE  IInv'
    <2>1. istate'[i] \in AfterSend
      BY <1>2, <1>4, Lifecycle, TransitionMoves DEF Accepts, IInv
    <2>2. /\ \A q \in Sessions \ {p} : pc'[q] = pc[q] /\ on'[q] = on[q]
          /\ pc'[p] \in Operation => on'[p] = i
          /\ pc'[p] \notin Approving \cup Dispatching
      BY <1>1, <1>4 DEF Leave, IInv, TypeOK, Operation, Observing, Approving,
                        Dispatching
    <2> QED
      BY <1>1, <1>2, <1>4, <2>1, <2>2, MarkKeepsInv
  <1>5. CASE MarkUnknown(p)
    <2>1. \/ Leave(p, "idle")
          \/ /\ pc'[p] \in Observing
             /\ \A q \in Sessions \ {p} : pc'[q] = pc[q]
             /\ UNCHANGED on
      BY <1>5 DEF MarkUnknown, Return, Observing, IInv, TypeOK
    <2> QED
      BY <1>1, <1>4, <1>5, <2>1 DEF MarkUnknown, STATES
  <1>6. CASE Assess(p) /\ ~UNCHANGED istate
    <2>1. Mark(p, "ABORTED", "return")
      BY <1>6 DEF Assess
    <2> QED
      BY <1>1, <1>4, <1>6, <2>1 DEF Assess, Mark, Return, STATES
  <1>7. CASE Settle(p) /\ ~UNCHANGED istate
    <2>1. PICK new \in STATES \ {"APPROVED", "PRECHECKED", "SENT"} :
            istate' = Transition(istate, i, new)
      BY <1>1, <1>7, DueStates DEF Settle
    <2>2. \/ Leave(p, "idle")
          \/ /\ pc'[p] \in Observing
             /\ \A q \in Sessions \ {p} : pc'[q] = pc[q]
             /\ UNCHANGED on
      BY <1>7 DEF Settle, Return, Observing
    <2> QED
      BY <1>4, <1>7, <2>1, <2>2 DEF Settle
  <1> QED
    BY <1>3, <1>5, <1>6, <1>7 DEF Reconcile, journal

\* The start of an operation.
LEMMA CallKeepsInv ==
  ASSUME IInv, TypeOK', NEW p \in Sessions, NEW i \in Intents, Call(p, i)
  PROVE  IInv'
  <1>1. IntentInv(i) /\ (\A q \in Sessions : ProcessInv(q))
    BY DEF IInv
  <1>2. CASE Propose(p, i)
    <2>1. /\ \/ istate'[i] = istate[i]
             \/ istate[i] = "ABSENT" /\ istate'[i] = "PROPOSED"
          /\ \A j \in Intents \ {i} : istate'[j] = istate[j]
          /\ pc'[p] = "insert_contract" /\ on'[p] = i
          /\ \A q \in Sessions \ {p} : pc'[q] = pc[q] /\ on'[q] = on[q]
      BY <1>2 DEF Propose, Begin, IInv, TypeOK
    <2>2. ProcessInv(p)' /\ IntentInv(i)' /\ OneActive'
      BY <1>1, <1>2, <2>1 DEF Propose, ProcessInv, IntentInv, OneActive,
         IInv, ACTIVE, Approving, Dispatching, Sending, Observing, Unapproved,
         BeforeSend
    <2>3. \A q \in Sessions \ {p} : on[q] = i => ProcessInv(q)'
      BY <1>1, <1>2, <2>1 DEF Propose, ProcessInv, AfterSend, BeforeSend,
                              Unapproved
    <2> QED
      BY <1>2, <2>1, <2>2, <2>3, InvFrame
         DEF Propose, Approving, Dispatching, Sending
  <1>3. CASE Reject(p, i)
    <2>1. /\ istate'[i] = "REJECTED" /\ istate[i] \in {"PROPOSED", "APPROVED"}
          /\ \A j \in Intents \ {i} : istate'[j] = istate[j]
      BY <1>3, Lifecycle DEF Reject, Accepts, Transition, IInv, TypeOK
    <2>2. IntentInv(i)' /\ OneActive'
      BY <1>1, <1>3, <2>1, OneActiveMoves DEF Reject, IntentInv, IInv,
         Unapproved, BeforeSend
    <2>3. \A q \in Sessions : on[q] = i => ProcessInv(q)'
      BY <1>1, <1>3, <2>1 DEF Reject, local, ProcessInv, AfterSend, BeforeSend,
                              Unapproved
    <2>4. ProcessInv(p)' /\ pc'[p] = "idle"
      BY <1>3 DEF Reject, local, ProcessInv, Approving, Dispatching, Sending,
                  Observing
    <2> QED
      BY <1>3, <2>1, <2>2, <2>3, <2>4, InvFrame
         DEF Reject, local, Approving, Dispatching, Sending, Operation
  <1>4. ASSUME NEW l \in {"insert_approval", "check_own", "check_other",
                          "mark_unknown", "assess"},
               pc' = [pc EXCEPT ![p] = l], on' = [on EXCEPT ![p] = i],
               UNCHANGED <<istate, session, approval, evidence, sends>>,
               l \in Observing => istate[i] \in AfterSend
        PROVE  IInv'
    <2>1. /\ pc'[p] = l /\ on'[p] = i
          /\ \A q \in Sessions \ {p} : pc'[q] = pc[q] /\ on'[q] = on[q]
      BY <1>4 DEF IInv, TypeOK
    <2>2. ProcessInv(p)' /\ IntentInv(i)' /\ OneActive'
      BY <1>1, <1>4, <2>1 DEF ProcessInv, IntentInv, OneActive, IInv,
         Approving, Dispatching, Sending, Observing
    <2>3. \A q \in Sessions \ {p} : on[q] = i => ProcessInv(q)'
      BY <1>1, <1>4, <2>1 DEF ProcessInv
    <2> QED
      BY <1>4, <2>1, <2>2, <2>3, InvFrame
         DEF Approving, Dispatching, Sending
  <1>5. CASE Approve(p, i)
    BY <1>4, <1>5 DEF Approve, Begin, Observing
  <1>6. CASE Dispatch(p, i)
    BY <1>4, <1>6 DEF Dispatch, Begin, journal, Observing
  <1>7. ASSUME NEW f \in Given, Observe(p, i, f)
        PROVE  IInv'
    BY <1>4, <1>7 DEF Observe, journal, Observing
  <1> QED
    BY <1>2, <1>3, <1>5, <1>6, <1>7 DEF Call

\* Every step of every process keeps the inductive invariant.
LEMMA InvStep == IInv /\ [Next]_vars => IInv'
  <1> SUFFICES ASSUME IInv, [Next]_vars
               PROVE  IInv'
    OBVIOUS
  <1>1. TypeOK'
    BY TypeStep DEF IInv
  <1>2. CASE UNCHANGED vars
    BY <1>2 DEF vars, IInv, TypeOK, ProcessInv, IntentInv, ExclusionInv,
                OneActive
  <1>3. ASSUME NEW p \in Sessions, Start(p) \/ Stop(p) \/ DatabaseFault(p)
        PROVE  IInv'
    BY <1>1, <1>3, LeaveKeepsInv DEF Start, Stop, DatabaseFault, Return, journal
  <1>4. ASSUME NEW p \in Sessions, Step(p)
        PROVE  IInv'
    BY <1>1, <1>4, ApproveKeepsInv, DispatchKeepsInv, SendKeepsInv,
       ObserveKeepsInv DEF Step
  <1>5. ASSUME NEW p \in Sessions, NEW i \in Intents, Call(p, i)
        PROVE  IInv'
    BY <1>1, <1>5, CallKeepsInv
  <1> QED
    BY <1>2, <1>3, <1>4, <1>5 DEF Next

\* The inductive invariant holds in every reachable state.
THEOREM InductiveInvariant == Spec => []IInv
<1>1. Init => IInv
  BY InvInit
<1>2. IInv /\ [Next]_vars => IInv'
  BY InvStep
<1> QED
  BY <1>1, <1>2, PTL DEF Spec

-----------------------------------------------------------------------------
(* What it gives.                                                          *)

\* No intent is ever commanded twice, for any number of overlapping, dying and
\* restarting operator processes.
THEOREM SendAtMostOnce == Spec => []AtMostOneSend
<1>1. IInv => AtMostOneSend
  BY DEF IInv, IntentInv, AtMostOneSend
<1> QED
  BY <1>1, InductiveInvariant, PTL

\* Whatever was sent is durably recorded as sent, approved and evidenced.
THEOREM SendJournaled == Spec => []SendIsJournaled
<1>1. IInv => SendIsJournaled
  BY DEF IInv, TypeOK, IntentInv, SendIsJournaled, Sent, AfterSend, BeforeSend
<1> QED
  BY <1>1, InductiveInvariant, PTL

\* Two commanded intents are never both without a witnessed return.
THEOREM OneOutstanding == Spec => []OneCommandOutstanding
<1>1. IInv => OneCommandOutstanding
  <2> SUFFICES ASSUME IInv, NEW i \in Intents, NEW j \in Intents,
                      Sent(i), istate[i] # "NEUTRAL_STATE_VERIFIED",
                      Sent(j), istate[j] # "NEUTRAL_STATE_VERIFIED"
               PROVE  i = j
    BY DEF OneCommandOutstanding
  <2>1. istate[i] \in AfterSend /\ istate[j] \in AfterSend
    BY DEF IInv, TypeOK, IntentInv, Sent, AfterSend, BeforeSend
  <2>2. istate[i] \in ACTIVE /\ istate[j] \in ACTIVE
    BY <2>1 DEF AfterSend, BeforeSend, STATES, ACTIVE
  <2> QED
    BY <2>2 DEF IInv, OneActive
<1> QED
  BY <1>1, InductiveInvariant, PTL

-----------------------------------------------------------------------------
(* When operator processes follow one another, the rehearsal implements    *)
(* SingleUseSlot.  The invariant it needs says that the only running       *)
(* process knows the state of the intent it works on: nobody else moves it *)
(* between SENT and the transport, or between observe's two readings.      *)

\* What a process that runs alone knows.
KnowledgeInv(p) ==
  /\ pc[p] \in {"check_own"} \cup Dispatching => session[on[p]] = p
  /\ pc[p] = "transmit" => istate[on[p]] = "SENT"
  /\ pc[p] = "assess" => seen[p] = istate[on[p]]
  /\ pc[p] = "reconcile" => istate[on[p]] # "ABORTED"
  /\ pc[p] = "settle" => seen[p] = istate[on[p]] /\ seen[p] # "ABORTED"

Alone == \A p, q \in Sessions : Running(p) /\ Running(q) => p = q

XInv == Alone /\ \A p \in Sessions : KnowledgeInv(p)

-----------------------------------------------------------------------------
\* The one action of p that is taken leaves the other processes where they are.
LEMMA StepFrame ==
  ASSUME IInv, NEW p \in Sessions, Step(p)
  PROVE  Running(p) /\ \A q \in Sessions \ {p} : pc'[q] = pc[q]
  <1>1. Running(p)
    BY DEF Step, InsertContract, InsertApproval, BindSession, MarkApproved,
       Check, Refuse, RecordPrecheck, Precheck, MarkSent, Transmit, Acknowledge,
       LoseAck, MarkUnknown, Assess, Reconcile, Settle, Running
  <1>2. \E l : pc' = [pc EXCEPT ![p] = l]
    <2>1. CASE InsertContract(p) \/ InsertApproval(p) \/ BindSession(p)
                 \/ Check(p) \/ RecordPrecheck(p) \/ Transmit(p) \/ Reconcile(p)
      BY <2>1 DEF InsertContract, InsertApproval, BindSession, Check,
         RecordPrecheck, Transmit, Reconcile, Goto, Return, Leave
    <2>2. CASE MarkApproved(p) \/ Refuse(p) \/ Precheck(p) \/ MarkSent(p)
                 \/ Acknowledge(p) \/ LoseAck(p)
      BY <2>2 DEF MarkApproved, Refuse, Precheck, MarkSent, Acknowledge,
         LoseAck, Mark, Goto, Return, Leave
    <2>3. CASE MarkUnknown(p) \/ Assess(p)
      BY <2>3 DEF MarkUnknown, Assess, Mark, Goto, Return, Leave
    <2>4. CASE Settle(p)
      <3>1. pc' = pc \/ Return(p)
        BY <2>4 DEF Settle
      <3>2. pc = [pc EXCEPT ![p] = pc[p]]
        BY DEF IInv, TypeOK
      <3> QED
        BY <3>1, <3>2 DEF Return, Leave
    <2> QED
      BY <2>1, <2>2, <2>3, <2>4 DEF Step
  <1> QED
    BY <1>1, <1>2 DEF IInv, TypeOK

\* It is enough to look at the process that acts.
LEMMA KnowledgeFrame ==
  ASSUME XInv, NEW p \in Sessions, Running(p), KnowledgeInv(p)',
         \A q \in Sessions \ {p} : pc'[q] = pc[q]
  PROVE  XInv'
  <1>1. \A q \in Sessions \ {p} : ~Running(q) /\ ~Running(q)'
    BY DEF XInv, Alone, Running
  <1>2. Alone'
    BY <1>1 DEF Alone
  <1>3. \A q \in Sessions \ {p} : KnowledgeInv(q)'
    BY <1>1 DEF KnowledgeInv, Dispatching, Running
  <1> QED
    BY <1>2, <1>3 DEF XInv

\* A process that is not about to use what it knows.
LEMMA KnowsNothing ==
  ASSUME NEW p \in Sessions,
         pc'[p] \notin {"check_own", "assess", "reconcile", "settle"}
                         \cup Dispatching
  PROVE  KnowledgeInv(p)'
  BY DEF KnowledgeInv, Dispatching

\* After its step the process still knows the state of its intent.
LEMMA StepKnowledge ==
  ASSUME IInv, XInv, NEW p \in Sessions, Step(p)
  PROVE  KnowledgeInv(p)'
  <1>0. PICK i \in Intents : i = on[p]
    BY DEF IInv, TypeOK, Step, InsertContract, InsertApproval, BindSession,
       MarkApproved, Check, Refuse, RecordPrecheck, Precheck, MarkSent, Transmit,
       Acknowledge, LoseAck, MarkUnknown, Assess, Reconcile, Settle, Operation
  <1>1. CASE InsertContract(p) \/ InsertApproval(p) \/ BindSession(p)
               \/ Transmit(p)
    BY <1>1, KnowsNothing DEF InsertContract, InsertApproval, BindSession,
       Transmit, Goto, Return, Leave, IInv, TypeOK, Dispatching
  <1>2. CASE MarkApproved(p) \/ Refuse(p) \/ Acknowledge(p) \/ LoseAck(p)
    BY <1>2, KnowsNothing DEF MarkApproved, Refuse, Acknowledge,
       LoseAck, Mark, Goto, Return, Leave, IInv, TypeOK, Dispatching
  <1>8. CASE Check(p) \/ RecordPrecheck(p) \/ Precheck(p)
    <2>1. CASE pc'[p] \in {"record_precheck", "precheck", "mark_sent"}
      <3>1. session[i] = p /\ session' = session /\ on'[p] = i
        BY <1>0, <1>8, <2>1 DEF Check, RecordPrecheck, Precheck, Mark, Goto,
           Return, Leave, journal, local, XInv, KnowledgeInv, Dispatching,
           IInv, TypeOK
      <3> QED
        BY <2>1, <3>1 DEF KnowledgeInv
    <2>2. CASE pc'[p] \in {"idle", "refuse"}
      BY <2>2, KnowsNothing DEF Dispatching
    <2> QED
      BY <1>8, <2>1, <2>2 DEF Check, RecordPrecheck, Precheck, Mark, Goto,
         Return, Leave, IInv, TypeOK
  <1>3. CASE MarkSent(p)
    <2>1. CASE Accepts(istate, i, "SENT")
      BY <1>0, <1>3, <2>1 DEF MarkSent, Mark, Goto, local, Transition,
         XInv, KnowledgeInv, Dispatching, IInv, TypeOK
    <2>2. CASE ~Accepts(istate, i, "SENT")
      BY <1>0, <1>3, <2>2, KnowsNothing DEF MarkSent, Mark, Return, Leave,
         Dispatching, IInv, TypeOK
    <2> QED
      BY <2>1, <2>2
  <1>4. CASE MarkUnknown(p)
    <2>1. CASE Accepts(istate, i, "UNKNOWN_DELIVERY")
      BY <1>0, <1>4, <2>1 DEF MarkUnknown, Transition, KnowledgeInv,
         Dispatching, IInv, TypeOK
    <2>2. CASE ~Accepts(istate, i, "UNKNOWN_DELIVERY")
      BY <1>0, <1>4, <2>2, KnowsNothing DEF MarkUnknown, Return, Leave,
         Dispatching, IInv, TypeOK
    <2> QED
      BY <2>1, <2>2
  <1>5. CASE Assess(p)
    <2>1. CASE pc'[p] = "reconcile"
      <3>1. /\ seen[p] # "ABORTED" /\ UNCHANGED <<istate, on>>
        BY <1>5, <2>1 DEF Assess, Mark, Goto, local, Return, Leave, IInv, TypeOK
      <3> QED
        BY <1>0, <1>5, <2>1, <3>1 DEF Assess, XInv, KnowledgeInv, Dispatching
    <2>2. CASE pc'[p] # "reconcile"
      BY <1>5, <2>2, KnowsNothing DEF Assess, Mark, Goto, Return, Leave,
         Dispatching, IInv, TypeOK
    <2> QED
      BY <2>1, <2>2
  <1>6. CASE Reconcile(p)
    BY <1>0, <1>6 DEF Reconcile, journal, XInv, KnowledgeInv, Dispatching, IInv,
       TypeOK
  <1>7. CASE Settle(p)
    <2>1. CASE Return(p)
      BY <2>1, KnowsNothing DEF Return, Leave, Dispatching, IInv, TypeOK
    <2>2. CASE ~Return(p)
      <3> DEFINE new == Due(seen[p], fb[p])
      <3>1. /\ new \in {"EXPIRED", "EFFECT_OBSERVED", "COMPLETED"}
            /\ Accepts(istate, on[p], new)
            /\ istate' = Transition(istate, on[p], new)
            /\ seen' = [seen EXCEPT ![p] = new]
            /\ UNCHANGED <<pc, on>>
        BY <1>7, <2>2 DEF Settle
      <3> HIDE DEF new
      <3>2. istate'[i] = new /\ seen'[p] = new /\ on'[p] = i
        BY <1>0, <3>1 DEF Transition, IInv, TypeOK
      <3> QED
        BY <1>7, <3>1, <3>2 DEF Settle, KnowledgeInv, Dispatching
    <2> QED
      BY <2>1, <2>2
  <1> QED
    BY <1>1, <1>2, <1>3, <1>4, <1>5, <1>6, <1>7, <1>8 DEF Step

\* An operation that starts has read the state it goes on with.
LEMMA CallKnowledge ==
  ASSUME IInv, XInv, NEW p \in Sessions, NEW i \in Intents, Call(p, i)
  PROVE  /\ Running(p)
         /\ \A q \in Sessions \ {p} : pc'[q] = pc[q]
         /\ KnowledgeInv(p)'
  <1>1. pc[p] = "idle" /\ \E l : pc' = [pc EXCEPT ![p] = l]
    <2>1. CASE Reject(p, i)
      <3>1. pc = [pc EXCEPT ![p] = pc[p]]
        BY DEF IInv, TypeOK
      <3> QED
        BY <2>1, <3>1 DEF Reject
    <2>2. CASE ~Reject(p, i)
      BY <2>2 DEF Call, Propose, Approve, Dispatch, Observe, Begin
    <2> QED
      BY <2>1, <2>2
  <1>2. ASSUME Propose(p, i) \/ Approve(p, i) \/ Reject(p, i)
        PROVE  KnowledgeInv(p)'
    BY <1>2, KnowsNothing DEF Propose, Approve, Reject, Begin, local,
       Dispatching, IInv, TypeOK
  <1>4. ASSUME Dispatch(p, i)
        PROVE  KnowledgeInv(p)'
    BY <1>4 DEF Dispatch, Begin, journal, KnowledgeInv, Dispatching, IInv,
       TypeOK
  <1>3. ASSUME NEW f \in Given, Observe(p, i, f)
        PROVE  KnowledgeInv(p)'
    BY <1>3 DEF Observe, journal, KnowledgeInv, Dispatching, IInv, TypeOK
  <1> QED
    BY <1>1, <1>2, <1>3, <1>4 DEF Call, Running, IInv, TypeOK

\* One process at a time: what it knows stays true until it has used it.
LEMMA KnowledgeStep == Exclusive /\ IInv /\ XInv /\ [Next]_vars => XInv'
  <1> SUFFICES ASSUME Exclusive, IInv, XInv, [Next]_vars
               PROVE  XInv'
    OBVIOUS
  <1>1. CASE UNCHANGED vars
    BY <1>1 DEF vars, XInv, Alone, KnowledgeInv, Dispatching, Running
  <1>2. ASSUME NEW p \in Sessions, Start(p)
        PROVE  XInv'
    <2>1. \A q \in Sessions : ~Running(q)
      BY <1>2 DEF Start
    <2>2. /\ pc'[p] = "idle"
          /\ \A q \in Sessions \ {p} : pc'[q] = pc[q]
      BY <1>2 DEF Start, Goto, IInv, TypeOK
    <2> QED
      BY <2>1, <2>2 DEF XInv, Alone, KnowledgeInv, Dispatching, Running
  <1>3. ASSUME NEW p \in Sessions, Stop(p) \/ DatabaseFault(p)
        PROVE  XInv'
    <2>1. Running(p)
      BY <1>3 DEF Stop, DatabaseFault, Running, Operation
    <2>2. /\ pc'[p] \in {"idle", "dead"}
          /\ \A q \in Sessions \ {p} : pc'[q] = pc[q]
      BY <1>3 DEF Stop, DatabaseFault, Return, Leave, IInv, TypeOK
    <2> QED
      BY <2>1, <2>2, KnowsNothing, KnowledgeFrame DEF Dispatching
  <1>4. ASSUME NEW p \in Sessions, Step(p)
        PROVE  XInv'
    BY <1>4, StepFrame, StepKnowledge, KnowledgeFrame
  <1>5. ASSUME NEW p \in Sessions, NEW i \in Intents, Call(p, i)
        PROVE  XInv'
    BY <1>5, CallKnowledge, KnowledgeFrame
  <1> QED
    BY <1>1, <1>2, <1>3, <1>4, <1>5 DEF Next

-----------------------------------------------------------------------------
(* The refinement.                                                         *)

\* A journal transition is a step of the slot, unless it ends an abort.
LEMMA TransitionMaps ==
  ASSUME IInv, TypeOK', NEW i \in Intents, NEW new \in STATES,
         istate' = Transition(istate, i, new), UNCHANGED sends,
         istate[i] = "ABORTED" => new # "NEUTRAL_STATE_VERIFIED"
  PROVE  [Slot!Next]_<<PhaseMap, sends>>
  <1> USE DEF PhaseMap
  <1> DEFINE ph == [j \in Intents |-> PhaseOf(istate[j])]
  <1>1. CASE istate' = istate
    BY <1>1
  <1>2. CASE Accepts(istate, i, new) /\ istate' = [istate EXCEPT ![i] = new]
    <2>1. ph' = [ph EXCEPT ![i] = PhaseOf(new)]
      BY <1>2 DEF IInv, TypeOK
    <2>2. new \in TRANSITIONS(istate[i])
      BY <1>2 DEF Accepts
    <2>3. CASE PhaseOf(new) = ph[i]
      BY <2>1, <2>3
    <2>4. CASE PhaseOf(new) # ph[i]
      <3>1. \/ ph[i] = "waiting" /\ PhaseOf(new) = "closed"
            \/ ph[i] = "waiting" /\ PhaseOf(new) = "held" /\ new \in ACTIVE
            \/ ph[i] = "held" /\ PhaseOf(new) \in {"locked", "closed"}
        BY <2>2, <2>4 DEF TRANSITIONS, PhaseOf, ACTIVE, STATES
      <3>2. CASE ph[i] = "waiting" /\ PhaseOf(new) = "closed"
        BY <2>1, <3>2 DEF Slot!Next, Slot!Decline, Slot!Move
      <3>3. CASE ph[i] = "waiting" /\ PhaseOf(new) = "held" /\ new \in ACTIVE
        <4>1. \A j \in Intents : istate[j] \notin ACTIVE
          BY <1>2, <3>3 DEF Accepts, IInv, TypeOK, PhaseOf, ACTIVE
        <4>2. \A j \in Intents : ph[j] \notin {"held", "locked"}
          BY <4>1 DEF PhaseOf, ACTIVE
        <4> QED
          BY <2>1, <3>3, <4>2 DEF Slot!Next, Slot!Acquire, Slot!Move
      <3>4. CASE ph[i] = "held" /\ PhaseOf(new) \in {"locked", "closed"}
        BY <2>1, <3>4 DEF Slot!Next, Slot!Lock, Slot!Release, Slot!Move
      <3> QED
        BY <3>1, <3>2, <3>3, <3>4
    <2> QED
      BY <2>3, <2>4
  <1> QED
    BY <1>1, <1>2 DEF Transition

\* Every step of the rehearsal is a step of the slot, or none.
LEMMA StepMaps ==
  ASSUME IInv, XInv, TypeOK', [Next]_vars
  PROVE  [Slot!Next]_<<PhaseMap, sends>>
  <1> USE DEF PhaseMap
  <1> DEFINE ph == [j \in Intents |-> PhaseOf(istate[j])]
  <1>1. CASE UNCHANGED <<istate, sends>>
    BY <1>1
  <1>2. ASSUME NEW p \in Sessions, Transmit(p)
        PROVE  Slot!Next
    <2>1. PICK i \in Intents : i = on[p]
      BY <1>2 DEF Transmit, IInv, TypeOK, Operation
    <2>2. istate[i] = "SENT" /\ sends[i] = 0
      BY <1>2, <2>1 DEF Transmit, XInv, KnowledgeInv, IInv, ProcessInv
    <2>3. ph[i] = "held" /\ sends' = [sends EXCEPT ![i] = 1] /\ ph' = ph
      BY <1>2, <2>1, <2>2 DEF Transmit, journal, PhaseOf, ACTIVE, IInv, TypeOK
    <2> QED
      BY <2>2, <2>3 DEF Slot!Next, Slot!Command
  <1>3. ASSUME NEW p \in Sessions,
               MarkApproved(p) \/ Refuse(p) \/ Precheck(p) \/ MarkSent(p)
                 \/ Acknowledge(p) \/ LoseAck(p) \/ MarkUnknown(p)
                 \/ Assess(p) \/ Settle(p)
        PROVE  [Slot!Next]_<<ph, sends>>
    <2>1. PICK i \in Intents : i = on[p]
      BY <1>3 DEF IInv, TypeOK, MarkApproved, Refuse, Precheck, MarkSent,
         Acknowledge, LoseAck, MarkUnknown, Assess, Settle, Operation
    <2>2. CASE UNCHANGED istate
      <3>1. UNCHANGED sends
        BY <1>3 DEF MarkApproved, Refuse, Precheck, MarkSent, Acknowledge,
           LoseAck, MarkUnknown, Assess, Settle
      <3> QED
        BY <1>1, <2>2, <3>1
    <2>3. CASE ~UNCHANGED istate /\ ~Settle(p)
      <3>1. \E new \in STATES \ {"NEUTRAL_STATE_VERIFIED"} :
              istate' = Transition(istate, i, new) /\ UNCHANGED sends
        BY <1>3, <2>1, <2>3 DEF MarkApproved, Refuse, Precheck, MarkSent,
           Acknowledge, LoseAck, MarkUnknown, Assess, Mark, STATES
      <3> QED
        BY <3>1, TransitionMaps
    <2>4. CASE ~UNCHANGED istate /\ Settle(p)
      <3>1. istate[i] # "ABORTED"
        BY <2>1, <2>4 DEF Settle, XInv, KnowledgeInv
      <3>2. \E new \in STATES :
              istate' = Transition(istate, i, new) /\ UNCHANGED sends
        BY <2>1, <2>4, DueStates DEF Settle
      <3> QED
        BY <3>1, <3>2, TransitionMaps
    <2> QED
      BY <2>2, <2>3, <2>4
  <1>4. ASSUME NEW p \in Sessions, NEW i \in Intents, Propose(p, i)
        PROVE  ph' = ph /\ sends' = sends
    BY <1>4 DEF Propose, PhaseOf, IInv, TypeOK
  <1>5. ASSUME NEW p \in Sessions, NEW i \in Intents, Reject(p, i)
        PROVE  [Slot!Next]_<<ph, sends>>
    BY <1>5, TransitionMaps DEF Reject, STATES
  <1>6. ASSUME NEW p \in Sessions, Step(p)
        PROVE  [Slot!Next]_<<ph, sends>>
    BY <1>1, <1>2, <1>3, <1>6 DEF Step, InsertContract, InsertApproval,
       BindSession, Check, RecordPrecheck, Reconcile, journal
  <1>7. ASSUME NEW p \in Sessions, NEW i \in Intents, Call(p, i)
        PROVE  [Slot!Next]_<<ph, sends>>
    BY <1>1, <1>4, <1>5, <1>7 DEF Call, Approve, Dispatch, Observe, journal
  <1>8. ASSUME NEW p \in Sessions, Start(p) \/ Stop(p) \/ DatabaseFault(p)
        PROVE  UNCHANGED <<istate, sends>>
    BY <1>8 DEF Start, Stop, DatabaseFault, journal
  <1> QED
    BY <1>1, <1>6, <1>7, <1>8 DEF Next, vars

-----------------------------------------------------------------------------
(* What one process at a time gives.                                       *)

\* While processes follow one another, each knows the state of its intent.
THEOREM Knowledge == ASSUME Exclusive PROVE Spec => []XInv
<1>1. Init => XInv
  BY DEF Init, XInv, Alone, KnowledgeInv, Dispatching, Running
<1>2. IInv /\ IInv' /\ XInv /\ [Next]_vars => XInv'
  BY KnowledgeStep
<1> QED
  BY <1>1, <1>2, InductiveInvariant, PTL DEF Spec

\* A later process never sends what an earlier one approved.
THEOREM ApproverSends == ASSUME Exclusive PROVE Spec => SentByApprover
<1>1. IInv /\ XInv /\ [Next]_vars =>
        [\A p \in Sessions, i \in Intents :
           pc[p] = "transmit" /\ on[p] = i /\ sends'[i] # sends[i]
             => session[i] = p]_vars
  BY DEF XInv, KnowledgeInv, Dispatching
<1> QED
  BY <1>1, InductiveInvariant, Knowledge, PTL DEF Spec, SentByApprover

\* One after the other, the operator processes implement SingleUseSlot: one
\* command per intent, only under the slot, and no abort gives the slot back.
THEOREM ImplementsSlot == ASSUME Exclusive PROVE Spec => SlotContract
<1>1. Init => Slot!Init
  BY DEF Init, Slot!Init, PhaseMap, PhaseOf
<1>2. IInv /\ IInv' /\ XInv /\ [Next]_vars =>
        [Slot!Next]_<<PhaseMap, sends>>
  BY StepMaps DEF IInv
<1> QED
  BY <1>1, <1>2, InductiveInvariant, Knowledge, PTL
     DEF Spec, SlotContract, Slot!Spec
=============================================================================
