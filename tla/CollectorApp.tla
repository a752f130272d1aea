----------------------------- MODULE CollectorApp -----------------------------
(***************************************************************************)
(* The App process (tools/run_home_assistant_app.py): the main thread      *)
(* collects one observation per slot (tools/run_collector.py), stores it,  *)
(* then context and a capture of its inputs, each in transactions of their *)
(* own (context_repository.py, arbitrage/capture.py); the coordinator      *)
(* thread archives decision inputs that name a confirmed capture; a signal *)
(* or an exception ends the process.                                       *)
(*                                                                         *)
(* A reading is known by its number, in the order in which they are taken. *)
(***************************************************************************)
EXTENDS Integers, FiniteSets, FiniteSetsExt

CONSTANTS Slot,         \* the length of a slot, five minutes
          Period,       \* collection_interval_seconds
          Attempts,     \* attempts of save_with_retry
          Last,         \* bound: the clock stops here
          MaxDecisions, \* bound: decision inputs archived
          MaxFaults     \* bound: faults, clocks set back, kills

ASSUME CollectorAssumption ==
  /\ {Slot, Period, Attempts} \subseteq Nat \ {0}
  /\ {Last, MaxDecisions, MaxFaults} \subseteq Nat

None     == -1
Times    == 0 .. Last
Slots    == 0 .. (Last \div Slot)

SlotOf(t) == t \div Slot   \* align_to_five_minute_slot

VARIABLES now,       \* the clock
          setbacks,  \* how often it was set back
          faults,    \* other faults so far
          taken,     \* readings taken
          rows,      \* by slot, the reading its observation holds, 0: none
          context,   \* by slot, the reading its context row holds, 0: none
          captures,  \* by slot, the capture of source inputs
          witness,   \* by slot, confirmed_at of its commit witness
          decisions, \* captures of decision inputs
          pc,        \* where the main thread is
          left,      \* what is left of its wait
          reading,   \* the observation it has made
          tries,     \* attempts to save it
          stamp,     \* the time it is about to confirm
          reported,  \* the observation AppHealth has recorded last
          fpc,       \* where the coordinator thread is
          found,     \* the decision inputs it has put together
          stop       \* stop_event

database == <<rows, context, captures, witness, decisions>>
attempt  == <<reading, tries, stamp>>
memory   == <<attempt, reported>>
thread   == <<fpc, found>>
clocks   == <<now, setbacks>>
vars     == <<now, setbacks, faults, taken, rows, context, captures, witness,
              decisions, pc, left, reading, tries, stamp, reported, fpc, found, stop>>

NoCapture == [n |-> 0, got |-> None, committed |-> None]
NoReading == [n |-> 0, slot |-> 0, got |-> 0]
NoInputs  == [ready |-> None, source |-> None, n |-> 0]

Faulty == faults + setbacks < MaxFaults /\ faults' = faults + 1

-----------------------------------------------------------------------------
(* run: the main thread waits for the next boundary and collects *)

ToBoundary(t) == Period - (t % Period)   \* seconds_to_next_boundary

Forget == reading' = NoReading /\ tries' = 0 /\ stamp' = None

(* Back to the top of the loop, which reads the stop event. *)
Loop ==
  /\ pc' = "wait"
  /\ left' = ToBoundary(now)
  /\ Forget

(* The observation belongs to the slot in which its collection starts. *)
Wake ==
  /\ pc = "wait" /\ left = 0 /\ ~stop
  /\ taken' = taken + 1
  /\ reading' = [n |-> taken + 1, slot |-> SlotOf(now), got |-> 0]
  /\ pc' = "read"
  /\ UNCHANGED <<clocks, faults, database, left, tries, stamp, reported, thread, stop>>

Break ==
  /\ pc = "wait" /\ stop
  /\ pc' = "over"
  /\ UNCHANGED <<clocks, faults, taken, database, left, memory, thread, stop>>

Read ==
  /\ pc = "read"
  /\ reading' = [reading EXCEPT !.got = now]
  /\ tries' = 1
  /\ pc' = "save"
  /\ UNCHANGED <<clocks, faults, taken, database, left, stamp, reported, thread, stop>>

ReadFails ==
  /\ Faulty
  /\ pc = "read"
  /\ Loop
  /\ UNCHANGED <<clocks, taken, database, reported, thread, stop>>

-----------------------------------------------------------------------------
(* save_with_retry and what follows a stored observation *)

Store == rows' = [rows EXCEPT ![reading.slot] = reading.n]

Save ==
  /\ pc = "save"
  /\ Store
  /\ pc' = "context"
  /\ UNCHANGED <<clocks, faults, taken, context, captures, witness, decisions, left,
                 memory, thread, stop>>

(* A connection error, before the transaction or in its commit: retried. *)
Reconnect ==
  /\ Faulty
  /\ pc = "save"
  /\ Store \/ UNCHANGED rows
  /\ IF tries < Attempts
     THEN tries' = tries + 1 /\ UNCHANGED <<pc, left, reading, stamp>>
     ELSE Loop
  /\ UNCHANGED <<clocks, taken, context, captures, witness, decisions, reported, thread,
                 stop>>

\* Mutant: the error is logged and the optional work goes on.
SaveSkipped ==
  /\ Faulty
  /\ pc = "save"
  /\ pc' = "context"
  /\ UNCHANGED <<clocks, taken, database, left, memory, thread, stop>>

(* Any other database error: rolled back, not retried. *)
SaveFails ==
  /\ Faulty
  /\ pc = "save"
  /\ Loop
  /\ UNCHANGED <<clocks, taken, database, reported, thread, stop>>

(* The context row of a slot is written once, and not by a clock that reads *)
(* less than the receipt.                                                   *)
Context ==
  /\ pc = "context"
  /\ \/ /\ now >= reading.got
        /\ context' = [context EXCEPT ![reading.slot] = IF @ = 0 THEN reading.n ELSE @]
        /\ UNCHANGED faults
     \/ now < reading.got /\ UNCHANGED <<context, faults>>
     \/ Faulty /\ UNCHANGED context
  /\ pc' = "capture"
  /\ UNCHANGED <<clocks, taken, rows, captures, witness, decisions, left, memory, thread,
                 stop>>

\* Mutant: a capture is replaced by a newer one of the slot.
CaptureAnew ==
  /\ pc = "capture"
  /\ captures' = [captures EXCEPT ![reading.slot] =
                    [n |-> reading.n, got |-> reading.got, committed |-> now]]
  /\ pc' = "stamp"
  /\ UNCHANGED <<clocks, faults, taken, rows, context, witness, decisions, left, memory,
                 thread, stop>>

(* CaptureRepository.save: the first transaction.  Another capture of the   *)
(* slot has another receipt: immutable_capture_conflict.                    *)
Capture ==
  /\ pc = "capture"
  /\ \/ /\ captures[reading.slot] = NoCapture
        /\ captures' = [captures EXCEPT ![reading.slot] =
                          [n |-> reading.n, got |-> reading.got, committed |-> now]]
        /\ \/ pc' = "stamp" /\ UNCHANGED faults
           \/ pc' = "report" /\ Faulty
     \/ /\ captures[reading.slot] # NoCapture
        /\ pc' = "report"
        /\ UNCHANGED <<captures, faults>>
     \/ Faulty /\ pc' = "report" /\ UNCHANGED captures
  /\ UNCHANGED <<clocks, taken, rows, context, witness, decisions, left, memory, thread,
                 stop>>

\* Mutant: the witness is dated by the receipt.
StampOfReceipt ==
  /\ pc = "stamp"
  /\ stamp' = reading.got
  /\ pc' = "confirm"
  /\ UNCHANGED <<clocks, faults, taken, database, left, reading, tries, reported, thread,
                 stop>>

(* The time of the witness is read after that transaction has committed. *)
Stamp ==
  /\ pc = "stamp"
  /\ stamp' = now
  /\ pc' = "confirm"
  /\ UNCHANGED <<clocks, faults, taken, database, left, reading, tries, reported, thread,
                 stop>>

Confirm ==
  /\ pc = "confirm"
  /\ \/ witness' = [witness EXCEPT ![reading.slot] = IF @ = None THEN stamp ELSE @] /\ UNCHANGED faults
     \/ Faulty /\ UNCHANGED witness
  /\ pc' = "report"
  /\ UNCHANGED <<clocks, taken, rows, context, captures, decisions, left, memory, thread,
                 stop>>

(* record_success *)
Report ==
  /\ pc = "report"
  /\ reported' = reading
  /\ Loop
  /\ UNCHANGED <<clocks, faults, taken, database, thread, stop>>

-----------------------------------------------------------------------------
(* The coordinator thread: capture_forecast *)

Ready ==
  /\ fpc = "loop" /\ ~stop
  /\ Cardinality(decisions) < MaxDecisions
  /\ found' = [NoInputs EXCEPT !.ready = now]
  /\ fpc' = "ready"
  /\ UNCHANGED <<clocks, faults, taken, database, pc, left, memory, stop>>

(* The confirmed source captures as of some time, and the latest of them. *)
Confirmed(t) == {s \in Slots : captures[s].got \in 0 .. t /\ witness[s] \in 0 .. t}
Newest(S)    == {s \in S : \A r \in S : captures[r].got <= captures[s].got}

Look ==
  /\ fpc = "ready"
  /\ \/ /\ Confirmed(found.ready) = {}
        /\ UNCHANGED found
     \/ \E s \in Newest(Confirmed(found.ready)) :
          found' = [found EXCEPT !.source = s, !.n = captures[s].n]
  /\ fpc' = "found"
  /\ UNCHANGED <<clocks, faults, taken, database, pc, left, memory, stop>>

Archive ==
  /\ fpc = "found"
  /\ \/ decisions' = decisions \cup {found} /\ UNCHANGED faults
     \/ Faulty /\ UNCHANGED decisions
  /\ found' = NoInputs
  /\ fpc' = "loop"
  /\ UNCHANGED <<clocks, taken, rows, context, captures, witness, pc, left, memory, stop>>

Return ==
  /\ fpc = "loop" /\ stop
  /\ fpc' = "over"
  /\ UNCHANGED <<clocks, faults, taken, database, pc, left, memory, found, stop>>

(* A statement or a request of the coordinator does not come back. *)
Hang ==
  /\ Faulty
  /\ fpc \notin {"hung", "over"}
  /\ fpc' = "hung" /\ found' = NoInputs
  /\ UNCHANGED <<clocks, taken, database, pc, left, memory, stop>>

-----------------------------------------------------------------------------
(* The end of the process *)

Running == pc \notin {"over", "joining", "closing", "exited"}

(* SIGTERM or SIGINT *)
Signal ==
  /\ Running /\ ~stop
  /\ stop' = TRUE
  /\ UNCHANGED <<clocks, faults, taken, database, pc, left, memory, thread>>

(* An exception run does not expect, in what it calls for the observation. *)
Raise ==
  /\ Faulty
  /\ pc \in {"read", "save"}
  /\ pc' = "over"
  /\ Forget
  /\ UNCHANGED <<clocks, taken, database, left, reported, thread, stop>>

(* The finally clause of _run *)
Unwind ==
  /\ pc = "over"
  /\ stop' = TRUE
  /\ pc' = "joining"
  /\ UNCHANGED <<clocks, faults, taken, database, left, memory, thread>>

\* Mutant: the coordinator is joined without a timeout.
JoinForever ==
  /\ pc = "joining" /\ fpc = "over"
  /\ pc' = "closing"
  /\ UNCHANGED <<clocks, faults, taken, database, left, memory, thread, stop>>

(* join returns when the coordinator is over or after its timeout. *)
Join ==
  /\ pc = "joining"
  /\ pc' = "closing"
  /\ UNCHANGED <<clocks, faults, taken, database, left, memory, thread, stop>>

(* The server is shut down and the process exits; daemon threads end with it. *)
Exited ==
  /\ pc' = "exited"
  /\ Forget /\ reported' = NoReading
  /\ fpc' = "over" /\ found' = NoInputs

Exit ==
  /\ pc = "closing"
  /\ Exited
  /\ UNCHANGED <<clocks, faults, taken, database, left, stop>>

Kill ==
  /\ Faulty
  /\ pc # "exited"
  /\ Exited
  /\ UNCHANGED <<clocks, taken, database, left, stop>>

\* Mutant: a process collects as soon as it starts.
StartAtOnce ==
  /\ pc = "exited"
  /\ pc' = "wait" /\ left' = 0 /\ Forget
  /\ fpc' = "loop" /\ found' = NoInputs
  /\ stop' = FALSE
  /\ UNCHANGED <<clocks, faults, taken, database, reported>>

(* The Supervisor starts the App again. *)
Start ==
  /\ pc = "exited"
  /\ Loop
  /\ fpc' = "loop" /\ found' = NoInputs
  /\ stop' = FALSE
  /\ UNCHANGED <<clocks, faults, taken, database, reported>>

-----------------------------------------------------------------------------
(* The wait is measured by a clock that is not set back. *)
Tick ==
  /\ now < Last
  /\ now' = now + 1
  /\ left' = Max({0, left - 1})
  /\ UNCHANGED <<setbacks, faults, taken, database, pc, memory, thread, stop>>

SetBack ==
  /\ now > 0 /\ faults + setbacks < MaxFaults
  /\ now' = now - 1
  /\ setbacks' = setbacks + 1
  /\ UNCHANGED <<faults, taken, database, pc, left, memory, thread, stop>>

Init ==
  /\ now = 0 /\ setbacks = 0 /\ faults = 0 /\ taken = 0
  /\ rows = [s \in Slots |-> 0]
  /\ context = [s \in Slots |-> 0]
  /\ captures = [s \in Slots |-> NoCapture]
  /\ witness = [s \in Slots |-> None]
  /\ decisions = {}
  /\ pc = "wait" /\ left = ToBoundary(0)
  /\ reading = NoReading /\ tries = 0 /\ stamp = None /\ reported = NoReading
  /\ fpc = "loop" /\ found = NoInputs
  /\ stop = FALSE

Main ==
  \/ Wake \/ Break \/ Read \/ Save \/ Context \/ Capture \/ Stamp \/ Confirm \/ Report
  \/ Unwind \/ Join \/ Exit

Coordinate == Ready \/ Look \/ Archive \/ Return

Next ==
  \/ Main \/ Coordinate
  \/ ReadFails \/ Reconnect \/ SaveFails \/ Raise \/ Hang \/ Kill
  \/ Signal \/ Start \/ Tick \/ SetBack

Spec == Init /\ [][Next]_vars

(* Requests and statements of the main thread return, if only by an error. *)
LiveSpec == Spec /\ WF_vars(Main)

-----------------------------------------------------------------------------
(* Properties *)

Reading == [n : Nat, slot : Slots, got : Times]

Inputs  == [ready : {None} \cup Times, source : {None} \cup Slots, n : Nat]

Busy   == {"read", "save", "context", "capture", "stamp", "confirm", "report"}
Ending == {"over", "joining", "closing", "exited"}

TypeOK ==
  /\ now \in Times /\ setbacks \in Nat /\ faults \in Nat /\ taken \in Nat
  /\ rows \in [Slots -> Nat] /\ context \in [Slots -> Nat]
  /\ captures \in [Slots -> [n : Nat, got : {None} \cup Times, committed : {None} \cup Times]]
  /\ witness \in [Slots -> {None} \cup Times]
  /\ decisions \subseteq Inputs /\ found \in Inputs
  /\ pc \in {"wait"} \cup Busy \cup Ending
  /\ left \in 0 .. Period
  /\ reading \in Reading /\ reported \in Reading
  /\ tries \in 0 .. Attempts
  /\ stamp \in {None} \cup Times
  /\ fpc \in {"loop", "ready", "found", "hung", "over"}
  /\ stop \in BOOLEAN

(* Nothing is kept, or reported as a success, of a reading whose core       *)
(* observation was not stored before, whichever step failed or was retried. *)
StoredFirst ==
  /\ reported.n <= rows[reported.slot]
  /\ \A s \in Slots : context[s] <= rows[s] /\ captures[s].n <= rows[s]

(* While the clock runs forward and the interval is a whole number of       *)
(* slots, a slot is read once, also by an App that is restarted in it, so   *)
(* that its observation, context and capture agree.                         *)
SlotIsReadOnce == setbacks = 0 /\ Period % Slot = 0 => \A s \in Slots :
  /\ context[s] # 0 => context[s] = rows[s]
  /\ captures[s] # NoCapture => captures[s].n = rows[s]

(* Decision inputs name a capture that was committed by the time they were  *)
(* ready, although witness and capture are committed by another thread, and *)
(* in two transactions: confirmed_at bounds the commit from above.          *)
InputsWereKnown == \A d \in decisions : d.source # None =>
  /\ captures[d.source].n = d.n
  /\ setbacks = 0 => captures[d.source].committed \in 0 .. d.ready

(* What makes them inductive. The reading at hand is the last one taken and *)
(* is stored before anything is kept of it;                                 *)
Stored ==
  /\ \A s \in Slots : rows[s] <= taken
  /\ pc \in Busy => reading.n = taken
  /\ pc \in Busy \ {"read", "save"} => rows[reading.slot] = reading.n

(* a witness is of a capture, and its time not before that of the commit;   *)
Witnessed ==
  /\ \A s \in Slots : witness[s] # None => captures[s] # NoCapture
  /\ pc \in {"stamp", "confirm"} => captures[reading.slot] # NoCapture
  /\ pc = "confirm" => stamp \in Times
  /\ setbacks = 0 =>
       /\ \A s \in Slots : captures[s] # NoCapture => captures[s].committed \in 0 .. now
       /\ \A s \in Slots : witness[s] # None => captures[s].committed <= witness[s]
       /\ pc = "confirm" => captures[reading.slot].committed <= stamp

Known(d) == d.source # None =>
  /\ captures[d.source] # NoCapture /\ captures[d.source].n = d.n
  /\ setbacks = 0 => captures[d.source].committed \in 0 .. d.ready

(* and what is kept is of a slot before the one in which the wait will end. *)
Kept(s) == context[s] # 0 \/ captures[s] # NoCapture

Passed ==
  /\ \A s \in Slots : Kept(s) => s <= SlotOf(now) /\ (pc = "wait" => s < SlotOf(now + left))
  /\ pc \in Busy => reading.slot <= SlotOf(now)
  /\ pc \in {"read", "save"} => ~Kept(reading.slot)

IInv ==
  /\ TypeOK /\ Stored /\ StoredFirst /\ Witnessed
  /\ \A d \in decisions \cup {found} : Known(d)
  /\ setbacks = 0 /\ Period % Slot = 0 => Passed
  /\ SlotIsReadOnce

(* Evidence is written once: retries, second readings of a slot and         *)
(* restarts never rewrite context, captures or witnesses.                   *)
EvidenceIsFinal == [][\A s \in Slots :
  /\ context[s] # 0 => context'[s] = context[s]
  /\ captures[s] # NoCapture => captures'[s] = captures[s]
  /\ witness[s] # None => witness'[s] = witness[s]]_vars

(* A process that was told to stop, or whose collection has ended with an   *)
(* exception, exits, even when the coordinator hangs.                       *)
StopEndsProcess == (stop \/ pc = "over") ~> pc = "exited"

=============================================================================
