-------------------------- MODULE ExecutionJournal --------------------------
(***************************************************************************)
(* The lifecycle table of arbitrage/executor.py: the states an execution   *)
(* intent passes through, the states that occupy the one active slot, and  *)
(* the transitions Journal.transition accepts.                             *)
(*                                                                         *)
(* "ABSENT" is not a state of the code: it stands for an intent that has   *)
(* no row in the intents table.                                            *)
(***************************************************************************)

STATES == {"PROPOSED", "APPROVED", "PRECHECKED", "SENT", "ACKNOWLEDGED",
           "EFFECT_OBSERVED", "COMPLETED", "EXPIRED",
           "NEUTRAL_STATE_VERIFIED", "REJECTED", "ABORTED",
           "UNKNOWN_DELIVERY", "RESTORE_FAILED"}

\* Mutant of ACTIVE: a lost acknowledgement gives the slot up.
ActiveUntilUnknown ==
  {"ABORTED", "APPROVED", "PRECHECKED", "SENT", "ACKNOWLEDGED",
   "EFFECT_OBSERVED", "COMPLETED", "EXPIRED", "RESTORE_FAILED"}

\* A row in one of these states carries active = 1, which is UNIQUE.
ACTIVE == {"ABORTED", "APPROVED", "PRECHECKED", "SENT", "ACKNOWLEDGED",
           "EFFECT_OBSERVED", "COMPLETED", "EXPIRED", "UNKNOWN_DELIVERY",
           "RESTORE_FAILED"}

\* TRANSITIONS.get(old, set())
TRANSITIONS(old) ==
  CASE old = "PROPOSED"   -> {"APPROVED", "REJECTED"}
    [] old = "APPROVED"   -> {"PRECHECKED", "REJECTED", "ABORTED", "EXPIRED"}
    [] old = "PRECHECKED" -> {"SENT", "ABORTED", "EXPIRED"}
    [] old = "SENT"       -> {"ACKNOWLEDGED", "UNKNOWN_DELIVERY"}
    [] old = "ACKNOWLEDGED" ->
         {"EFFECT_OBSERVED", "UNKNOWN_DELIVERY", "ABORTED", "EXPIRED"}
    [] old = "EFFECT_OBSERVED" -> {"COMPLETED", "EXPIRED", "ABORTED"}
    [] old \in {"COMPLETED", "EXPIRED"} ->
         {"NEUTRAL_STATE_VERIFIED", "RESTORE_FAILED", "ABORTED"}
    [] old = "UNKNOWN_DELIVERY" -> {"EFFECT_OBSERVED", "EXPIRED", "ABORTED"}
    [] old = "RESTORE_FAILED" -> {"NEUTRAL_STATE_VERIFIED", "ABORTED"}
    [] old = "ABORTED" -> {"NEUTRAL_STATE_VERIFIED"}
    [] OTHER -> {}

\* The states before a command can have left the process, and after.
BeforeSend == {"ABSENT", "PROPOSED", "APPROVED", "PRECHECKED", "REJECTED"}
AfterSend  == STATES \ BeforeSend

(***************************************************************************)
(* Journal.transition is one BEGIN IMMEDIATE transaction on the intents    *)
(* table st: it commits when the move is in the table and no other row     *)
(* holds the slot the new state needs, and otherwise raises and rolls back.*)
(***************************************************************************)
Accepts(st, i, new) ==
  /\ new \in TRANSITIONS(st[i])
  /\ new \in ACTIVE => \A j \in DOMAIN st \ {i} : st[j] \notin ACTIVE

Transition(st, i, new) == IF Accepts(st, i, new)
                          THEN [st EXCEPT ![i] = new]
                          ELSE st
=============================================================================
