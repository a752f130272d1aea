--------------------------- MODULE SingleUseSlot ---------------------------
(***************************************************************************)
(* What the rehearsal promises of a set of intents, whatever its journal,  *)
(* its processes and its crashes look like: an intent waits, takes the one *)
(* slot, may command the transport once while it holds it, and gives the   *)
(* slot back for good; or it is locked by an abort and keeps the slot.     *)
(***************************************************************************)
EXTENDS Integers

CONSTANT Intents

VARIABLES phase,     \* waiting, held, locked or closed
          commands   \* commands given for each intent

Init == /\ phase = [i \in Intents |-> "waiting"]
        /\ commands = [i \in Intents |-> 0]

Move(i, from, to) == /\ phase[i] = from
                     /\ phase' = [phase EXCEPT ![i] = to]
                     /\ UNCHANGED commands

Decline(i) == Move(i, "waiting", "closed")
Acquire(i) == /\ \A j \in Intents : phase[j] \notin {"held", "locked"}
              /\ Move(i, "waiting", "held")
Lock(i)    == Move(i, "held", "locked")
Release(i) == Move(i, "held", "closed")

Command(i) == /\ phase[i] = "held"
              /\ commands[i] = 0
              /\ commands' = [commands EXCEPT ![i] = 1]
              /\ UNCHANGED phase

Next == \E i \in Intents : Decline(i) \/ Acquire(i) \/ Lock(i)
                             \/ Release(i) \/ Command(i)

Spec == Init /\ [][Next]_<<phase, commands>>
=============================================================================
