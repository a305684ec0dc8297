----------------------------- MODULE Lifecycle ------------------------------
(***************************************************************************)
(* What one caller of the state machine may rely on: the machine rests in  *)
(* one of five modes, carries out one command at a time, a command either  *)
(* takes the mode to that command's target or leaves it as it was, and     *)
(* every command ends.                                                     *)
(***************************************************************************)
EXTENDS Commands

CONSTANT CommandSet

VARIABLES mode,   \* where the machine rests, or rested before the command
          cmd     \* the command being carried out, or "none"

lifeVars == <<mode, cmd>>

Modes == {None, "OFF", "EMPTY", "IDLE", "READY"}

\* The commands that change something in each mode, and where they lead.
Targets ==
    [None  |-> [switch_on |-> "EMPTY", switch_off |-> "OFF"],
     OFF   |-> [switch_on |-> "EMPTY"],
     EMPTY |-> [switch_off |-> "OFF", assign_resources |-> "IDLE"],
     IDLE  |-> [release_resources |-> "EMPTY", configure |-> "READY"],
     READY |-> [configure |-> "READY", clear_config |-> "IDLE",
                scan |-> "READY"]]

TypeOK == /\ mode \in Modes
          /\ cmd \in CommandSet \cup {"none"}

Init == mode = None /\ cmd = "none"

Begin(c) == /\ cmd = "none"
            /\ c \in DOMAIN Targets[mode]
            /\ cmd' = c
            /\ UNCHANGED mode

Complete == /\ cmd # "none"
            /\ mode' = Targets[mode][cmd]
            /\ cmd' = "none"

Abandon == /\ cmd # "none"
           /\ cmd' = "none"
           /\ UNCHANGED mode

\* reset_state is a single update: it has no intermediate state to see.
Reset == /\ "reset_state" \in CommandSet
         /\ cmd = "none"
         /\ mode' = None
         /\ UNCHANGED cmd

Next == \/ \E c \in CommandSet : Begin(c)
        \/ Complete
        \/ Abandon
        \/ Reset

Spec == Init /\ [][Next]_lifeVars /\ WF_lifeVars(Complete \/ Abandon)

=============================================================================
