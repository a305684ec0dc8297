------------------------------ MODULE Commands ------------------------------
(***************************************************************************)
(* The command table of StateMachine (mv/_state_machine/state_machine.py): *)
(* which values the stored state takes, which commands are ignored,        *)
(* allowed or refused in it, and the sequence of updates each command      *)
(* performs.  Pure operators, no variables.                                *)
(***************************************************************************)
EXTENDS Naturals, Sequences

\* Python's None.  dict.get() answers None for a missing key too, so the
\* empty dict and the dict with two None values are one value here.
None == "None"

States    == {None, "ON", "OFF", "BUSY"}
ObsStates == {None, "EMPTY", "RESOURCING", "IDLE", "CONFIGURING", "READY",
              "SCANNING", "BUSY"}

Store   == [state : States, obs_state : ObsStates]
Cleared == [state |-> None, obs_state |-> None]

SwitchCommands == {"switch_on", "switch_off"}
ObsCommands    == {"assign_resources", "release_resources", "configure",
                   "clear_config", "scan"}
Operations     == SwitchCommands \cup ObsCommands \cup {"reset_state"}

-----------------------------------------------------------------------------
\* The decorators' tests, each on the dict s that one get_state() returned.

\* @ignore_if_in_state / @ignore_if_in_obs_state; configure carries neither.
Ignored(c, s) ==
    \/ c = "switch_on"  /\ s.state = "ON"
    \/ c = "switch_off" /\ s.state = "OFF"
    \/ c \in {"assign_resources", "clear_config"} /\ s.obs_state = "IDLE"
    \/ c = "release_resources" /\ s.obs_state = "EMPTY"
    \/ c = "scan" /\ s.obs_state = "SCANNING"

\* StateMachine._allowed_commands, keyed by obs_state.  There is no "BUSY"
\* key: the dict's get() then answers None and the membership test raises a
\* TypeError.
AllowedCommands ==
    [None        |-> {"switch_on", "switch_off"},
     EMPTY       |-> {"switch_off", "assign_resources"},
     RESOURCING  |-> {"abort"},
     IDLE        |-> {"release_resources", "configure"},
     CONFIGURING |-> {"abort"},
     READY       |-> {"scan", "clear_config", "configure"},
     SCANNING    |-> {"abort"}]

HasEntry(s)   == s.obs_state \in DOMAIN AllowedCommands
Allowed(c, s) == HasEntry(s) /\ c \in AllowedCommands[s.obs_state]

-----------------------------------------------------------------------------
\* What the body of one "with self._update(...)" block assigns.

Keep == "keep"
Assign(state, obs) == [state |-> state, obs_state |-> obs]

Steps ==
    [switch_on         |-> << Assign("BUSY", Keep), Assign("ON", "EMPTY") >>,
     switch_off        |-> << Assign("BUSY", Keep), Assign("OFF", None) >>,
     assign_resources  |-> << Assign(Keep, "BUSY"), Assign(Keep, "RESOURCING"),
                              Assign(Keep, "IDLE") >>,
     release_resources |-> << Assign(Keep, "BUSY"), Assign(Keep, "RESOURCING"),
                              Assign(Keep, "EMPTY") >>,
     configure         |-> << Assign(Keep, "BUSY"), Assign(Keep, "CONFIGURING"),
                              Assign(Keep, "READY") >>,
     clear_config      |-> << Assign(Keep, "BUSY"), Assign(Keep, "IDLE") >>,
     scan              |-> << Assign(Keep, "BUSY"), Assign(Keep, "SCANNING"),
                              Assign(Keep, "READY") >>,
     reset_state       |-> << Assign(None, None) >>]

\* Mutant of Updated: the scratch attributes are written back without having
\* been loaded from the yielded dict.
UpdatedNotLoaded(s, a) == [state |-> a.state, obs_state |-> a.obs_state]

Updated(s, a) ==
    [state     |-> IF a.state = Keep THEN s.state ELSE a.state,
     obs_state |-> IF a.obs_state = Keep THEN s.obs_state ELSE a.obs_state]

=============================================================================
