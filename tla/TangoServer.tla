---------------------------- MODULE TangoServer -----------------------------
(***************************************************************************)
(* The Tango device (mv/_server/_tango_server/server.py), its client       *)
(* (mv/_client/tango_proxy.py), and the state machine and signal queue     *)
(* they share.  Tango serialises what a device does: a command that runs   *)
(* in the foreground keeps the device until it is answered.  A command     *)
(* with a long delay is answered first and run by a thread of its own,     *)
(* where nobody sees how it ends.                                          *)
(***************************************************************************)
EXTENDS Commands

CONSTANTS Device,        \* the thread in which Tango calls the device
          Background,    \* the threads the device starts
          NoThread, BadDelays,
          MaxCommands,   \* bound: how many commands clients send
          MaxBacklog     \* bound: how many signals wait to be pushed

Threads    == {Device} \cup Background
CommandSet == SwitchCommands

ASSUME DeviceAssumption == /\ Device \notin Background
                           /\ NoThread \notin Threads
                           /\ BadDelays \in BOOLEAN
                           /\ MaxCommands \in Nat /\ MaxBacklog \in Nat \ {0}

VARIABLES
    store, lock, signalled, pc, op, step, original, local, result,
    commands,  \* how many commands were sent
    signals,   \* the signal queue: the state in each
    seen,      \* the state in the last event of the client; "nothing" before
    undone     \* history: the last to change the store was a rollback

SM == INSTANCE StateMachine

vars == <<store, lock, signalled, pc, op, step, original, local, result,
          commands, signals, seen, undone>>

\* What a command's argument says: no delay, or one up to 2.9 s, or a longer one.
Delays == {"none", "short", "long"}

Nothing == "nothing"

TypeOK ==
    /\ SM!TypeOK
    /\ commands \in 0..MaxCommands
    /\ signals \in Seq(States) /\ Len(signals) <= MaxBacklog
    /\ seen \in States \cup {Nothing}
    /\ undone \in BOOLEAN

Init ==
    /\ SM!Init
    /\ commands = 0
    /\ signals = << >>
    /\ seen = Nothing
    /\ undone = FALSE

DeviceFree == pc[Device] = "idle"

-----------------------------------------------------------------------------
\* The commands.

\* A delay too short for the background is left out by the switch commands,
\* as is none at all; the background commands go by whether there is one.
InBackground(endpoint, delay) ==
    \/ delay = "long"
    \/ delay = "short" /\ endpoint = "background"

Command(c, endpoint, delay) ==
    /\ DeviceFree
    /\ commands < MaxCommands
    /\ commands' = commands + 1
    /\ \/ /\ InBackground(endpoint, delay)
          /\ \E b \in Background : pc[b] = "idle"
          /\ SM!Call(CHOOSE b \in Background : pc[b] = "idle", c)
       \/ ~InBackground(endpoint, delay) /\ SM!Call(Device, c)
    /\ UNCHANGED <<signals, seen, undone>>

\* A step of a command; its signals go to the queue.
RunCommand(t) ==
    /\ SM!Step(t)
    /\ signals' = IF pc[t] = "written" THEN Append(signals, local[t].state)
                                       ELSE signals
    /\ Len(signals') <= MaxBacklog
    /\ undone' = CASE pc[t] = "rollback" -> TRUE
                   [] pc'[t] = "written" -> FALSE
                   [] OTHER              -> undone
    /\ UNCHANGED <<commands, seen>>

\* In the foreground there is no delay whose sleep() could raise.
RunDevice == RunCommand(Device) /\ pc'[Device] # "rollback"

RunBackground(b) == RunCommand(b)

-----------------------------------------------------------------------------
\* The client's subscription, and what the StateServer pushes to it.

\* subscribe_event() reads the attribute: the device must be free.
Subscribe ==
    /\ DeviceFree
    /\ seen = Nothing
    /\ seen' = store.state
    /\ UNCHANGED <<store, lock, signalled, pc, op, step, original, local,
                   result, commands, signals, undone>>

\* Mutant of Publish: it pushes what the machine reads by now, and only while
\* nobody is writing.
PublishReread ==
    /\ signals # << >>
    /\ signals' = Tail(signals)
    /\ seen' = IF seen = Nothing \/ lock # NoThread THEN seen ELSE store.state
    /\ UNCHANGED <<store, lock, signalled, pc, op, step, original, local,
                   result, commands, undone>>

\* The StateServer's thread: the state goes from the queue to the clients.
Publish ==
    /\ signals # << >>
    /\ signals' = Tail(signals)
    /\ seen' = IF seen = Nothing THEN Nothing ELSE Head(signals)
    /\ UNCHANGED <<store, lock, signalled, pc, op, step, original, local,
                   result, commands, undone>>

-----------------------------------------------------------------------------
Next ==
    \/ \E c \in CommandSet, endpoint \in {"switch", "background"},
          delay \in Delays : Command(c, endpoint, delay)
    \/ RunDevice
    \/ \E b \in Background : RunBackground(b)
    \/ Subscribe
    \/ Publish

\* Threads are scheduled; nobody has to send a command or subscribe.
Fairness == /\ WF_vars(RunDevice)
            /\ \A b \in Background : WF_vars(RunBackground(b))
            /\ WF_vars(Publish)

Spec == Init /\ [][Next]_vars /\ Fairness

-----------------------------------------------------------------------------
\* Properties.

AtRest == /\ \A t \in Threads : pc[t] = "idle"
          /\ signals = << >>

Target == [switch_on |-> "ON", switch_off |-> "OFF"]

\* When everything has come to rest a subscribed client has been told the
\* stored state, whatever foreground and background commands overlapped and
\* whenever it subscribed, unless the last to change the store was a failed
\* background command's rollback, which signals nothing.
ClientCurrent == AtRest /\ seen # Nothing /\ ~undone => seen = store.state

\* A foreground command that is answered without an error has just brought the
\* machine to its target, or found it there, however many background commands
\* are under way; only a rollback, which takes no lock, can come between.
AnsweredIsDone ==
    [][pc[Device] # "idle" /\ pc'[Device] = "idle"
         /\ result'[Device] \in {"ok", "ignored"} /\ ~undone
       => store'.state = Target[op[Device]]]_vars

\* The device is always given back, also by a command that has to wait for the
\* lock behind a background command's delay or behind one that fails.
DeviceIsFreed == ~DeviceFree ~> DeviceFree

=============================================================================
