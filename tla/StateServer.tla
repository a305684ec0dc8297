---------------------------- MODULE StateServer -----------------------------
(***************************************************************************)
(* StateServer (mv/_state_machine/state_server.py) over the signal queue   *)
(* of state_control.py: threads that take signals off one shared queue and *)
(* hand each stored state to a publisher, and the callers that start and   *)
(* stop them.  The n-th state signalled is the number n.                   *)
(***************************************************************************)
EXTENDS Naturals, FiniteSets, SequencesExt

CONSTANTS Servers,     \* StateServer objects; each is started at most once
          MaxChanges,  \* bound: how many state changes are signalled
          JoinTimesOut \* whether stop_server's join(1) may give up

ASSUME ServersAssumption == /\ IsFiniteSet(Servers)
                            /\ MaxChanges \in Nat
                            /\ JoinTimesOut \in BOOLEAN

VARIABLES
    changes,   \* how many states have been signalled
    signals,   \* _state_control_signals
    thread,    \* where each server's thread stands
    event,     \* the state it has taken off the queue
    started,   \* _started_flag
    caller     \* how far start_server() and stop_server() have come

serverVars == <<changes, signals, thread, event, started, caller>>

STOP == 0      \* the signal ("STOP", None)

ThreadStates == {"unborn", "loop", "get", "publish", "ended", "died"}
CallerStates == {"new", "wait", "waiting", "running", "joining", "stopped",
                 "abandoned"}

ServerTypeOK ==
    /\ changes \in 0..MaxChanges
    /\ signals \in Seq(0..MaxChanges)
    /\ thread \in [Servers -> ThreadStates]
    /\ event \in [Servers -> 0..MaxChanges]
    /\ started \in [Servers -> BOOLEAN]
    /\ caller \in [Servers -> CallerStates]

ServerInit ==
    /\ changes = 0
    /\ signals = << >>
    /\ thread = [s \in Servers |-> "unborn"]
    /\ event = [s \in Servers |-> 0]
    /\ started = [s \in Servers |-> FALSE]
    /\ caller = [s \in Servers |-> "new"]

-----------------------------------------------------------------------------
\* An updater signals a new state; nothing bounds the queue.
Change ==
    /\ changes < MaxChanges
    /\ changes' = changes + 1
    /\ signals' = Append(signals, changes')
    /\ UNCHANGED <<thread, event, started, caller>>

\* start_server(): the thread is started, then its flag is awaited.  A caller
\* that finds the flag down blocks until it is set while it is blocked.
StartServer(s) ==
    /\ caller[s] = "new"
    /\ caller' = [caller EXCEPT ![s] = "wait"]
    /\ thread' = [thread EXCEPT ![s] = "loop"]
    /\ UNCHANGED <<changes, signals, event, started>>

\* Mutant of WaitStarted: a flag that is up already goes unnoticed.
WaitNotified(s) ==
    /\ caller[s] = "wait"
    /\ caller' = [caller EXCEPT ![s] = "waiting"]
    /\ UNCHANGED <<changes, signals, thread, event, started>>

WaitStarted(s) ==
    /\ caller[s] = "wait"
    /\ caller' = [caller EXCEPT
                    ![s] = IF started[s] THEN "running" ELSE "waiting"]
    /\ UNCHANGED <<changes, signals, thread, event, started>>

\* stop_server(): STOP goes to the back of the shared queue, for whichever
\* server comes to it first.
StopServer(s) ==
    /\ caller[s] = "running"
    /\ caller' = [caller EXCEPT ![s] = "joining"]
    /\ signals' = Append(signals, STOP)
    /\ UNCHANGED <<changes, thread, event, started>>

\* Mutant of Joined: the thread is not joined.
NotJoined(s) ==
    /\ caller[s] = "joining"
    /\ caller' = [caller EXCEPT ![s] = "stopped"]
    /\ UNCHANGED <<changes, signals, thread, event, started>>

\* join(1) returns when the thread is gone, or gives up on it.
Joined(s) ==
    /\ caller[s] = "joining"
    /\ \/ /\ thread[s] \in {"ended", "died"}
          /\ caller' = [caller EXCEPT ![s] = "stopped"]
       \/ /\ JoinTimesOut /\ thread[s] \notin {"ended", "died"}
          /\ caller' = [caller EXCEPT ![s] = "abandoned"]
    /\ UNCHANGED <<changes, signals, thread, event, started>>

-----------------------------------------------------------------------------
\* The thread: _server().

SetStarted(s) ==
    /\ thread[s] = "loop"
    /\ started' = [started EXCEPT ![s] = TRUE]
    /\ thread' = [thread EXCEPT ![s] = "get"]
    /\ caller' = [caller EXCEPT
                    ![s] = IF @ = "waiting" THEN "running" ELSE @]
    /\ UNCHANGED <<changes, signals, event>>

GetState(s) ==
    /\ thread[s] = "get"
    /\ signals # << >> /\ Head(signals) # STOP
    /\ event' = [event EXCEPT ![s] = Head(signals)]
    /\ signals' = Tail(signals)
    /\ thread' = [thread EXCEPT ![s] = "publish"]
    /\ UNCHANGED <<changes, started, caller>>

\* Mutant of GetStop: the STOP is left in the queue for others to see.
GetStopPeeks(s) ==
    /\ thread[s] = "get"
    /\ signals # << >> /\ Head(signals) = STOP
    /\ started' = [started EXCEPT ![s] = FALSE]
    /\ thread' = [thread EXCEPT ![s] = "ended"]
    /\ UNCHANGED <<changes, signals, event, caller>>

GetStop(s) ==
    /\ thread[s] = "get"
    /\ signals # << >> /\ Head(signals) = STOP
    /\ signals' = Tail(signals)
    /\ started' = [started EXCEPT ![s] = FALSE]
    /\ thread' = [thread EXCEPT ![s] = "ended"]
    /\ UNCHANGED <<changes, event, caller>>

\* publish() has returned ...
Published(s) ==
    /\ thread[s] = "publish"
    /\ thread' = [thread EXCEPT ![s] = "loop"]
    /\ event' = [event EXCEPT ![s] = 0]
    /\ UNCHANGED <<changes, signals, started, caller>>

\* ... or raised: the thread is gone, its flag still up.
PublishRaised(s) ==
    /\ thread[s] = "publish"
    /\ thread' = [thread EXCEPT ![s] = "died"]
    /\ event' = [event EXCEPT ![s] = 0]
    /\ UNCHANGED <<changes, signals, started, caller>>

-----------------------------------------------------------------------------
Live == {s \in Servers : thread[s] \in {"loop", "get", "publish"}}

\* Those whose publish() raised, and those that outlived the join() of them.
Died == {s \in Servers : thread[s] = "died"}
Abandoned == {s \in Servers : caller[s] = "abandoned"}

\* Servers somebody has asked for and not yet asked to stop.
Wanted == {s \in Servers : caller[s] \in {"wait", "waiting", "running"}}

\* STOPs on their way.
Stops == {i \in DOMAIN signals : signals[i] = STOP}

\* Every STOP ends exactly one server, not always the one whose caller sent it.
\* A server that died takes none: its STOP is one too many for those that live.
StopsBalance ==
    Cardinality(Live) + Cardinality(Died)
        = Cardinality(Wanted) + Cardinality(Stops)

=============================================================================
