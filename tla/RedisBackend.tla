---------------------------- MODULE RedisBackend ----------------------------
(***************************************************************************)
(* The state machine over Redis (mv/_state_machine/redis_backend): worker  *)
(* threads of several replicas share one key, one lock that expires, and   *)
(* one channel.  The commands and decorators are StateMachine's; what the  *)
(* Redis updater does otherwise is defined here.  A notification carries   *)
(* no state: a RedisStateServer reads the key when it handles one.  Of the *)
(* replicas' publishers one is modelled: they only read.                   *)
(***************************************************************************)
EXTENDS Commands, FiniteSets

CONSTANTS Threads,     \* one worker of one replica each
          NoThread,
          CommandSet,
          BadDelays,
          Orphan,      \* in lock: the token of a holder that has died
          Outlasts,    \* whether a holder may outlast the lock's 30 seconds
          Servers,     \* RedisStateServers of one publisher, in the order in
                       \*    which they are created; each starts once
          MaxPending,  \* bound: notifications a server has yet to handle
          MaxFaults    \* bound: crashes, expiries and delays that raise

ASSUME RedisAssumption == /\ NoThread \notin Threads
                          /\ Orphan \notin Threads \cup {NoThread}
                          /\ CommandSet \subseteq Operations
                          /\ BadDelays \in BOOLEAN /\ Outlasts \in BOOLEAN
                          /\ MaxPending \in Nat \ {0}
                          /\ MaxFaults \in Nat
                          /\ Servers \subseteq Nat

VARIABLES
    store,      \* the dict in key "state"; Cleared also if there is no key
    lock,       \* key "_state_write_lock": whose token it holds
    signalled,  \* history: the state of the last write that was announced
    pc, op, step, original, local, result,
    keyed,      \* whether key "state" exists
    hadKey,     \* whether atomic() of each thread found the key
    server,     \* where the thread of each RedisStateServer stands
    pending,    \* notifications on its subscription
    event,      \* the state it has read
    shown,      \* the state the publisher's clients were given last
    overtaken,  \* history: a stopped server has published to its successor's
                \*          clients, and the successor nothing since
    faults,     \* how many faults there have been
    broken,     \* history: a lock expired under its holder, or a command
                \*          was left midway
    unsaid      \* history: the store was last written without a notification

SM == INSTANCE StateMachine

machineVars == <<store, lock, signalled, pc, op, step, original, local, result>>
serverVars  == <<server, pending, event, shown, overtaken>>
history     == <<faults, broken, unsaid>>
vars == <<machineVars, keyed, hadKey, serverVars, history>>

Nothing == Assign("nothing", "nothing")

\* "up" and "stopped" are in get_message(), "handling" and "stopping" in the
\* handler; the second of each knows stop() by its cleared flag only.  "dead":
\* publish() has raised, which ends the thread; the manager has not noticed.
ServerStates ==
    {"new", "up", "handling", "dead", "stopped", "stopping", "ended"}

TypeOK ==
    /\ store \in Store /\ signalled \in Store
    /\ lock \in Threads \cup {NoThread, Orphan}
    /\ pc \in [Threads -> SM!Locations]
    /\ op \in [Threads -> Operations \cup {"none"}]
    /\ step \in [Threads -> 0..3]
    /\ original \in [Threads -> Store] /\ local \in [Threads -> Store]
    /\ result \in [Threads -> SM!Outcomes]
    /\ keyed \in BOOLEAN /\ (keyed \/ store = Cleared)
    /\ hadKey \in [Threads -> BOOLEAN]
    /\ server \in [Servers -> ServerStates]
    /\ pending \in [Servers -> 0..MaxPending]
    /\ event \in [Servers -> Store]
    /\ shown \in Store \cup {Nothing}
    /\ overtaken \in BOOLEAN
    /\ faults \in 0..MaxFaults
    /\ broken \in BOOLEAN /\ unsaid \in BOOLEAN

\* A Redis that no replica has used yet.
Init ==
    /\ SM!Init
    /\ keyed = FALSE
    /\ hadKey = [t \in Threads |-> FALSE]
    /\ server = [s \in Servers |-> "new"]
    /\ pending = [s \in Servers |-> 0]
    /\ event = [s \in Servers |-> Cleared]
    /\ shown = Nothing /\ overtaken = FALSE
    /\ faults = 0 /\ broken = FALSE /\ unsaid = FALSE

-----------------------------------------------------------------------------
\* What is as it is in memory: the decorators look at the key and at the lock
\* (locked() asks Redis, so it sees the other replicas), and an update takes
\* the lock and copies.

Same(A) == A /\ UNCHANGED <<keyed, hadKey, serverVars, history>>

Call(t, c) == Same(SM!Call(t, c))

Guards(t) == Same(\/ SM!IgnoreIfInState(t) \/ SM!MustBeOn(t)
                  \/ SM!CheckBusy(t) \/ SM!IsAllowed(t))

\* Mutant of Acquire: the lock is not shared between the replicas.
AcquireOwn(t) == Same(/\ pc[t] = "acquire"
                      /\ lock' = t
                      /\ local' = [local EXCEPT ![t] = store]
                      /\ pc' = [pc EXCEPT ![t] = "locked"]
                      /\ UNCHANGED <<store, signalled, op, step, original,
                                     result>>)

Acquire(t) == Same(SM!Acquire(t))

-----------------------------------------------------------------------------
\* What is not.

Atomic(t) ==
    /\ SM!Atomic(t)
    /\ hadKey' = [hadKey EXCEPT ![t] = keyed]
    /\ UNCHANGED <<keyed, serverVars, history>>

\* set("state", ...): whether or not the lock is still this thread's.
Write(t) ==
    /\ SM!Write(t)
    /\ keyed' = TRUE
    /\ UNCHANGED <<hadKey, serverVars, history>>

\* What is published now, it may still handle.
Subscribed(s) == server[s] \in {"up", "handling", "stopped"}

\* Mutant of Publish: a server that is in its handler misses notifications.
PublishToIdle(t) ==
    /\ SM!Signal(t)
    /\ \A s \in Servers : pending[s] < MaxPending
    /\ pending' = [s \in Servers |->
                      IF server[s] = "up" THEN pending[s] + 1 ELSE pending[s]]
    /\ unsaid' = FALSE
    /\ UNCHANGED <<keyed, hadKey, server, event, shown, overtaken, faults, broken>>

\* publish("state_control_signals", "STATE_CHANGED"), to who subscribes now.
Publish(t) ==
    /\ SM!Signal(t)
    /\ \A s \in Servers : pending[s] < MaxPending
    /\ pending' = [s \in Servers |->
                      IF Subscribed(s) THEN pending[s] + 1 ELSE pending[s]]
    /\ unsaid' = FALSE
    /\ UNCHANGED <<keyed, hadKey, server, event, shown, overtaken, faults, broken>>

\* The rest of the command is given up: atomic() will roll back; reset_state
\* runs outside atomic().
GiveUp(t) ==
    \/ /\ op[t] # "reset_state"
       /\ pc' = [pc EXCEPT ![t] = "rollback"]
       /\ local' = [local EXCEPT ![t] = Cleared]
       /\ UNCHANGED <<op, step, original, result>>
    \/ op[t] = "reset_state" /\ SM!Return(t, "failed")

\* Releasing a lock that has expired meanwhile raises LockNotOwnedError.
Release(t) ==
    /\ pc[t] = "signalled"
    /\ \/ lock = t /\ SM!Release(t)
       \/ lock # t /\ GiveUp(t) /\ UNCHANGED <<store, lock, signalled>>
    /\ UNCHANGED <<keyed, hadKey, serverVars, history>>

Fault == faults < MaxFaults /\ faults' = faults + 1

\* sleep() raises.  Whether the lock was still there to be released makes no
\* difference to the command: leaving the "with" raises too.
SleepRaises(t) ==
    /\ BadDelays
    /\ pc[t] = "locked" /\ step[t] > 1
    /\ Fault
    /\ broken' = TRUE
    /\ lock' = IF lock = t THEN NoThread ELSE lock
    /\ GiveUp(t)
    /\ UNCHANGED <<store, signalled, keyed, hadKey, serverVars, unsaid>>

\* atomic()'s except clause.  If there was no key it sets None, which the
\* client refuses with a DataError: nothing is restored.
Rollback(t) ==
    /\ pc[t] = "rollback"
    /\ store' = IF hadKey[t] THEN original[t] ELSE store
    /\ unsaid' = (unsaid \/ hadKey[t])
    /\ SM!Return(t, "failed")
    /\ UNCHANGED <<lock, signalled, keyed, hadKey, serverVars, faults, broken>>

-----------------------------------------------------------------------------
\* Locks expire; replicas die and are started again.

\* Mutant of ExpireOrphan: the lock is created without a timeout.
ExpireNever ==
    /\ lock = Orphan
    /\ UNCHANGED vars

\* A dead holder's lock expires.
ExpireOrphan ==
    /\ lock = Orphan
    /\ lock' = NoThread
    /\ UNCHANGED <<store, signalled, pc, op, step, original, local, result>>
    /\ UNCHANGED <<keyed, hadKey, serverVars, history>>

\* The lock expires under its holder, which sleeps or is slow.
ExpireHeld(t) ==
    /\ Outlasts
    /\ lock = t
    /\ Fault
    /\ broken' = TRUE
    /\ lock' = NoThread
    /\ UNCHANGED <<store, signalled, pc, op, step, original, local, result>>
    /\ UNCHANGED <<keyed, hadKey, serverVars, unsaid>>

\* A replica dies in a call; nobody rolls back or releases for it.
Crash(t) ==
    /\ pc[t] # "idle"
    /\ Fault
    /\ broken' = (broken \/ SM!Midway(t))
    /\ unsaid' = (unsaid \/ pc[t] = "written")
    /\ lock' = IF lock = t THEN Orphan ELSE lock
    /\ SM!Return(t, "none")
    /\ UNCHANGED <<store, signalled, keyed, hadKey, serverVars>>

-----------------------------------------------------------------------------
\* RedisStateServer.  The connection manager starts a new one for its first
\* client, and stops it without waiting for its thread when the last one left.

OnServers(A) == A /\ UNCHANGED <<machineVars, keyed, hadKey, history>>

\* The server the manager has started for its clients; it has them as long.
Wanted(s) == server[s] \in {"up", "handling", "dead"}

Served == \E s \in Servers : Wanted(s)

StartServer(s) ==
    /\ server[s] = "new" /\ ~Served
    /\ \A r \in Servers : r < s => server[r] # "new"
    /\ server' = [server EXCEPT ![s] = "up"]
    /\ UNCHANGED <<pending, event, shown, overtaken>>

\* Mutant of Handle: it does not wait for a notification.
HandleUnasked(s) ==
    /\ server[s] = "up"
    /\ server' = [server EXCEPT ![s] = "handling"]
    /\ pending' = [pending EXCEPT ![s] = @ - 1]
    /\ event' = [event EXCEPT ![s] = store]
    /\ UNCHANGED <<shown, overtaken>>

\* _handler(): the state is the stored one by now, not the one announced ...
\* A thread that stop() found in get_message() may take one more notification.
Handle(s) ==
    /\ server[s] \in {"up", "stopped"} /\ pending[s] > 0
    /\ \/ /\ server[s] = "up"
          /\ server' = [server EXCEPT ![s] = "handling"]
          /\ pending' = [pending EXCEPT ![s] = @ - 1]
       \/ /\ server[s] = "stopped"
          /\ server' = [server EXCEPT ![s] = "stopping"]
          /\ pending' = [pending EXCEPT ![s] = 0]
    /\ event' = [event EXCEPT ![s] = store]
    /\ UNCHANGED <<shown, overtaken>>

\* ... and is published once it has been read: to the clients there are, which
\* may be a successor's.
Show(s) ==
    /\ server[s] \in {"handling", "stopping"}
    /\ server' = [server EXCEPT ![s] = IF @ = "handling" THEN "up" ELSE "ended"]
    /\ event' = [event EXCEPT ![s] = Cleared]
    /\ shown' = IF Served THEN event[s] ELSE shown
    /\ overtaken' = (Served /\ server[s] = "stopping")
    /\ UNCHANGED pending

\* publish() raises: run_in_thread() was given no exception handler.  (Of a
\* stopped server it is the end all the same.)
ShowRaises(s) ==
    /\ server[s] = "handling"
    /\ server' = [server EXCEPT ![s] = "dead"]
    /\ pending' = [pending EXCEPT ![s] = 0]
    /\ event' = [event EXCEPT ![s] = Cleared]
    /\ shown' = event[s]
    /\ UNCHANGED overtaken

AfterStop == [up |-> "stopped", handling |-> "stopping", dead |-> "ended"]

\* stop() clears a flag and waits for nothing ...
StopServer(s) ==
    /\ Wanted(s)
    /\ server' = [server EXCEPT ![s] = AfterStop[@]]
    /\ pending' = [pending EXCEPT ![s] = IF server[s] = "up" THEN @ ELSE 0]
    /\ shown' = Nothing /\ overtaken' = FALSE
    /\ UNCHANGED event

\* ... that the thread tests when get_message() has returned nothing.
EndServer(s) ==
    /\ server[s] = "stopped"
    /\ server' = [server EXCEPT ![s] = "ended"]
    /\ pending' = [pending EXCEPT ![s] = 0]
    /\ UNCHANGED <<event, shown, overtaken>>

-----------------------------------------------------------------------------
ThreadStep(t) ==
    \/ Guards(t) \/ Atomic(t) \/ Acquire(t) \/ Write(t) \/ Publish(t)
    \/ Release(t) \/ Rollback(t)

ServerStep(s) ==
    OnServers(Handle(s) \/ Show(s) \/ ShowRaises(s) \/ EndServer(s))

Clients(s) == OnServers(StartServer(s) \/ StopServer(s))

AnyCall == \E t \in Threads, c \in CommandSet : Call(t, c)

Next == \/ AnyCall
        \/ ExpireOrphan
        \/ \E t \in Threads : \/ ThreadStep(t) \/ SleepRaises(t)
                              \/ ExpireHeld(t) \/ Crash(t)
        \/ \E s \in Servers : ServerStep(s) \/ Clients(s)

\* Threads run, locks expire; faults, calls and clients are not owed.  Of the
\* servers no more is needed than that one of those that can go on does.
Fairness == /\ \A t \in Threads : WF_vars(ThreadStep(t))
            /\ WF_vars(\E s \in Servers : ServerStep(s))
            /\ WF_vars(ExpireOrphan)

Spec == Init /\ [][Next]_vars /\ Fairness

-----------------------------------------------------------------------------
\* "Only one thread at a time can write or update the state" says the comment in
\* update_state(); a lock that expires under its holder lets a second one in.
Updating == {t \in Threads : pc[t] \in {"locked", "written", "signalled"}}

OneWriterAtATime == Cardinality(Updating) <= 1

\* It is so, across the replicas, as long as no lock expires under its holder
\* and no command is left midway; and then a transient state has an owner.
\* A replica that dies at another moment, also with the lock, does no harm.
IntactUnlessBroken ==
    ~broken => OneWriterAtATime /\ SM!TransientHasOwner

\* So long, the updates of all replicas are atomic and each command's in order
\* (AtomicCommands): update_state loses and repeats none, and a command that has
\* died with its replica has made all of its updates or none.
Abs == INSTANCE AtomicCommands
           WITH todo <- [t \in Threads |-> SM!Remaining(t)]

AtomicUnlessBroken ==
    Abs!Init /\ [][broken' \/ Abs!Next \/ Abs!Forgo]_(Abs!absVars)

\* What the clients were given last is what is stored, once all notifications
\* are handled and every write has been announced, though notifications carry no
\* state and are handled late.  It need not be while the server's thread is
\* dead, nor when a stopped server, whose thread nobody waits for, has published
\* after its successor, until the successor publishes again.
Settled == /\ ~unsaid /\ ~overtaken
           /\ \A t \in Threads : pc[t] # "written"
           /\ \A s \in Servers : /\ pending[s] = 0
                                 /\ server[s] \in {"new", "up", "ended"}

SettledIsShown == Settled => shown \in {Nothing, store}

\* Whatever fails, once callers stop calling every call returns: the lock of a
\* replica that died does not block the others for ever.
CallsCease ==
    <>[][\A t \in Threads : pc[t] = "idle" => pc'[t] = "idle"]_pc

CallsReturn == CallsCease => <>[](\A t \in Threads : pc[t] = "idle")

=============================================================================
