---------------------------- MODULE StateMachine ----------------------------
(***************************************************************************)
(* StateMachine over the in-memory updater (mv/_state_machine): the worker *)
(* threads of one server process call commands on the shared state         *)
(* machine.  A command first passes its decorators, each of which reads    *)
(* the stored state or the lock by itself, then runs its updates under     *)
(* the write lock, one lock acquisition per update.  Nothing holds the     *)
(* lock between the decorators and the first update, nor between updates.  *)
(***************************************************************************)
EXTENDS Commands

CONSTANTS Threads,      \* worker threads of the process
          NoThread,     \* stands for "no holder" in lock
          CommandSet,   \* the operations callers use
          BadDelays     \* whether a caller may pass a delay sleep() rejects

ASSUME ConstantsAssumption ==
    /\ NoThread \notin Threads
    /\ CommandSet \subseteq Operations
    /\ BadDelays \in BOOLEAN

VARIABLES
    store,      \* memstate._state
    lock,       \* the holder of state_control._state_write_lock
    signalled,  \* the state in the last ("STATE_CHANGED", state) signal
    pc,         \* where each thread stands in its call
    op,         \* the operation each thread is executing
    step,       \* which of the operation's updates is next or under way
    original,   \* atomic()'s original_state
    local,      \* the dict that update_state() yielded
    result      \* how each thread's last call ended

threadVars == <<pc, op, step, original, local, result>>
vars == <<store, lock, signalled, pc, op, step, original, local, result>>

Locations == {"idle", "ignore", "must_be_on", "check_busy", "is_allowed",
              "atomic", "acquire", "locked", "written", "signalled",
              "rollback"}
Outcomes  == {"none", "pending", "ok", "ignored", "busy_error", "not_allowed",
              "type_error", "failed"}

TypeOK ==
    /\ store \in Store
    /\ lock \in Threads \cup {NoThread}
    /\ signalled \in Store
    /\ pc \in [Threads -> Locations]
    /\ op \in [Threads -> Operations \cup {"none"}]
    /\ step \in [Threads -> 0..3]
    /\ original \in [Threads -> Store]
    /\ local \in [Threads -> Store]
    /\ result \in [Threads -> Outcomes]

Init ==
    /\ store = Cleared
    /\ lock = NoThread
    /\ signalled = Cleared
    /\ pc = [t \in Threads |-> "idle"]
    /\ op = [t \in Threads |-> "none"]
    /\ step = [t \in Threads |-> 0]
    /\ original = [t \in Threads |-> Cleared]
    /\ local = [t \in Threads |-> Cleared]
    /\ result = [t \in Threads |-> "none"]

-----------------------------------------------------------------------------
\* How the steps of one thread are told apart.

Goto(t, l) ==
    /\ pc' = [pc EXCEPT ![t] = l]
    /\ UNCHANGED <<op, step, original, local, result>>

\* The call returns or raises; its local variables are gone.
Return(t, r) ==
    /\ pc' = [pc EXCEPT ![t] = "idle"]
    /\ op' = [op EXCEPT ![t] = "none"]
    /\ step' = [step EXCEPT ![t] = 0]
    /\ original' = [original EXCEPT ![t] = Cleared]
    /\ local' = [local EXCEPT ![t] = Cleared]
    /\ result' = [result EXCEPT ![t] = r]

\* Mutant of Entry: reset_state writes without the lock.
EntryResetUnlocked(c) ==
    CASE c = "reset_state" -> "locked"
      [] c = "configure"   -> "must_be_on"
      [] OTHER             -> "ignore"

\* The outermost decorator of each operation; reset_state has none and
\* enters its one update directly.
Entry(c) ==
    CASE c = "reset_state" -> "acquire"
      [] c = "configure"   -> "must_be_on"
      [] OTHER             -> "ignore"

Call(t, c) ==
    /\ pc[t] = "idle"
    /\ pc' = [pc EXCEPT ![t] = Entry(c)]
    /\ op' = [op EXCEPT ![t] = c]
    /\ step' = [step EXCEPT ![t] = 1]
    /\ result' = [result EXCEPT ![t] = "pending"]
    /\ UNCHANGED <<store, lock, signalled, original, local>>

-----------------------------------------------------------------------------
\* The decorators, outermost first.

IgnoreIfInState(t) ==
    /\ pc[t] = "ignore"
    /\ \/ Ignored(op[t], store) /\ Return(t, "ignored")
       \/ /\ ~Ignored(op[t], store)
          /\ Goto(t, IF op[t] \in SwitchCommands THEN "check_busy"
                                                 ELSE "must_be_on")
    /\ UNCHANGED <<store, lock, signalled>>

MustBeOn(t) ==
    /\ pc[t] = "must_be_on"
    /\ \/ store.state = "ON" /\ Goto(t, "check_busy")
       \/ store.state # "ON" /\ Return(t, "not_allowed")
    /\ UNCHANGED <<store, lock, signalled>>

CheckBusy(t) ==
    /\ pc[t] = "check_busy"
    /\ \/ lock = NoThread /\ Goto(t, "is_allowed")
       \/ lock # NoThread /\ Return(t, "busy_error")
    /\ UNCHANGED <<store, lock, signalled>>

IsAllowed(t) ==
    /\ pc[t] = "is_allowed"
    /\ \/ Allowed(op[t], store) /\ Goto(t, "atomic")
       \/ /\ HasEntry(store) /\ ~Allowed(op[t], store)
          /\ Return(t, "not_allowed")
       \/ ~HasEntry(store) /\ Return(t, "type_error")
    /\ UNCHANGED <<store, lock, signalled>>

-----------------------------------------------------------------------------
\* The body: atomic() around one update_state() per update.

Atomic(t) ==
    /\ pc[t] = "atomic"
    /\ pc' = [pc EXCEPT ![t] = "acquire"]
    /\ original' = [original EXCEPT ![t] = store]
    /\ UNCHANGED <<store, lock, signalled, op, step, local, result>>

\* Mutant of Acquire: it does not wait for the lock.
AcquireWithoutWaiting(t) ==
    /\ pc[t] = "acquire"
    /\ lock' = t
    /\ local' = [local EXCEPT ![t] = store]
    /\ pc' = [pc EXCEPT ![t] = "locked"]
    /\ UNCHANGED <<store, signalled, op, step, original, result>>

\* Mutant of Acquire: it yields the copy that atomic() took.
AcquireStaleCopy(t) ==
    /\ pc[t] = "acquire"
    /\ lock = NoThread
    /\ lock' = t
    /\ local' = [local EXCEPT ![t] = original[t]]
    /\ pc' = [pc EXCEPT ![t] = "locked"]
    /\ UNCHANGED <<store, signalled, op, step, original, result>>

Acquire(t) ==
    /\ pc[t] = "acquire"
    /\ lock = NoThread
    /\ lock' = t
    /\ local' = [local EXCEPT ![t] = store]
    /\ pc' = [pc EXCEPT ![t] = "locked"]
    /\ UNCHANGED <<store, signalled, op, step, original, result>>

\* Mutant of Write: the lock is released before the signal is sent.
WriteReleasing(t) ==
    LET new == Updated(local[t], Steps[op[t]][step[t]]) IN
    /\ pc[t] = "locked"
    /\ store' = new
    /\ lock' = NoThread
    /\ local' = [local EXCEPT ![t] = new]
    /\ pc' = [pc EXCEPT ![t] = "written"]
    /\ UNCHANGED <<signalled, op, step, original, result>>

\* The delay has passed: the yielded dict is assigned and stored ...
Write(t) ==
    LET new == Updated(local[t], Steps[op[t]][step[t]]) IN
    /\ pc[t] = "locked"
    /\ store' = new
    /\ local' = [local EXCEPT ![t] = new]
    /\ pc' = [pc EXCEPT ![t] = "written"]
    /\ UNCHANGED <<lock, signalled, op, step, original, result>>

\* ... then announced, with the lock still held ...
Signal(t) ==
    /\ pc[t] = "written"
    /\ signalled' = local[t]
    /\ local' = [local EXCEPT ![t] = Cleared]
    /\ pc' = [pc EXCEPT ![t] = "signalled"]
    /\ UNCHANGED <<store, lock, op, step, original, result>>

LastStep(t) == step[t] = Len(Steps[op[t]])

\* ... and the lock is released; the next update will take it again.
Release(t) ==
    /\ pc[t] = "signalled"
    /\ lock' = NoThread
    /\ \/ LastStep(t) /\ Return(t, "ok")
       \/ /\ ~LastStep(t)
          /\ pc' = [pc EXCEPT ![t] = "acquire"]
          /\ step' = [step EXCEPT ![t] = @ + 1]
          /\ UNCHANGED <<op, original, local, result>>
    /\ UNCHANGED <<store, signalled>>

\* Mutant of SleepRaises: the lock is not released by a finally clause.
SleepRaisesKeepingLock(t) ==
    /\ BadDelays
    /\ pc[t] = "locked"
    /\ step[t] > 1
    /\ pc' = [pc EXCEPT ![t] = "rollback"]
    /\ local' = [local EXCEPT ![t] = Cleared]
    /\ UNCHANGED <<store, lock, signalled, op, step, original, result>>

\* sleep(delay) raises (a negative delay, or a config "delay" that is not a
\* number) inside the update: the lock is released, nothing is written.
\* A command's first update has no delay.
SleepRaises(t) ==
    /\ BadDelays
    /\ pc[t] = "locked"
    /\ step[t] > 1
    /\ lock' = NoThread
    /\ pc' = [pc EXCEPT ![t] = "rollback"]
    /\ local' = [local EXCEPT ![t] = Cleared]
    /\ UNCHANGED <<store, signalled, op, step, original, result>>

\* Mutant of Rollback: the exception passes without restoring the state.
RollbackNothing(t) == /\ pc[t] = "rollback"
                      /\ Return(t, "failed")
                      /\ UNCHANGED <<store, lock, signalled>>

\* atomic()'s except clause: it takes no lock and sends no signal.
Rollback(t) ==
    /\ pc[t] = "rollback"
    /\ store' = original[t]
    /\ Return(t, "failed")
    /\ UNCHANGED <<lock, signalled>>

Step(t) ==
    \/ IgnoreIfInState(t) \/ MustBeOn(t) \/ CheckBusy(t) \/ IsAllowed(t)
    \/ Atomic(t) \/ Acquire(t) \/ Write(t) \/ Signal(t) \/ Release(t)
    \/ SleepRaises(t) \/ Rollback(t)

AnyCall == \E t \in Threads, c \in CommandSet : Call(t, c)

Next == AnyCall \/ \E t \in Threads : Step(t)

\* The operating system runs every thread that can run; nobody has to call.
Fairness == \A t \in Threads : WF_vars(Step(t))

Spec == Init /\ [][Next]_vars /\ Fairness

-----------------------------------------------------------------------------
\* Where a command stands, seen from the stored state.

\* Its first update has been written ...
Begun(t) == \/ pc[t] \in {"written", "signalled", "rollback"}
            \/ pc[t] \in {"acquire", "locked"} /\ step[t] > 1

\* ... but not its last one.
Midway(t) == Begun(t) /\ ~(pc[t] \in {"written", "signalled"} /\ LastStep(t))

Idle == \A t \in Threads : pc[t] = "idle"

-----------------------------------------------------------------------------
\* Safety.

\* Whatever two racing commands do to each other's updates, a transient state
\* is never left behind: while the store reads BUSY (RESOURCING, CONFIGURING,
\* SCANNING), some thread is midway through a command that will move it on.
TransientHasOwner ==
    /\ store.state = "BUSY" =>
         \E t \in Threads : Midway(t) /\ op[t] \in SwitchCommands
    /\ store.obs_state \in {"BUSY", "RESOURCING", "CONFIGURING", "SCANNING"} =>
         \E t \in Threads : Midway(t) /\ op[t] \in ObsCommands

\* A subscriber that has drained the signals holds the stored state: the last
\* signal and the store differ only inside an update, while its lock is held
\* (inmem_stateupdater.py, the comment over the lock).
SignalledWhenFree == lock = NoThread => signalled = store

\* "Only one thread at a time can write or update the state": the store
\* changes only by the thread that holds the write lock.
LockGuardsStore ==
    [][store' # store => lock # NoThread /\ pc[lock] = "locked"]_vars

\* With one caller the machine is never wedged: at rest, also after a command
\* that failed and was rolled back, the lock is free and some command is
\* admitted.
Admitted(c) == /\ ~Ignored(c, store)
               /\ lock = NoThread
               /\ Allowed(c, store)
               /\ c \in ObsCommands => store.state = "ON"

NeverWedged == Idle => \E c \in CommandSet : Admitted(c)

\* Read-copy-write-back under the lock is an atomic read-modify-write: no
\* update of any thread is lost, repeated or reordered (AtomicCommands).
Remaining(t) ==
    CASE pc[t] \in {"acquire", "locked"} ->
            SubSeq(Steps[op[t]], step[t], Len(Steps[op[t]]))
      [] pc[t] \in {"written", "signalled"} ->
            SubSeq(Steps[op[t]], step[t] + 1, Len(Steps[op[t]]))
      [] OTHER -> << >>

Abs == INSTANCE AtomicCommands
           WITH todo <- [t \in Threads |-> Remaining(t)]

UpdatesAreAtomic == Abs!Spec

\* With one caller the machine is the five-mode machine of Lifecycle, in which
\* every command that begins ends, in its target mode or where it began.
ModeOf(s) == IF s.state = "ON" THEN s.obs_state ELSE s.state

Running == {t \in Threads : Midway(t)}

Life == INSTANCE Lifecycle
    WITH mode <- IF Running = {} THEN ModeOf(store)
                 ELSE ModeOf(original[CHOOSE t \in Running : TRUE]),
         cmd  <- IF Running = {} THEN "none"
                 ELSE op[CHOOSE t \in Running : TRUE]

OneCallerLifecycle == Life!Spec

-----------------------------------------------------------------------------
\* What documents and tests say, and two callers refute.

\* A command that meets a busy machine is refused with the busy or the
\* not-allowed error, which the server answers with 405 (README.md: "attempting
\* to perform a next command (resulting in a 405 error)"), and not with an error
\* of the test itself.
RefusedCleanly == \A t \in Threads : result[t] # "type_error"

\* A machine at rest that is OFF has no obs_state (test_switch_off).
OffHasNoObsState ==
    Idle /\ store.state = "OFF" => store.obs_state = None

=============================================================================
