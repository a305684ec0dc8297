---------------------------- MODULE FileBackend -----------------------------
(***************************************************************************)
(* The state machine over a file (mv/_state_machine/file_backend): the     *)
(* worker threads of one server process, which may be killed at any time   *)
(* and started again over the file it left.  The commands and decorators   *)
(* are StateMachine's; every read and write of the state is a read or a    *)
(* write of the file.  A write truncates the file and fills it on close.   *)
(***************************************************************************)
EXTENDS Commands

CONSTANTS Threads, NoThread, CommandSet, BadDelays,
          MaxFaults    \* bound: crashes and delays that raise

ASSUME FileAssumption == /\ NoThread \notin Threads
                         /\ CommandSet \subseteq Operations
                         /\ BadDelays \in BOOLEAN
                         /\ MaxFaults \in Nat

VARIABLES
    store,      \* the state written last; lost unless file is "whole"
    lock,       \* _state_write_lock
    signalled,  \* the state in the last signal
    pc, op, step, original, local, result,
    file,       \* what is at _path: store, if it is "whole"
    readLock,   \* who holds _file_read_lock for a write; a read is one step
    process,    \* whether the server is down, in its first write, or up
    faults,     \* how many faults there have been
    harm        \* history: what faults and unannounced writes have done

SM == INSTANCE StateMachine

machineVars == <<store, lock, signalled, pc, op, step, original, local, result>>
fileVars    == <<file, readLock>>
history     == <<faults, harm>>
vars == <<machineVars, fileVars, process, history>>

Harms == {"cut",      \* the process was killed between truncate and fill
          "midway",   \* a command was left, or rolled back, midway
          "silent"}   \* a write was not announced

TypeOK ==
    /\ store \in Store /\ signalled \in Store
    /\ lock \in Threads \cup {NoThread}
    /\ pc \in [Threads -> SM!Locations]
    /\ op \in [Threads -> Operations \cup {"none"}]
    /\ step \in [Threads -> 0..3]
    /\ original \in [Threads -> Store] /\ local \in [Threads -> Store]
    /\ result \in [Threads -> SM!Outcomes \cup {"unreadable"}]
    /\ file \in {"absent", "empty", "whole"}
    /\ readLock \in Threads \cup {NoThread}
    /\ process \in {"down", "creating", "up"}
    /\ faults \in 0..MaxFaults
    /\ harm \subseteq Harms

\* A server that has never run.
Init ==
    /\ SM!Init
    /\ file = "absent" /\ readLock = NoThread
    /\ process = "down"
    /\ faults = 0 /\ harm = {}

-----------------------------------------------------------------------------
\* The start of the server: __init__ writes {} if there is no file, and looks
\* no further if there is one.

Start ==
    /\ process = "down"
    /\ \/ file = "absent" /\ file' = "empty" /\ process' = "creating"
       \/ file # "absent" /\ process' = "up" /\ UNCHANGED file
    /\ UNCHANGED <<machineVars, readLock, history>>

Created ==
    /\ process = "creating"
    /\ file' = "whole" /\ process' = "up"
    /\ UNCHANGED <<machineVars, readLock, history>>

-----------------------------------------------------------------------------
\* Reading.  _read() keeps the lock over its second attempt, two seconds after
\* the first, so a process that cannot read the file cannot mend it meanwhile.

\* Mutant of ReadLockFree: reads and writes of the file do not exclude each other.
NoReadLock == TRUE

ReadLockFree == readLock = NoThread

Quietly(A) == A /\ UNCHANGED <<fileVars, process, history>>

\* reset_state() takes neither lock nor copy: it is ready to write at once.
Call(t, c) ==
    /\ process = "up"
    /\ pc[t] = "idle"
    /\ pc' = [pc EXCEPT ![t] = IF c = "reset_state" THEN "locked"
                                                    ELSE SM!Entry(c)]
    /\ op' = [op EXCEPT ![t] = c]
    /\ step' = [step EXCEPT ![t] = 1]
    /\ result' = [result EXCEPT ![t] = "pending"]
    /\ UNCHANGED <<store, lock, signalled, original, local>>
    /\ UNCHANGED <<fileVars, process, history>>

CheckBusy(t) == Quietly(SM!CheckBusy(t))

\* Mutant of Read: an empty file is read as no state.
ReadAnything(t) ==
    /\ ReadLockFree
    /\ Quietly(\/ SM!IgnoreIfInState(t) \/ SM!MustBeOn(t) \/ SM!IsAllowed(t)
               \/ SM!Atomic(t))

\* The busy test looks at the write lock, the other decorators and atomic()
\* read the file.
Read(t) ==
    /\ ReadLockFree
    /\ file = "whole"
    /\ Quietly(\/ SM!IgnoreIfInState(t) \/ SM!MustBeOn(t) \/ SM!IsAllowed(t)
               \/ SM!Atomic(t))

\* Mutant of ReadRaises: it tries again for ever.
ReadRetries(t) ==
    /\ ReadLockFree
    /\ file # "whole"
    /\ pc[t] \in {"ignore", "must_be_on", "is_allowed", "atomic"}
    /\ UNCHANGED vars

\* json.load() of an empty file raises, the second time too.
ReadRaises(t) ==
    /\ ReadLockFree
    /\ file # "whole"
    /\ pc[t] \in {"ignore", "must_be_on", "is_allowed", "atomic"}
    /\ SM!Return(t, "unreadable")
    /\ Quietly(UNCHANGED <<store, lock, signalled>>)

\* Mutant of Acquire: an update reads the file before it has the write lock.
AcquireUnlocked(t) ==
    /\ ReadLockFree
    /\ pc[t] = "acquire"
    /\ lock' = t
    /\ local' = [local EXCEPT ![t] = store]
    /\ pc' = [pc EXCEPT ![t] = "locked"]
    /\ Quietly(UNCHANGED <<store, signalled, op, step, original, result>>)

\* Mutant of Acquire: an update starts from the copy that atomic() took.
AcquireStale(t) == ReadLockFree /\ Quietly(SM!AcquireStaleCopy(t))

\* An update takes the write lock and reads; what atomic() could read, it can.
Acquire(t) == ReadLockFree /\ Quietly(SM!Acquire(t))

-----------------------------------------------------------------------------
\* Writing: an update's state, a rollback's copy, or the {} of a reset.

Truncate(t) ==
    /\ ReadLockFree
    /\ pc[t] \in {"locked", "rollback"}
    /\ readLock' = t /\ file' = "empty"
    /\ UNCHANGED <<machineVars, process, history>>

Filled(t) == /\ readLock = t
             /\ readLock' = NoThread /\ file' = "whole"

\* Mutant of FillUpdate: the write lock is released before the signal is sent.
FillUpdateReleasing(t) ==
    /\ Filled(t)
    /\ op[t] # "reset_state"
    /\ SM!WriteReleasing(t)
    /\ UNCHANGED <<process, history>>

FillUpdate(t) ==
    /\ Filled(t)
    /\ op[t] # "reset_state"
    /\ SM!Write(t)
    /\ UNCHANGED <<process, history>>

FillReset(t) ==
    /\ Filled(t)
    /\ op[t] = "reset_state"
    /\ store' = Cleared
    /\ harm' = harm \cup {"silent"}
    /\ SM!Return(t, "ok")
    /\ UNCHANGED <<lock, signalled, process, faults>>

FillRollback(t) ==
    /\ Filled(t)
    /\ SM!Rollback(t)
    /\ harm' = harm \cup {"silent"}
    /\ UNCHANGED <<process, faults>>

Announce(t) == Quietly(SM!Signal(t) \/ SM!Release(t))

-----------------------------------------------------------------------------
\* Faults.

Fault == faults < MaxFaults /\ faults' = faults + 1

SleepRaises(t) ==
    /\ op[t] # "reset_state" /\ readLock # t
    /\ SM!SleepRaises(t)
    /\ Fault
    /\ harm' = harm \cup {"midway"}
    /\ UNCHANGED <<fileVars, process>>

\* The process is killed: what is left is the file.  Between a truncate and its
\* fill ("cut") that is an empty one, and the state it held is lost.
Crash ==
    /\ process # "down"
    /\ Fault
    /\ process' = "down"
    /\ harm' = harm
          \cup (IF process = "creating" \/ readLock # NoThread
                THEN {"cut"} ELSE {})
          \cup (IF \E t \in Threads : SM!Midway(t) THEN {"midway"} ELSE {})
          \cup (IF \E t \in Threads : pc[t] = "written" THEN {"silent"} ELSE {})
    /\ lock' = NoThread /\ readLock' = NoThread
    /\ pc' = [t \in Threads |-> "idle"]
    /\ op' = [t \in Threads |-> "none"]
    /\ step' = [t \in Threads |-> 0]
    /\ original' = [t \in Threads |-> Cleared]
    /\ local' = [t \in Threads |-> Cleared]
    /\ result' = [t \in Threads |-> "none"]
    /\ UNCHANGED <<store, signalled, file>>

-----------------------------------------------------------------------------
ThreadStep(t) ==
    \/ CheckBusy(t) \/ Read(t) \/ ReadRaises(t) \/ Acquire(t) \/ Truncate(t)
    \/ FillUpdate(t) \/ FillReset(t) \/ FillRollback(t) \/ Announce(t)

AnyCall == \E t \in Threads, c \in CommandSet : Call(t, c)

Next == \/ AnyCall
        \/ Start \/ Created \/ Crash
        \/ \E t \in Threads : ThreadStep(t) \/ SleepRaises(t)

\* Threads run; faults, calls and the start of the server are not owed.
Fairness == \A t \in Threads : WF_vars(ThreadStep(t))

Spec == Init /\ [][Next]_vars /\ Fairness

-----------------------------------------------------------------------------
\* "State should persist even if the power fails" (README.md, which takes to the
\* file for that reason): once a state has been set, it can be read from the file
\* whenever nobody is writing it.
Writing == process = "creating" \/ readLock # NoThread

StatePersists == store # Cleared /\ ~Writing => file = "whole"

\* The file can be read, and no command has ever failed to read it, unless the
\* process was killed between a truncate and its fill; from then on every start
\* finds a file, reads nothing from it, and only a reset mends it.
ReadableUnlessCut ==
    "cut" \notin harm =>
        /\ process = "up" /\ ~Writing => file = "whole"
        /\ \A t \in Threads : result[t] # "unreadable"

\* Whatever happened before, a command that atomic() let begin can read the
\* file in each of its updates: it does not fail half done for want of one.
BegunCanRead ==
    \A t \in Threads :
        pc[t] \in {"acquire", "rollback"} /\ ~Writing => file = "whole"

\* Updates exclude each other, and a transient state has a command that will
\* end it, resets included, until a command is rolled back or killed midway:
\* also over restarts, where nothing is left that could end one.
Updating == {t \in Threads : lock = t \/ (pc[t] = "locked" /\ op[t] # "reset_state")}

IntactUnlessMidway ==
    "midway" \notin harm =>
        SM!TransientHasOwner /\ \A t, u \in Updating : t = u

\* No update is lost: what an update has read is still what is stored when it
\* writes.  "After a write, a signal is sent": subscribers are told of every
\* write.  Both hold until a reset or a rollback writes without the lock and
\* without a signal, or a crash comes between a write and its signal.
CoherentUnlessSilent ==
    "silent" \notin harm =>
        /\ \A t \in Threads :
              pc[t] = "locked" /\ op[t] # "reset_state" => local[t] = store
        /\ lock = NoThread => signalled = store

\* Until a kill cuts a write short, a command is rolled back or killed midway, or
\* a write is not announced, the updates of all threads are atomic and each
\* command's are in order (AtomicCommands): update_state loses and repeats none.
\* It is so over restarts after the kills that do none of this: those before a
\* command's first write, whose command has made no update, and those after its
\* last signal, whose command has made them all; and the file holds the result.
Abs == INSTANCE AtomicCommands
           WITH todo <- [t \in Threads |-> SM!Remaining(t)]

AtomicUnlessHarmed ==
    Abs!Init /\ [][\/ harm' # {}
                   \/ Abs!Next \/ Abs!Forgo]_(Abs!absVars)

\* Whatever fails, once callers stop calling every call returns, though two
\* locks are taken, one inside the other.
CallsReturn ==
    (<>[][~AnyCall]_vars) => \A t \in Threads : <>[](pc[t] = "idle")

=============================================================================
