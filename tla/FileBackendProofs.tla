-------------------------- MODULE FileBackendProofs --------------------------
(***************************************************************************)
(* Theorems about FileBackend, for any set of threads and of commands and  *)
(* any number of faults.                                                   *)
(***************************************************************************)
EXTENDS FileBackend, TLAPS

-----------------------------------------------------------------------------
\* The command table is the one of StateMachineProofs, with its lemmas.

SMP == INSTANCE StateMachineProofs

LEMMA SameTable ==
    /\ SMP!Steps = Steps /\ SMP!Operations = Operations
    /\ SMP!Store = Store /\ \A s, a : SMP!Updated(s, a) = Updated(s, a)
    /\ SMP!SwitchCommands = SwitchCommands /\ SMP!ObsCommands = ObsCommands
BY DEF SMP!Steps, Steps, SMP!Assign, Assign, SMP!Keep, Keep, SMP!None, None,
       SMP!Operations, Operations, SMP!SwitchCommands, SwitchCommands,
       SMP!ObsCommands, ObsCommands, SMP!Store, Store, SMP!States, States,
       SMP!ObsStates, ObsStates, SMP!Updated, Updated

TransientObs == {"BUSY", "RESOURCING", "CONFIGURING", "SCANNING"}

\* The rest of a command's updates, from the i-th one on.
From(c, i) == SubSeq(Steps[c], i, Len(Steps[c]))

LEMMA StepsLength == \A c \in Operations : Len(Steps[c]) \in 1..3
BY SMP!StepsLength, SameTable, FileAssumption

LEMMA StepBounds ==
    \A n \in 1..3 : /\ 1 \in 1..n
                    /\ \A i \in 1..n : i \in 0..3
                    /\ \A i \in 1..n : i # n => i + 1 \in 1..n /\ i + 1 \in 0..3
OBVIOUS

LEMMA UpdatedInStore ==
    ASSUME NEW c \in Operations, NEW s \in Store, NEW i \in 1..Len(Steps[c])
    PROVE  Updated(s, Steps[c][i]) \in Store
BY SMP!UpdatedInStore, SameTable, FileAssumption

LEMMA TransientsWritten ==
    ASSUME NEW c \in Operations, NEW s \in Store, NEW i \in 1..Len(Steps[c])
    PROVE  LET u == Updated(s, Steps[c][i]) IN
           /\ u.state = "BUSY" =>
                \/ c \in SwitchCommands /\ i # Len(Steps[c])
                \/ c \in ObsCommands /\ s.state = "BUSY"
           /\ u.obs_state \in TransientObs =>
                \/ c \in ObsCommands /\ i # Len(Steps[c])
                \/ /\ c \in SwitchCommands /\ i # Len(Steps[c])
                   /\ s.obs_state \in TransientObs
BY SMP!TransientsWritten, SameTable, FileAssumption DEF TransientObs, SMP!TransientObs

LEMMA FromFacts ==
    ASSUME NEW c \in Operations
    PROVE  /\ From(c, 1) = Steps[c]
           /\ From(c, Len(Steps[c]) + 1) = << >>
           /\ \A i \in 1..Len(Steps[c]) : /\ From(c, i) # << >>
                                          /\ Head(From(c, i)) = Steps[c][i]
                                          /\ Tail(From(c, i)) = From(c, i + 1)
BY SMP!FromFacts, SameTable, FileAssumption DEF From, SMP!From

-----------------------------------------------------------------------------
\* The inductive invariant.

\* Where a thread can stand in a call; a reset is one write, and has only the
\* place before it.
CallInv ==
    \A t \in Threads :
        /\ pc[t] = "idle" => op[t] = "none"
        /\ pc[t] # "idle" => /\ op[t] \in CommandSet
                             /\ step[t] \in 1..Len(Steps[op[t]])
        /\ op[t] = "reset_state" => pc[t] = "locked"
        /\ process # "up" => pc[t] = "idle"

Early == {"ignore", "must_be_on", "check_busy", "is_allowed", "atomic"}

EarlyInv == \A t \in Threads : pc[t] \in Early => step[t] = 1

\* The write lock is held by who is in an update that is not a reset.
InUpdate(t) == /\ pc[t] \in {"locked", "written", "signalled"}
               /\ op[t] # "reset_state"

LockInv == \A t \in Threads : InUpdate(t) <=> lock = t

\* The file is empty while it is written; else only if a writer was cut short.
FileInv ==
    /\ readLock # NoThread => /\ pc[readLock] \in {"locked", "rollback"}
                              /\ file = "empty"
    /\ process = "creating" => file = "empty"
    /\ process = "up" => file # "absent"
    /\ file = "empty" /\ ~Writing => "cut" \in harm
    /\ \A t \in Threads : result[t] = "unreadable" => "cut" \in harm

\* A command that has got past atomic() goes on over a file that is whole.
BegunInv ==
    \A t \in Threads :
        /\ \/ pc[t] \in {"acquire", "written", "signalled", "rollback"}
           \/ pc[t] = "locked" /\ op[t] # "reset_state"
        /\ readLock = NoThread
        => file = "whole"

\* The holder's copy and the last signal, until a write is not announced.
CopyInv ==
    "silent" \notin harm =>
        /\ \A t \in Threads :
              pc[t] \in {"locked", "written"} /\ op[t] # "reset_state" =>
                  local[t] = store
        /\ signalled = store \/ \E t \in Threads : pc[t] = "written"

\* The transient values of s are those of commands that are midway.
Owned(s) ==
    /\ s.state = "BUSY" =>
         \E t \in Threads : SM!Midway(t) /\ op[t] \in SwitchCommands
    /\ s.obs_state \in TransientObs =>
         \E t \in Threads : SM!Midway(t) /\ op[t] \in ObsCommands

\* So are those of the store and, since a reset may write in between, those of
\* a copy that will be written back.
OwnedInv ==
    /\ \A t \in Threads : pc[t] = "rollback" => "midway" \in harm
    /\ "midway" \notin harm =>
          /\ Owned(store)
          /\ \A t \in Threads :
                pc[t] = "locked" /\ op[t] # "reset_state" => Owned(local[t])

IInv == /\ TypeOK /\ CallInv /\ EarlyInv /\ LockInv
        /\ FileInv /\ BegunInv /\ CopyInv /\ OwnedInv

-----------------------------------------------------------------------------
\* The state machine's tables and values are the ones of Commands.

LEMMA Tables ==
    /\ SM!Steps = Steps /\ SM!Cleared = Cleared
    /\ \A s, a : SM!Updated(s, a) = Updated(s, a)
    /\ SM!None = None /\ SM!SwitchCommands = SwitchCommands
    /\ SM!Store = Store /\ SM!Operations = Operations
BY DEF SM!Steps, Steps, SM!Assign, Assign, SM!Keep, Keep, SM!None, None,
       SM!Cleared, Cleared, SM!Updated, Updated, SM!SwitchCommands,
       SwitchCommands, SM!ObsCommands, ObsCommands, SM!Operations, Operations,
       SM!Store, Store, SM!States, States, SM!ObsStates, ObsStates

LEMMA ClearedInStore == Cleared \in Store
BY DEF Cleared, Store, States, ObsStates, None

LEMMA InitInv == Init => IInv
<1> SUFFICES ASSUME Init PROVE IInv
    OBVIOUS
<1> USE FileAssumption, Tables, ClearedInStore DEF Init, SM!Init
<1>1. TypeOK
    BY DEF TypeOK, SM!Locations, SM!Outcomes, Harms
<1>2. CallInv /\ EarlyInv
    BY DEF CallInv, EarlyInv, Early
<1>3. LockInv
    BY DEF LockInv, InUpdate
<1>4. FileInv
    BY DEF FileInv, Writing
<1>5. BegunInv
    BY DEF BegunInv
<1>6. CopyInv
    BY DEF CopyInv
<1>7. OwnedInv
    BY DEF OwnedInv, Owned, Cleared, None, TransientObs
<1> QED BY <1>1, <1>2, <1>3, <1>4, <1>5, <1>6, <1>7 DEF IInv

-----------------------------------------------------------------------------
\* What the steps of the state machine that FileBackend takes over do to the
\* thread that takes them.

\* A decorator passes the call on or ends it, and touches nothing else.
LEMMA DecoratorStep ==
    ASSUME NEW t \in Threads,
           \/ SM!IgnoreIfInState(t) \/ SM!MustBeOn(t) \/ SM!CheckBusy(t)
           \/ SM!IsAllowed(t)
    PROVE  /\ pc[t] \in Early
           /\ UNCHANGED <<store, lock, signalled>>
           /\ \/ \E l \in Early : SM!Goto(t, l)
              \/ \E r \in SM!Outcomes : SM!Return(t, r)
BY DEF SM!IgnoreIfInState, SM!MustBeOn, SM!CheckBusy, SM!IsAllowed, Early,
       SM!Outcomes

\* The steps of FileBackend's threads, the decorators taken together.
Decorator(t) ==
    /\ pc[t] \in Early
    /\ UNCHANGED <<store, lock, signalled>>
    /\ \/ \E l \in Early : SM!Goto(t, l)
       \/ \E r \in SM!Outcomes : SM!Return(t, r)
       \/ file # "whole" /\ readLock = NoThread /\ SM!Return(t, "unreadable")
    /\ UNCHANGED <<fileVars, process, history>>

BeginBody(t) == ReadLockFree /\ file = "whole" /\ Quietly(SM!Atomic(t))

LEMMA ThreadSteps ==
    ASSUME NEW t \in Threads, ThreadStep(t)
    PROVE  \/ Decorator(t) \/ BeginBody(t) \/ Acquire(t) \/ Truncate(t)
           \/ FillUpdate(t) \/ FillReset(t) \/ FillRollback(t) \/ Announce(t)
<1>1. CASE CheckBusy(t)
    BY <1>1, DecoratorStep DEF CheckBusy, Quietly, Decorator
<1>2. CASE Read(t)
    BY <1>2, DecoratorStep DEF Read, Quietly, Decorator, BeginBody
<1>3. CASE ReadRaises(t)
    BY <1>3 DEF ReadRaises, Quietly, Decorator, Early, ReadLockFree
<1> QED BY <1>1, <1>2, <1>3 DEF ThreadStep

\* A thread's step leaves every other thread where it was.
LEMMA OthersKeep ==
    ASSUME TypeOK, NEW t \in Threads, ThreadStep(t) \/ SleepRaises(t),
           NEW u \in Threads, u # t
    PROVE  /\ pc'[u] = pc[u] /\ op'[u] = op[u] /\ step'[u] = step[u]
           /\ local'[u] = local[u] /\ result'[u] = result[u]
<1>1. CASE SleepRaises(t)
    BY <1>1 DEF SleepRaises, SM!SleepRaises, TypeOK
<1>2. CASE Decorator(t) \/ BeginBody(t) \/ Acquire(t) \/ Truncate(t)
    BY <1>2 DEF Decorator, SM!Goto, SM!Return, BeginBody, SM!Atomic, Acquire,
                SM!Acquire, Truncate, machineVars, Quietly, TypeOK
<1>3. CASE FillUpdate(t) \/ FillReset(t) \/ FillRollback(t) \/ Announce(t)
    BY <1>3 DEF FillUpdate, SM!Write, FillReset, FillRollback, SM!Rollback,
                Announce, SM!Signal, SM!Release, SM!Return, Quietly, TypeOK
<1> QED BY <1>1, <1>2, <1>3, ThreadSteps

-----------------------------------------------------------------------------
\* Type correctness, with a thread's place in its command.

LEMMA WriteInStore ==
    ASSUME TypeOK, CallInv, NEW t \in Threads, pc[t] = "locked"
    PROVE  /\ op[t] \in Operations /\ step[t] \in 1..Len(Steps[op[t]])
           /\ local[t] \in Store
           /\ SM!Updated(local[t], SM!Steps[op[t]][step[t]]) =
                Updated(local[t], Steps[op[t]][step[t]])
           /\ Updated(local[t], Steps[op[t]][step[t]]) \in Store
<1>1. op[t] \in Operations /\ step[t] \in 1..Len(Steps[op[t]])
    BY FileAssumption DEF CallInv
<1>2. local[t] \in Store
    BY DEF TypeOK
<1> QED BY <1>1, <1>2, Tables, UpdatedInStore

LEMMA NextUpdate ==
    ASSUME TypeOK, CallInv, NEW t \in Threads, pc[t] # "idle", ~SM!LastStep(t)
    PROVE  /\ op[t] \in Operations
           /\ step[t] + 1 \in 1..Len(Steps[op[t]]) /\ step[t] + 1 \in 0..3
           /\ step[t] + 1 > 1
<1>1. op[t] \in Operations /\ step[t] \in 1..Len(Steps[op[t]])
    BY FileAssumption DEF CallInv
<1>2. step[t] # Len(Steps[op[t]])
    BY Tables DEF SM!LastStep
<1>3. Len(Steps[op[t]]) \in 1..3
    BY <1>1, StepsLength
<1>4. \A n \in 1..3 : \A i \in 1..n : i + 1 > 1
    OBVIOUS
<1> QED BY <1>1, <1>2, <1>3, <1>4, StepBounds, Zenon

LEMMA TypeStep ==
    ASSUME TypeOK, CallInv, [Next]_vars PROVE TypeOK'
<1> USE FileAssumption, ClearedInStore, Tables DEF TypeOK
<1>1. CASE UNCHANGED vars
    BY <1>1 DEF vars, machineVars, fileVars, history
<1>2. ASSUME NEW t \in Threads, NEW c \in CommandSet, Call(t, c) PROVE TypeOK'
  <2>1. IF c = "reset_state" THEN TRUE ELSE SM!Entry(c) \in SM!Locations
      BY DEF SM!Entry, SM!Locations
  <2> QED BY <1>2, <2>1 DEF Call, fileVars, history, SM!Locations, SM!Outcomes
<1>3. CASE Start \/ Created
    BY <1>3 DEF Start, Created, machineVars, history
<1>4. CASE Crash
    BY <1>4 DEF Crash, Fault, Harms, SM!Locations, SM!Outcomes
<1>5. ASSUME NEW t \in Threads, ThreadStep(t) PROVE TypeOK'
  <2>1. CASE Decorator(t)
      BY <2>1 DEF Decorator, SM!Goto, SM!Return, Early, SM!Locations,
                  SM!Outcomes, fileVars, history
  <2>2. CASE BeginBody(t) \/ Acquire(t)
      BY <2>2 DEF BeginBody, SM!Atomic, Acquire, SM!Acquire, Quietly,
                  SM!Locations, fileVars, history
  <2>3. CASE Truncate(t)
      BY <2>3 DEF Truncate, machineVars, history
  <2>4. CASE FillUpdate(t)
      BY <2>4, WriteInStore DEF FillUpdate, Filled, SM!Write, history,
                                SM!Locations
  <2>5. CASE FillReset(t) \/ FillRollback(t)
    <3>1. /\ store' \in Store /\ harm' \subseteq Harms
          /\ UNCHANGED <<lock, signalled, process, faults>>
          /\ readLock' = NoThread /\ file' = "whole"
          /\ SM!Return(t, "ok") \/ SM!Return(t, "failed")
      <4>1. harm' = harm \cup {"silent"}
          BY <2>5 DEF FillReset, FillRollback
      <4>2. harm' \subseteq Harms
          BY <4>1 DEF Harms
      <4> QED BY <2>5, <4>2
              DEF FillReset, FillRollback, Filled, SM!Rollback
    <3>2. pc' \in [Threads -> SM!Locations] /\ step' \in [Threads -> 0..3]
        BY <3>1 DEF SM!Return, SM!Locations
    <3>3. /\ op' \in [Threads -> Operations \cup {"none"}]
          /\ result' \in [Threads -> SM!Outcomes \cup {"unreadable"}]
        BY <3>1 DEF SM!Return, SM!Outcomes
    <3>4. original' \in [Threads -> Store] /\ local' \in [Threads -> Store]
        BY <3>1 DEF SM!Return
    <3> QED BY <3>1, <3>2, <3>3, <3>4
  <2>6. CASE Announce(t)
    <3>1. CASE SM!Signal(t)
        BY <2>6, <3>1 DEF Announce, Quietly, SM!Signal, SM!Locations, fileVars,
                          history
    <3>2. CASE SM!Release(t) /\ SM!LastStep(t)
        BY <2>6, <3>2 DEF Announce, Quietly, SM!Release, SM!Return,
                          SM!Locations, SM!Outcomes, fileVars, history
    <3>3. CASE SM!Release(t) /\ ~SM!LastStep(t)
      <4>1. step' = [step EXCEPT ![t] = step[t] + 1]
          BY <3>3 DEF SM!Release
      <4>2. step' \in [Threads -> 0..3]
          BY <3>3, <4>1, NextUpdate DEF SM!Release
      <4> QED BY <2>6, <3>3, <4>2 DEF Announce, Quietly, SM!Release,
                          SM!Locations, fileVars, history
    <3> QED BY <2>6, <3>1, <3>2, <3>3 DEF Announce, Quietly
  <2> QED BY <1>5, <2>1, <2>2, <2>3, <2>4, <2>5, <2>6, ThreadSteps
<1>6. ASSUME NEW t \in Threads, SleepRaises(t) PROVE TypeOK'
    BY <1>6 DEF SleepRaises, SM!SleepRaises, Fault, Harms, SM!Locations,
                fileVars
<1> QED BY <1>1, <1>2, <1>3, <1>4, <1>5, <1>6 DEF Next, AnyCall

\* A thread that takes a step is in a call, and the process stays up.
LEMMA StepsOfCalls ==
    ASSUME CallInv, NEW t \in Threads, ThreadStep(t) \/ SleepRaises(t),
           readLock = t => pc[t] \in {"locked", "rollback"}
    PROVE  pc[t] # "idle" /\ process = "up" /\ process' = "up"
<1>1. pc[t] # "idle" /\ process' = process
  <2>1. CASE SleepRaises(t)
      BY <2>1 DEF SleepRaises, SM!SleepRaises
  <2>2. CASE Decorator(t) \/ BeginBody(t) \/ Acquire(t) \/ Truncate(t)
      BY <2>2 DEF Decorator, Early, BeginBody, SM!Atomic, Acquire, SM!Acquire,
                  Truncate, Quietly
  <2>3. CASE FillUpdate(t) \/ FillReset(t) \/ FillRollback(t) \/ Announce(t)
      BY <2>3 DEF FillUpdate, FillReset, FillRollback, Filled, SM!Write,
                  SM!Rollback, Announce, SM!Signal, SM!Release, Quietly
  <2> QED BY <2>1, <2>2, <2>3, ThreadSteps
<1> QED BY <1>1 DEF CallInv

LEMMA CallStep ==
    ASSUME TypeOK, CallInv, LockInv, FileInv, [Next]_vars PROVE CallInv'
<1> USE FileAssumption, Tables DEF TypeOK
<1>1. CASE UNCHANGED vars
    BY <1>1 DEF vars, machineVars, CallInv
<1>2. ASSUME NEW t \in Threads, NEW c \in CommandSet, Call(t, c) PROVE CallInv'
  <2> SUFFICES ASSUME NEW u \in Threads
               PROVE  /\ pc'[u] = "idle" => op'[u] = "none"
                      /\ pc'[u] # "idle" =>
                           /\ op'[u] \in CommandSet
                           /\ step'[u] \in 1..Len(Steps[op'[u]])
                      /\ op'[u] = "reset_state" => pc'[u] = "locked"
                      /\ process' # "up" => pc'[u] = "idle"
      BY DEF CallInv
  <2>1. CASE u = t
    <3>1. op'[t] = c /\ step'[t] = 1 /\ process' = "up"
        BY <1>2 DEF Call
    <3>2. IF c = "reset_state" THEN pc'[t] = "locked"
                               ELSE pc'[t] \in {"ignore", "must_be_on"}
        BY <1>2 DEF Call, SM!Entry
    <3>3. 1 \in 1..Len(Steps[c])
      <4>1. c \in Operations
          OBVIOUS
      <4> QED BY <4>1, StepsLength, StepBounds, Zenon
    <3> QED BY <2>1, <3>1, <3>2, <3>3
  <2>2. CASE u # t
    <3>1. pc'[u] = pc[u] /\ op'[u] = op[u] /\ step'[u] = step[u]
          /\ process' = process
        BY <1>2, <2>2 DEF Call
    <3> QED BY <3>1 DEF CallInv
  <2> QED BY <2>1, <2>2
<1>3. CASE Start \/ Created
    BY <1>3 DEF Start, Created, machineVars, CallInv
<1>4. CASE Crash
    BY <1>4 DEF Crash, CallInv
<1>5. ASSUME NEW t \in Threads, ThreadStep(t) \/ SleepRaises(t) PROVE CallInv'
  <2>1. process' = "up" /\ pc[t] # "idle"
      BY <1>5, StepsOfCalls DEF FileInv
  <2>2. /\ op[t] \in CommandSet /\ step[t] \in 1..Len(Steps[op[t]])
        /\ op[t] = "reset_state" => pc[t] = "locked"
      BY <2>1 DEF CallInv
  <2>3. \/ pc'[t] = "idle" /\ op'[t] = "none"
        \/ /\ pc'[t] # "idle" /\ op'[t] = op[t]
           /\ \/ step'[t] = step[t]
              \/ ~SM!LastStep(t) /\ step'[t] = step[t] + 1
           /\ op[t] = "reset_state" => pc'[t] = "locked"
    <3>1. CASE SleepRaises(t)
        BY <3>1 DEF SleepRaises, SM!SleepRaises
    <3>2. CASE Decorator(t)
        BY <2>2, <3>2 DEF Decorator, SM!Goto, SM!Return, Early
    <3>3. CASE BeginBody(t) \/ Acquire(t) \/ Truncate(t)
        BY <2>2, <3>3 DEF BeginBody, SM!Atomic, Acquire, SM!Acquire, Truncate,
                          machineVars, Quietly
    <3>4. CASE FillUpdate(t) \/ FillReset(t) \/ FillRollback(t)
        BY <2>2, <3>4 DEF FillUpdate, SM!Write, FillReset, FillRollback,
                          SM!Rollback, SM!Return
    <3>5. CASE Announce(t)
        BY <2>2, <3>5 DEF Announce, SM!Signal, SM!Release, SM!Return, Quietly
    <3> QED BY <1>5, <3>1, <3>2, <3>3, <3>4, <3>5, ThreadSteps
  <2>4. pc'[t] # "idle" => step'[t] \in 1..Len(Steps[op'[t]])
      BY <2>1, <2>2, <2>3, NextUpdate, Zenon
  <2> SUFFICES ASSUME NEW u \in Threads
               PROVE  /\ pc'[u] = "idle" => op'[u] = "none"
                      /\ pc'[u] # "idle" =>
                           /\ op'[u] \in CommandSet
                           /\ step'[u] \in 1..Len(Steps[op'[u]])
                      /\ op'[u] = "reset_state" => pc'[u] = "locked"
                      /\ process' # "up" => pc'[u] = "idle"
      BY DEF CallInv
  <2>5. CASE u = t
      BY <2>1, <2>2, <2>3, <2>4, <2>5
  <2>6. CASE u # t
      BY <1>5, <2>1, <2>6, OthersKeep DEF CallInv
  <2> QED BY <2>5, <2>6
<1> QED BY <1>1, <1>2, <1>3, <1>4, <1>5 DEF Next, AnyCall

\* Before its body a command is at its first update.
LEMMA EarlyStep ==
    ASSUME TypeOK, CallInv, EarlyInv, [Next]_vars PROVE EarlyInv'
<1> USE DEF TypeOK, EarlyInv
<1>1. CASE UNCHANGED vars
    BY <1>1 DEF vars, machineVars
<1>2. ASSUME NEW t \in Threads, NEW c \in CommandSet, Call(t, c)
      PROVE  EarlyInv'
    BY <1>2 DEF Call
<1>3. CASE Start \/ Created
    BY <1>3 DEF Start, Created, machineVars
<1>4. CASE Crash
    BY <1>4 DEF Crash, Early
<1>5. ASSUME NEW t \in Threads, ThreadStep(t) \/ SleepRaises(t)
      PROVE  EarlyInv'
  <2>1. pc'[t] \in Early => pc[t] \in Early /\ step'[t] = step[t]
    <3>1. CASE SleepRaises(t)
        BY <3>1 DEF SleepRaises, SM!SleepRaises, Early
    <3>2. CASE Decorator(t)
        BY <3>2 DEF Decorator, SM!Goto, SM!Return, Early
    <3>3. CASE BeginBody(t) \/ Acquire(t) \/ Truncate(t)
        BY <3>3 DEF BeginBody, SM!Atomic, Acquire, SM!Acquire, Truncate,
                    machineVars, Quietly, Early
    <3>4. CASE FillUpdate(t) \/ FillReset(t) \/ FillRollback(t) \/ Announce(t)
        BY <3>4 DEF FillUpdate, SM!Write, FillReset, FillRollback,
                    SM!Rollback, Announce, SM!Signal, SM!Release, SM!Return,
                    Quietly, Early
    <3> QED BY <1>5, <3>1, <3>2, <3>3, <3>4, ThreadSteps
  <2> QED BY <1>5, <2>1, OthersKeep
<1> QED BY <1>1, <1>2, <1>3, <1>4, <1>5 DEF Next, AnyCall

-----------------------------------------------------------------------------
\* The write lock.

LEMMA LockStep ==
    ASSUME TypeOK, CallInv, LockInv, FileInv, [Next]_vars PROVE LockInv'
<1> USE FileAssumption, Tables DEF TypeOK, InUpdate
<1>1. CASE UNCHANGED vars
    BY <1>1 DEF vars, machineVars, LockInv
<1>2. ASSUME NEW t \in Threads, NEW c \in CommandSet, Call(t, c) PROVE LockInv'
  <2>1. lock # t
      BY <1>2 DEF Call, LockInv
  <2>2. ~InUpdate(t)'
      BY <1>2 DEF Call, SM!Entry
  <2>3. /\ lock' = lock
        /\ \A u \in Threads : u # t => pc'[u] = pc[u] /\ op'[u] = op[u]
      BY <1>2 DEF Call
  <2> QED BY <2>1, <2>2, <2>3 DEF LockInv
<1>3. CASE Start \/ Created
    BY <1>3 DEF Start, Created, machineVars, LockInv
<1>4. CASE Crash
    BY <1>4 DEF Crash, LockInv
<1>5. ASSUME NEW t \in Threads, ThreadStep(t) \/ SleepRaises(t) PROVE LockInv'
  <2>1. \A u \in Threads : u # t => (InUpdate(u)' <=> lock = u)
      BY <1>5, OthersKeep DEF LockInv
  <2>2. op[t] = "reset_state" => pc[t] = "locked"
      BY DEF CallInv
  <2>3. InUpdate(t) <=> lock = t
      BY DEF LockInv
  <2>4. \/ lock' = lock /\ (InUpdate(t)' <=> InUpdate(t))
        \/ lock = NoThread /\ lock' = t /\ InUpdate(t)'
        \/ lock = t /\ lock' = NoThread /\ ~InUpdate(t)'
    <3>1. CASE SleepRaises(t)
        BY <2>3, <3>1 DEF SleepRaises, SM!SleepRaises
    <3>2. CASE Decorator(t)
        BY <2>2, <3>2 DEF Decorator, SM!Goto, SM!Return, Early
    <3>3. CASE BeginBody(t) \/ Acquire(t) \/ Truncate(t)
        BY <2>2, <3>3 DEF BeginBody, SM!Atomic, Acquire, SM!Acquire, Truncate,
                          machineVars, Quietly
    <3>4. CASE FillUpdate(t)
        BY <3>4 DEF FillUpdate, SM!Write
    <3>5. CASE FillReset(t) \/ FillRollback(t)
        BY <3>5 DEF FillReset, FillRollback, SM!Rollback, SM!Return
    <3>6. CASE Announce(t)
        BY <2>2, <2>3, <3>6
        DEF Announce, SM!Signal, SM!Release, SM!Return, Quietly
    <3> QED BY <1>5, <3>1, <3>2, <3>3, <3>4, <3>5, <3>6, ThreadSteps
  <2> QED BY <2>1, <2>3, <2>4 DEF LockInv
<1> QED BY <1>1, <1>2, <1>3, <1>4, <1>5 DEF Next, AnyCall

-----------------------------------------------------------------------------
\* The file and the lock around its writes.

\* What has gone wrong is not forgotten.
LEMMA HarmGrows == ASSUME [Next]_vars PROVE harm \subseteq harm'
<1>1. CASE UNCHANGED vars
    BY <1>1 DEF vars, history
<1>2. CASE AnyCall \/ Start \/ Created \/ Crash
    BY <1>2 DEF AnyCall, Call, Start, Created, Crash, history
<1>3. ASSUME NEW t \in Threads, ThreadStep(t) PROVE harm \subseteq harm'
  <2>1. CASE Decorator(t) \/ BeginBody(t) \/ Acquire(t) \/ Truncate(t)
      BY <2>1 DEF Decorator, BeginBody, Acquire, Truncate, Quietly, history
  <2>2. CASE FillUpdate(t) \/ FillReset(t) \/ FillRollback(t) \/ Announce(t)
      BY <2>2 DEF FillUpdate, FillReset, FillRollback, Announce, Quietly,
                  history
  <2> QED BY <1>3, <2>1, <2>2, ThreadSteps
<1>4. ASSUME NEW t \in Threads, SleepRaises(t) PROVE harm \subseteq harm'
    BY <1>4 DEF SleepRaises
<1> QED BY <1>1, <1>2, <1>3, <1>4 DEF Next

LEMMA FileStep ==
    ASSUME TypeOK, CallInv, FileInv, [Next]_vars PROVE FileInv'
<1> USE FileAssumption DEF TypeOK
<1>0. harm \subseteq harm'
    BY HarmGrows
<1>1. CASE UNCHANGED vars
    BY <1>1 DEF vars, machineVars, fileVars, history, FileInv, Writing
<1>2. ASSUME NEW t \in Threads, NEW c \in CommandSet, Call(t, c) PROVE FileInv'
    BY <1>2 DEF Call, fileVars, history, FileInv, Writing
<1>3. CASE Start \/ Created
  <2>1. readLock = NoThread
      BY <1>3 DEF Start, Created, FileInv, CallInv
  <2> QED BY <1>3, <2>1 DEF Start, Created, machineVars, history, FileInv,
                            Writing
<1>4. CASE Crash
  <2>1. /\ readLock' = NoThread /\ process' = "down" /\ file' = file
        /\ \A t \in Threads : result'[t] = "none"
        /\ Writing => "cut" \in harm'
      BY <1>4 DEF Crash, Writing
  <2> QED BY <1>0, <2>1 DEF FileInv
<1>5. ASSUME NEW t \in Threads, ThreadStep(t) \/ SleepRaises(t) PROVE FileInv'
  <2>1. process = "up" /\ process' = "up"
      BY <1>5, StepsOfCalls DEF FileInv
  <2>2. \A u \in Threads : u # t => pc'[u] = pc[u] /\ result'[u] = result[u]
      BY <1>5, OthersKeep
  <2>3. /\ \/ readLock' = readLock /\ file' = file /\ readLock # t
           \/ /\ pc'[t] \in {"locked", "rollback"}
              /\ readLock' = t /\ file' = "empty"
           \/ readLock' = NoThread /\ file' = "whole"
        /\ \/ result'[t] = result[t]
           \/ result'[t] # "unreadable"
           \/ file' = file /\ file # "whole" /\ readLock = NoThread
    <3>1. CASE SleepRaises(t)
        BY <3>1 DEF SleepRaises, SM!SleepRaises, fileVars
    <3>2. CASE Decorator(t)
      <4>1. readLock' = readLock /\ file' = file
          BY <3>2 DEF Decorator, fileVars
      <4>2. readLock # t
          BY <3>2 DEF Decorator, FileInv, Early
      <4>3. CASE \E l \in Early : SM!Goto(t, l)
          BY <4>1, <4>2, <4>3 DEF SM!Goto
      <4>4. ASSUME NEW r \in SM!Outcomes, SM!Return(t, r)
            PROVE  result'[t] # "unreadable"
          BY <4>4 DEF SM!Return, SM!Outcomes
      <4>5. CASE file # "whole" /\ readLock = NoThread
          BY <4>1, <4>2, <4>5
      <4> QED BY <3>2, <4>1, <4>2, <4>3, <4>4, <4>5 DEF Decorator
    <3>3. CASE BeginBody(t) \/ Acquire(t)
        BY <3>3 DEF BeginBody, SM!Atomic, Acquire, SM!Acquire, Quietly,
                    fileVars, FileInv
    <3>4. CASE Truncate(t)
        BY <3>4 DEF Truncate, machineVars
    <3>5. CASE FillUpdate(t) \/ FillReset(t) \/ FillRollback(t)
        BY <3>5 DEF FillUpdate, SM!Write, FillReset, FillRollback, Filled,
                    SM!Rollback, SM!Return
    <3>6. CASE Announce(t)
        BY <3>6 DEF Announce, SM!Signal, SM!Release, SM!Return, Quietly,
                    fileVars, FileInv
    <3> QED BY <1>5, <3>1, <3>2, <3>3, <3>4, <3>5, <3>6, ThreadSteps
  <2>4. file' # "absent"
      BY <2>1, <2>3 DEF FileInv
  <2>5. readLock' # NoThread => /\ pc'[readLock'] \in {"locked", "rollback"}
                                /\ file' = "empty"
      BY <2>2, <2>3 DEF FileInv
  <2>6. file' = "empty" /\ readLock' = NoThread => "cut" \in harm'
      BY <1>0, <2>1, <2>3 DEF FileInv, Writing
  <2>7. ASSUME NEW u \in Threads, result'[u] = "unreadable"
        PROVE  "cut" \in harm'
    <3>1. CASE result'[u] = result[u]
        BY <1>0, <2>7, <3>1 DEF FileInv
    <3>2. CASE result'[u] # result[u]
      <4>1. file # "whole" /\ readLock = NoThread
          BY <2>2, <2>3, <2>7, <3>2
      <4>2. file = "empty" /\ ~Writing
          BY <2>1, <4>1 DEF FileInv, Writing
      <4> QED BY <1>0, <4>2 DEF FileInv
    <3> QED BY <3>1, <3>2
  <2> QED BY <2>1, <2>4, <2>5, <2>6, <2>7 DEF FileInv, Writing
<1> QED BY <1>1, <1>2, <1>3, <1>4, <1>5 DEF Next, AnyCall

LEMMA BegunStep ==
    ASSUME TypeOK, CallInv, FileInv, BegunInv, [Next]_vars PROVE BegunInv'
<1> DEFINE InBody(t) ==
        \/ pc[t] \in {"acquire", "written", "signalled", "rollback"}
        \/ pc[t] = "locked" /\ op[t] # "reset_state"
<1> USE FileAssumption DEF TypeOK
<1>0. (\A t \in Threads : InBody(t) /\ readLock = NoThread => file = "whole")
        <=> BegunInv
    BY DEF BegunInv
<1>1. CASE UNCHANGED vars
    BY <1>1 DEF vars, machineVars, fileVars, BegunInv
<1>2. ASSUME NEW t \in Threads, NEW c \in CommandSet, Call(t, c)
      PROVE  BegunInv'
    BY <1>2 DEF Call, SM!Entry, fileVars, BegunInv
<1>3. CASE Start \/ Created \/ Crash
  <2>1. \A t \in Threads : pc'[t] = "idle"
      BY <1>3 DEF Start, Created, Crash, machineVars, CallInv
  <2> QED BY <2>1 DEF BegunInv
<1>4. ASSUME NEW t \in Threads, ThreadStep(t) \/ SleepRaises(t)
      PROVE  BegunInv'
  <2>1. \A u \in Threads : u # t => pc'[u] = pc[u] /\ op'[u] = op[u]
      BY <1>4, OthersKeep
  <2>2. \/ readLock' # NoThread
        \/ readLock' = NoThread /\ file' = "whole"
        \/ /\ readLock' = readLock /\ file' = file
           /\ InBody(t)' => InBody(t)
    <3>1. CASE SleepRaises(t)
        BY <3>1 DEF SleepRaises, SM!SleepRaises, fileVars
    <3>2. CASE Decorator(t)
        BY <3>2 DEF Decorator, SM!Goto, SM!Return, Early, fileVars
    <3>3. CASE BeginBody(t) \/ Acquire(t)
        BY <3>3 DEF BeginBody, ReadLockFree, Acquire, SM!Acquire, Quietly,
                    fileVars
    <3>4. CASE Truncate(t)
        BY <3>4 DEF Truncate
    <3>5. CASE FillUpdate(t) \/ FillReset(t) \/ FillRollback(t)
        BY <3>5 DEF FillUpdate, FillReset, FillRollback, Filled
    <3>6. CASE Announce(t)
        BY <3>6 DEF Announce, SM!Signal, SM!Release, SM!Return, Quietly,
                    fileVars
    <3> QED BY <1>4, <3>1, <3>2, <3>3, <3>4, <3>5, <3>6, ThreadSteps
  <2>3. \A u \in Threads :
          InBody(u)' /\ readLock' = NoThread => file' = "whole"
      BY <2>1, <2>2 DEF BegunInv
  <2> QED BY <2>3 DEF BegunInv
<1> QED BY <1>1, <1>2, <1>3, <1>4 DEF Next, AnyCall

-----------------------------------------------------------------------------
\* Copies and signals.

LEMMA CopyStep ==
    ASSUME TypeOK, CallInv, LockInv, FileInv, CopyInv, [Next]_vars
    PROVE  CopyInv'
<1> USE FileAssumption, Tables DEF TypeOK
<1>0. SUFFICES ASSUME "silent" \notin harm' PROVE CopyInv'
    BY DEF CopyInv
<1>a. /\ "silent" \notin harm
      /\ \A t \in Threads :
           pc[t] \in {"locked", "written"} /\ op[t] # "reset_state" =>
               local[t] = store
      /\ signalled = store \/ \E t \in Threads : pc[t] = "written"
    BY <1>0, HarmGrows DEF CopyInv
<1>1. CASE UNCHANGED vars
    BY <1>a, <1>1 DEF vars, machineVars, CopyInv
<1>2. ASSUME NEW t \in Threads, NEW c \in CommandSet, Call(t, c) PROVE CopyInv'
    BY <1>a, <1>2 DEF Call, SM!Entry, CopyInv
<1>3. CASE Start \/ Created
    BY <1>a, <1>3 DEF Start, Created, machineVars, CopyInv
<1>4. CASE Crash
  <2>1. \A t \in Threads : pc[t] # "written"
      BY <1>0, <1>4 DEF Crash
  <2> QED BY <1>a, <1>4, <2>1 DEF Crash, CopyInv
<1>5. ASSUME NEW t \in Threads, ThreadStep(t) \/ SleepRaises(t) PROVE CopyInv'
  <2>1. \A u \in Threads : u # t =>
          pc'[u] = pc[u] /\ op'[u] = op[u] /\ local'[u] = local[u]
      BY <1>5, OthersKeep
  <2>2. ASSUME store' = store, signalled' = signalled,
               pc[t] # "written",
               pc'[t] \in {"locked", "written"} /\ op'[t] # "reset_state" =>
                   local'[t] = store
        PROVE  CopyInv'
      BY <1>a, <2>1, <2>2 DEF CopyInv
  <2>3. \A u \in Threads : InUpdate(t) /\ InUpdate(u) => u = t
      BY DEF LockInv
  <2>4. CASE SleepRaises(t)
      BY <2>2, <2>4 DEF SleepRaises, SM!SleepRaises
  <2>5. CASE Decorator(t)
      BY <2>2, <2>5 DEF Decorator, SM!Goto, SM!Return, Early
  <2>6. CASE BeginBody(t) \/ Acquire(t)
      BY <2>2, <2>6 DEF BeginBody, SM!Atomic, Acquire, SM!Acquire, Quietly
  <2>7. CASE Truncate(t)
    <3>1. pc[t] \in {"locked", "rollback"}
        BY <2>7 DEF Truncate
    <3> QED BY <1>a, <2>2, <2>7, <3>1 DEF Truncate, machineVars
  <2>8. CASE FillUpdate(t)
    <3>1. /\ pc'[t] = "written" /\ local'[t] = store'
          /\ signalled' = signalled
          /\ InUpdate(t)
        BY <2>8 DEF FillUpdate, SM!Write, InUpdate
    <3>2. \A u \in Threads : u # t /\ pc'[u] \in {"locked", "written"} =>
              op'[u] = "reset_state"
        BY <2>1, <2>3, <3>1 DEF InUpdate
    <3> QED BY <2>1, <3>1, <3>2 DEF CopyInv
  <2>9. ~FillReset(t) /\ ~FillRollback(t)
      BY <1>0 DEF FillReset, FillRollback
  <2>10. CASE Announce(t) /\ SM!Signal(t)
    <3>1. /\ pc[t] = "written" /\ pc'[t] = "signalled"
          /\ signalled' = local[t] /\ store' = store
        BY <2>10 DEF SM!Signal
    <3>2. op[t] # "reset_state"
        BY <3>1 DEF CallInv
    <3>3. local[t] = store
        BY <1>a, <3>1, <3>2
    <3> QED BY <1>a, <2>1, <3>1, <3>3 DEF CopyInv
  <2>11. CASE Announce(t) /\ SM!Release(t)
    <3>1. /\ pc[t] = "signalled" /\ pc'[t] \in {"idle", "acquire"}
          /\ signalled' = signalled /\ store' = store
        BY <2>11 DEF SM!Release, SM!Return
    <3> QED BY <2>2, <3>1
  <2> QED BY <1>5, <2>4, <2>5, <2>6, <2>7, <2>8, <2>9, <2>10, <2>11,
             ThreadSteps DEF Announce, Quietly
<1> QED BY <1>1, <1>2, <1>3, <1>4, <1>5 DEF Next, AnyCall

-----------------------------------------------------------------------------
\* Transient values and who will end them.

\* A command that is midway stays so unless its thread writes.
LEMMA MidwayStays ==
    ASSUME TypeOK, CallInv, NEW t \in Threads, NEW u \in Threads,
           ThreadStep(t), ~FillUpdate(t), pc[t] # "rollback", SM!Midway(u)
    PROVE  SM!Midway(u)' /\ op'[u] = op[u]
<1> USE DEF SM!Midway, SM!Begun, SM!LastStep
<1>1. CASE u # t
    BY <1>1, OthersKeep
<1>2. CASE u = t
  <2>1. pc[t] \in {"acquire", "locked", "written", "signalled"}
      BY <1>2
  <2>2. op[t] # "reset_state"
    <3>1. op[t] = "reset_state" => pc[t] = "locked" /\ step[t] = 1
      <4>1. Len(Steps["reset_state"]) = 1
          BY DEF Steps
      <4>2. pc[t] # "idle" => step[t] \in 1..Len(Steps[op[t]])
          BY DEF CallInv
      <4> QED BY <2>1, <4>1, <4>2 DEF CallInv
    <3> QED BY <1>2, <3>1
  <2>3. ~Decorator(t) /\ ~BeginBody(t)
      BY <2>1 DEF Decorator, Early, BeginBody, SM!Atomic, Quietly
  <2>4. ~FillReset(t) /\ ~FillRollback(t)
      BY <2>2 DEF FillReset, FillRollback, SM!Rollback
  <2>5. CASE Acquire(t) \/ Truncate(t)
      BY <1>2, <2>5 DEF Acquire, SM!Acquire, Truncate, machineVars, Quietly,
                        TypeOK
  <2>6. CASE SM!Signal(t)
      BY <1>2, <2>6 DEF SM!Signal, TypeOK
  <2>7. CASE SM!Release(t)
    <3>1. ~SM!LastStep(t)
        BY <1>2, <2>7 DEF SM!Release
    <3>2. step[t] + 1 > 1
        BY <2>1, <3>1, NextUpdate
    <3>3. pc'[t] = "acquire" /\ step'[t] = step[t] + 1 /\ op'[t] = op[t]
        BY <2>7, <3>1 DEF SM!Release, TypeOK
    <3> QED BY <1>2, <3>2, <3>3
  <2> QED BY <2>3, <2>4, <2>5, <2>6, <2>7, ThreadSteps DEF Announce, Quietly
<1> QED BY <1>1, <1>2

LEMMA OwnedStep ==
    ASSUME TypeOK, CallInv, LockInv, FileInv, OwnedInv, [Next]_vars
    PROVE  OwnedInv'
<1> USE FileAssumption, Tables DEF TypeOK
<1>0. ASSUME NEW t \in Threads, pc'[t] = "rollback" PROVE "midway" \in harm'
  <2>1. CASE pc[t] = "rollback"
      BY <2>1, HarmGrows DEF OwnedInv
  <2>2. CASE pc[t] # "rollback"
    <3>1. ~UNCHANGED vars /\ ~Start /\ ~Created /\ ~Crash
        BY <1>0, <2>2 DEF vars, machineVars, Start, Created, Crash
    <3>2. ASSUME NEW u \in Threads, NEW c \in CommandSet PROVE ~Call(u, c)
        BY <1>0, <2>2 DEF Call, SM!Entry
    <3>3. ASSUME NEW u \in Threads, ThreadStep(u) PROVE FALSE
      <4>1. u = t
          BY <1>0, <2>2, <3>3, OthersKeep
      <4>2. ~Decorator(t)
          BY <1>0 DEF Decorator, Early, SM!Goto, SM!Return
      <4>3. ~BeginBody(t) /\ ~Acquire(t) /\ ~Truncate(t)
          BY <1>0, <2>2 DEF BeginBody, SM!Atomic, Acquire, SM!Acquire, Quietly,
                            Truncate, machineVars
      <4>4. ~FillUpdate(t) /\ ~FillReset(t) /\ ~FillRollback(t) /\ ~Announce(t)
          BY <1>0 DEF FillUpdate, SM!Write, FillReset, FillRollback,
                      SM!Rollback, Announce, SM!Signal, SM!Release, SM!Return,
                      Quietly
      <4> QED BY <3>3, <4>1, <4>2, <4>3, <4>4, ThreadSteps
    <3>4. PICK u \in Threads : SleepRaises(u)
        BY <3>1, <3>2, <3>3 DEF Next, AnyCall
    <3> QED BY <3>4 DEF SleepRaises
  <2> QED BY <2>1, <2>2
<1>a. SUFFICES ASSUME "midway" \notin harm'
               PROVE  /\ Owned(store)'
                      /\ \A t \in Threads :
                            pc'[t] = "locked" /\ op'[t] # "reset_state" =>
                                Owned(local[t])'
    BY <1>0 DEF OwnedInv
<1>b. /\ \A t \in Threads : pc[t] # "rollback"
      /\ Owned(store)
      /\ \A t \in Threads :
            pc[t] = "locked" /\ op[t] # "reset_state" => Owned(local[t])
    BY <1>a, HarmGrows DEF OwnedInv
<1>c. ASSUME \A u \in Threads : SM!Midway(u) => SM!Midway(u)' /\ op'[u] = op[u]
      PROVE  /\ store' = store => Owned(store)'
             /\ \A t \in Threads : local'[t] = local[t] /\ Owned(local[t])
                                      => Owned(local[t])'
    BY <1>b, <1>c DEF Owned
<1>1. CASE UNCHANGED vars
    BY <1>b, <1>1 DEF vars, machineVars, Owned, SM!Midway, SM!Begun, SM!LastStep
<1>2. ASSUME NEW t \in Threads, NEW c \in CommandSet, Call(t, c)
      PROVE  /\ Owned(store)'
             /\ \A u \in Threads :
                   pc'[u] = "locked" /\ op'[u] # "reset_state" =>
                       Owned(local[u])'
  <2>1. ~SM!Midway(t)
      BY <1>2 DEF Call, SM!Midway, SM!Begun
  <2>2. \A u \in Threads : u # t =>
          pc'[u] = pc[u] /\ op'[u] = op[u] /\ step'[u] = step[u]
      BY <1>2 DEF Call
  <2>3. \A u \in Threads : SM!Midway(u) => SM!Midway(u)' /\ op'[u] = op[u]
      BY <2>1, <2>2 DEF SM!Midway, SM!Begun, SM!LastStep
  <2>4. store' = store /\ local' = local
      BY <1>2 DEF Call
  <2>5. pc'[t] = "locked" => op'[t] = "reset_state"
      BY <1>2 DEF Call, SM!Entry
  <2> QED BY <1>b, <1>c, <2>2, <2>3, <2>4, <2>5
<1>3. CASE Start \/ Created
    BY <1>b, <1>3 DEF Start, Created, machineVars, Owned, SM!Midway, SM!Begun,
                      SM!LastStep
<1>4. CASE Crash
  <2>1. \A t \in Threads : ~SM!Midway(t)
      BY <1>a, <1>4 DEF Crash
  <2> QED BY <1>b, <1>4, <2>1 DEF Crash, Owned
<1>5. ASSUME NEW t \in Threads, ThreadStep(t)
      PROVE  /\ Owned(store)'
             /\ \A u \in Threads :
                   pc'[u] = "locked" /\ op'[u] # "reset_state" =>
                       Owned(local[u])'
  <2>1. \A u \in Threads : u # t =>
          /\ pc'[u] = pc[u] /\ op'[u] = op[u] /\ step'[u] = step[u]
          /\ local'[u] = local[u]
      BY <1>5, OthersKeep
  <2>2. CASE ~FillUpdate(t)
    <3>1. \A u \in Threads : SM!Midway(u) => SM!Midway(u)' /\ op'[u] = op[u]
        BY <1>5, <1>b, <2>2, MidwayStays
    <3>2. \/ store' = store
          \/ store' = Cleared
      <4>1. CASE Decorator(t) \/ BeginBody(t) \/ Acquire(t) \/ Truncate(t)
          BY <4>1 DEF Decorator, BeginBody, SM!Atomic, Acquire, SM!Acquire,
                      Truncate, machineVars, Quietly
      <4>2. CASE FillReset(t) \/ Announce(t)
          BY <4>2 DEF FillReset, Announce, SM!Signal, SM!Release, Quietly
      <4>3. ~FillRollback(t)
          BY <1>b DEF FillRollback, SM!Rollback
      <4> QED BY <1>5, <2>2, <4>1, <4>2, <4>3, ThreadSteps
    <3>3. Owned(store)'
      <4>1. CASE store' = store
          BY <1>c, <3>1, <4>1
      <4>2. CASE store' = Cleared
          BY <4>2 DEF Owned, Cleared, None, TransientObs
      <4> QED BY <3>2, <4>1, <4>2
    <3>4. pc'[t] = "locked" =>
            \/ local'[t] = local[t] /\ pc[t] = "locked" /\ op'[t] = op[t]
            \/ local'[t] = store /\ store' = store
      <4>1. CASE Decorator(t)
          BY <4>1 DEF Decorator, SM!Goto, SM!Return, Early
      <4>2. CASE BeginBody(t) \/ Acquire(t) \/ Truncate(t)
          BY <4>2 DEF BeginBody, SM!Atomic, Acquire, SM!Acquire, Truncate,
                      machineVars, Quietly
      <4>3. CASE FillReset(t) \/ FillRollback(t) \/ Announce(t)
          BY <4>3 DEF FillReset, FillRollback, SM!Rollback, SM!Return, Announce,
                      SM!Signal, SM!Release, Quietly
      <4> QED BY <1>5, <2>2, <4>1, <4>2, <4>3, ThreadSteps
    <3>5. ASSUME pc'[t] = "locked", op'[t] # "reset_state"
          PROVE  Owned(local[t])'
      <4>1. CASE local'[t] = local[t] /\ pc[t] = "locked" /\ op'[t] = op[t]
          BY <1>b, <1>c, <3>1, <3>5, <4>1
      <4>2. CASE local'[t] = store /\ store' = store
          BY <3>3, <4>2 DEF Owned
      <4> QED BY <3>4, <3>5, <4>1, <4>2
    <3> QED BY <1>b, <1>c, <2>1, <3>1, <3>3, <3>5
  <2>3. CASE FillUpdate(t)
    <3> DEFINE c == op[t]
               i == step[t]
               s == local[t]
    <3>1. /\ pc[t] = "locked" /\ c # "reset_state"
          /\ store' = Updated(s, Steps[c][i])
          /\ pc'[t] = "written" /\ op'[t] = c /\ step'[t] = i
        BY <2>3, WriteInStore DEF FillUpdate, SM!Write
    <3>2. c \in Operations /\ i \in 1..Len(Steps[c]) /\ s \in Store
        BY <3>1, WriteInStore
    <3>3. Owned(s)
        BY <1>b, <3>1
    <3>4. i # Len(Steps[c]) => SM!Midway(t)' /\ op'[t] = c
        BY <3>1 DEF SM!Midway, SM!Begun, SM!LastStep
    <3>5. \A u \in Threads : u # t /\ SM!Midway(u) =>
              SM!Midway(u)' /\ op'[u] = op[u]
        BY <2>1 DEF SM!Midway, SM!Begun, SM!LastStep
    <3>6. /\ store'.state = "BUSY" =>
                \/ c \in SwitchCommands /\ i # Len(Steps[c])
                \/ c \in ObsCommands /\ s.state = "BUSY"
          /\ store'.obs_state \in TransientObs =>
                \/ c \in ObsCommands /\ i # Len(Steps[c])
                \/ /\ c \in SwitchCommands /\ i # Len(Steps[c])
                   /\ s.obs_state \in TransientObs
        BY <3>1, <3>2, TransientsWritten
    <3>7. SwitchCommands \cap ObsCommands = {}
        BY DEF SwitchCommands, ObsCommands
    <3>8. Owned(store)'
        BY <3>3, <3>4, <3>5, <3>6, <3>7 DEF Owned
    <3>9. \A u \in Threads : pc'[u] = "locked" => op'[u] = "reset_state"
      <4>1. lock = t
          BY <3>1 DEF LockInv, InUpdate
      <4> QED BY <2>1, <3>1, <4>1 DEF LockInv, InUpdate
    <3> QED BY <3>8, <3>9
  <2> QED BY <2>2, <2>3
<1>6. ASSUME NEW t \in Threads, SleepRaises(t) PROVE FALSE
    BY <1>a, <1>6 DEF SleepRaises
<1> QED BY <1>1, <1>2, <1>3, <1>4, <1>5, <1>6 DEF Next, AnyCall

-----------------------------------------------------------------------------
\* What the runs check, for every instance.

\* The inductive invariant holds, whatever commands race and wherever the
\* process is killed.
THEOREM Invariance == Spec => []IInv
<1>1. IInv /\ [Next]_vars => IInv'
    BY TypeStep, CallStep, EarlyStep, LockStep, FileStep, BegunStep, CopyStep, OwnedStep
    DEF IInv
<1> QED BY <1>1, InitInv, PTL DEF Spec

\* Every reachable state is well typed.
THEOREM TypeCorrect == Spec => []TypeOK
<1>1. IInv => TypeOK
    BY DEF IInv
<1> QED BY <1>1, Invariance, PTL

\* Unless the process is killed between a truncate and its fill, the file can
\* be read whenever nobody writes it, and no command has failed to read it.
THEOREM FileStaysReadable == Spec => []ReadableUnlessCut
<1>1. IInv => ReadableUnlessCut
    BY DEF IInv, FileInv, TypeOK, ReadableUnlessCut, Writing
<1> QED BY <1>1, Invariance, PTL

\* A command that atomic() let begin can read the file in each of its updates,
\* whatever was cut short before.
THEOREM UpdatesCanRead == Spec => []BegunCanRead
<1>1. IInv => BegunCanRead
    BY DEF IInv, BegunInv, BegunCanRead, Writing
<1> QED BY <1>1, Invariance, PTL

\* Updates exclude each other, and a transient state has a command that will
\* end it, resets included, until a command is rolled back or killed midway.
THEOREM TransientsSurvive == Spec => []IntactUnlessMidway
<1>1. IInv => IntactUnlessMidway
  <2> SUFFICES ASSUME IInv, "midway" \notin harm
               PROVE  SM!TransientHasOwner /\ \A t, u \in Updating : t = u
      BY DEF IntactUnlessMidway
  <2>1. SM!TransientHasOwner
      BY Tables DEF IInv, OwnedInv, Owned, TransientObs, SM!TransientHasOwner,
                    SM!ObsCommands, ObsCommands
  <2>2. \A t \in Updating : lock = t
      BY DEF Updating, IInv, LockInv, InUpdate
  <2> QED BY <2>1, <2>2
<1> QED BY <1>1, Invariance, PTL

\* No update is lost, and whoever finds the write lock free finds every write
\* announced, until a reset or a rollback writes without the lock or a write is
\* not announced (update_state, reset_state and atomic of file_backend).
THEOREM NoUpdateLost == Spec => []CoherentUnlessSilent
<1>1. IInv => CoherentUnlessSilent
  <2> SUFFICES ASSUME IInv, "silent" \notin harm
               PROVE  /\ \A t \in Threads :
                            pc[t] = "locked" /\ op[t] # "reset_state" =>
                                local[t] = store
                      /\ lock = NoThread => signalled = store
      BY DEF CoherentUnlessSilent
  <2>1. ASSUME NEW t \in Threads, pc[t] = "written" PROVE lock # NoThread
    <3>1. InUpdate(t)
        BY <2>1 DEF InUpdate, IInv, CallInv
    <3> QED BY <3>1, FileAssumption DEF IInv, LockInv
  <2> QED BY <2>1 DEF IInv, CopyInv
<1> QED BY <1>1, Invariance, PTL

-----------------------------------------------------------------------------
\* Refinement of AtomicCommands.

LEMMA AbsTables ==
    /\ Abs!Steps = Steps /\ Abs!Cleared = Cleared
    /\ \A s, a : Abs!Updated(s, a) = Updated(s, a)
BY DEF Abs!Steps, Steps, Abs!Assign, Assign, Abs!Keep, Keep, Abs!None, None,
       Abs!Cleared, Cleared, Abs!Updated, Updated

\* Where a command has updates before it.
Updates == {"acquire", "locked", "written", "signalled"}

\* What the mapped variable todo holds at each place in a call.
LEMMA RemainingAt ==
    ASSUME NEW t \in Threads
    PROVE  /\ pc[t] \in {"acquire", "locked"} =>
                SM!Remaining(t) = From(op[t], step[t])
           /\ pc[t] \in {"written", "signalled"} =>
                SM!Remaining(t) = From(op[t], step[t] + 1)
           /\ pc[t] \notin Updates => SM!Remaining(t) = << >>
BY Tables DEF SM!Remaining, From, Updates

LEMMA RemainingAtNext ==
    ASSUME NEW t \in Threads
    PROVE  /\ pc'[t] \in {"acquire", "locked"} =>
                SM!Remaining(t)' = From(op'[t], step'[t])
           /\ pc'[t] \in {"written", "signalled"} =>
                SM!Remaining(t)' = From(op'[t], step'[t] + 1)
           /\ pc'[t] \notin Updates => SM!Remaining(t)' = << >>
BY Tables DEF SM!Remaining, From, Updates

AbsStep == [Abs!Next \/ Abs!Forgo]_(Abs!absVars)

\* A step that moves the rest of thread t's command by one abstract action, and
\* nobody else's, is that action.
LEMMA AbstractStart ==
    ASSUME NEW t \in Threads, NEW c \in CommandSet,
           SM!Remaining(t) = << >>, SM!Remaining(t)' = Steps[c], store' = store,
           \A u \in Threads : u # t => SM!Remaining(u)' = SM!Remaining(u)
    PROVE  AbsStep
<1>1. Abs!Start(t, c)
    BY AbsTables DEF Abs!Start
<1> QED BY <1>1 DEF Abs!Next, AbsStep

LEMMA AbstractUpdate ==
    ASSUME NEW t \in Threads,
           SM!Remaining(t) # << >>, SM!Remaining(t)' = Tail(SM!Remaining(t)),
           store' = Updated(store, Head(SM!Remaining(t))),
           \A u \in Threads : u # t => SM!Remaining(u)' = SM!Remaining(u)
    PROVE  AbsStep
<1>1. Abs!Update(t)
    BY AbsTables DEF Abs!Update
<1> QED BY <1>1 DEF Abs!Next, AbsStep

LEMMA AbstractForgo ==
    ASSUME store' = store,
           \A t \in Threads :
              /\ SM!Remaining(t)' = << >>
              /\ SM!Remaining(t) = << >>
                    \/ \E c \in CommandSet : SM!Remaining(t) = Steps[c]
    PROVE  AbsStep
<1>1. Abs!Forgo
    BY AbsTables DEF Abs!Forgo
<1> QED BY <1>1 DEF AbsStep

LEMMA AbstractStutter ==
    ASSUME store' = store,
           \A u \in Threads : SM!Remaining(u)' = SM!Remaining(u)
    PROVE  AbsStep
BY DEF Abs!absVars, AbsStep

LEMMA InCommand ==
    ASSUME CallInv, NEW t \in Threads, pc[t] # "idle"
    PROVE  /\ op[t] \in CommandSet /\ op[t] \in Operations
           /\ step[t] \in 1..Len(Steps[op[t]]) /\ Len(Steps[op[t]]) \in 1..3
BY FileAssumption, StepsLength DEF CallInv

Unharmed == harm = {}

\* A thread's step is an abstract start or update, or none.
LEMMA ThreadAbstract ==
    ASSUME TypeOK, CallInv, EarlyInv, LockInv, FileInv, CopyInv, Unharmed,
           Unharmed', NEW t \in Threads, ThreadStep(t)
    PROVE  AbsStep
<1> DEFINE c == op[t]
           i == step[t]
<1> USE DEF TypeOK
<1>1. \A u \in Threads : u # t => SM!Remaining(u)' = SM!Remaining(u)
    BY OthersKeep DEF SM!Remaining
<1>2. /\ c \in CommandSet /\ c \in Operations /\ i \in 1..Len(Steps[c])
      /\ Len(Steps[c]) \in 1..3
  <2>1. readLock = t => pc[t] \in {"locked", "rollback"}
      BY FileAssumption DEF FileInv, LockInv
  <2>2. pc[t] # "idle"
      BY <2>1, StepsOfCalls
  <2> QED BY <2>2, InCommand
<1>3. CASE Decorator(t)
  <2>1. store' = store /\ pc[t] \notin Updates /\ pc'[t] \notin Updates
      BY <1>3 DEF Decorator, SM!Goto, SM!Return, Early, Updates
  <2> QED BY <1>1, <2>1, RemainingAt, RemainingAtNext, AbstractStutter
<1>4. CASE BeginBody(t)
  <2>1. /\ store' = store /\ pc[t] = "atomic"
        /\ pc'[t] = "acquire" /\ op'[t] = c /\ step'[t] = i
      BY <1>4 DEF BeginBody, Quietly, SM!Atomic
  <2>2. i = 1
      BY <2>1 DEF EarlyInv, Early
  <2>3. SM!Remaining(t) = << >> /\ SM!Remaining(t)' = From(c, 1)
      BY <2>1, <2>2, RemainingAt, RemainingAtNext DEF Updates
  <2> QED BY <1>1, <1>2, <2>1, <2>3, FromFacts, AbstractStart
<1>5. CASE Truncate(t)
    BY <1>5, AbstractStutter DEF Truncate, machineVars, SM!Remaining
<1>6. CASE Acquire(t) \/ (Announce(t) /\ SM!Signal(t))
  <2>1. /\ store' = store /\ op'[t] = c /\ step'[t] = i
        /\ \/ pc[t] = "acquire" /\ pc'[t] = "locked"
           \/ pc[t] = "written" /\ pc'[t] = "signalled"
      BY <1>6 DEF Acquire, Quietly, SM!Acquire, SM!Signal
  <2>2. SM!Remaining(t)' = SM!Remaining(t)
      BY <2>1, RemainingAt, RemainingAtNext
  <2> QED BY <1>1, <2>1, <2>2, AbstractStutter
<1>7. CASE FillUpdate(t)
  <2>1. /\ pc[t] = "locked" /\ pc'[t] = "written"
        /\ op'[t] = c /\ step'[t] = i
      BY <1>7 DEF FillUpdate, SM!Write
  <2>2. local[t] = store
      BY <1>7, <2>1 DEF FillUpdate, CopyInv, Unharmed
  <2>3. store' = Updated(store, Steps[c][i])
      BY <1>7, <2>1, <2>2, WriteInStore DEF FillUpdate, SM!Write
  <2>4. SM!Remaining(t) = From(c, i) /\ SM!Remaining(t)' = From(c, i + 1)
      BY <2>1, RemainingAt, RemainingAtNext
  <2>5. /\ SM!Remaining(t) # << >>
        /\ Head(SM!Remaining(t)) = Steps[c][i]
        /\ Tail(SM!Remaining(t)) = SM!Remaining(t)'
      BY <1>2, <2>4, FromFacts
  <2> QED BY <1>1, <2>3, <2>5, AbstractUpdate
<1>8. ~FillReset(t) /\ ~FillRollback(t)
    BY DEF FillReset, FillRollback, Unharmed
<1>9. CASE Announce(t) /\ SM!Release(t)
  <2>1. pc[t] = "signalled" /\ store' = store
      BY <1>9 DEF SM!Release
  <2>2. SM!Remaining(t) = From(c, i + 1)
      BY <2>1, RemainingAt
  <2>3. CASE SM!LastStep(t)
    <3>1. pc'[t] = "idle"
        BY <1>9, <2>3 DEF SM!Release, SM!Return
    <3>2. SM!Remaining(t)' = << >>
        BY <3>1, RemainingAtNext DEF Updates
    <3>3. SM!Remaining(t) = << >>
        BY <1>2, <2>2, <2>3, FromFacts, Tables DEF SM!LastStep
    <3> QED BY <1>1, <2>1, <3>2, <3>3, AbstractStutter
  <2>4. CASE ~SM!LastStep(t)
    <3>1. pc'[t] = "acquire" /\ op'[t] = c /\ step'[t] = i + 1
        BY <1>9, <2>4 DEF SM!Release
    <3>2. SM!Remaining(t)' = From(c, i + 1)
        BY <3>1, RemainingAtNext
    <3> QED BY <1>1, <2>1, <2>2, <3>2, AbstractStutter
  <2> QED BY <2>3, <2>4
<1> QED BY <1>3, <1>4, <1>5, <1>6, <1>7, <1>8, <1>9, ThreadSteps
        DEF Announce, Quietly

LEMMA CallAbstract ==
    ASSUME TypeOK, NEW t \in Threads, NEW c \in CommandSet, Call(t, c)
    PROVE  AbsStep
<1> USE DEF TypeOK
<1>1. \A u \in Threads : u # t => SM!Remaining(u)' = SM!Remaining(u)
    BY DEF SM!Remaining, Call
<1>2. /\ store' = store /\ pc[t] = "idle" /\ op'[t] = c /\ step'[t] = 1
      /\ IF c = "reset_state" THEN pc'[t] = "locked" ELSE pc'[t] \notin Updates
    BY DEF Call, SM!Entry, Updates
<1>3. SM!Remaining(t) = << >>
    BY <1>2, RemainingAt DEF Updates
<1>4. CASE c = "reset_state"
  <2>1. SM!Remaining(t)' = From(c, 1)
      BY <1>2, <1>4, RemainingAtNext
  <2>2. SM!Remaining(t)' = Steps[c]
      BY <2>1, FromFacts, FileAssumption
  <2> QED BY <1>1, <1>2, <1>3, <2>2, AbstractStart
<1>5. CASE c # "reset_state"
    BY <1>1, <1>2, <1>3, <1>5, RemainingAtNext, AbstractStutter
<1> QED BY <1>4, <1>5

\* A kill between commands, before their first updates or after their last ones.
LEMMA CrashAbstract ==
    ASSUME TypeOK, CallInv, OwnedInv, Unharmed, Unharmed', Crash
    PROVE  AbsStep
<1> USE DEF TypeOK
<1>1. store' = store /\ \A t \in Threads : pc'[t] = "idle"
    BY DEF Crash
<1>2. \A t \in Threads : ~SM!Midway(t) /\ pc[t] # "rollback"
    BY DEF Crash, Unharmed, OwnedInv
<1>3. \A t \in Threads : SM!Remaining(t)' = << >>
    BY <1>1, RemainingAtNext DEF Updates
<1>4. ASSUME NEW t \in Threads
      PROVE  \/ SM!Remaining(t) = << >>
             \/ \E c \in CommandSet : SM!Remaining(t) = Steps[c]
  <2>1. CASE pc[t] \in {"acquire", "locked"}
    <3>1. /\ op[t] \in CommandSet /\ op[t] \in Operations
          /\ step[t] \in 1..Len(Steps[op[t]]) /\ Len(Steps[op[t]]) \in 1..3
        BY <2>1, InCommand
    <3>2. step[t] = 1
        BY <1>2, <2>1, <3>1 DEF SM!Midway, SM!Begun
    <3>3. SM!Remaining(t) = Steps[op[t]]
        BY <2>1, <3>1, <3>2, RemainingAt, FromFacts
    <3> QED BY <3>1, <3>3
  <2>2. CASE pc[t] \in {"written", "signalled"}
    <3>1. op[t] \in Operations
        BY <2>2, InCommand
    <3>2. step[t] = Len(Steps[op[t]])
        BY <1>2, <2>2, Tables DEF SM!Midway, SM!Begun, SM!LastStep
    <3> QED BY <2>2, <3>1, <3>2, RemainingAt, FromFacts
  <2>3. CASE pc[t] \notin Updates
      BY <2>3, RemainingAt
  <2> QED BY <2>1, <2>2, <2>3 DEF Updates
<1> QED BY <1>1, <1>3, <1>4, AbstractForgo

\* Every step is one of AtomicCommands, or changes nothing in it.
LEMMA AbstractStep ==
    ASSUME IInv, [Next]_vars, Unharmed'
    PROVE  AbsStep
<1>1. Unharmed
    BY HarmGrows DEF Unharmed
<1>2. ASSUME UNCHANGED machineVars PROVE AbsStep
    BY <1>2, AbstractStutter DEF SM!Remaining, machineVars
<1>3. CASE AnyCall \/ Start \/ Created \/ Crash
    BY <1>1, <1>2, <1>3, CallAbstract, CrashAbstract
       DEF AnyCall, Start, Created, IInv
<1>4. ASSUME NEW t \in Threads, ThreadStep(t) \/ SleepRaises(t) PROVE AbsStep
  <2>1. ~SleepRaises(t)
      BY DEF SleepRaises, Unharmed
  <2> QED BY <1>1, <1>4, <2>1, ThreadAbstract DEF IInv
<1> QED BY <1>2, <1>3, <1>4 DEF Next, vars

\* The file updater implements atomic updates until a kill cuts a write short, a
\* command is rolled back or killed midway, or a write is not announced: none is
\* lost, repeated or applied out of its command's order, also over restarts after
\* kills before a command's first write or after its last signal (update_state
\* of file_backend).  FileReadable says that the file can be read as long.
THEOREM FileUpdatesAtomically == Spec => AtomicUnlessHarmed
<1>1. Init => Abs!Init
  <2> SUFFICES ASSUME Init PROVE Abs!Init
      OBVIOUS
  <2>1. \A t \in Threads : SM!Remaining(t) = << >>
      BY RemainingAt DEF Init, SM!Init, Updates
  <2> QED BY <2>1, Tables, AbsTables DEF Init, SM!Init, Abs!Init
<1>2. IInv /\ [Next]_vars =>
          [ \/ harm' # {}
            \/ Abs!Next \/ Abs!Forgo ]_(Abs!absVars)
    BY AbstractStep DEF AbsStep, Unharmed
<1> QED BY <1>1, <1>2, Invariance, PTL DEF Spec, AtomicUnlessHarmed

=============================================================================
