------------------------- MODULE FastApiServerProofs -------------------------
(***************************************************************************)
(* Theorems about FastApiServer, for any number of requests and any set of *)
(* commands.                                                               *)
(***************************************************************************)
EXTENDS FastApiServer, TLAPS

-----------------------------------------------------------------------------
\* The command table is the one of StateMachineProofs, with its lemmas.

SMP == INSTANCE StateMachineProofs

LEMMA SameTable ==
    /\ SMP!Steps = Steps /\ SMP!Operations = Operations
    /\ SMP!Store = Store /\ \A s, a : SMP!Updated(s, a) = Updated(s, a)
    /\ SMP!SwitchCommands = SwitchCommands /\ SMP!ObsCommands = ObsCommands
BY DEF SMP!Steps, Steps, SMP!Assign, Assign, SMP!Keep, Keep, SMP!None, None,
       SMP!Operations, Operations, SMP!SwitchCommands, SwitchCommands,
       SMP!ObsCommands, ObsCommands, SMP!Store, Store, SMP!States, States,
       SMP!ObsStates, ObsStates, SMP!Updated, Updated

TransientObs == {"BUSY", "RESOURCING", "CONFIGURING", "SCANNING"}

\* c passes all its decorators over the stored state s and a free lock.
Passes(c, s) == /\ ~Ignored(c, s)
                /\ Allowed(c, s)
                /\ c \in ObsCommands => s.state = "ON"

LEMMA StepsLength == \A c \in Operations : Len(Steps[c]) \in 1..3
BY SMP!StepsLength, SameTable, ServerAssumption DEF Operations

LEMMA StepBounds ==
    \A n \in 1..3 : /\ 1 \in 1..n
                    /\ \A i \in 1..n : i \in 0..3
                    /\ \A i \in 1..n : i # n => i + 1 \in 1..n /\ i + 1 \in 0..3
OBVIOUS

LEMMA UpdatedInStore ==
    ASSUME NEW c \in Operations, NEW s \in Store, NEW i \in 1..Len(Steps[c])
    PROVE  Updated(s, Steps[c][i]) \in Store
BY SMP!UpdatedInStore, SameTable, ServerAssumption DEF Operations

LEMMA TransientsWritten ==
    ASSUME NEW c \in Operations, NEW s \in Store, NEW i \in 1..Len(Steps[c])
    PROVE  LET u == Updated(s, Steps[c][i]) IN
           /\ u.state = "BUSY" =>
                \/ c \in SwitchCommands /\ i # Len(Steps[c])
                \/ c \in ObsCommands /\ s.state = "BUSY"
           /\ u.obs_state \in TransientObs =>
                \/ c \in ObsCommands /\ i # Len(Steps[c])
                \/ /\ c \in SwitchCommands /\ i # Len(Steps[c])
                   /\ s.obs_state \in TransientObs
BY SMP!TransientsWritten, SameTable, ServerAssumption DEF TransientObs, SMP!TransientObs, Operations

-----------------------------------------------------------------------------
\* The inductive invariant.

Early == {"ignore", "must_be_on", "check_busy", "is_allowed", "atomic"}

\* Where a request stands, and where its command's call does.
Placed(t) ==
    /\ pc[t] # "idle" => /\ phase[t] = "running"
                         /\ op[t] = command[t]
                         /\ op[t] \in CommandSet
                         /\ step[t] \in 1..Len(Steps[op[t]])
    /\ pc[t] \in Early => step[t] = 1
    /\ phase[t] # "none" => command[t] \in CommandSet
    /\ phase[t] \in {"assert_ready", "assert_allowed", "task"} =>
          endpoint[t] = "background"
    /\ phase[t] = "assert_allowed" => command[t] \in ObsCommands
    /\ phase[t] = "raises" => endpoint[t] = "broken"

CallInv == \A t \in Threads : Placed(t)

\* The lock is held by the one thread that is in an update, which has read
\* what is in the store.
LockInv ==
    \A t \in Threads :
        /\ pc[t] \in {"locked", "written", "signalled"} <=> lock = t
        /\ pc[t] = "locked" => local[t] = store

\* With good delays nothing is rolled back, and a transient obs_state has its
\* command.
OwnedInv ==
    /\ \A t \in Threads : pc[t] # "rollback"
    /\ store.obs_state \in TransientObs =>
          \E t \in Threads : SM!Midway(t) /\ op[t] \in ObsCommands

\* What a request that nothing overlaps has come to know of the state s that it
\* found, c being its command.
InBody(t) == pc[t] \in {"acquire", "locked", "written", "signalled"}

AloneRuns(t, c, s) ==
    /\ pc[t] \in Early => store = s
    /\ pc[t] = "must_be_on" => c \in ObsCommands /\ ~Ignored(c, s)
    /\ pc[t] \in {"check_busy", "is_allowed"} =>
          ~Ignored(c, s) /\ (c \in ObsCommands => s.state = "ON")
    /\ pc[t] = "atomic" \/ InBody(t) => Passes(c, s)
    /\ pc[t] = "idle" =>
          \/ result[t] = "ok" /\ Passes(c, s)
          \/ result[t] = "ignored" /\ Ignored(c, s) /\ store = s
          \/ /\ result[t] = "not_allowed" /\ store = s
             /\ ~Ignored(c, s) /\ ~Admitted(c, s)

Alone(t, c, s) ==
    /\ phase[t] # "none"
    /\ \A u \in Threads : u # t => phase[u] = "none"
    /\ HasEntry(s)
    /\ phase[t] \in {"assert_ready", "assert_allowed", "task", "raises"} =>
          store = s
    /\ /\ phase[t] \in {"task", "running"}
       /\ endpoint[t] = "background" /\ c \in ObsCommands
       => Allowed(c, s)
    /\ phase[t] = "running" => AloneRuns(t, c, s)
    /\ phase[t] = "done" /\ endpoint[t] = "foreground" =>
          /\ status[t] = IF Ignored(c, s) \/ Admitted(c, s) THEN 200 ELSE 405
          /\ store # s => Admitted(c, s) /\ ~Ignored(c, s)
    /\ /\ phase[t] = "done" /\ endpoint[t] = "background"
       /\ c \in ObsCommands /\ status[t] = 200
       => result[t] = IF s.state = "ON" THEN "ok" ELSE "not_allowed"

AloneInv == \A t \in Threads : alone[t] => Alone(t, command[t], before[t])

BaseInv == TypeOK /\ CallInv
IInv    == BaseInv /\ LockInv /\ OwnedInv /\ AloneInv

-----------------------------------------------------------------------------
\* The state machine's tables and values are the ones of Commands.

LEMMA Tables ==
    /\ SM!Steps = Steps /\ SM!Cleared = Cleared
    /\ \A s, a : SM!Updated(s, a) = Updated(s, a)
    /\ \A c, s : SM!Ignored(c, s) = Ignored(c, s)
    /\ \A c, s : SM!Allowed(c, s) = Allowed(c, s)
    /\ \A s : SM!HasEntry(s) = HasEntry(s)
    /\ SM!SwitchCommands = SwitchCommands /\ SM!ObsCommands = ObsCommands
    /\ SM!Store = Store /\ SM!Operations = Operations
BY DEF SM!Steps, Steps, SM!Assign, Assign, SM!Keep, Keep, SM!None, None,
       SM!Cleared, Cleared, SM!Updated, Updated, SM!Ignored, Ignored,
       SM!AllowedCommands, AllowedCommands, SM!HasEntry, HasEntry, SM!Allowed,
       Allowed,
       SM!SwitchCommands, SwitchCommands, SM!ObsCommands, ObsCommands,
       SM!Operations, Operations, SM!Store, Store, SM!States, States,
       SM!ObsStates, ObsStates

LEMMA Values ==
    /\ Cleared \in Store /\ CommandSet \subseteq Operations
    /\ "none" \notin CommandSet
BY ServerAssumption DEF Cleared, Store, States, ObsStates, None, Operations,
                        SwitchCommands, ObsCommands

\* The machine's types, over the values of Commands.
MachineTypes ==
    /\ store \in Store /\ lock \in Threads \cup {NoThread} /\ signalled \in Store
    /\ pc \in [Threads -> SM!Locations]
    /\ op \in [Threads -> Operations \cup {"none"}]
    /\ step \in [Threads -> 0..3]
    /\ original \in [Threads -> Store] /\ local \in [Threads -> Store]
    /\ result \in [Threads -> SM!Outcomes]

LEMMA Types == SM!TypeOK <=> MachineTypes
BY Tables DEF SM!TypeOK, MachineTypes

LEMMA TypesNext == SM!TypeOK' <=> MachineTypes'
BY Tables DEF SM!TypeOK, MachineTypes

-----------------------------------------------------------------------------
\* The steps of a command, the decorators taken together.

Decorator(t) ==
    /\ pc[t] \in Early
    /\ UNCHANGED <<store, lock, signalled>>
    /\ \/ \E l \in Early : SM!Goto(t, l)
       \/ \E r \in SM!Outcomes : SM!Return(t, r)

LEMMA MachineSteps ==
    ASSUME NEW t \in Threads, SM!Step(t)
    PROVE  \/ Decorator(t) \/ SM!Atomic(t) \/ SM!Acquire(t) \/ SM!Write(t)
           \/ SM!Signal(t) \/ SM!Release(t) \/ SM!SleepRaises(t)
           \/ SM!Rollback(t)
<1>1. \/ SM!IgnoreIfInState(t) \/ SM!MustBeOn(t) \/ SM!CheckBusy(t)
      \/ SM!IsAllowed(t)
      => Decorator(t)
    BY Tables DEF SM!IgnoreIfInState, SM!MustBeOn, SM!CheckBusy, SM!IsAllowed,
                  Decorator, Early, SM!Outcomes
<1> QED BY <1>1 DEF SM!Step

\* A thread's step, or its call, leaves every other thread where it was.
LEMMA OthersKeep ==
    ASSUME TypeOK, NEW t \in Threads, NEW c, SM!Step(t) \/ SM!Call(t, c),
           NEW u \in Threads, u # t
    PROVE  /\ pc'[u] = pc[u] /\ op'[u] = op[u] /\ step'[u] = step[u]
           /\ local'[u] = local[u] /\ result'[u] = result[u]
<1> USE DEF TypeOK, SM!TypeOK
<1>1. CASE SM!Call(t, c)
    BY <1>1 DEF SM!Call
<1>2. CASE Decorator(t)
    BY <1>2 DEF Decorator, SM!Goto, SM!Return
<1>3. CASE SM!Atomic(t) \/ SM!Acquire(t) \/ SM!Write(t) \/ SM!Signal(t)
    BY <1>3 DEF SM!Atomic, SM!Acquire, SM!Write, SM!Signal
<1>4. CASE SM!Release(t) \/ SM!SleepRaises(t) \/ SM!Rollback(t)
    BY <1>4 DEF SM!Release, SM!SleepRaises, SM!Rollback, SM!Return
<1> QED BY <1>1, <1>2, <1>3, <1>4, MachineSteps

LEMMA WriteInStore ==
    ASSUME TypeOK, CallInv, NEW t \in Threads, SM!Write(t)
    PROVE  /\ op[t] \in CommandSet /\ step[t] \in 1..Len(Steps[op[t]])
           /\ store' = Updated(local[t], Steps[op[t]][step[t]])
           /\ store' \in Store /\ local'[t] = store'
<1>1. op[t] \in CommandSet /\ step[t] \in 1..Len(Steps[op[t]])
    BY DEF SM!Write, CallInv, Placed
<1>2. local[t] \in Store
    BY Tables DEF TypeOK, SM!TypeOK
<1>3. store' = Updated(local[t], Steps[op[t]][step[t]]) /\ local'[t] = store'
    BY Tables DEF SM!Write, TypeOK, SM!TypeOK
<1> QED BY <1>1, <1>2, <1>3, Values, UpdatedInStore

LEMMA NextUpdate ==
    ASSUME TypeOK, CallInv, NEW t \in Threads, pc[t] # "idle", ~SM!LastStep(t)
    PROVE  step[t] + 1 \in 1..Len(Steps[op[t]]) /\ step[t] + 1 \in 0..3
<1>1. op[t] \in Operations /\ step[t] \in 1..Len(Steps[op[t]])
    BY Values DEF CallInv, Placed
<1>2. step[t] # Len(Steps[op[t]])
    BY Tables DEF SM!LastStep
<1> QED BY <1>1, <1>2, StepsLength, StepBounds, Zenon

-----------------------------------------------------------------------------
\* Type correctness, with a request's place in its command.

LEMMA MachineTypeStep ==
    ASSUME TypeOK, CallInv, NEW t \in Threads, SM!Step(t)
    PROVE  SM!TypeOK'
<1> SUFFICES MachineTypes'
    BY TypesNext
<1>0. MachineTypes /\ SM!Cleared = Cleared /\ Cleared \in Store
    BY Tables, Types, Values DEF TypeOK
<1> USE <1>0 DEF MachineTypes
<1>1. CASE Decorator(t)
  <2>1. CASE \E l \in Early : SM!Goto(t, l)
      BY <1>1, <2>1 DEF Decorator, SM!Goto, Early, SM!Locations
  <2>2. CASE \E r \in SM!Outcomes : SM!Return(t, r)
      BY <1>1, <2>2 DEF Decorator, SM!Return, SM!Locations
  <2>3. "ignored" \in SM!Outcomes
      BY DEF SM!Outcomes
  <2> QED BY <1>1, <2>1, <2>2, <2>3 DEF Decorator
<1>2. CASE SM!Atomic(t) \/ SM!Acquire(t)
    BY <1>2 DEF SM!Atomic, SM!Acquire, SM!Locations
<1>3. CASE SM!Write(t)
    BY <1>3, WriteInStore DEF SM!Write, SM!Locations
<1>4. CASE SM!Signal(t) \/ SM!SleepRaises(t)
    BY <1>4 DEF SM!Signal, SM!SleepRaises, SM!Locations
<1>5. CASE SM!Release(t) /\ SM!LastStep(t)
    BY <1>5 DEF SM!Release, SM!Return, SM!Locations, SM!Outcomes
<1>6. CASE SM!Release(t) /\ ~SM!LastStep(t)
  <2>1. step' = [step EXCEPT ![t] = step[t] + 1]
      BY <1>6 DEF SM!Release
  <2>2. step' \in [Threads -> 0..3]
      BY <1>6, <2>1, NextUpdate DEF SM!Release
  <2> QED BY <1>6, <2>2 DEF SM!Release, SM!Locations
<1>7. CASE SM!Rollback(t)
    BY <1>7 DEF SM!Rollback, SM!Return, SM!Locations, SM!Outcomes
<1> QED BY <1>1, <1>2, <1>3, <1>4, <1>5, <1>6, <1>7, MachineSteps

LEMMA InitInv == Init => IInv
<1> SUFFICES ASSUME Init PROVE IInv
    OBVIOUS
<1> USE ServerAssumption DEF Init, SM!Init
<1>0. SM!Cleared = Cleared /\ Cleared \in Store
    BY Tables, Values
<1>1. TypeOK
  <2>1. SM!TypeOK
    <3>1. /\ pc \in [Threads -> SM!Locations]
          /\ result \in [Threads -> SM!Outcomes]
        BY DEF SM!Locations, SM!Outcomes
    <3>2. MachineTypes
        BY <1>0, <3>1 DEF MachineTypes
    <3> QED BY <3>2, Types
  <2>2. phase \in [Threads -> Phases] /\ endpoint \in [Threads -> Endpoints]
      BY DEF Phases, Endpoints
  <2> QED BY <1>0, <2>1, <2>2 DEF TypeOK
<1>2. CallInv /\ LockInv /\ AloneInv
    BY DEF CallInv, Placed, LockInv, AloneInv, Early
<1>3. OwnedInv
    BY <1>0 DEF OwnedInv, Cleared, None, TransientObs
<1> QED BY <1>1, <1>2, <1>3 DEF IInv, BaseInv

\* A request's steps and its arrival, by what they do to the state machine.
Quiet(t) == \/ PostSwitchOnBody(t)
            \/ \E c \in CommandSet : PostBackground(t, c)
            \/ AssertReady(t) \/ AssertMethodAllowed(t) \/ RaiseInEndpoint(t)
            \/ Finish(t) \/ Close(t)

LEMMA RequestSteps ==
    ASSUME CallInv, NEW t \in Threads, Request(t) \/ RequestStep(t)
    PROVE  \/ Quiet(t) \/ Run(t)
           \/ \E c \in CommandSet : Post(t, c)
           \/ RunTask(t) /\ command[t] \in CommandSet
BY DEF Request, RequestStep, Quiet, RunTask, CallInv, Placed

LEMMA QuietLeavesMachine ==
    ASSUME NEW t \in Threads, Quiet(t) PROVE MachineUnchanged
BY DEF Quiet, PostSwitchOnBody, PostBackground, AssertReady, Answer,
       AssertMethodAllowed, RaiseInEndpoint, Finish, Close

LEMMA CallTypeStep ==
    ASSUME SM!TypeOK, NEW t \in Threads, NEW c \in CommandSet, SM!Call(t, c)
    PROVE  SM!TypeOK'
<1>1. SM!Entry(c) \in SM!Locations
    BY DEF SM!Entry, SM!Locations
<1> QED BY <1>1, Tables, Values DEF SM!Call, SM!TypeOK, SM!Outcomes

\* What a request that comes in leaves in the history.
LEMMA OpenHistory ==
    ASSUME store \in Store, NEW t \in Threads, NEW c, NEW e, NEW p,
           Open(t, c, e, p)
    PROVE  /\ alone' \in [Threads -> BOOLEAN]
           /\ before' \in [Threads -> Store]
           /\ \A u \in Threads : u # t => ~alone'[u]
           /\ alone'[t] => /\ before'[t] = store
                           /\ \A u \in Threads : phase[u] = "none"
<1> DEFINE opens(u) == u = t /\ \A v \in Threads : phase[v] = "none"
<1>1. /\ alone' = [u \in Threads |-> opens(u)]
      /\ before' = [u \in Threads |-> IF alone'[u] THEN store ELSE Cleared]
    BY DEF Open
<1>2. \A u \in Threads : opens(u) \in BOOLEAN
    OBVIOUS
<1>3. \A u \in Threads : alone'[u] <=> opens(u)
  <2> HIDE DEF opens
  <2>1. \A u \in Threads : alone'[u] = opens(u)
      BY <1>1, Zenon
  <2> QED BY <2>1, Zenon
<1>4. alone' \in [Threads -> BOOLEAN]
  <2> HIDE DEF opens
  <2> QED BY <1>1, <1>2, Zenon
<1>5. before' \in [Threads -> Store]
  <2>1. Cleared \in Store
      BY DEF Cleared, Store, States, ObsStates, None
  <2> QED BY <1>1, <2>1
<1>6. alone'[t] => before'[t] = store
    BY <1>1
<1> QED BY <1>3, <1>4, <1>5, <1>6

LEMMA OpenTypeStep ==
    ASSUME TypeOK, NEW t \in Threads, NEW c \in CommandSet,
           NEW e \in Endpoints, NEW p \in Phases, Open(t, c, e, p), SM!TypeOK'
    PROVE  TypeOK'
<1>1. store \in Store
    BY Tables DEF TypeOK, SM!TypeOK
<1> QED BY <1>1, OpenHistory DEF Open, TypeOK

LEMMA AnswerTypeStep ==
    ASSUME TypeOK, NEW t \in Threads, NEW p \in Phases,
           NEW s \in {0, 200, 405, 500}, Answer(t, p, s)
    PROVE  TypeOK'
BY DEF Answer, MachineUnchanged, TypeOK, SM!TypeOK

LEMMA TypeStep ==
    ASSUME BaseInv, [Next]_vars PROVE TypeOK'
<1> USE DEF BaseInv
<1>1. CASE UNCHANGED vars
    BY <1>1 DEF vars, TypeOK, SM!TypeOK
<1>2. ASSUME NEW t \in Threads, Quiet(t) PROVE TypeOK'
  <2>0. SM!TypeOK'
      BY <1>2, QuietLeavesMachine DEF MachineUnchanged, TypeOK, SM!TypeOK
  <2>1. CASE PostSwitchOnBody(t)
      BY <2>0, <2>1, OpenTypeStep DEF PostSwitchOnBody, Endpoints, Phases
  <2>2. ASSUME NEW c \in CommandSet, PostBackground(t, c) PROVE TypeOK'
      BY <2>0, <2>2, OpenTypeStep DEF PostBackground, Endpoints, Phases
  <2>3. CASE AssertReady(t) \/ AssertMethodAllowed(t) \/ RaiseInEndpoint(t)
      BY <2>3, AnswerTypeStep DEF AssertReady, AssertMethodAllowed,
                                  RaiseInEndpoint, Phases
  <2>4. CASE Finish(t)
    <3>1. /\ StatusOf(result[t]) \in {0, 200, 405, 500}
          /\ status[t] \in {0, 200, 405, 500}
        BY DEF StatusOf, TypeOK
    <3> QED BY <2>4, <3>1, AnswerTypeStep DEF Finish, Phases
  <2>5. CASE Close(t)
      BY <2>0, <2>5, Values DEF Close, TypeOK, Phases, Endpoints
  <2> QED BY <1>2, <2>1, <2>2, <2>3, <2>4, <2>5 DEF Quiet
<1>3. ASSUME NEW t \in Threads, NEW c \in CommandSet, Post(t, c) PROVE TypeOK'
  <2>1. SM!TypeOK'
      BY <1>3, CallTypeStep DEF Post, TypeOK
  <2> QED BY <1>3, <2>1, OpenTypeStep DEF Post, Endpoints, Phases
<1>4. ASSUME NEW t \in Threads, RunTask(t), command[t] \in CommandSet
      PROVE  TypeOK'
  <2>1. SM!TypeOK'
      BY <1>4, CallTypeStep DEF RunTask, TypeOK
  <2> QED BY <1>4, <2>1 DEF RunTask, TypeOK, Phases
<1>5. ASSUME NEW t \in Threads, Run(t) PROVE TypeOK'
    BY <1>5, MachineTypeStep DEF Run, requestVars, TypeOK
<1> QED BY <1>1, <1>2, <1>3, <1>4, <1>5, RequestSteps DEF Next

\* A step of a command takes it on or ends it.
LEMMA OwnStep ==
    ASSUME TypeOK, NEW t \in Threads, SM!Step(t)
    PROVE  /\ pc[t] # "idle"
           /\ pc'[t] # "idle" =>
                /\ op'[t] = op[t]
                /\ \/ step'[t] = step[t]
                   \/ ~SM!LastStep(t) /\ step'[t] = step[t] + 1
                /\ pc'[t] \in Early => pc[t] \in Early /\ step'[t] = step[t]
<1> USE DEF TypeOK, SM!TypeOK, Early
<1>1. CASE Decorator(t)
    BY <1>1 DEF Decorator, SM!Goto, SM!Return
<1>2. CASE SM!Atomic(t) \/ SM!Acquire(t) \/ SM!Write(t) \/ SM!Signal(t)
    BY <1>2 DEF SM!Atomic, SM!Acquire, SM!Write, SM!Signal
<1>3. CASE SM!Release(t) \/ SM!SleepRaises(t) \/ SM!Rollback(t)
    BY <1>3 DEF SM!Release, SM!SleepRaises, SM!Rollback, SM!Return
<1> QED BY <1>1, <1>2, <1>3, MachineSteps

\* Every step leaves the other requests, and the commands they run, alone.
LEMMA OtherRequests ==
    ASSUME TypeOK, NEW t \in Threads, Request(t) \/ RequestStep(t), CallInv,
           NEW u \in Threads, u # t
    PROVE  /\ pc'[u] = pc[u] /\ op'[u] = op[u] /\ step'[u] = step[u]
           /\ local'[u] = local[u] /\ result'[u] = result[u]
           /\ phase'[u] = phase[u] /\ endpoint'[u] = endpoint[u]
           /\ command'[u] = command[u] /\ status'[u] = status[u]
           /\ alone'[u] => before'[u] = before[u]
<1>0. store \in Store
    BY Tables DEF TypeOK, SM!TypeOK
<1>1. CASE Quiet(t)
  <2>1. MachineUnchanged
      BY <1>1, QuietLeavesMachine
  <2>2. CASE PostSwitchOnBody(t) \/ \E c \in CommandSet : PostBackground(t, c)
      BY <1>0, <2>1, <2>2, OpenHistory
         DEF PostSwitchOnBody, PostBackground, Open, MachineUnchanged, TypeOK
  <2> QED BY <1>1, <2>1, <2>2
          DEF Quiet, AssertReady, Answer, AssertMethodAllowed, RaiseInEndpoint,
              Finish, Close, MachineUnchanged, TypeOK
<1>2. ASSUME NEW c \in CommandSet, Post(t, c) PROVE SM!Call(t, c)
    BY <1>2 DEF Post
<1>3. CASE \E c \in CommandSet : Post(t, c)
  <2> PICK c \in CommandSet : Post(t, c)
      BY <1>3
  <2>1. Open(t, c, "foreground", "running") /\ SM!Call(t, c)
      BY DEF Post
  <2>2. ~alone'[u]
      BY <1>0, <2>1, OpenHistory
  <2> QED BY <2>1, <2>2, OthersKeep DEF Open, TypeOK
<1>4. CASE RunTask(t)
    BY <1>4, OthersKeep DEF RunTask, TypeOK
<1>5. CASE Run(t)
    BY <1>5, OthersKeep DEF Run, requestVars
<1> QED BY <1>1, <1>3, <1>4, <1>5, RequestSteps

LEMMA CallStep ==
    ASSUME BaseInv, [Next]_vars PROVE CallInv'
<1> USE Values DEF BaseInv
<1>1. CASE UNCHANGED vars
    BY <1>1 DEF vars, CallInv, Placed
<1>2. ASSUME NEW t \in Threads, Request(t) \/ RequestStep(t) PROVE CallInv'
  <2>0. Placed(t)
      BY DEF CallInv
  <2>1. CASE Quiet(t)
    <3>1. MachineUnchanged
        BY <2>1, QuietLeavesMachine
    <3>2. Placed(t)'
      <4>1. CASE PostSwitchOnBody(t)
          BY <2>0, <3>1, <4>1
             DEF PostSwitchOnBody, Open, MachineUnchanged, TypeOK, Placed
      <4>2. CASE \E c \in CommandSet : PostBackground(t, c)
          BY <2>0, <3>1, <4>2
             DEF PostBackground, Open, MachineUnchanged, TypeOK, Placed
      <4>3. CASE AssertReady(t) \/ AssertMethodAllowed(t) \/ RaiseInEndpoint(t)
          BY <2>0, <3>1, <4>3 DEF AssertReady, Answer, AssertMethodAllowed,
                RaiseInEndpoint, MachineUnchanged, TypeOK, Placed
      <4>4. CASE Finish(t) \/ Close(t)
          BY <2>0, <3>1, <4>4 DEF Finish, Answer, Close, MachineUnchanged,
                TypeOK, Early, Placed
      <4> QED BY <2>1, <4>1, <4>2, <4>3, <4>4 DEF Quiet
    <3> QED BY <1>2, <3>2, OtherRequests DEF CallInv, Placed
  <2>2. ASSUME NEW c \in CommandSet, SM!Call(t, c), phase'[t] = "running",
               command'[t] = c
        PROVE  CallInv'
    <3>1. pc'[t] = SM!Entry(c) /\ op'[t] = c /\ step'[t] = 1
        BY <2>2 DEF SM!Call, TypeOK, SM!TypeOK
    <3>2. 1 \in 1..Len(Steps[c])
        BY StepsLength, StepBounds, Zenon
    <3>3. Placed(t)'
        BY <2>2, <3>1, <3>2 DEF Placed, SM!Entry, Early
    <3> QED BY <1>2, <3>3, OtherRequests DEF CallInv, Placed
  <2>3. CASE \E c \in CommandSet : Post(t, c)
      BY <2>2, <2>3 DEF Post, Open, TypeOK
  <2>4. CASE RunTask(t)
      BY <2>0, <2>2, <2>4 DEF RunTask, TypeOK, Placed
  <2>5. CASE Run(t)
    <3>1. /\ pc[t] # "idle" /\ phase'[t] = phase[t] /\ command'[t] = command[t]
          /\ endpoint'[t] = endpoint[t]
        BY <2>5, OwnStep DEF Run, requestVars
    <3>2. pc'[t] # "idle" => step'[t] \in 1..Len(Steps[op[t]])
        BY <2>0, <2>5, <3>1, OwnStep, NextUpdate DEF Run, Placed
    <3>3. Placed(t)'
        BY <2>0, <2>5, <3>1, <3>2, OwnStep DEF Run, Early, Placed
    <3> QED BY <1>2, <3>3, OtherRequests DEF CallInv, Placed
  <2> QED BY <1>2, <2>1, <2>3, <2>4, <2>5, RequestSteps
<1> QED BY <1>1, <1>2 DEF Next

-----------------------------------------------------------------------------
\* The lock and the holder's copy; with good delays there are no rollbacks.

LEMMA MachineLockStep ==
    ASSUME BaseInv, LockInv, OwnedInv, NEW t \in Threads, SM!Step(t)
    PROVE  LockInv'
<1> USE ServerAssumption DEF BaseInv, TypeOK, SM!TypeOK, LockInv
<1>1. CASE Decorator(t)
    BY <1>1 DEF Decorator, Early, SM!Goto, SM!Return
<1>2. CASE SM!Atomic(t) \/ SM!Acquire(t) \/ SM!Write(t) \/ SM!Signal(t)
    BY <1>2 DEF SM!Atomic, SM!Acquire, SM!Write, SM!Signal
<1>3. CASE SM!Release(t)
    BY <1>3 DEF SM!Release, SM!Return
<1>4. CASE SM!SleepRaises(t)
    BY <1>4 DEF SM!SleepRaises
<1>5. CASE SM!Rollback(t)
    BY <1>5 DEF SM!Rollback, OwnedInv
<1> QED BY <1>1, <1>2, <1>3, <1>4, <1>5, MachineSteps

LEMMA EntryPlace ==
    ASSUME NEW c \in CommandSet
    PROVE  /\ SM!Entry(c) = IF c = "configure" THEN "must_be_on" ELSE "ignore"
           /\ c # "reset_state"
BY ServerAssumption DEF SM!Entry, SwitchCommands, ObsCommands

LEMMA LockStep ==
    ASSUME BaseInv, LockInv, OwnedInv, [Next]_vars PROVE LockInv'
<1>1. CASE UNCHANGED <<pc, lock, local, store>>
    BY <1>1 DEF LockInv
<1>2. ASSUME NEW t \in Threads, NEW c \in CommandSet, SM!Call(t, c)
      PROVE  LockInv'
    BY <1>2, EntryPlace DEF SM!Call, LockInv, BaseInv, TypeOK, SM!TypeOK
<1>3. ASSUME NEW t \in Threads, Request(t) \/ RequestStep(t) PROVE LockInv'
    BY <1>1, <1>2, <1>3, RequestSteps, QuietLeavesMachine, MachineLockStep
       DEF MachineUnchanged, Post, RunTask, Run, BaseInv
<1> QED BY <1>1, <1>3 DEF Next, vars

-----------------------------------------------------------------------------
\* A transient obs_state has its command.

LEMMA MachineOwnedStep ==
    ASSUME ~BadDelays, BaseInv, LockInv, OwnedInv, NEW t \in Threads, SM!Step(t)
    PROVE  OwnedInv'
<1> DEFINE Owner(u) == SM!Midway(u) /\ op[u] \in ObsCommands
<1> USE DEF BaseInv, TypeOK, SM!TypeOK
<1>0. ASSUME NEW u \in Threads, u # t
      PROVE  (Owner(u)' <=> Owner(u)) /\ pc'[u] = pc[u]
  <2>1. pc'[u] = pc[u] /\ op'[u] = op[u] /\ step'[u] = step[u]
      BY <1>0, OthersKeep
  <2> QED BY <2>1 DEF SM!Midway, SM!Begun, SM!LastStep
<1>1. pc'[t] # "rollback"
  <2>1. CASE Decorator(t)
      BY <2>1 DEF Decorator, Early, SM!Goto, SM!Return
  <2>2. CASE SM!Atomic(t) \/ SM!Acquire(t) \/ SM!Write(t) \/ SM!Signal(t)
      BY <2>2 DEF SM!Atomic, SM!Acquire, SM!Write, SM!Signal
  <2>3. CASE SM!Release(t) \/ SM!SleepRaises(t) \/ SM!Rollback(t)
      BY <2>3 DEF SM!Release, SM!Return, SM!SleepRaises, SM!Rollback
  <2> QED BY <2>1, <2>2, <2>3, MachineSteps
<1>2. store'.obs_state \in TransientObs => \E u \in Threads : Owner(u)'
  <2>1. CASE SM!Write(t)
    <3>1. /\ op[t] \in Operations /\ step[t] \in 1..Len(Steps[op[t]])
          /\ store' = Updated(store, Steps[op[t]][step[t]]) /\ store \in Store
        BY <2>1, WriteInStore, Values, Tables DEF LockInv, SM!Write
    <3>2. SUFFICES ASSUME store'.obs_state \in TransientObs
                   PROVE  \E u \in Threads : Owner(u)'
        OBVIOUS
    <3>3. CASE op[t] \in ObsCommands /\ step[t] # Len(Steps[op[t]])
      <4>1. Owner(t)'
          BY <2>1, <3>3, Tables
             DEF SM!Write, SM!Midway, SM!Begun, SM!LastStep
      <4> QED BY <4>1
    <3>4. CASE op[t] \in SwitchCommands /\ store.obs_state \in TransientObs
      <4>1. PICK u \in Threads : Owner(u)
          BY <3>4 DEF OwnedInv
      <4>2. u # t
          BY <3>4, <4>1 DEF SwitchCommands, ObsCommands
      <4> QED BY <1>0, <4>1, <4>2
    <3> QED BY <3>1, <3>2, <3>3, <3>4, TransientsWritten
  <2>2. ASSUME store' = store, Owner(t) => Owner(t)'
        PROVE  store'.obs_state \in TransientObs => \E u \in Threads : Owner(u)'
      BY <1>0, <2>2 DEF OwnedInv
  <2>3. CASE Decorator(t)
    <3>1. ~Owner(t) /\ store' = store
        BY <2>3 DEF Decorator, Early, SM!Midway, SM!Begun
    <3> QED BY <2>2, <3>1
  <2>4. CASE SM!Atomic(t)
      BY <2>2, <2>4 DEF SM!Atomic, SM!Midway, SM!Begun
  <2>5. CASE SM!Acquire(t) \/ SM!Signal(t)
      BY <2>2, <2>5 DEF SM!Acquire, SM!Signal, SM!Midway, SM!Begun, SM!LastStep
  <2>6. CASE SM!Release(t) /\ SM!LastStep(t)
      BY <2>2, <2>6 DEF SM!Release, SM!Midway, SM!Begun
  <2>7. CASE SM!Release(t) /\ ~SM!LastStep(t)
    <3>1. /\ pc'[t] = "acquire" /\ op'[t] = op[t] /\ store' = store
          /\ step'[t] = step[t] + 1
        BY <2>7 DEF SM!Release
    <3>2. step[t] \in 1..Len(Steps[op[t]]) /\ Len(Steps[op[t]]) \in 1..3
        BY <2>7, StepsLength, Values DEF SM!Release, CallInv, Placed
    <3>3. step'[t] > 1
        BY <3>1, <3>2
    <3> QED BY <2>2, <3>1, <3>3 DEF SM!Midway, SM!Begun
  <2>8. CASE SM!SleepRaises(t) \/ SM!Rollback(t)
      BY <2>8 DEF SM!SleepRaises, SM!Rollback, OwnedInv
  <2> QED BY <2>1, <2>3, <2>4, <2>5, <2>6, <2>7, <2>8, MachineSteps
<1> QED BY <1>0, <1>1, <1>2 DEF OwnedInv

LEMMA OwnedStep ==
    ASSUME ~BadDelays, BaseInv, LockInv, OwnedInv, [Next]_vars
    PROVE  OwnedInv'
<1>1. CASE UNCHANGED <<store, pc, op, step>>
    BY <1>1 DEF OwnedInv, SM!Midway, SM!Begun, SM!LastStep
<1>2. ASSUME NEW t \in Threads, NEW c \in CommandSet, SM!Call(t, c)
      PROVE  OwnedInv'
  <2> USE DEF BaseInv, TypeOK, SM!TypeOK
  <2>1. /\ pc[t] = "idle" /\ store' = store
        /\ pc'[t] \in {"must_be_on", "ignore"}
      BY <1>2, EntryPlace DEF SM!Call
  <2>2. \A u \in Threads : u # t => /\ pc'[u] = pc[u]
                                    /\ SM!Midway(u)' <=> SM!Midway(u)
                                    /\ op'[u] = op[u]
      BY <1>2, OthersKeep DEF SM!Midway, SM!Begun, SM!LastStep
  <2>3. ~SM!Midway(t)
      BY <2>1 DEF SM!Midway, SM!Begun
  <2> QED BY <2>1, <2>2, <2>3 DEF OwnedInv
<1>3. ASSUME NEW t \in Threads, Request(t) \/ RequestStep(t) PROVE OwnedInv'
    BY <1>1, <1>2, <1>3, RequestSteps, QuietLeavesMachine, MachineOwnedStep
       DEF MachineUnchanged, Post, RunTask, Run, BaseInv
<1> QED BY <1>1, <1>3 DEF Next, vars

-----------------------------------------------------------------------------
\* What a request that nothing overlaps comes to know.

LEMMA EntriesTable ==
    /\ \A s \in Store : s.obs_state \notin TransientObs => HasEntry(s)
    /\ \A c \in ObsCommands, s \in Store : Allowed(c, s) => ~Ignored(c, s)
    /\ \A s : ~Ignored("configure", s)
    /\ \A c, s : Passes(c, s) <=> Admitted(c, s) /\ ~Ignored(c, s)
<1>1. \A s \in Store : s.obs_state \notin TransientObs => HasEntry(s)
    BY DEF Store, ObsStates, TransientObs, HasEntry, AllowedCommands, None
<1>2. \A c \in ObsCommands, s \in Store : Allowed(c, s) => ~Ignored(c, s)
    BY DEF ObsCommands, Store, ObsStates, Allowed, HasEntry, AllowedCommands,
           Ignored, None
<1> QED BY <1>1, <1>2 DEF Ignored, Passes, Admitted

\* The call of such a request.
LEMMA AloneRunStep ==
    ASSUME IInv, NEW t \in Threads, Run(t), alone[t], phase[t] = "running"
    PROVE  AloneRuns(t, command[t], before[t])'
<1> DEFINE c == command[t]
           s == before[t]
<1> USE DEF IInv, BaseInv, TypeOK, SM!TypeOK
<1>1. /\ command'[t] = c /\ before'[t] = s /\ SM!Step(t)
      /\ pc[t] # "idle" /\ op[t] = c /\ c \in CommandSet
    BY OwnStep DEF Run, requestVars, CallInv, Placed
<1>2. /\ AloneRuns(t, c, s) /\ HasEntry(s)
      /\ \A u \in Threads : u # t => phase[u] = "none"
    BY DEF AloneInv, Alone
<1>3. SUFFICES AloneRuns(t, c, s)'
    OBVIOUS
<1> HIDE DEF c, s
<1> USE DEF AloneRuns, Early, InBody
<1>4. CASE SM!IgnoreIfInState(t)
  <2>1. pc[t] = "ignore" /\ store = s /\ store' = store
      BY <1>2, <1>4 DEF SM!IgnoreIfInState
  <2>2. CASE Ignored(c, s) /\ SM!Return(t, "ignored")
      BY <1>1, <2>1, <2>2 DEF SM!Return, c, s
  <2>3. CASE ~Ignored(c, s) /\ SM!Goto(t, IF c \in SwitchCommands
                                          THEN "check_busy" ELSE "must_be_on")
    <3>1. c \in SwitchCommands => c \notin ObsCommands
        BY DEF SwitchCommands, ObsCommands
    <3>2. c \notin SwitchCommands => c \in ObsCommands
        BY <1>1, ServerAssumption
    <3> QED BY <1>1, <2>1, <2>3, <3>1, <3>2 DEF SM!Goto, c, s
  <2> QED BY <1>1, <1>4, <2>1, <2>2, <2>3, Tables DEF SM!IgnoreIfInState
<1>5. CASE SM!MustBeOn(t)
  <2>1. /\ pc[t] = "must_be_on" /\ store = s /\ store' = store
        /\ c \in ObsCommands /\ ~Ignored(c, s)
      BY <1>2, <1>5 DEF SM!MustBeOn
  <2>2. CASE store.state = "ON" /\ SM!Goto(t, "check_busy")
      BY <1>1, <2>1, <2>2 DEF SM!Goto, c, s
  <2>3. CASE store.state # "ON" /\ SM!Return(t, "not_allowed")
      BY <1>1, <2>1, <2>3 DEF SM!Return, Admitted, c, s
  <2> QED BY <1>5, <2>2, <2>3 DEF SM!MustBeOn
<1>6. CASE SM!CheckBusy(t)
  <2>1. lock = NoThread
    <3>1. \A u \in Threads : u # t => pc[u] = "idle"
        BY <1>2 DEF CallInv, Placed
    <3>2. \A u \in Threads : pc[u] \notin {"locked", "written", "signalled"}
        BY <1>6, <3>1 DEF SM!CheckBusy
    <3> QED BY <3>2 DEF LockInv
  <2>2. SM!Goto(t, "is_allowed") /\ pc[t] = "check_busy" /\ store' = store
      BY <1>6, <2>1 DEF SM!CheckBusy
  <2> QED BY <1>1, <1>2, <2>2 DEF SM!Goto, c, s
<1>7. CASE SM!IsAllowed(t)
  <2>1. /\ pc[t] = "is_allowed" /\ store = s /\ store' = store
        /\ ~Ignored(c, s) /\ (c \in ObsCommands => s.state = "ON")
      BY <1>2, <1>7 DEF SM!IsAllowed
  <2>2. CASE Allowed(c, s) /\ SM!Goto(t, "atomic")
      BY <1>1, <2>1, <2>2 DEF SM!Goto, Passes, c, s
  <2>3. CASE ~Allowed(c, s) /\ SM!Return(t, "not_allowed")
      BY <1>1, <2>1, <2>3 DEF SM!Return, Admitted, c, s
  <2> QED BY <1>1, <1>2, <1>7, <2>1, <2>2, <2>3, Tables DEF SM!IsAllowed
<1>8. CASE SM!Atomic(t) \/ SM!Acquire(t) \/ SM!Write(t) \/ SM!Signal(t)
    BY <1>1, <1>2, <1>8
       DEF SM!Atomic, SM!Acquire, SM!Write, SM!Signal, c, s
<1>9. CASE SM!Release(t)
    BY <1>1, <1>2, <1>9 DEF SM!Release, SM!Return, c, s
<1>10. CASE SM!SleepRaises(t) \/ SM!Rollback(t)
  <2>1. SM!SleepRaises(t)
      BY <1>10 DEF SM!Rollback, OwnedInv
  <2> QED BY <1>1, <1>2, <2>1 DEF SM!SleepRaises, c, s
<1> QED BY <1>1, <1>4, <1>5, <1>6, <1>7, <1>8, <1>9, <1>10 DEF SM!Step

\* It starts by finding out what the store holds, and nobody will change that.
LEMMA AloneStarts ==
    ASSUME IInv, NEW t \in Threads, NEW c \in CommandSet, SM!Call(t, c),
           command'[t] = c, before'[t] = store
    PROVE  AloneRuns(t, command[t], before[t])'
<1> USE DEF IInv, BaseInv, TypeOK, SM!TypeOK
<1>1. /\ pc'[t] = IF c = "configure" THEN "must_be_on" ELSE "ignore"
      /\ store' = store
    BY EntryPlace DEF SM!Call
<1>2. "configure" \in ObsCommands
    BY DEF ObsCommands
<1> QED BY <1>1, <1>2, EntriesTable DEF AloneRuns, InBody, Early

LEMMA AloneOpens ==
    ASSUME IInv, NEW t \in Threads, NEW c \in CommandSet, NEW e, NEW p,
           Open(t, c, e, p), alone'[t], store' = store,
           \/ p \in {"assert_ready", "raises"} /\ e # "foreground"
           \/ p = "running" /\ e = "foreground" /\ SM!Call(t, c)
    PROVE  Alone(t, command[t], before[t])'
<1> USE DEF IInv, BaseInv, TypeOK, SM!TypeOK
<1>1. /\ phase'[t] = p /\ endpoint'[t] = e /\ command'[t] = c
      /\ before'[t] = store
      /\ \A u \in Threads : phase[u] = "none"
      /\ \A u \in Threads : u # t => phase'[u] = "none"
  <2>1. store \in Store
      BY Tables
  <2>2. /\ before'[t] = store
        /\ \A u \in Threads : phase[u] = "none"
      BY <2>1, OpenHistory
  <2> QED BY <2>2 DEF Open
<1>2. HasEntry(store)
  <2>1. \A u \in Threads : ~SM!Midway(u)
      BY <1>1 DEF CallInv, Placed, SM!Midway, SM!Begun
  <2>2. store.obs_state \notin TransientObs /\ store \in Store
      BY <2>1, Tables DEF OwnedInv
  <2> QED BY <2>2, EntriesTable
<1>3. p = "running" => AloneRuns(t, command[t], before[t])'
    BY <1>1, AloneStarts
<1> QED BY <1>1, <1>2, <1>3 DEF Alone

LEMMA AloneStep ==
    ASSUME IInv, [Next]_vars PROVE AloneInv'
<1> SUFFICES ASSUME NEW t \in Threads, alone'[t]
             PROVE  Alone(t, command[t], before[t])'
    BY DEF AloneInv
<1> DEFINE c == command[t]
           s == before[t]
<1> USE DEF IInv, BaseInv
<1>1. CASE UNCHANGED vars
    BY <1>1 DEF vars, AloneInv, Alone, AloneRuns, InBody
<1>2. ASSUME NEW u \in Threads, Request(u) \/ RequestStep(u), u # t
      PROVE  FALSE
  <2>1. CASE Request(u)
      BY <1>2, <2>1 DEF Request, PostSwitchOnBody, Post, PostBackground, Open
  <2>2. CASE RequestStep(u)
    <3>1. phase[u] # "none"
      <4>1. CASE Run(u)
          BY <4>1, OwnStep DEF Run, CallInv, Placed
      <4> QED BY <2>2, <4>1
              DEF RequestStep, AssertReady, AssertMethodAllowed,
                  RaiseInEndpoint, RunTask, Finish, Close
    <3>2. alone[t]
        BY <1>2, <2>2
           DEF RequestStep, AssertReady, AssertMethodAllowed, RaiseInEndpoint,
               RunTask, Finish, Close, Run, requestVars, Answer, TypeOK
    <3> QED BY <1>2, <3>1, <3>2 DEF AloneInv, Alone
  <2> QED BY <1>2, <2>1, <2>2
<1>3. CASE Request(t)
  <2>1. CASE PostSwitchOnBody(t)
      BY <2>1, AloneOpens DEF PostSwitchOnBody, MachineUnchanged
  <2>2. ASSUME NEW d \in CommandSet, PostBackground(t, d)
        PROVE  Alone(t, command[t], before[t])'
      BY <2>2, AloneOpens DEF PostBackground, MachineUnchanged
  <2>3. ASSUME NEW d \in CommandSet, Post(t, d)
        PROVE  Alone(t, command[t], before[t])'
      BY <2>3, AloneOpens DEF Post, SM!Call
  <2> QED BY <1>3, <2>1, <2>2, <2>3 DEF Request
<1>4. CASE RequestStep(t)
  <2>1. CASE Close(t)
      BY <2>1 DEF Close, TypeOK
  <2>2. CASE RequestStep(t) /\ ~Close(t)
    <3>0. /\ alone[t] /\ Alone(t, c, s) /\ command'[t] = c /\ before'[t] = s
          /\ endpoint'[t] = endpoint[t]
      <4>1. alone[t] /\ command'[t] = c /\ before'[t] = s
            /\ endpoint'[t] = endpoint[t]
          BY <2>2 DEF RequestStep, AssertReady, AssertMethodAllowed, Answer,
                RaiseInEndpoint, RunTask, Finish, Run, requestVars, TypeOK
      <4> QED BY <4>1 DEF AloneInv
    <3>1. c \in CommandSet
        BY <3>0 DEF CallInv, Placed, Alone
    <3>2. \A u \in Threads : u # t => phase'[u] = "none"
        BY <1>4, <3>0, OtherRequests DEF Alone
    <3> HIDE DEF c, s
    <3>3. CASE AssertReady(t)
      <4>1. /\ phase'[t] \in {"done", "task", "assert_allowed"}
            /\ phase[t] = "assert_ready" /\ store' = store
            /\ phase'[t] = "done" => status'[t] = 405
            /\ phase'[t] = "task" => command[t] \in SwitchCommands
          BY <3>3 DEF AssertReady, Answer, MachineUnchanged, TypeOK
      <4>2. c \in SwitchCommands => c \notin ObsCommands
          BY DEF SwitchCommands, ObsCommands
      <4>3. endpoint[t] = "background"
          BY <4>1 DEF CallInv, Placed
      <4> QED BY <3>0, <3>2, <4>1, <4>2, <4>3 DEF Alone, c, s
    <3>4. CASE AssertMethodAllowed(t)
      <4>1. /\ phase'[t] \in {"done", "task"}
            /\ phase[t] = "assert_allowed" /\ store' = store
            /\ phase'[t] = "done" => status'[t] # 200
            /\ phase'[t] = "task" => Allowed(command[t], store)
          BY <3>4 DEF AssertMethodAllowed, Answer, MachineUnchanged, TypeOK
      <4>3. endpoint[t] = "background"
          BY <4>1 DEF CallInv, Placed
      <4> QED BY <3>0, <3>2, <4>1, <4>3 DEF Alone, c, s
    <3>5. CASE RaiseInEndpoint(t)
      <4>1. /\ phase'[t] = "done" /\ phase[t] = "raises" /\ status'[t] = 500
          BY <3>5 DEF RaiseInEndpoint, Answer, TypeOK
      <4>2. endpoint[t] # "foreground"
          BY <4>1 DEF CallInv, Placed
      <4> QED BY <3>0, <3>2, <4>1, <4>2 DEF Alone, c, s
    <3>6. CASE RunTask(t)
      <4>1. /\ phase'[t] = "running" /\ phase[t] = "task"
            /\ SM!Call(t, c)
          BY <3>6 DEF RunTask, TypeOK, c
      <4>2. store = s
          BY <3>0, <4>1 DEF Alone
      <4>3. AloneRuns(t, command[t], before[t])'
          BY <3>0, <3>1, <4>1, <4>2, AloneStarts
      <4> QED BY <3>0, <3>2, <4>1, <4>3 DEF Alone, c, s
    <3>7. CASE Run(t)
      <4>1. phase[t] = "running" /\ phase'[t] = phase[t]
          BY <3>7, OwnStep DEF CallInv, Placed, Run, requestVars
      <4>2. AloneRuns(t, command[t], before[t])'
          BY <3>0, <3>7, <4>1, AloneRunStep
      <4> QED BY <3>0, <3>2, <4>1, <4>2 DEF Alone, c, s
    <3>8. CASE Finish(t)
      <4>1. /\ phase[t] = "running" /\ phase'[t] = "done" /\ pc[t] = "idle"
            /\ result' = result /\ store' = store
            /\ endpoint[t] = "foreground" => status'[t] = StatusOf(result[t])
          BY <3>8 DEF Finish, Answer, MachineUnchanged, TypeOK
      <4>2. AloneRuns(t, c, s)
          BY <3>0, <4>1 DEF Alone
      <4>3. /\ StatusOf("ok") = 200 /\ StatusOf("ignored") = 200
            /\ StatusOf("not_allowed") = 405
          BY DEF StatusOf
      <4>4. endpoint[t] = "foreground" =>
              /\ status'[t] = IF Ignored(c, s) \/ Admitted(c, s) THEN 200 ELSE 405
              /\ store' # s => Admitted(c, s) /\ ~Ignored(c, s)
          BY <4>1, <4>2, <4>3, EntriesTable DEF AloneRuns
      <4>5. endpoint[t] = "background" /\ c \in ObsCommands =>
              result'[t] = IF s.state = "ON" THEN "ok" ELSE "not_allowed"
        <5> SUFFICES ASSUME endpoint[t] = "background", c \in ObsCommands
                     PROVE  result[t] = IF s.state = "ON" THEN "ok"
                                                          ELSE "not_allowed"
            BY <4>1
        <5>1. Allowed(c, s) /\ s \in Store
            BY <3>0, <4>1 DEF Alone, TypeOK, s
        <5>2. ~Ignored(c, s) /\ (Admitted(c, s) <=> s.state = "ON")
            BY <5>1, EntriesTable DEF Admitted
        <5> QED BY <4>1, <4>2, <5>2, EntriesTable DEF AloneRuns
      <4> QED BY <3>0, <3>2, <4>1, <4>4, <4>5 DEF Alone, c, s
    <3> QED BY <2>2, <3>3, <3>4, <3>5, <3>6, <3>7, <3>8 DEF RequestStep
  <2> QED BY <1>4, <2>1, <2>2
<1> QED BY <1>1, <1>2, <1>3, <1>4 DEF Next

-----------------------------------------------------------------------------
\* The theorems.

\* Every variable of the server keeps its type, also when delays raise.
THEOREM TypeCorrect == Spec => []TypeOK
<1>1. Init => BaseInv
    BY InitInv DEF IInv
<1>2. BaseInv /\ [Next]_vars => BaseInv'
    BY TypeStep, CallStep DEF BaseInv
<1>3. BaseInv => TypeOK
    BY DEF BaseInv
<1> QED BY <1>1, <1>2, <1>3, PTL DEF Spec

\* The invariant above is one while the delays are good.
THEOREM Invariance == ASSUME ~BadDelays PROVE Spec => []IInv
<1>1. IInv /\ [Next]_vars => IInv'
    BY TypeStep, CallStep, LockStep, OwnedStep, AloneStep DEF IInv, BaseInv
<1> QED BY <1>1, InitInv, PTL DEF Spec

\* A foreground request that no other one overlaps is answered by the state it
\* found, and changes the state only if its command is admitted there, whatever
\* the requests before it have left behind.
THEOREM AnsweredRight == ASSUME ~BadDelays PROVE Spec => []AloneIsAnsweredRight
<1>1. IInv => AloneIsAnsweredRight
    BY DEF IInv, AloneInv, Alone, AloneIsAnsweredRight
<1> QED BY <1>1, Invariance, PTL

\* A background command on obs_state that is accepted with no other request
\* about is carried out if the machine is on, and refused unseen if it is not.
THEOREM AcceptedIsCarriedOut ==
    ASSUME ~BadDelays PROVE Spec => []AcceptedAloneIsCarriedOut
<1>1. IInv => AcceptedAloneIsCarriedOut
    BY DEF IInv, AloneInv, Alone, AcceptedAloneIsCarriedOut
<1> QED BY <1>1, Invariance, PTL

=============================================================================
