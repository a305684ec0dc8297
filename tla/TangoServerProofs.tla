-------------------------- MODULE TangoServerProofs ---------------------------
(***************************************************************************)
(* Theorems about TangoServer, for any set of background threads, any      *)
(* number of commands and any capacity of the signal queue.                *)
(***************************************************************************)
EXTENDS TangoServer, SequenceTheorems, TLAPS

-----------------------------------------------------------------------------
\* The command table is the one of StateMachineProofs, with its lemmas.

SMP == INSTANCE StateMachineProofs

LEMMA SameTable ==
    /\ SMP!Steps = Steps /\ SMP!Operations = Operations
    /\ SMP!Store = Store /\ \A s, a : SMP!Updated(s, a) = Updated(s, a)
BY DEF SMP!Steps, Steps, SMP!Assign, Assign, SMP!Keep, Keep, SMP!None, None,
       SMP!Operations, Operations, SMP!SwitchCommands, SwitchCommands,
       SMP!ObsCommands, ObsCommands, SMP!Store, Store, SMP!States, States,
       SMP!ObsStates, ObsStates, SMP!Updated, Updated

LEMMA StepsLength == \A c \in Operations : Len(Steps[c]) \in 1..3
BY SMP!StepsLength, SameTable, DeviceAssumption DEF CommandSet, Operations

LEMMA StepBounds ==
    \A n \in 1..3 : /\ 1 \in 1..n
                    /\ \A i \in 1..n : i \in 0..3
                    /\ \A i \in 1..n : i # n => i + 1 \in 1..n /\ i + 1 \in 0..3
OBVIOUS

LEMMA UpdatedInStore ==
    ASSUME NEW c \in Operations, NEW s \in Store, NEW i \in 1..Len(Steps[c])
    PROVE  Updated(s, Steps[c][i]) \in Store
BY SMP!UpdatedInStore, SameTable, DeviceAssumption DEF CommandSet, Operations

LEMMA SwitchTable ==
    /\ Len(Steps["switch_on"]) = 2
    /\ Steps["switch_on"][1] = Assign("BUSY", Keep)
    /\ Steps["switch_on"][2] = Assign("ON", "EMPTY")
    /\ Len(Steps["switch_off"]) = 2
    /\ Steps["switch_off"][1] = Assign("BUSY", Keep)
    /\ Steps["switch_off"][2] = Assign("OFF", None)
    /\ Len(Steps["reset_state"]) = 1
    /\ Steps["reset_state"][1] = Assign(None, None)
BY DEF Steps

-----------------------------------------------------------------------------
\* The inductive invariant.

\* A thread in a call has a command and a step of it.
CallInv ==
    \A t \in Threads :
        pc[t] # "idle" => /\ op[t] \in CommandSet
                          /\ step[t] \in 1..Len(Steps[op[t]])

\* The lock is held by the one thread that is in an update.
LockInv ==
    \A t \in Threads : pc[t] \in {"locked", "written", "signalled"} <=> lock = t

\* Unless a rollback has come between, what a thread has written is in the
\* store until it releases the lock, and is what it will announce.
HeldInv ==
    ~undone => \A t \in Threads :
        /\ pc[t] = "written" => local[t] = store
        /\ pc[t] \in {"written", "signalled"} /\ step[t] = Len(Steps[op[t]]) =>
              store.state = Target[op[t]]

\* What a subscribed client will have seen when the queue is drained; before
\* there is one, what it would have.
Announced == IF signals = << >> THEN IF seen = Nothing THEN store.state ELSE seen
                                ELSE signals[Len(signals)]

\* The queue ends with the stored state, unless it is about to be announced.
QueueInv ==
    ~undone => \/ Announced = store.state
               \/ \E t \in Threads : pc[t] = "written"

IInv == TypeOK /\ CallInv /\ LockInv /\ HeldInv /\ QueueInv

-----------------------------------------------------------------------------
\* The state machine's tables and values are the ones of Commands.

LEMMA Tables ==
    /\ SM!Steps = Steps /\ SM!Cleared = Cleared
    /\ \A s, a : SM!Updated(s, a) = Updated(s, a)
    /\ \A c, s : SM!Ignored(c, s) = Ignored(c, s)
    /\ SM!Store = Store /\ SM!Operations = Operations
BY DEF SM!Steps, Steps, SM!Assign, Assign, SM!Keep, Keep, SM!None, None,
       SM!Cleared, Cleared, SM!Updated, Updated, SM!Ignored, Ignored,
       SM!SwitchCommands, SwitchCommands, SM!ObsCommands, ObsCommands,
       SM!Operations, Operations, SM!Store, Store, SM!States, States,
       SM!ObsStates, ObsStates

LEMMA Values ==
    /\ Cleared \in Store /\ \A s \in Store : s.state \in States
    /\ CommandSet \subseteq Operations /\ "none" \notin CommandSet
    /\ Device \in Threads
BY DEF Cleared, Store, States, ObsStates, None, CommandSet, Operations,
       SwitchCommands, Threads

\* The machine's types, over the values of Commands.
MachineTypes ==
    /\ store \in Store /\ lock \in Threads \cup {NoThread} /\ signalled \in Store
    /\ pc \in [Threads -> SM!Locations]
    /\ op \in [Threads -> Operations \cup {"none"}]
    /\ step \in [Threads -> 0..3]
    /\ original \in [Threads -> Store] /\ local \in [Threads -> Store]
    /\ result \in [Threads -> SM!Outcomes]

LEMMA Types == SM!TypeOK <=> MachineTypes
BY Tables DEF SM!TypeOK, MachineTypes

LEMMA TypesNext == SM!TypeOK' <=> MachineTypes'
BY Tables DEF SM!TypeOK, MachineTypes

LEMMA InitInv == Init => IInv
<1> SUFFICES ASSUME Init PROVE IInv
    OBVIOUS
<1> USE DeviceAssumption DEF Init, SM!Init
<1>0. SM!Cleared = Cleared /\ Cleared \in Store
    BY Tables, Values
<1>1. TypeOK
  <2>1. SM!TypeOK
    <3>1. /\ pc \in [Threads -> SM!Locations]
          /\ result \in [Threads -> SM!Outcomes]
        BY DEF SM!Locations, SM!Outcomes
    <3>2. MachineTypes
        BY <1>0, <3>1 DEF MachineTypes
    <3> QED BY <3>2, Types
  <2>2. signals \in Seq(States) /\ Len(signals) = 0
      OBVIOUS
  <2>3. 0 <= MaxBacklog /\ 0 \in 0..MaxCommands
      OBVIOUS
  <2> HIDE DEF SM!Init
  <2> QED BY <2>1, <2>2, <2>3 DEF TypeOK
<1>2. CallInv /\ LockInv
    BY DEF CallInv, LockInv
<1>3. HeldInv /\ QueueInv
    BY DEF HeldInv, QueueInv, Announced
<1> QED BY <1>1, <1>2, <1>3 DEF IInv

-----------------------------------------------------------------------------
\* The steps of a command, the decorators taken together.

Early == {"ignore", "must_be_on", "check_busy", "is_allowed", "atomic"}

Decorator(t) ==
    /\ pc[t] \in Early
    /\ UNCHANGED <<store, lock, signalled>>
    /\ \/ \E l \in Early : SM!Goto(t, l)
       \/ \E r \in SM!Outcomes \ {"ok", "ignored"} : SM!Return(t, r)
       \/ Ignored(op[t], store) /\ SM!Return(t, "ignored")

LEMMA MachineSteps ==
    ASSUME NEW t \in Threads, SM!Step(t)
    PROVE  \/ Decorator(t) \/ SM!Atomic(t) \/ SM!Acquire(t) \/ SM!Write(t)
           \/ SM!Signal(t) \/ SM!Release(t) \/ SM!SleepRaises(t)
           \/ SM!Rollback(t)
<1>1. \/ SM!IgnoreIfInState(t) \/ SM!MustBeOn(t) \/ SM!CheckBusy(t)
      \/ SM!IsAllowed(t)
      => Decorator(t)
    BY Tables DEF SM!IgnoreIfInState, SM!MustBeOn, SM!CheckBusy, SM!IsAllowed,
                  Decorator, Early, SM!Outcomes
<1> QED BY <1>1 DEF SM!Step

\* A thread's step, or its call, leaves every other thread where it was.
LEMMA OthersKeep ==
    ASSUME TypeOK, NEW t \in Threads, NEW c, SM!Step(t) \/ SM!Call(t, c),
           NEW u \in Threads, u # t
    PROVE  /\ pc'[u] = pc[u] /\ op'[u] = op[u] /\ step'[u] = step[u]
           /\ local'[u] = local[u] /\ result'[u] = result[u]
<1> USE DEF TypeOK, SM!TypeOK
<1>1. CASE SM!Call(t, c)
    BY <1>1 DEF SM!Call
<1>2. CASE Decorator(t)
    BY <1>2 DEF Decorator, SM!Goto, SM!Return
<1>3. CASE SM!Atomic(t) \/ SM!Acquire(t) \/ SM!Write(t) \/ SM!Signal(t)
    BY <1>3 DEF SM!Atomic, SM!Acquire, SM!Write, SM!Signal
<1>4. CASE SM!Release(t) \/ SM!SleepRaises(t) \/ SM!Rollback(t)
    BY <1>4 DEF SM!Release, SM!SleepRaises, SM!Rollback, SM!Return
<1> QED BY <1>1, <1>2, <1>3, <1>4, MachineSteps

\* Which thread a command is given to.
LEMMA CommandCalls ==
    ASSUME NEW c \in CommandSet, NEW e, NEW d, Command(c, e, d)
    PROVE  \E t \in Threads : SM!Call(t, c)
BY DEF Command, Threads

\* What the update of a command leaves; the last one leaves its target.
LEMMA WriteInStore ==
    ASSUME TypeOK, CallInv, NEW t \in Threads, SM!Write(t)
    PROVE  /\ op[t] \in CommandSet /\ step[t] \in 1..Len(Steps[op[t]])
           /\ store' = Updated(local[t], Steps[op[t]][step[t]])
           /\ store' \in Store /\ local'[t] = store'
           /\ step[t] = Len(Steps[op[t]]) => store'.state = Target[op[t]]
<1>1. op[t] \in CommandSet /\ step[t] \in 1..Len(Steps[op[t]])
    BY DEF SM!Write, CallInv
<1>2. local[t] \in Store
    BY Tables DEF TypeOK, SM!TypeOK
<1>3. store' = Updated(local[t], Steps[op[t]][step[t]]) /\ local'[t] = store'
    BY Tables DEF SM!Write, TypeOK, SM!TypeOK
<1>4. store' \in Store
    BY <1>1, <1>2, <1>3, Values, UpdatedInStore
<1>5. ASSUME step[t] = Len(Steps[op[t]]) PROVE store'.state = Target[op[t]]
  <2>1. CASE op[t] = "switch_on"
      BY <1>3, <1>5, <2>1, SwitchTable DEF Updated, Assign, Keep, Target
  <2>2. CASE op[t] = "switch_off"
      BY <1>3, <1>5, <2>2, SwitchTable DEF Updated, Assign, Keep, Target
  <2> QED BY <1>1, <2>1, <2>2 DEF CommandSet, SwitchCommands
<1> QED BY <1>1, <1>3, <1>4, <1>5

LEMMA NextUpdate ==
    ASSUME TypeOK, CallInv, NEW t \in Threads, pc[t] # "idle", ~SM!LastStep(t)
    PROVE  step[t] + 1 \in 1..Len(Steps[op[t]]) /\ step[t] + 1 \in 0..3
<1>1. op[t] \in Operations /\ step[t] \in 1..Len(Steps[op[t]])
    BY Values DEF CallInv
<1>2. step[t] # Len(Steps[op[t]])
    BY Tables DEF SM!LastStep
<1> QED BY <1>1, <1>2, StepsLength, StepBounds, Zenon

-----------------------------------------------------------------------------
\* Type correctness, with a thread's place in its command.

LEMMA MachineTypeStep ==
    ASSUME TypeOK, CallInv, NEW t \in Threads, SM!Step(t)
    PROVE  SM!TypeOK'
<1> SUFFICES MachineTypes'
    BY TypesNext
<1>0. MachineTypes /\ SM!Cleared = Cleared /\ Cleared \in Store
    BY Tables, Types, Values DEF TypeOK
<1> USE <1>0 DEF MachineTypes
<1>1. CASE Decorator(t)
  <2>1. CASE \E l \in Early : SM!Goto(t, l)
      BY <1>1, <2>1 DEF Decorator, SM!Goto, Early, SM!Locations
  <2>2. CASE \E r \in SM!Outcomes : SM!Return(t, r)
      BY <1>1, <2>2 DEF Decorator, SM!Return, SM!Locations
  <2>3. "ignored" \in SM!Outcomes
      BY DEF SM!Outcomes
  <2> QED BY <1>1, <2>1, <2>2, <2>3 DEF Decorator
<1>2. CASE SM!Atomic(t) \/ SM!Acquire(t)
    BY <1>2 DEF SM!Atomic, SM!Acquire, SM!Locations
<1>3. CASE SM!Write(t)
    BY <1>3, WriteInStore DEF SM!Write, SM!Locations
<1>4. CASE SM!Signal(t) \/ SM!SleepRaises(t)
    BY <1>4 DEF SM!Signal, SM!SleepRaises, SM!Locations
<1>5. CASE SM!Release(t) /\ SM!LastStep(t)
    BY <1>5 DEF SM!Release, SM!Return, SM!Locations, SM!Outcomes
<1>6. CASE SM!Release(t) /\ ~SM!LastStep(t)
  <2>1. step' = [step EXCEPT ![t] = step[t] + 1]
      BY <1>6 DEF SM!Release
  <2>2. step' \in [Threads -> 0..3]
      BY <1>6, <2>1, NextUpdate DEF SM!Release
  <2> QED BY <1>6, <2>2 DEF SM!Release, SM!Locations
<1>7. CASE SM!Rollback(t)
    BY <1>7 DEF SM!Rollback, SM!Return, SM!Locations, SM!Outcomes
<1> QED BY <1>1, <1>2, <1>3, <1>4, <1>5, <1>6, <1>7, MachineSteps

LEMMA TypeStep ==
    ASSUME TypeOK, CallInv, [Next]_vars PROVE TypeOK'
<1> USE DeviceAssumption, Values
<1>1. CASE UNCHANGED vars
    BY <1>1 DEF vars, TypeOK, SM!TypeOK
<1>2. ASSUME NEW c \in CommandSet, NEW e, NEW d, Command(c, e, d) PROVE TypeOK'
  <2>1. PICK t \in Threads : SM!Call(t, c)
      BY <1>2, CommandCalls
  <2>2. SM!Entry(c) \in SM!Locations
      BY DEF SM!Entry, SM!Locations
  <2>3. SM!TypeOK'
      BY <2>1, <2>2, Tables DEF SM!Call, TypeOK, SM!TypeOK, SM!Outcomes
  <2> QED BY <1>2, <2>3 DEF Command, TypeOK
<1>3. ASSUME NEW t \in Threads, RunCommand(t) PROVE TypeOK'
  <2>1. SM!TypeOK'
      BY <1>3, MachineTypeStep DEF RunCommand
  <2>2. local[t].state \in States
      BY Tables DEF TypeOK, SM!TypeOK
  <2>3. signals' \in Seq(States) /\ Len(signals') <= MaxBacklog
      BY <1>3, <2>2 DEF RunCommand, TypeOK
  <2>4. undone' \in BOOLEAN
      BY <1>3 DEF RunCommand, TypeOK
  <2> QED BY <1>3, <2>1, <2>3, <2>4 DEF RunCommand, TypeOK
<1>4. CASE Subscribe
    BY <1>4, Tables DEF Subscribe, TypeOK, SM!TypeOK
<1>5. CASE Publish
    BY <1>5 DEF Publish, TypeOK, SM!TypeOK
<1> QED BY <1>1, <1>2, <1>3, <1>4, <1>5
        DEF Next, RunDevice, RunBackground, Threads

LEMMA CallStep ==
    ASSUME TypeOK, CallInv, [Next]_vars PROVE CallInv'
<1> SUFFICES ASSUME NEW u \in Threads, pc'[u] # "idle"
             PROVE  /\ op'[u] \in CommandSet
                    /\ step'[u] \in 1..Len(Steps[op'[u]])
    BY DEF CallInv
<1> USE Values
<1>1. CASE UNCHANGED <<pc, op, step>>
    BY <1>1 DEF CallInv
<1>2. ASSUME NEW t \in Threads, NEW c \in CommandSet, SM!Call(t, c)
      PROVE  /\ op'[u] \in CommandSet
             /\ step'[u] \in 1..Len(Steps[op'[u]])
  <2>1. CASE u = t
    <3>1. op'[u] = c /\ step'[u] = 1
        BY <1>2, <2>1 DEF SM!Call, TypeOK, SM!TypeOK
    <3>2. Len(Steps[c]) \in 1..3
        BY StepsLength
    <3> QED BY <3>1, <3>2, StepBounds, Zenon
  <2>2. CASE u # t
      BY <1>2, <2>2, OthersKeep DEF CallInv
  <2> QED BY <2>1, <2>2
<1>3. ASSUME NEW t \in Threads, SM!Step(t)
      PROVE  /\ op'[u] \in CommandSet
             /\ step'[u] \in 1..Len(Steps[op'[u]])
  <2>1. CASE u = t
    <3>1. pc[t] # "idle"
        BY <1>3, MachineSteps
           DEF Decorator, Early, SM!Atomic, SM!Acquire, SM!Write, SM!Signal,
               SM!Release, SM!SleepRaises, SM!Rollback
    <3>2. op'[t] = op[t]
      <4>1. CASE Decorator(t)
          BY <1>1, <2>1, <4>1 DEF Decorator, SM!Goto, SM!Return, TypeOK, SM!TypeOK
      <4>2. CASE SM!Atomic(t) \/ SM!Acquire(t) \/ SM!Write(t) \/ SM!Signal(t)
          BY <4>2 DEF SM!Atomic, SM!Acquire, SM!Write, SM!Signal
      <4>3. CASE SM!Release(t) \/ SM!SleepRaises(t) \/ SM!Rollback(t)
          BY <2>1, <4>3 DEF SM!Release, SM!SleepRaises, SM!Rollback, SM!Return,
                           TypeOK, SM!TypeOK
      <4> QED BY <1>3, <4>1, <4>2, <4>3, MachineSteps
    <3>3. step'[t] = step[t] \/ (~SM!LastStep(t) /\ step'[t] = step[t] + 1)
      <4>1. CASE Decorator(t)
          BY <2>1, <4>1 DEF Decorator, SM!Goto, SM!Return, TypeOK, SM!TypeOK
      <4>2. CASE SM!Atomic(t) \/ SM!Acquire(t) \/ SM!Write(t) \/ SM!Signal(t)
          BY <4>2 DEF SM!Atomic, SM!Acquire, SM!Write, SM!Signal
      <4>3. CASE SM!Release(t) \/ SM!SleepRaises(t) \/ SM!Rollback(t)
          BY <2>1, <4>3 DEF SM!Release, SM!SleepRaises, SM!Rollback, SM!Return,
                           TypeOK, SM!TypeOK
      <4> QED BY <1>3, <4>1, <4>2, <4>3, MachineSteps
    <3>4. op[t] \in CommandSet /\ step[t] \in 1..Len(Steps[op[t]])
        BY <3>1 DEF CallInv
    <3> QED BY <2>1, <3>1, <3>2, <3>3, <3>4, NextUpdate
  <2>2. CASE u # t
      BY <1>3, <2>2, OthersKeep DEF CallInv
  <2> QED BY <2>1, <2>2
<1>4. CASE Next
    BY <1>1, <1>2, <1>3, <1>4, CommandCalls
       DEF Next, RunDevice, RunBackground, RunCommand, Subscribe, Publish,
           Threads
<1> QED BY <1>1, <1>4 DEF vars

-----------------------------------------------------------------------------
\* The lock.

LEMMA LockStep ==
    ASSUME TypeOK, LockInv, [Next]_vars PROVE LockInv'
<1> USE DeviceAssumption DEF TypeOK, SM!TypeOK, LockInv
<1>1. CASE UNCHANGED <<pc, lock>>
    BY <1>1
<1>2. ASSUME NEW t \in Threads, NEW c \in CommandSet, SM!Call(t, c)
      PROVE  LockInv'
  <2>1. SM!Entry(c) \notin {"locked", "written", "signalled"}
      BY DEF SM!Entry
  <2> QED BY <1>2, <2>1 DEF SM!Call
<1>3. ASSUME NEW t \in Threads, SM!Step(t) PROVE LockInv'
  <2>1. CASE Decorator(t)
      BY <2>1 DEF Decorator, Early, SM!Goto, SM!Return
  <2>2. CASE SM!Atomic(t) \/ SM!Acquire(t) \/ SM!Write(t) \/ SM!Signal(t)
      BY <2>2 DEF SM!Atomic, SM!Acquire, SM!Write, SM!Signal
  <2>3. CASE SM!Release(t)
      BY <2>3 DEF SM!Release, SM!Return
  <2>4. CASE SM!SleepRaises(t) \/ SM!Rollback(t)
      BY <2>4 DEF SM!SleepRaises, SM!Rollback, SM!Return
  <2> QED BY <1>3, <2>1, <2>2, <2>3, <2>4, MachineSteps
<1>4. CASE Next
    BY <1>1, <1>2, <1>3, <1>4, CommandCalls
       DEF Next, RunDevice, RunBackground, RunCommand, Subscribe, Publish,
           Threads
<1> QED BY <1>1, <1>4 DEF vars

-----------------------------------------------------------------------------
\* What is written stays until the lock is released, rollbacks apart.

LEMMA HeldStep ==
    ASSUME TypeOK, CallInv, LockInv, HeldInv, [Next]_vars PROVE HeldInv'
<1> SUFFICES ASSUME ~undone', NEW u \in Threads
             PROVE  /\ pc'[u] = "written" => local'[u] = store'
                    /\ /\ pc'[u] \in {"written", "signalled"}
                       /\ step'[u] = Len(Steps[op'[u]])
                       => store'.state = Target[op'[u]]
    BY DEF HeldInv
<1> DEFINE Goal == /\ pc'[u] = "written" => local'[u] = store'
                   /\ /\ pc'[u] \in {"written", "signalled"}
                      /\ step'[u] = Len(Steps[op'[u]])
                      => store'.state = Target[op'[u]]
<1> USE DeviceAssumption DEF TypeOK, SM!TypeOK
<1>1. ASSUME pc'[u] = pc[u], op'[u] = op[u], step'[u] = step[u],
             local'[u] = local[u], store' = store, undone' = undone
      PROVE  Goal
    BY <1>1 DEF HeldInv
<1>2. ASSUME NEW t \in Threads, NEW c \in CommandSet, SM!Call(t, c),
             undone' = undone
      PROVE  Goal
  <2>1. SM!Entry(c) \notin {"written", "signalled"}
      BY DEF SM!Entry
  <2>2. store' = store
      BY <1>2 DEF SM!Call
  <2>3. CASE u = t
      BY <1>2, <2>1, <2>3 DEF SM!Call
  <2>4. CASE u # t
      BY <1>1, <1>2, <2>2, <2>4, OthersKeep
  <2> QED BY <2>3, <2>4
<1>3. ASSUME NEW t \in Threads, RunCommand(t) PROVE Goal
  <2>1. CASE SM!Write(t)
    <3>1. CASE u = t
        BY <2>1, <3>1, WriteInStore DEF SM!Write
    <3>2. CASE u # t
      <4>1. pc[u] \notin {"written", "signalled"}
          BY <2>1, <3>2 DEF LockInv, SM!Write
      <4> QED BY <1>3, <3>2, <4>1, OthersKeep DEF RunCommand
    <3> QED BY <3>1, <3>2
  <2>2. CASE SM!Signal(t) \/ SM!Atomic(t) \/ SM!Acquire(t) \/ SM!SleepRaises(t)
    <3>1. store' = store /\ ~undone
        BY <1>3, <2>2 DEF RunCommand, SM!Signal, SM!Atomic, SM!Acquire,
                          SM!SleepRaises
    <3>2. CASE u = t
        BY <2>2, <3>1, <3>2 DEF HeldInv, SM!Signal, SM!Atomic, SM!Acquire,
                                SM!SleepRaises
    <3>3. CASE u # t
      <4>1. /\ pc'[u] = pc[u] /\ op'[u] = op[u] /\ step'[u] = step[u]
            /\ local'[u] = local[u]
          BY <1>3, <3>3, OthersKeep DEF RunCommand
      <4> QED BY <3>1, <4>1 DEF HeldInv
    <3> QED BY <3>2, <3>3
  <2>3. CASE SM!Release(t) \/ Decorator(t)
    <3>1. /\ store' = store /\ ~undone
          /\ pc'[t] \in Early \cup {"idle", "acquire"}
        BY <1>3, <2>3 DEF RunCommand, SM!Release, SM!Return, Decorator, Early,
                          SM!Goto
    <3>2. CASE u = t
        BY <3>1, <3>2 DEF Early
    <3>3. CASE u # t
      <4>1. /\ pc'[u] = pc[u] /\ op'[u] = op[u] /\ step'[u] = step[u]
            /\ local'[u] = local[u]
          BY <1>3, <3>3, OthersKeep DEF RunCommand
      <4> QED BY <3>1, <4>1 DEF HeldInv
    <3> QED BY <3>2, <3>3
  <2>4. CASE SM!Rollback(t)
    <3>1. pc[t] = "rollback" /\ pc'[t] # "written"
        BY <2>4 DEF SM!Rollback, SM!Return
    <3>2. undone' = TRUE
        BY <1>3, <3>1 DEF RunCommand
    <3> QED BY <3>2
  <2> QED BY <1>3, <2>1, <2>2, <2>3, <2>4, MachineSteps DEF RunCommand
<1>4. CASE Next
    BY <1>1, <1>2, <1>3, <1>4, CommandCalls
       DEF Next, Command, RunDevice, RunBackground, Subscribe, Publish, Threads
<1> QED BY <1>1, <1>4 DEF vars

-----------------------------------------------------------------------------
\* The queue ends with the stored state.

LEMMA QueueStep ==
    ASSUME TypeOK, CallInv, LockInv, HeldInv, QueueInv, [Next]_vars
    PROVE  QueueInv'
<1> SUFFICES ASSUME ~undone'
             PROVE  \/ Announced' = store'.state
                    \/ \E t \in Threads : pc'[t] = "written"
    BY DEF QueueInv
<1> DEFINE Goal == \/ Announced' = store'.state
                   \/ \E t \in Threads : pc'[t] = "written"
<1> USE DeviceAssumption DEF TypeOK, SM!TypeOK
<1>1. ASSUME UNCHANGED <<store, pc, signals, seen, undone>> PROVE Goal
    BY <1>1 DEF QueueInv, Announced
<1>2. ASSUME NEW t \in Threads, NEW c \in CommandSet, SM!Call(t, c),
             UNCHANGED <<signals, seen, undone>>
      PROVE  Goal
  <2>1. store' = store /\ pc[t] = "idle"
      BY <1>2 DEF SM!Call
  <2>2. CASE Announced = store.state
      BY <1>2, <2>1, <2>2 DEF Announced
  <2>3. CASE \E u \in Threads : pc[u] = "written"
      BY <1>2, <2>1, <2>3, OthersKeep
  <2> QED BY <1>2, <2>2, <2>3 DEF QueueInv
<1>3. ASSUME NEW t \in Threads, RunCommand(t) PROVE Goal
  <2>1. CASE SM!Write(t)
      BY <2>1 DEF SM!Write
  <2>2. CASE SM!Signal(t)
    <3>1. ~undone /\ pc[t] = "written" /\ store' = store
        BY <1>3, <2>2 DEF RunCommand, SM!Signal
    <3>2. signals' = Append(signals, store.state)
        BY <1>3, <3>1 DEF RunCommand, HeldInv
    <3>3. signals' # << >> /\ signals'[Len(signals')] = store.state
        BY <3>2
    <3> QED BY <3>1, <3>3 DEF Announced
  <2>3. CASE \/ SM!Atomic(t) \/ SM!Acquire(t) \/ SM!SleepRaises(t)
             \/ SM!Release(t) \/ Decorator(t)
    <3>0. /\ pc[t] \notin {"written", "rollback"} /\ pc'[t] # "written"
          /\ store' = store
        BY <2>3 DEF SM!Atomic, SM!Acquire, SM!SleepRaises, SM!Release, Decorator,
                    Early, SM!Goto, SM!Return
    <3>1. /\ store' = store /\ ~undone /\ signals' = signals /\ seen' = seen
          /\ pc[t] # "written"
        BY <1>3, <3>0 DEF RunCommand
    <3>2. CASE Announced = store.state
        BY <3>1, <3>2 DEF Announced
    <3>3. CASE \E u \in Threads : pc[u] = "written"
        BY <1>3, <3>1, <3>3, OthersKeep DEF RunCommand
    <3> QED BY <3>1, <3>2, <3>3 DEF QueueInv
  <2>4. CASE SM!Rollback(t)
    <3>1. pc[t] = "rollback" /\ pc'[t] # "written"
        BY <2>4 DEF SM!Rollback, SM!Return
    <3>2. undone' = TRUE
        BY <1>3, <3>1 DEF RunCommand
    <3> QED BY <3>2
  <2> QED BY <1>3, <2>1, <2>2, <2>3, <2>4, MachineSteps DEF RunCommand
<1>4. CASE Subscribe
    BY <1>4, Tables, Values DEF Subscribe, QueueInv, Announced, Nothing
<1>5. CASE Publish
  <2>1. /\ signals # << >> /\ signals' = Tail(signals)
        /\ UNCHANGED <<store, pc, undone>>
      BY <1>5 DEF Publish
  <2>2. CASE \E u \in Threads : pc[u] = "written"
      BY <2>1, <2>2
  <2>3. CASE signals[Len(signals)] = store.state /\ Len(signals) = 1
    <3>1. signals' = << >> /\ Head(signals) = store.state
        BY <2>1, <2>3
    <3> QED BY <1>5, <2>1, <3>1 DEF Publish, Announced
  <2>4. CASE signals[Len(signals)] = store.state /\ Len(signals) # 1
    <3>1. /\ Len(Tail(signals)) = Len(signals) - 1
          /\ \A i \in 1..Len(Tail(signals)) : Tail(signals)[i] = signals[i + 1]
        BY <2>1, HeadTailProperties, Zenon DEF TypeOK
    <3>2. /\ Len(signals) \in Nat /\ Len(signals) > 1
          /\ Len(signals) - 1 # 0
      <4>0. signals \in Seq(States)
          OBVIOUS
      <4>1. Len(signals) \in Nat \ {0}
          BY <2>1, <4>0, EmptySeq
      <4>2. \A n \in Nat \ {0} : n # 1 => n \in Nat /\ n > 1 /\ n - 1 # 0
          OBVIOUS
      <4> QED BY <2>4, <4>1, <4>2, Zenon
    <3>3. /\ Len(signals') = Len(signals) - 1 /\ signals' # << >>
          /\ signals'[Len(signals')] = signals[Len(signals)]
      <4> DEFINE n == Len(signals)
      <4>1. n - 1 \in 1..(n - 1) /\ (n - 1) + 1 = n
          BY <3>2
      <4>2. Len(signals') = n - 1
          BY <2>1, <3>1
      <4>3. signals'[n - 1] = signals[n]
          BY <2>1, <3>1, <4>1, Zenon
      <4>5. signals' # << >>
        <5>1. Len(<< >>) = 0
            BY EmptySeq
        <5> QED BY <3>2, <4>2, <5>1, Zenon
      <4> QED BY <4>2, <4>3, <4>5, Zenon
    <3> QED BY <2>1, <2>4, <3>3 DEF Announced
  <2> QED BY <2>1, <2>2, <2>3, <2>4 DEF QueueInv, Announced
<1>6. CASE Next
    BY <1>2, <1>3, <1>4, <1>5, <1>6, CommandCalls
       DEF Next, Command, RunDevice, RunBackground, Threads
<1> QED BY <1>1, <1>6 DEF vars

-----------------------------------------------------------------------------
\* The theorems.

\* The invariant above is one: whatever commands overlap, in the foreground or
\* in the background, and whenever clients subscribe.
THEOREM Invariance == Spec => []IInv
<1>1. IInv /\ [Next]_vars => IInv'
    BY TypeStep, CallStep, LockStep, HeldStep, QueueStep DEF IInv
<1> QED BY <1>1, InitInv, PTL DEF Spec

\* Every variable of the device keeps its type, and the queue its capacity.
THEOREM TypeCorrect == Spec => []TypeOK
<1>1. IInv => TypeOK
    BY DEF IInv
<1> QED BY <1>1, Invariance, PTL

\* A subscribed client has been told the stored state once everything has come
\* to rest, unless a rollback was the last to change it.
THEOREM ClientIsCurrent == Spec => []ClientCurrent
<1>1. IInv => ClientCurrent
    BY DEF IInv, ClientCurrent, AtRest, QueueInv, Announced
<1> QED BY <1>1, Invariance, PTL

\* A foreground command answered without an error has brought the machine to
\* its target or found it there, whatever runs in the background.
THEOREM AnswersAreTrue == Spec => AnsweredIsDone
<1> DEFINE Done == pc[Device] # "idle" /\ pc'[Device] = "idle"
                     /\ result'[Device] \in {"ok", "ignored"} /\ ~undone
                   => store'.state = Target[op[Device]]
<1>1. ASSUME IInv, [Next]_vars PROVE [Done]_vars
  <2> SUFFICES ASSUME pc[Device] # "idle", pc'[Device] = "idle", ~undone,
                      result'[Device] \in {"ok", "ignored"}
               PROVE  store'.state = Target[op[Device]]
      OBVIOUS
  <2> USE Values DEF IInv, TypeOK, SM!TypeOK
  <2>1. PICK t \in Threads : SM!Step(t)
    <3>1. ~ UNCHANGED pc
        OBVIOUS
    <3>2. ASSUME NEW c \in CommandSet, NEW e, NEW d, Command(c, e, d)
          PROVE  FALSE
      <4>1. PICK t \in Threads : SM!Call(t, c)
          BY <3>2, CommandCalls
      <4>2. SM!Entry(c) # "idle"
          BY DEF SM!Entry
      <4> QED BY <4>1, <4>2 DEF SM!Call
    <3> QED BY <1>1, <3>1, <3>2
            DEF vars, Next, RunDevice, RunBackground, RunCommand, Subscribe,
                Publish, Threads
  <2>2. t = Device
      BY <1>1, <2>1, OthersKeep
  <2>3. op[Device] \in CommandSet
      BY <1>1 DEF CallInv
  <2>4. CASE Decorator(t)
    <3>1. Ignored(op[t], store) /\ store' = store
        BY <1>1, <2>2, <2>4 DEF Decorator, Early, SM!Goto, SM!Return
    <3> QED BY <2>2, <2>3, <3>1
            DEF Ignored, Target, CommandSet, SwitchCommands
  <2>5. CASE SM!Release(t)
    <3>1. SM!LastStep(t) /\ pc[t] = "signalled" /\ store' = store
        BY <1>1, <2>2, <2>5 DEF SM!Release
    <3>2. step[t] = Len(Steps[op[t]])
        BY <3>1, Tables DEF SM!LastStep
    <3> QED BY <1>1, <2>2, <3>1, <3>2 DEF HeldInv
  <2>6. CASE SM!Rollback(t)
      BY <1>1, <2>2, <2>6 DEF SM!Rollback, SM!Return
  <2>7. CASE \/ SM!Atomic(t) \/ SM!Acquire(t) \/ SM!Write(t) \/ SM!Signal(t)
             \/ SM!SleepRaises(t)
      BY <1>1, <2>2, <2>7 DEF SM!Atomic, SM!Acquire, SM!Write, SM!Signal,
                              SM!SleepRaises
  <2> QED BY <2>1, <2>4, <2>5, <2>6, <2>7, MachineSteps
<1> QED BY <1>1, Invariance, PTL DEF Spec, AnsweredIsDone

=============================================================================
