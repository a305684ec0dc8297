-------------------------- MODULE RedisBackendProofs --------------------------
(***************************************************************************)
(* Theorems about RedisBackend, for any set of replicas, of commands and   *)
(* of state servers, and any number of faults.                             *)
(***************************************************************************)
EXTENDS RedisBackend, FiniteSetTheorems, TLAPS

-----------------------------------------------------------------------------
\* The command table is the one of StateMachineProofs, with its lemmas.

SMP == INSTANCE StateMachineProofs

LEMMA SameTable ==
    /\ SMP!Steps = Steps /\ SMP!Operations = Operations
    /\ SMP!Store = Store /\ \A s, a : SMP!Updated(s, a) = Updated(s, a)
    /\ SMP!SwitchCommands = SwitchCommands /\ SMP!ObsCommands = ObsCommands
BY DEF SMP!Steps, Steps, SMP!Assign, Assign, SMP!Keep, Keep, SMP!None, None,
       SMP!Operations, Operations, SMP!SwitchCommands, SwitchCommands,
       SMP!ObsCommands, ObsCommands, SMP!Store, Store, SMP!States, States,
       SMP!ObsStates, ObsStates, SMP!Updated, Updated

TransientObs == {"BUSY", "RESOURCING", "CONFIGURING", "SCANNING"}

\* The rest of a command's updates, from the i-th one on.
From(c, i) == SubSeq(Steps[c], i, Len(Steps[c]))

LEMMA StepsLength == \A c \in Operations : Len(Steps[c]) \in 1..3
BY SMP!StepsLength, SameTable, RedisAssumption

LEMMA StepBounds ==
    \A n \in 1..3 : /\ 1 \in 1..n
                    /\ \A i \in 1..n : i \in 0..3
                    /\ \A i \in 1..n : i # n => i + 1 \in 1..n /\ i + 1 \in 0..3
OBVIOUS

LEMMA UpdatedInStore ==
    ASSUME NEW c \in Operations, NEW s \in Store, NEW i \in 1..Len(Steps[c])
    PROVE  Updated(s, Steps[c][i]) \in Store
BY SMP!UpdatedInStore, SameTable, RedisAssumption

LEMMA TransientsWritten ==
    ASSUME NEW c \in Operations, NEW s \in Store, NEW i \in 1..Len(Steps[c])
    PROVE  LET u == Updated(s, Steps[c][i]) IN
           /\ u.state = "BUSY" =>
                \/ c \in SwitchCommands /\ i # Len(Steps[c])
                \/ c \in ObsCommands /\ s.state = "BUSY"
           /\ u.obs_state \in TransientObs =>
                \/ c \in ObsCommands /\ i # Len(Steps[c])
                \/ /\ c \in SwitchCommands /\ i # Len(Steps[c])
                   /\ s.obs_state \in TransientObs
BY SMP!TransientsWritten, SameTable, RedisAssumption DEF TransientObs, SMP!TransientObs

LEMMA FromFacts ==
    ASSUME NEW c \in Operations
    PROVE  /\ From(c, 1) = Steps[c]
           /\ From(c, Len(Steps[c]) + 1) = << >>
           /\ \A i \in 1..Len(Steps[c]) : /\ From(c, i) # << >>
                                          /\ Head(From(c, i)) = Steps[c][i]
                                          /\ Tail(From(c, i)) = From(c, i + 1)
BY SMP!FromFacts, SameTable, RedisAssumption DEF From, SMP!From

-----------------------------------------------------------------------------
\* The inductive invariant.

Early == {"ignore", "must_be_on", "check_busy", "is_allowed", "atomic"}

\* A thread in a call has an operation and a step of it; a key, once there,
\* stays.
CallInv ==
    \A t \in Threads :
        /\ pc[t] # "idle" => /\ op[t] \in CommandSet
                             /\ step[t] \in 1..Len(Steps[op[t]])
        /\ pc[t] \in Early => step[t] = 1
        /\ hadKey[t] => keyed

\* Until a lock expires under its holder, the lock is held by who is in an
\* update, whose copy is the store's value; nobody is rolled back.
HeldInv ==
    ~broken => \A t \in Threads :
        /\ pc[t] \in {"locked", "written", "signalled"} <=> lock = t
        /\ pc[t] = "locked" => local[t] = store
        /\ pc[t] # "rollback"

\* And transient states have their commands.
OwnedInv == ~broken => SM!TransientHasOwner

\* There is one server that has clients, and what one was sent it has yet to
\* handle.
ServerInv ==
    /\ \A r, s \in Servers : Wanted(r) /\ Wanted(s) => r = s
    /\ \A s \in Servers : ~Subscribed(s) => pending[s] = 0

\* No write is still to be announced.
AllSaid == ~unsaid /\ \A t \in Threads : pc[t] # "written"

\* Then a server with nothing left to handle has read the store, and what its
\* clients have is the store unless a stopped one came between; with no server,
\* nothing is shown.
ShownInv ==
    /\ AllSaid => \A s \in Servers : pending[s] = 0 =>
          /\ server[s] = "handling" => event[s] = store
          /\ server[s] = "up" /\ ~overtaken => shown \in {Nothing, store}
    /\ ~Served => shown = Nothing /\ ~overtaken

IInv == TypeOK /\ CallInv /\ HeldInv /\ OwnedInv /\ ServerInv /\ ShownInv

-----------------------------------------------------------------------------
\* The state machine's tables and values are the ones of Commands.

LEMMA Tables ==
    /\ SM!Steps = Steps /\ SM!Cleared = Cleared
    /\ \A s, a : SM!Updated(s, a) = Updated(s, a)
    /\ SM!SwitchCommands = SwitchCommands /\ SM!ObsCommands = ObsCommands
BY DEF SM!Steps, Steps, SM!Assign, Assign, SM!Keep, Keep, SM!None, None,
       SM!Cleared, Cleared, SM!Updated, Updated, SM!SwitchCommands,
       SwitchCommands, SM!ObsCommands, ObsCommands

LEMMA ClearedInStore == Cleared \in Store
BY DEF Cleared, Store, States, ObsStates, None

LEMMA InitInv == Init => IInv
<1> SUFFICES ASSUME Init PROVE IInv
    OBVIOUS
<1> USE RedisAssumption DEF Init, SM!Init
<1>0. SM!Cleared = Cleared /\ Cleared \in Store
    BY Tables, ClearedInStore
<1>1. TypeOK
  <2>1. /\ pc \in [Threads -> SM!Locations]
        /\ result \in [Threads -> SM!Outcomes]
        /\ server \in [Servers -> ServerStates]
      BY DEF SM!Locations, SM!Outcomes, ServerStates
  <2>2. 0 \in 0..MaxFaults /\ 0 \in 0..MaxPending /\ 0 \in 0..3
      OBVIOUS
  <2> QED BY <1>0, <2>1, <2>2 DEF TypeOK
<1>2. CallInv /\ HeldInv
    BY DEF CallInv, HeldInv, Early
<1>3. OwnedInv
    BY <1>0 DEF OwnedInv, SM!TransientHasOwner, Cleared, None
<1>4. ServerInv /\ ShownInv
    BY DEF ServerInv, ShownInv, Subscribed, Wanted, Served
<1> QED BY <1>1, <1>2, <1>3, <1>4 DEF IInv

-----------------------------------------------------------------------------
\* The steps of a thread, the decorators taken together.

Decorator(t) ==
    /\ pc[t] \in Early
    /\ UNCHANGED <<store, lock, signalled>>
    /\ \/ \E l \in Early : SM!Goto(t, l)
       \/ \E r \in SM!Outcomes : SM!Return(t, r)
    /\ UNCHANGED <<keyed, hadKey, serverVars, history>>

LEMMA GuardsDecorate == ASSUME NEW t \in Threads, Guards(t) PROVE Decorator(t)
BY DEF Guards, Same, SM!IgnoreIfInState, SM!MustBeOn, SM!CheckBusy,
       SM!IsAllowed, Decorator, Early, SM!Outcomes

Acts(t) == ThreadStep(t) \/ SleepRaises(t) \/ Crash(t)

LEMMA ActsOf ==
    ASSUME NEW t \in Threads, Acts(t)
    PROVE  \/ Decorator(t) \/ Atomic(t) \/ Acquire(t) \/ Write(t) \/ Publish(t)
           \/ (Release(t) /\ lock = t) \/ (Release(t) /\ lock # t)
           \/ Rollback(t) \/ SleepRaises(t) \/ Crash(t)
BY GuardsDecorate DEF Acts, ThreadStep

\* A thread's step leaves every other thread where it was, and the servers,
\* publishing apart.
LEMMA OthersKeep ==
    ASSUME TypeOK, NEW t \in Threads, NEW c, Acts(t) \/ Call(t, c),
           NEW u \in Threads, u # t
    PROVE  /\ pc'[u] = pc[u] /\ op'[u] = op[u] /\ step'[u] = step[u]
           /\ local'[u] = local[u] /\ hadKey'[u] = hadKey[u]
<1> USE DEF TypeOK
<1>1. CASE Call(t, c)
    BY <1>1 DEF Call, Same, SM!Call
<1>2. CASE Decorator(t)
    BY <1>2 DEF Decorator, SM!Goto, SM!Return
<1>3. CASE Atomic(t) \/ Acquire(t)
    BY <1>3 DEF Atomic, Acquire, Same, SM!Atomic, SM!Acquire
<1>4. CASE Write(t) \/ Publish(t)
    BY <1>4 DEF Write, Publish, SM!Write, SM!Signal
<1>5. CASE Release(t)
    BY <1>5 DEF Release, SM!Release, SM!Return, GiveUp
<1>6. CASE Rollback(t) \/ SleepRaises(t) \/ Crash(t)
    BY <1>6 DEF Rollback, SleepRaises, Crash, SM!Return, GiveUp
<1> QED BY <1>1, <1>2, <1>3, <1>4, <1>5, <1>6, ActsOf

LEMMA ServersKeep ==
    ASSUME NEW t \in Threads, NEW c, Acts(t) \/ Call(t, c)
    PROVE  /\ UNCHANGED <<server, event, shown, overtaken>>
           /\ UNCHANGED pending \/ Publish(t)
<1>1. CASE Call(t, c) \/ Decorator(t) \/ Acquire(t)
    BY <1>1 DEF Call, Decorator, Acquire, Same, serverVars
<1>2. CASE Atomic(t) \/ Write(t) \/ Publish(t) \/ Release(t)
    BY <1>2 DEF Atomic, Write, Publish, Release, serverVars
<1>3. CASE Rollback(t) \/ SleepRaises(t) \/ Crash(t)
    BY <1>3 DEF Rollback, SleepRaises, Crash, serverVars
<1> QED BY <1>1, <1>2, <1>3, ActsOf

LEMMA WriteInStore ==
    ASSUME TypeOK, CallInv, NEW t \in Threads, SM!Write(t)
    PROVE  /\ op[t] \in Operations /\ step[t] \in 1..Len(Steps[op[t]])
           /\ store' = Updated(local[t], Steps[op[t]][step[t]])
           /\ store' \in Store /\ local'[t] = store'
<1>1. op[t] \in Operations /\ step[t] \in 1..Len(Steps[op[t]])
    BY RedisAssumption DEF SM!Write, CallInv
<1>2. local[t] \in Store
    BY DEF TypeOK
<1>3. store' = Updated(local[t], Steps[op[t]][step[t]]) /\ local'[t] = store'
    BY Tables DEF SM!Write, TypeOK
<1> QED BY <1>1, <1>2, <1>3, UpdatedInStore

LEMMA NextUpdate ==
    ASSUME TypeOK, CallInv, NEW t \in Threads, pc[t] # "idle", ~SM!LastStep(t)
    PROVE  /\ step[t] + 1 \in 1..Len(Steps[op[t]]) /\ step[t] + 1 \in 0..3
           /\ step[t] + 1 > 1
<1>1. op[t] \in Operations /\ step[t] \in 1..Len(Steps[op[t]])
    BY RedisAssumption DEF CallInv
<1>2. step[t] # Len(Steps[op[t]])
    BY Tables DEF SM!LastStep
<1>3. Len(Steps[op[t]]) \in 1..3
    BY <1>1, StepsLength
<1>4. \A n \in 1..3 : \A i \in 1..n : i + 1 > 1
    OBVIOUS
<1> QED BY <1>1, <1>2, <1>3, <1>4, StepBounds, Zenon

-----------------------------------------------------------------------------
\* Type correctness, with a thread's place in its call.

ThreadTypes ==
    /\ pc \in [Threads -> SM!Locations]
    /\ op \in [Threads -> Operations \cup {"none"}]
    /\ step \in [Threads -> 0..3]
    /\ original \in [Threads -> Store] /\ local \in [Threads -> Store]
    /\ result \in [Threads -> SM!Outcomes]

LEMMA ReturnTypes ==
    ASSUME TypeOK, NEW t \in Threads, NEW r \in SM!Outcomes, SM!Return(t, r)
    PROVE  ThreadTypes'
<1>1. SM!Cleared = Cleared /\ Cleared \in Store
    BY Tables, ClearedInStore
<1> QED BY <1>1 DEF SM!Return, TypeOK, ThreadTypes, SM!Locations

LEMMA GiveUpTypes ==
    ASSUME TypeOK, NEW t \in Threads, GiveUp(t) PROVE ThreadTypes'
<1>1. Cleared \in Store /\ "failed" \in SM!Outcomes
    BY ClearedInStore DEF SM!Outcomes
<1>2. CASE SM!Return(t, "failed")
    BY <1>1, <1>2, ReturnTypes
<1>3. CASE ~SM!Return(t, "failed")
    BY <1>1, <1>3 DEF GiveUp, TypeOK, ThreadTypes, SM!Locations
<1> QED BY <1>2, <1>3

LEMMA ActTypes ==
    ASSUME TypeOK, CallInv, NEW t \in Threads, Acts(t) PROVE ThreadTypes'
<1>0. SM!Cleared = Cleared /\ Cleared \in Store
    BY Tables, ClearedInStore
<1> USE <1>0 DEF TypeOK, ThreadTypes
<1>1. CASE Decorator(t)
  <2>1. CASE \E l \in Early : SM!Goto(t, l)
      BY <2>1 DEF SM!Goto, Early, SM!Locations
  <2> QED BY <1>1, <2>1, ReturnTypes DEF Decorator
<1>2. CASE Atomic(t) \/ Acquire(t)
    BY <1>2 DEF Atomic, Acquire, Same, SM!Atomic, SM!Acquire, SM!Locations
<1>3. CASE Write(t)
    BY <1>3, WriteInStore DEF Write, SM!Write, SM!Locations
<1>4. CASE Publish(t)
    BY <1>4 DEF Publish, SM!Signal, SM!Locations
<1>5. CASE Release(t) /\ lock = t
  <2>1. CASE SM!Return(t, "ok")
    <3>1. "ok" \in SM!Outcomes
        BY DEF SM!Outcomes
    <3> QED BY <2>1, <3>1, ReturnTypes
  <2>2. CASE SM!Release(t) /\ ~SM!LastStep(t)
    <3>1. step' = [step EXCEPT ![t] = step[t] + 1]
        BY <2>2 DEF SM!Release
    <3>2. step' \in [Threads -> 0..3]
        BY <2>2, <3>1, NextUpdate DEF SM!Release
    <3> QED BY <2>2, <3>2 DEF SM!Release, SM!Locations
  <2> QED BY <1>5, <2>1, <2>2 DEF Release, SM!Release
<1>6. CASE (Release(t) /\ lock # t) \/ SleepRaises(t)
    BY <1>6, GiveUpTypes DEF Release, SleepRaises
<1>7. CASE Rollback(t) \/ Crash(t)
  <2>1. {"failed", "none"} \subseteq SM!Outcomes
      BY DEF SM!Outcomes
  <2> QED BY <1>7, <2>1, ReturnTypes DEF Rollback, Crash
<1> QED BY <1>1, <1>2, <1>3, <1>4, <1>5, <1>6, <1>7, ActsOf

LEMMA TypeStep ==
    ASSUME TypeOK, CallInv, [Next]_vars PROVE TypeOK'
<1> USE RedisAssumption, ClearedInStore DEF TypeOK
<1>1. CASE UNCHANGED vars
    BY <1>1 DEF vars, machineVars, serverVars, history
<1>2. ASSUME NEW t \in Threads, NEW c \in CommandSet, Call(t, c) PROVE TypeOK'
  <2>1. SM!Entry(c) \in SM!Locations /\ "pending" \in SM!Outcomes
      BY DEF SM!Entry, SM!Locations, SM!Outcomes
  <2> QED BY <1>2, <2>1 DEF Call, Same, SM!Call, serverVars, history
<1>3. ASSUME NEW t \in Threads, Acts(t) PROVE TypeOK'
  <2>0. ThreadTypes'
      BY <1>3, ActTypes
  <2>1. ASSUME UNCHANGED <<store, signalled, keyed, hadKey>>, serverVars' = serverVars,
               lock' \in Threads \cup {NoThread, Orphan},
               faults' \in 0..MaxFaults, broken' \in BOOLEAN,
               unsaid' \in BOOLEAN
        PROVE  TypeOK'
      BY <2>0, <2>1 DEF ThreadTypes, serverVars
  <2>2. CASE Decorator(t) \/ Acquire(t)
      BY <2>1, <2>2 DEF Decorator, Acquire, Same, SM!Acquire, history
  <2>3. CASE Atomic(t)
      BY <2>0, <2>3 DEF Atomic, SM!Atomic, ThreadTypes, serverVars, history
  <2>4. CASE Write(t)
    <3>1. store' \in Store
        BY <2>4, WriteInStore DEF Write
    <3> QED BY <2>0, <2>4, <3>1
            DEF Write, SM!Write, ThreadTypes, serverVars, history
  <2>5. CASE Publish(t)
    <3>1. pending' \in [Servers -> 0..MaxPending]
        BY <2>5 DEF Publish
    <3> QED BY <2>0, <2>5, <3>1 DEF Publish, SM!Signal, ThreadTypes
  <2>6. CASE Release(t)
    <3>1. lock' \in Threads \cup {NoThread, Orphan}
          /\ UNCHANGED <<store, signalled>>
        BY <2>6 DEF Release, SM!Release
    <3> QED BY <2>1, <2>6, <3>1 DEF Release, history
  <2>7. CASE Rollback(t)
    <3>1. /\ store' \in Store /\ (keyed' \/ store' = Cleared)
          /\ unsaid' \in BOOLEAN
        BY <2>7 DEF Rollback, CallInv
    <3> QED BY <2>0, <2>7, <3>1 DEF Rollback, ThreadTypes, serverVars
  <2>8. CASE SleepRaises(t) \/ Crash(t)
    <3>1. /\ lock' \in Threads \cup {NoThread, Orphan}
          /\ faults' \in 0..MaxFaults /\ broken' \in BOOLEAN
          /\ unsaid' \in BOOLEAN
      <4>1. /\ lock' \in Threads \cup {NoThread, Orphan}
            /\ faults' \in 0..MaxFaults
          BY <2>8 DEF SleepRaises, Crash, Fault
      <4>2. broken' \in BOOLEAN
          BY <2>8, Zenon DEF SleepRaises, Crash
      <4>3. unsaid' \in BOOLEAN
          BY <2>8, Zenon DEF SleepRaises, Crash
      <4> QED BY <4>1, <4>2, <4>3
    <3> QED BY <2>1, <2>8, <3>1 DEF SleepRaises, Crash
  <2> QED BY <1>3, <2>2, <2>3, <2>4, <2>5, <2>6, <2>7, <2>8, ActsOf
<1>4. CASE ExpireOrphan
    BY <1>4 DEF ExpireOrphan, serverVars, history
<1>5. ASSUME NEW t \in Threads, ExpireHeld(t) PROVE TypeOK'
    BY <1>5 DEF ExpireHeld, Fault, serverVars
<1>6. ASSUME NEW s \in Servers, ServerStep(s) \/ Clients(s) PROVE TypeOK'
  <2> USE <1>6 DEF machineVars, history, ServerStates, OnServers
  <2>1. CASE OnServers(Handle(s) \/ EndServer(s))
      BY <2>1 DEF Handle, EndServer
  <2>2. CASE OnServers(Show(s) \/ ShowRaises(s))
    <3>1. overtaken' \in BOOLEAN
      <4>1. CASE OnServers(Show(s)) /\ Served /\ server[s] = "stopping"
          BY <4>1, Zenon DEF Show
      <4>2. CASE OnServers(Show(s)) /\ ~(Served /\ server[s] = "stopping")
          BY <4>2, Zenon DEF Show
      <4>3. CASE OnServers(ShowRaises(s))
          BY <4>3 DEF ShowRaises
      <4> QED BY <2>2, <4>1, <4>2, <4>3
    <3>2. CASE OnServers(Show(s))
        BY <3>1, <3>2 DEF Show
    <3>3. CASE OnServers(ShowRaises(s))
        BY <3>1, <3>3 DEF ShowRaises
    <3> QED BY <2>2, <3>2, <3>3
  <2>3. CASE OnServers(StartServer(s))
      BY <2>3 DEF StartServer
  <2>4. CASE OnServers(StopServer(s))
    <3>1. server[s] \in {"up", "handling", "dead"}
        BY <2>4 DEF StopServer, Wanted
    <3>2. AfterStop[server[s]] \in ServerStates
        BY <3>1 DEF AfterStop
    <3>3. /\ server' \in [Servers -> ServerStates]
          /\ pending' \in [Servers -> 0..MaxPending]
        BY <2>4, <3>2 DEF StopServer
    <3> QED BY <2>4, <3>3 DEF StopServer
  <2> QED BY <1>6, <2>1, <2>2, <2>3, <2>4 DEF ServerStep, Clients
<1> QED BY <1>1, <1>2, <1>3, <1>4, <1>5, <1>6 DEF Next, AnyCall, Acts

\* A thread's own step takes its call on or ends it.
LEMMA OwnStep ==
    ASSUME TypeOK, NEW t \in Threads, Acts(t)
    PROVE  /\ pc[t] # "idle"
           /\ pc'[t] # "idle" =>
                /\ op'[t] = op[t]
                /\ \/ step'[t] = step[t]
                   \/ ~SM!LastStep(t) /\ step'[t] = step[t] + 1
                /\ pc'[t] \in Early => pc[t] \in Early /\ step'[t] = step[t]
           /\ keyed => keyed'
           /\ hadKey'[t] => hadKey[t] \/ keyed
<1> USE DEF TypeOK, Early
<1>1. CASE Decorator(t)
    BY <1>1 DEF Decorator, SM!Goto, SM!Return
<1>2. CASE Atomic(t) \/ Acquire(t)
    BY <1>2 DEF Atomic, Acquire, Same, SM!Atomic, SM!Acquire
<1>3. CASE Write(t) \/ Publish(t)
    BY <1>3 DEF Write, Publish, SM!Write, SM!Signal
<1>4. CASE Release(t)
    BY <1>4 DEF Release, SM!Release, SM!Return, GiveUp
<1>5. CASE Rollback(t) \/ SleepRaises(t) \/ Crash(t)
    BY <1>5 DEF Rollback, SleepRaises, Crash, SM!Return, GiveUp
<1> QED BY <1>1, <1>2, <1>3, <1>4, <1>5, ActsOf

LEMMA CallStep ==
    ASSUME TypeOK, CallInv, [Next]_vars PROVE CallInv'
<1>1. CASE UNCHANGED <<pc, op, step, hadKey, keyed>>
    BY <1>1 DEF CallInv
<1>2. ASSUME NEW t \in Threads, NEW c \in CommandSet, Call(t, c) PROVE CallInv'
  <2>1. /\ pc'[t] = SM!Entry(c) /\ op'[t] = c /\ step'[t] = 1
        /\ hadKey' = hadKey /\ keyed' = keyed
      BY <1>2 DEF Call, Same, SM!Call, TypeOK
  <2>2. 1 \in 1..Len(Steps[c])
      BY RedisAssumption, StepsLength, StepBounds, Zenon
  <2> QED BY <1>2, <2>1, <2>2, OthersKeep DEF CallInv
<1>3. ASSUME NEW t \in Threads, Acts(t) PROVE CallInv'
  <2>1. /\ op[t] \in CommandSet /\ step[t] \in 1..Len(Steps[op[t]])
        /\ pc[t] # "idle"
      BY <1>3, OwnStep DEF CallInv
  <2>2. pc'[t] # "idle" => step'[t] \in 1..Len(Steps[op'[t]])
      BY <1>3, <2>1, OwnStep, NextUpdate
  <2> SUFFICES ASSUME NEW u \in Threads
               PROVE  /\ pc'[u] # "idle" =>
                           /\ op'[u] \in CommandSet
                           /\ step'[u] \in 1..Len(Steps[op'[u]])
                      /\ pc'[u] \in Early => step'[u] = 1
                      /\ hadKey'[u] => keyed'
      BY DEF CallInv
  <2>3. CASE u = t
      BY <1>3, <2>1, <2>2, <2>3, OwnStep DEF CallInv, Early
  <2>4. CASE u # t
    <3>1. /\ pc'[u] = pc[u] /\ op'[u] = op[u] /\ step'[u] = step[u]
          /\ hadKey'[u] = hadKey[u]
        BY <1>3, <2>4, OthersKeep
    <3> QED BY <1>3, <3>1, OwnStep DEF CallInv
  <2> QED BY <2>3, <2>4
<1>4. CASE Next
    BY <1>1, <1>2, <1>3, <1>4
       DEF Next, AnyCall, Acts, ExpireOrphan, ExpireHeld, ServerStep, Clients,
           OnServers, machineVars
<1> QED BY <1>1, <1>4 DEF vars, machineVars

-----------------------------------------------------------------------------
\* The lock, until one expires under its holder or a command is left midway.

LEMMA HeldStep ==
    ASSUME TypeOK, CallInv, HeldInv, [Next]_vars PROVE HeldInv'
<1> SUFFICES ASSUME ~broken'
             PROVE  \A u \in Threads :
                      /\ pc'[u] \in {"locked", "written", "signalled"}
                           <=> lock' = u
                      /\ pc'[u] = "locked" => local'[u] = store'
                      /\ pc'[u] # "rollback"
    BY DEF HeldInv
<1> DEFINE Held == \A u \in Threads :
                      /\ pc'[u] \in {"locked", "written", "signalled"}
                           <=> lock' = u
                      /\ pc'[u] = "locked" => local'[u] = store'
                      /\ pc'[u] # "rollback"
<1> USE RedisAssumption DEF TypeOK
<1>1. CASE UNCHANGED <<pc, lock, local, store, broken>>
    BY <1>1 DEF HeldInv
<1>2. ASSUME NEW t \in Threads, NEW c \in CommandSet, Call(t, c) PROVE Held
  <2>1. /\ SM!Entry(c) \in {"acquire", "must_be_on", "ignore"}
        /\ UNCHANGED <<store, lock, local, broken>> /\ pc[t] = "idle"
      BY <1>2 DEF SM!Entry, Call, Same, SM!Call, history
  <2>2. pc' = [pc EXCEPT ![t] = SM!Entry(c)]
      BY <1>2 DEF Call, Same, SM!Call
  <2> QED BY <2>1, <2>2 DEF HeldInv
<1>3. ASSUME NEW t \in Threads, Acts(t) PROVE Held
  <2>1. CASE Decorator(t)
      BY <2>1 DEF Decorator, Early, SM!Goto, SM!Return, history, HeldInv
  <2>2. CASE Atomic(t) \/ Acquire(t)
      BY <2>2 DEF Atomic, Acquire, Same, SM!Atomic, SM!Acquire, history,
                  HeldInv
  <2>3. CASE Write(t)
      BY <2>3 DEF Write, SM!Write, history, HeldInv
  <2>4. CASE Publish(t)
      BY <2>4 DEF Publish, SM!Signal, HeldInv
  <2>5. CASE Release(t) /\ lock = t
      BY <2>5 DEF Release, SM!Release, SM!Return, history, HeldInv
  <2>6. CASE Release(t) /\ lock # t
      BY <2>6 DEF Release, history, HeldInv
  <2>7. CASE SleepRaises(t)
      BY <2>7 DEF SleepRaises
  <2>8. CASE Rollback(t)
      BY <2>8 DEF Rollback, HeldInv
  <2>9. CASE Crash(t)
      BY <2>9 DEF Crash, SM!Return, HeldInv
  <2> QED BY <1>3, <2>1, <2>2, <2>3, <2>4, <2>5, <2>6, <2>7, <2>8, <2>9, ActsOf
<1>4. CASE ExpireOrphan
    BY <1>4 DEF ExpireOrphan, history, HeldInv
<1>5. ASSUME NEW t \in Threads, ExpireHeld(t) PROVE Held
    BY <1>5 DEF ExpireHeld
<1>6. CASE Next
    BY <1>1, <1>2, <1>3, <1>4, <1>5, <1>6
       DEF Next, AnyCall, Acts, ServerStep, Clients, OnServers, machineVars,
           history
<1> QED BY <1>1, <1>6 DEF vars, machineVars, history

-----------------------------------------------------------------------------
\* Transient states have their commands, until then.

\* The transient values of s are those of commands that are midway.
Owned(s) ==
    /\ s.state = "BUSY" =>
         \E t \in Threads : SM!Midway(t) /\ op[t] \in SwitchCommands
    /\ s.obs_state \in TransientObs =>
         \E t \in Threads : SM!Midway(t) /\ op[t] \in ObsCommands

LEMMA OwnedMeans == OwnedInv <=> (~broken => Owned(store))
BY Tables DEF OwnedInv, Owned, SM!TransientHasOwner, TransientObs

LEMMA OwnedMeansNext == OwnedInv' <=> (~broken' => Owned(store)')
BY Tables DEF OwnedInv, Owned, SM!TransientHasOwner, TransientObs

\* A step over an unchanged store that leaves the commands midway so.
LEMMA OwnedFrame ==
    ASSUME Owned(store), store' = store,
           \A u \in Threads : SM!Midway(u) => SM!Midway(u)' /\ op'[u] = op[u]
    PROVE  Owned(store)'
BY DEF Owned

LEMMA MidwayFrame ==
    ASSUME TypeOK, NEW t \in Threads, NEW c, Acts(t) \/ Call(t, c),
           NEW u \in Threads, u # t
    PROVE  op'[u] = op[u] /\ (SM!Midway(u)' <=> SM!Midway(u))
<1>1. pc'[u] = pc[u] /\ op'[u] = op[u] /\ step'[u] = step[u]
    BY OthersKeep
<1> QED BY <1>1 DEF SM!Midway, SM!Begun, SM!LastStep

LEMMA WriteOwned ==
    ASSUME TypeOK, CallInv, HeldInv, ~broken, Owned(store),
           NEW t \in Threads, Write(t)
    PROVE  Owned(store)'
<1>1. /\ op[t] \in Operations /\ step[t] \in 1..Len(Steps[op[t]])
      /\ store' = Updated(store, Steps[op[t]][step[t]]) /\ store \in Store
    BY WriteInStore DEF Write, SM!Write, HeldInv, TypeOK
<1>2. Acts(t)
    BY DEF Acts, ThreadStep
<1>3. op'[t] = op[t] /\ (step[t] # Len(Steps[op[t]]) => SM!Midway(t)')
    BY Tables DEF Write, SM!Write, SM!Midway, SM!Begun, SM!LastStep, TypeOK
<1>4. \A C : \/ op[t] \in C /\ step[t] # Len(Steps[op[t]])
             \/ op[t] \notin C /\ \E u \in Threads : SM!Midway(u) /\ op[u] \in C
             => \E u \in Threads : SM!Midway(u)' /\ op'[u] \in C
    BY <1>2, <1>3, MidwayFrame
<1>5. SwitchCommands \cap ObsCommands = {}
    BY DEF SwitchCommands, ObsCommands
<1>6. store'.state = "BUSY" =>
        \E u \in Threads : SM!Midway(u)' /\ op'[u] \in SwitchCommands
    BY <1>1, <1>4, <1>5, TransientsWritten DEF Owned
<1>7. store'.obs_state \in TransientObs =>
        \E u \in Threads : SM!Midway(u)' /\ op'[u] \in ObsCommands
    BY <1>1, <1>4, <1>5, TransientsWritten DEF Owned
<1> QED BY <1>6, <1>7 DEF Owned

LEMMA OwnedStep ==
    ASSUME TypeOK, CallInv, HeldInv, OwnedInv, [Next]_vars PROVE OwnedInv'
<1> SUFFICES ASSUME ~broken' PROVE Owned(store)'
    BY OwnedMeansNext
<1> USE DEF TypeOK
<1>0. broken' = broken => Owned(store)
    BY OwnedMeans
<1>1. CASE UNCHANGED <<store, pc, op, step, broken>>
    BY <1>0, <1>1 DEF Owned, SM!Midway, SM!Begun, SM!LastStep
<1>2. ASSUME NEW t \in Threads, NEW c \in CommandSet, Call(t, c)
      PROVE  Owned(store)'
  <2>1. store' = store /\ broken' = broken /\ ~SM!Midway(t)
      BY <1>2 DEF Call, Same, SM!Call, history, SM!Midway, SM!Begun
  <2> QED BY <1>0, <1>2, <2>1, MidwayFrame, OwnedFrame
<1>3. ASSUME NEW t \in Threads, Acts(t) PROVE Owned(store)'
  <2>0. ASSUME Owned(store), store' = store,
               SM!Midway(t) => SM!Midway(t)' /\ op'[t] = op[t]
        PROVE  Owned(store)'
      BY <1>3, <2>0, MidwayFrame, OwnedFrame
  <2> USE DEF SM!Midway, SM!Begun
  <2>1. CASE Decorator(t)
      BY <1>0, <2>0, <2>1 DEF Decorator, Early, history
  <2>2. CASE Atomic(t)
      BY <1>0, <2>0, <2>2 DEF Atomic, SM!Atomic, history
  <2>3. CASE Acquire(t)
      BY <1>0, <2>0, <2>3 DEF Acquire, Same, SM!Acquire, history
  <2>4. CASE Write(t)
      BY <1>0, <2>4, WriteOwned DEF Write, history
  <2>5. CASE Publish(t)
      BY <1>0, <2>0, <2>5 DEF Publish, SM!Signal, SM!LastStep
  <2>6. CASE Release(t) /\ lock = t /\ SM!LastStep(t)
      BY <1>0, <2>0, <2>6 DEF Release, SM!Release, history
  <2>7. CASE Release(t) /\ lock = t /\ ~SM!LastStep(t)
    <3>1. /\ pc'[t] = "acquire" /\ op'[t] = op[t] /\ store' = store
          /\ step'[t] = step[t] + 1 /\ pc[t] # "idle" /\ broken' = broken
        BY <2>7 DEF Release, SM!Release, history
    <3>2. step'[t] > 1
        BY <2>7, <3>1, NextUpdate
    <3> QED BY <1>0, <2>0, <3>1, <3>2
  <2>8. CASE (Release(t) /\ lock # t) \/ SleepRaises(t) \/ Rollback(t)
      BY <2>8 DEF Release, SleepRaises, Rollback, HeldInv, history
  <2>9. CASE Crash(t)
    <3>1. broken' = broken /\ ~SM!Midway(t) /\ store' = store
        BY <2>9 DEF Crash
    <3> QED BY <1>0, <2>0, <3>1
  <2> QED BY <1>3, <2>1, <2>2, <2>3, <2>4, <2>5, <2>6, <2>7, <2>8, <2>9, ActsOf
<1>4. ASSUME NEW t \in Threads, ExpireHeld(t) PROVE FALSE
    BY <1>4 DEF ExpireHeld
<1>5. CASE Next
    BY <1>1, <1>2, <1>3, <1>4, <1>5
       DEF Next, AnyCall, Acts, ExpireOrphan, ServerStep, Clients, OnServers,
           machineVars, history
<1> QED BY <1>1, <1>5 DEF vars, machineVars, history

-----------------------------------------------------------------------------
\* The state servers.

LEMMA ServersStep ==
    ASSUME TypeOK, ServerInv, [Next]_vars PROVE ServerInv'
<1> USE DEF TypeOK, ServerInv, Subscribed, Wanted, Served
<1>1. CASE UNCHANGED <<server, pending>>
    BY <1>1
<1>2. ASSUME NEW t \in Threads, NEW c, Acts(t) \/ Call(t, c) PROVE ServerInv'
  <2>1. CASE Publish(t)
      BY <2>1 DEF Publish
  <2> QED BY <1>1, <1>2, <2>1, ServersKeep
<1>3. ASSUME NEW s \in Servers, StartServer(s) \/ StopServer(s)
      PROVE  ServerInv'
    BY <1>3 DEF StartServer, StopServer, AfterStop
<1>4. ASSUME NEW s \in Servers,
             Handle(s) \/ Show(s) \/ ShowRaises(s) \/ EndServer(s)
      PROVE  ServerInv'
    BY <1>4 DEF Handle, Show, ShowRaises, EndServer
<1>5. CASE Next
    BY <1>1, <1>2, <1>3, <1>4, <1>5
       DEF Next, AnyCall, Acts, ExpireOrphan, ExpireHeld, ServerStep, Clients,
           OnServers, serverVars
<1> QED BY <1>1, <1>5 DEF vars, serverVars

\* A thread's step other than an announcement writes nothing that goes unsaid.
LEMMA NothingUnsaid ==
    ASSUME TypeOK, NEW t \in Threads, NEW c, Acts(t) \/ Call(t, c),
           ~Publish(t), AllSaid'
    PROVE  AllSaid /\ store' = store
<1> USE DEF TypeOK, AllSaid
<1>1. CASE Call(t, c)
    BY <1>1 DEF Call, Same, SM!Call, history
<1>2. CASE Decorator(t)
    BY <1>2 DEF Decorator, Early, SM!Goto, SM!Return, history
<1>3. CASE Atomic(t) \/ Acquire(t)
    BY <1>3 DEF Atomic, Acquire, Same, SM!Atomic, SM!Acquire, history
<1>4. CASE Write(t)
    BY <1>4 DEF Write, SM!Write
<1>5. CASE Release(t)
    BY <1>5 DEF Release, SM!Release, SM!Return, GiveUp, history
<1>6. CASE Rollback(t)
    BY <1>6 DEF Rollback, SM!Return
<1>7. CASE SleepRaises(t) \/ Crash(t)
    BY <1>7 DEF SleepRaises, Crash, SM!Return, GiveUp
<1> QED BY <1>1, <1>2, <1>3, <1>4, <1>5, <1>6, <1>7, ActsOf

LEMMA ShownStep ==
    ASSUME TypeOK, ServerInv, ShownInv, [Next]_vars PROVE ShownInv'
<1> USE DEF TypeOK, ShownInv, Subscribed, Wanted, Served
<1>1. ASSUME UNCHANGED serverVars, AllSaid' => AllSaid /\ store' = store
      PROVE  ShownInv'
    BY <1>1 DEF serverVars
<1>2. ASSUME NEW t \in Threads, NEW c, Acts(t) \/ Call(t, c) PROVE ShownInv'
  <2>1. CASE Publish(t)
      BY <2>1 DEF Publish
  <2>2. CASE ~Publish(t)
    <3>1. UNCHANGED serverVars
        BY <1>2, <2>2, ServersKeep DEF serverVars
    <3> QED BY <1>1, <1>2, <2>2, <3>1, NothingUnsaid
  <2> QED BY <2>1, <2>2
<1>3. ASSUME NEW s \in Servers, OnServers(StartServer(s)) PROVE ShownInv'
    BY <1>3 DEF OnServers, machineVars, history, AllSaid, StartServer
<1>4. ASSUME NEW s \in Servers, OnServers(StopServer(s)) PROVE ShownInv'
    BY <1>4 DEF OnServers, machineVars, history, AllSaid, StopServer, AfterStop,
                ServerInv
<1>5. ASSUME NEW s \in Servers, OnServers(Handle(s)) PROVE ShownInv'
    BY <1>5 DEF OnServers, machineVars, history, AllSaid, Handle, ServerInv
<1>6. ASSUME NEW s \in Servers,
             OnServers(Show(s) \/ ShowRaises(s) \/ EndServer(s))
      PROVE  ShownInv'
  <2> USE DEF OnServers, machineVars, history, AllSaid, ServerInv
  <2>1. CASE OnServers(Show(s))
      BY <2>1 DEF Show
  <2>2. CASE OnServers(ShowRaises(s))
      BY <2>2 DEF ShowRaises
  <2>3. CASE OnServers(EndServer(s))
      BY <2>3 DEF EndServer
  <2> QED BY <1>6, <2>1, <2>2, <2>3
<1>7. CASE ExpireOrphan \/ \E t \in Threads : ExpireHeld(t)
    BY <1>1, <1>7 DEF ExpireOrphan, ExpireHeld, AllSaid, history
<1>8. CASE Next
  <2>1. ASSUME NEW s \in Servers, ServerStep(s) \/ Clients(s) PROVE ShownInv'
      BY <1>3, <1>4, <1>5, <1>6, <2>1 DEF ServerStep, Clients, OnServers
  <2> QED BY <1>2, <1>7, <1>8, <2>1 DEF Next, AnyCall, Acts
<1>9. CASE UNCHANGED vars
    BY <1>1, <1>9 DEF vars, machineVars, history, AllSaid
<1> QED BY <1>8, <1>9

-----------------------------------------------------------------------------
LEMMA Inductive == IInv /\ [Next]_vars => IInv'
BY TypeStep, CallStep, HeldStep, OwnedStep, ServersStep, ShownStep DEF IInv

\* In every reachable state the inductive invariant holds.
THEOREM Invariance == Spec => []IInv
BY InitInv, Inductive, PTL DEF Spec

\* Type correctness: the key holds a state of the machine, and what a thread or
\* a state server has read of it is one too.
THEOREM TypeCorrect == Spec => []TypeOK
BY Invariance, PTL DEF IInv

\* Whatever replicas there are and whenever they die, at most one of them
\* updates the state, and a transient state has the command that set it, until
\* a lock expires under its holder or a command is left midway (_locked_state,
\* update_state and atomic of redis_backend).
THEOREM UpdatesExclude == Spec => []IntactUnlessBroken
<1>1. IInv => IntactUnlessBroken
  <2> SUFFICES ASSUME IInv, ~broken
               PROVE  OneWriterAtATime /\ SM!TransientHasOwner
      BY DEF IntactUnlessBroken
  <2>1. \A t \in Updating : t = lock
      BY DEF IInv, HeldInv, Updating
  <2>2. Updating \subseteq {lock}
      BY <2>1
  <2>3. IsFiniteSet({lock}) /\ Cardinality({lock}) = 1
      BY FS_Singleton
  <2>4. IsFiniteSet(Updating) /\ Cardinality(Updating) <= 1
      BY <2>2, <2>3, FS_Subset
  <2> QED BY <2>4 DEF OneWriterAtATime, IInv, OwnedInv
<1> QED BY <1>1, Invariance, PTL

\* Once every write has been announced and every notification handled, what the
\* clients were given last is what is stored, though a notification carries no
\* state, unless the thread has died or a stopped one has published after its
\* successor (RedisStateServer._handler and stop_server, signal_state).
THEOREM SubscribersCatchUp == Spec => []SettledIsShown
<1>1. IInv => SettledIsShown
  <2> SUFFICES ASSUME IInv, Settled PROVE shown \in {Nothing, store}
      BY DEF SettledIsShown
  <2>1. AllSaid /\ ~overtaken
      BY DEF Settled, AllSaid
  <2>2. CASE \E s \in Servers : server[s] = "up"
      BY <2>1, <2>2 DEF IInv, ShownInv, Settled
  <2>3. CASE ~\E s \in Servers : server[s] = "up"
    <3>1. ~Served
        BY <2>3 DEF Settled, Served, Wanted
    <3> QED BY <2>1, <3>1 DEF IInv, ShownInv
  <2> QED BY <2>2, <2>3
<1> QED BY <1>1, Invariance, PTL

-----------------------------------------------------------------------------
\* Refinement of AtomicCommands.

LEMMA AbsTables ==
    /\ Abs!Steps = Steps /\ Abs!Cleared = Cleared
    /\ \A s, a : Abs!Updated(s, a) = Updated(s, a)
BY DEF Abs!Steps, Steps, Abs!Assign, Assign, Abs!Keep, Keep, Abs!None, None,
       Abs!Cleared, Cleared, Abs!Updated, Updated

\* Where a command has updates before it.
Updates == {"acquire", "locked", "written", "signalled"}

\* What the mapped variable todo holds at each place in a call.
LEMMA RemainingAt ==
    ASSUME NEW t \in Threads
    PROVE  /\ pc[t] \in {"acquire", "locked"} =>
                SM!Remaining(t) = From(op[t], step[t])
           /\ pc[t] \in {"written", "signalled"} =>
                SM!Remaining(t) = From(op[t], step[t] + 1)
           /\ pc[t] \notin Updates => SM!Remaining(t) = << >>
BY Tables DEF SM!Remaining, From, Updates

LEMMA RemainingAtNext ==
    ASSUME NEW t \in Threads
    PROVE  /\ pc'[t] \in {"acquire", "locked"} =>
                SM!Remaining(t)' = From(op'[t], step'[t])
           /\ pc'[t] \in {"written", "signalled"} =>
                SM!Remaining(t)' = From(op'[t], step'[t] + 1)
           /\ pc'[t] \notin Updates => SM!Remaining(t)' = << >>
BY Tables DEF SM!Remaining, From, Updates

AbsStep == [Abs!Next \/ Abs!Forgo]_(Abs!absVars)

\* A step that moves the rest of thread t's command by one abstract action, and
\* nobody else's, is that action.
LEMMA AbstractStart ==
    ASSUME NEW t \in Threads, NEW c \in CommandSet,
           SM!Remaining(t) = << >>, SM!Remaining(t)' = Steps[c], store' = store,
           \A u \in Threads : u # t => SM!Remaining(u)' = SM!Remaining(u)
    PROVE  AbsStep
<1>1. Abs!Start(t, c)
    BY AbsTables DEF Abs!Start
<1> QED BY <1>1 DEF Abs!Next, AbsStep

LEMMA AbstractUpdate ==
    ASSUME NEW t \in Threads,
           SM!Remaining(t) # << >>, SM!Remaining(t)' = Tail(SM!Remaining(t)),
           store' = Updated(store, Head(SM!Remaining(t))),
           \A u \in Threads : u # t => SM!Remaining(u)' = SM!Remaining(u)
    PROVE  AbsStep
<1>1. Abs!Update(t)
    BY AbsTables DEF Abs!Update
<1> QED BY <1>1 DEF Abs!Next, AbsStep

LEMMA AbstractForgo ==
    ASSUME NEW t \in Threads, NEW c \in CommandSet,
           SM!Remaining(t) = Steps[c], SM!Remaining(t)' = << >>, store' = store,
           \A u \in Threads : u # t => SM!Remaining(u)' = SM!Remaining(u)
    PROVE  AbsStep
<1>1. Abs!Forgo
    BY AbsTables DEF Abs!Forgo
<1> QED BY <1>1 DEF AbsStep

LEMMA AbstractStutter ==
    ASSUME store' = store,
           \A u \in Threads : SM!Remaining(u)' = SM!Remaining(u)
    PROVE  AbsStep
BY DEF Abs!absVars, AbsStep

\* A thread's step is an abstract start, update or end, or none.
LEMMA ActAbstract ==
    ASSUME TypeOK, CallInv, HeldInv, ~broken, ~broken', NEW t \in Threads,
           Acts(t)
    PROVE  AbsStep
<1> DEFINE c == op[t]
           i == step[t]
<1> USE DEF TypeOK
<1>1. \A u \in Threads : u # t => SM!Remaining(u)' = SM!Remaining(u)
    BY OthersKeep DEF SM!Remaining
<1>2. /\ c \in CommandSet /\ c \in Operations /\ i \in 1..Len(Steps[c])
      /\ Len(Steps[c]) \in 1..3
    BY OwnStep, RedisAssumption, StepsLength DEF CallInv
<1>3. CASE Decorator(t)
  <2>1. store' = store /\ pc[t] \notin Updates /\ pc'[t] \notin Updates
      BY <1>3 DEF Decorator, SM!Goto, SM!Return, Early, Updates
  <2> QED BY <1>1, <2>1, RemainingAt, RemainingAtNext, AbstractStutter
<1>4. CASE Atomic(t)
  <2>1. /\ store' = store /\ pc[t] = "atomic"
        /\ pc'[t] = "acquire" /\ op'[t] = c /\ step'[t] = i
      BY <1>4 DEF Atomic, SM!Atomic
  <2>2. i = 1
      BY <2>1 DEF CallInv, Early
  <2>3. SM!Remaining(t) = << >> /\ SM!Remaining(t)' = From(c, 1)
      BY <2>1, <2>2, RemainingAt, RemainingAtNext DEF Updates
  <2> QED BY <1>1, <1>2, <2>1, <2>3, FromFacts, AbstractStart
<1>5. CASE Acquire(t) \/ Publish(t)
  <2>1. /\ store' = store /\ op'[t] = c /\ step'[t] = i
        /\ \/ pc[t] = "acquire" /\ pc'[t] = "locked"
           \/ pc[t] = "written" /\ pc'[t] = "signalled"
      BY <1>5 DEF Acquire, Same, SM!Acquire, Publish, SM!Signal
  <2>2. SM!Remaining(t)' = SM!Remaining(t)
      BY <2>1, RemainingAt, RemainingAtNext
  <2> QED BY <1>1, <2>1, <2>2, AbstractStutter
<1>6. CASE Write(t)
  <2>1. /\ pc[t] = "locked" /\ pc'[t] = "written"
        /\ op'[t] = c /\ step'[t] = i
      BY <1>6 DEF Write, SM!Write
  <2>2. store' = Updated(store, Steps[c][i])
      BY <1>6, <2>1, WriteInStore DEF Write, HeldInv
  <2>3. SM!Remaining(t) = From(c, i) /\ SM!Remaining(t)' = From(c, i + 1)
      BY <2>1, RemainingAt, RemainingAtNext
  <2>4. /\ SM!Remaining(t) # << >>
        /\ Head(SM!Remaining(t)) = Steps[c][i]
        /\ Tail(SM!Remaining(t)) = SM!Remaining(t)'
      BY <1>2, <2>3, FromFacts
  <2> QED BY <1>1, <2>2, <2>4, AbstractUpdate
<1>7. CASE Release(t)
  <2>1. pc[t] = "signalled" /\ lock = t /\ store' = store
      BY <1>7 DEF Release, SM!Release, HeldInv
  <2>2. SM!Remaining(t) = From(c, i + 1)
      BY <2>1, RemainingAt
  <2>3. CASE SM!LastStep(t)
    <3>1. pc'[t] = "idle"
        BY <1>7, <2>1, <2>3 DEF Release, SM!Release, SM!Return
    <3>2. SM!Remaining(t)' = << >>
        BY <3>1, RemainingAtNext DEF Updates
    <3>3. SM!Remaining(t) = << >>
        BY <1>2, <2>2, <2>3, FromFacts, Tables DEF SM!LastStep
    <3> QED BY <1>1, <2>1, <3>2, <3>3, AbstractStutter
  <2>4. CASE ~SM!LastStep(t)
    <3>1. pc'[t] = "acquire" /\ op'[t] = c /\ step'[t] = i + 1
        BY <1>7, <2>1, <2>4 DEF Release, SM!Release
    <3>2. SM!Remaining(t)' = From(c, i + 1)
        BY <3>1, RemainingAtNext
    <3> QED BY <1>1, <2>1, <2>2, <3>2, AbstractStutter
  <2> QED BY <2>3, <2>4
<1>8. ~SleepRaises(t) /\ ~Rollback(t)
    BY DEF SleepRaises, Rollback, HeldInv
<1>9. CASE Crash(t)
  <2>1. ~SM!Midway(t) /\ pc'[t] = "idle" /\ store' = store
      BY <1>9 DEF Crash, SM!Return
  <2>2. SM!Remaining(t)' = << >>
      BY <2>1, RemainingAtNext DEF Updates
  <2>3. CASE pc[t] \in {"acquire", "locked"}
    <3>1. i = 1
        BY <1>2, <2>1, <2>3 DEF SM!Midway, SM!Begun
    <3>2. SM!Remaining(t) = Steps[c]
        BY <1>2, <2>3, <3>1, RemainingAt, FromFacts
    <3> QED BY <1>1, <1>2, <2>1, <2>2, <3>2, AbstractForgo
  <2>4. CASE pc[t] \in {"written", "signalled"}
    <3>1. i = Len(Steps[c])
        BY <2>1, <2>4, Tables DEF SM!Midway, SM!Begun, SM!LastStep
    <3>2. SM!Remaining(t) = << >>
        BY <1>2, <2>4, <3>1, RemainingAt, FromFacts
    <3> QED BY <1>1, <2>1, <2>2, <3>2, AbstractStutter
  <2>5. CASE pc[t] \notin Updates
      BY <1>1, <2>1, <2>2, <2>5, RemainingAt, AbstractStutter
  <2> QED BY <2>3, <2>4, <2>5 DEF Updates
<1> QED BY <1>3, <1>4, <1>5, <1>6, <1>7, <1>8, <1>9, ActsOf

LEMMA CallAbstract ==
    ASSUME TypeOK, NEW t \in Threads, NEW c \in CommandSet, Call(t, c)
    PROVE  AbsStep
<1> USE DEF TypeOK
<1>1. \A u \in Threads : u # t => SM!Remaining(u)' = SM!Remaining(u)
    BY OthersKeep DEF SM!Remaining
<1>2. /\ store' = store /\ pc[t] = "idle"
      /\ pc'[t] = SM!Entry(c) /\ op'[t] = c /\ step'[t] = 1
    BY DEF Call, Same, SM!Call
<1>3. SM!Remaining(t) = << >>
    BY <1>2, RemainingAt DEF Updates
<1>4. CASE c = "reset_state"
  <2>1. SM!Remaining(t)' = From(c, 1)
      BY <1>2, <1>4, RemainingAtNext DEF SM!Entry
  <2>2. SM!Remaining(t)' = Steps[c]
      BY <2>1, FromFacts, RedisAssumption
  <2> QED BY <1>1, <1>2, <1>3, <2>2, AbstractStart
<1>5. CASE c # "reset_state"
  <2>1. pc'[t] \notin Updates
      BY <1>2, <1>5 DEF SM!Entry, Updates
  <2> QED BY <1>1, <1>2, <1>3, <2>1, RemainingAtNext, AbstractStutter
<1> QED BY <1>4, <1>5

LEMMA BrokenStays == ASSUME [Next]_vars PROVE broken => broken'
<1>1. ASSUME NEW t \in Threads, Acts(t) PROVE broken => broken'
  <2>1. CASE Decorator(t) \/ Atomic(t) \/ Acquire(t) \/ Write(t) \/ Release(t)
      BY <2>1 DEF Decorator, Atomic, Acquire, Same, Write, Release, history
  <2>2. CASE Publish(t) \/ Rollback(t) \/ SleepRaises(t) \/ Crash(t)
      BY <2>2 DEF Publish, Rollback, SleepRaises, Crash
  <2> QED BY <1>1, <2>1, <2>2, ActsOf
<1>2. CASE Next
    BY <1>1, <1>2 DEF Next, AnyCall, Call, Same, Acts, ExpireOrphan, ExpireHeld,
                      ServerStep, Clients, OnServers, history
<1> QED BY <1>2 DEF vars, history

\* Every step is one of AtomicCommands, or changes nothing in it.
LEMMA AbstractStep ==
    ASSUME TypeOK, CallInv, HeldInv, [Next]_vars, ~broken'
    PROVE  AbsStep
<1>1. ~broken
    BY BrokenStays
<1>2. ASSUME UNCHANGED <<store, pc, op, step>> PROVE AbsStep
    BY <1>2, AbstractStutter DEF SM!Remaining
<1>3. CASE Next
    BY <1>1, <1>2, <1>3, ActAbstract, CallAbstract
       DEF Next, AnyCall, Acts, ExpireOrphan, ExpireHeld, ServerStep, Clients,
           OnServers, machineVars
<1> QED BY <1>2, <1>3 DEF vars, machineVars

\* Until a lock expires under its holder or a command is left midway, the Redis
\* updater of any number of replicas implements atomic updates: none is lost,
\* repeated or applied out of its command's order, and a replica that dies has
\* carried out all of its command or nothing (update_state of redis_backend).
THEOREM ReplicasUpdateAtomically == Spec => AtomicUnlessBroken
<1>1. Init => Abs!Init
  <2> SUFFICES ASSUME Init PROVE Abs!Init
      OBVIOUS
  <2>1. \A t \in Threads : SM!Remaining(t) = << >>
      BY RemainingAt DEF Init, SM!Init, Updates
  <2> QED BY <2>1, Tables, AbsTables DEF Init, SM!Init, Abs!Init
<1>2. IInv /\ [Next]_vars =>
          [broken' \/ Abs!Next \/ Abs!Forgo]_(Abs!absVars)
    BY AbstractStep DEF IInv, AbsStep
<1> QED BY <1>1, <1>2, Invariance, PTL DEF Spec, AtomicUnlessBroken

=============================================================================
