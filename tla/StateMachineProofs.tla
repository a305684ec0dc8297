------------------------- MODULE StateMachineProofs -------------------------
(***************************************************************************)
(* Theorems about StateMachine, for any set of threads and of commands.    *)
(* They rest on lemmas about the command table, which the proofs about the *)
(* modules that compose a StateMachine take from here.                     *)
(***************************************************************************)
EXTENDS StateMachine, SequenceTheorems, TLAPS

-----------------------------------------------------------------------------
\* The table of updates, command by command.

LEMMA StepsLength == \A c \in Operations : Len(Steps[c]) \in 1..3
<1> SUFFICES ASSUME NEW c \in Operations PROVE Len(Steps[c]) \in 1..3
    OBVIOUS
<1>1. CASE c \in {"switch_on", "switch_off", "clear_config", "reset_state"}
    BY <1>1 DEF Steps
<1>2. CASE c \in {"assign_resources", "release_resources", "configure", "scan"}
    BY <1>2 DEF Steps
<1> QED BY <1>1, <1>2 DEF Operations, SwitchCommands, ObsCommands

\* Stepping through a command's updates.
LEMMA StepBounds ==
    \A n \in 1..3 : /\ 1 \in 1..n
                    /\ \A i \in 1..n : i \in 0..3
                    /\ \A i \in 1..n : i # n => i + 1 \in 1..n /\ i + 1 \in 0..3
OBVIOUS

\* A switch command first sets state to BUSY, then settles both values.
LEMMA SwitchUpdates ==
    ASSUME NEW c \in SwitchCommands, NEW s \in Store,
           NEW i \in 1..Len(Steps[c])
    PROVE  LET u == Updated(s, Steps[c][i]) IN
           /\ u \in Store
           /\ i < Len(Steps[c]) => u.state = "BUSY" /\ u.obs_state = s.obs_state
           /\ i = Len(Steps[c]) => /\ u.state \in {"ON", "OFF"}
                                   /\ u.obs_state \in {"EMPTY", None}
<1> DEFINE u == Updated(s, Steps[c][i])
<1>1. Len(Steps[c]) = 2
    BY DEF Steps, SwitchCommands
<1>2. CASE i = 1
  <2>1. Steps[c][1] = [state |-> "BUSY", obs_state |-> Keep]
      BY DEF Steps, SwitchCommands, Assign
  <2>2. u = [state |-> "BUSY", obs_state |-> s.obs_state]
      BY <1>2, <2>1 DEF Updated, Keep
  <2> QED BY <1>1, <1>2, <2>2 DEF Store, States
<1>3. CASE i = 2
  <2>1. \/ Steps[c][2] = [state |-> "ON", obs_state |-> "EMPTY"]
        \/ Steps[c][2] = [state |-> "OFF", obs_state |-> None]
      BY DEF Steps, SwitchCommands, Assign
  <2>2. \/ u = [state |-> "ON", obs_state |-> "EMPTY"]
        \/ u = [state |-> "OFF", obs_state |-> None]
      BY <1>3, <2>1 DEF Updated, Keep, None
  <2> QED BY <1>1, <1>3, <2>2 DEF Store, States, ObsStates, None
<1> QED BY <1>1, <1>2, <1>3

\* A command on obs_state leaves state alone and settles obs_state last.
LEMMA ObsUpdates ==
    ASSUME NEW c \in ObsCommands, NEW s \in Store,
           NEW i \in 1..Len(Steps[c])
    PROVE  LET u == Updated(s, Steps[c][i]) IN
           /\ u \in Store
           /\ u.state = s.state
           /\ i = Len(Steps[c]) => u.obs_state \in {"EMPTY", "IDLE", "READY"}
<1> DEFINE u == Updated(s, Steps[c][i])
           Moves == {"BUSY", "RESOURCING", "CONFIGURING", "SCANNING"}
           Rests == {"EMPTY", "IDLE", "READY"}
<1>1. \E o \in Moves \cup Rests :
        /\ Steps[c][i] = [state |-> Keep, obs_state |-> o]
        /\ i = Len(Steps[c]) => o \in Rests
  <2>1. CASE c \in {"assign_resources", "release_resources"}
    <3>1. /\ Steps[c][1] = [state |-> Keep, obs_state |-> "BUSY"]
          /\ Steps[c][2] = [state |-> Keep, obs_state |-> "RESOURCING"]
          /\ Steps[c][3] \in {[state |-> Keep, obs_state |-> "IDLE"],
                              [state |-> Keep, obs_state |-> "EMPTY"]}
        BY <2>1 DEF Steps, Assign
    <3>2. Len(Steps[c]) = 3
        BY <2>1 DEF Steps
    <3> QED BY <3>1, <3>2
  <2>2. CASE c = "configure"
      BY <2>2 DEF Steps, Assign
  <2>3. CASE c = "clear_config"
      BY <2>3 DEF Steps, Assign
  <2>4. CASE c = "scan"
      BY <2>4 DEF Steps, Assign
  <2> QED BY <2>1, <2>2, <2>3, <2>4 DEF ObsCommands
<1>2. PICK o \in Moves \cup Rests :
        /\ Steps[c][i] = [state |-> Keep, obs_state |-> o]
        /\ i = Len(Steps[c]) => o \in Rests
    BY <1>1
<1>3. u = [state |-> s.state, obs_state |-> o]
    BY <1>2 DEF Updated, Keep
<1>4. s.state \in States
    BY DEF Store
<1>5. o \in ObsStates
    BY DEF ObsStates
<1> QED BY <1>2, <1>3, <1>4, <1>5 DEF Store

LEMMA ResetUpdates ==
    ASSUME NEW s \in Store, NEW i \in 1..Len(Steps["reset_state"])
    PROVE  Updated(s, Steps["reset_state"][i]) = Cleared /\ Cleared \in Store
<1>1. i = 1
    BY DEF Steps
<1>2. Steps["reset_state"][1] = [state |-> None, obs_state |-> None]
    BY DEF Steps, Assign
<1> QED BY <1>1, <1>2 DEF Updated, Keep, None, Cleared, Store, States, ObsStates

LEMMA UpdatedInStore ==
    ASSUME NEW c \in Operations, NEW s \in Store, NEW i \in 1..Len(Steps[c])
    PROVE  Updated(s, Steps[c][i]) \in Store
BY SwitchUpdates, ObsUpdates, ResetUpdates DEF Operations

-----------------------------------------------------------------------------
\* Transient values: a command puts the machine into them on its way.

TransientObs == {"BUSY", "RESOURCING", "CONFIGURING", "SCANNING"}

\* Where a transient value that an update writes comes from: the update is not
\* its command's last, or the value is not the command's to set and was there.
LEMMA TransientsWritten ==
    ASSUME NEW c \in Operations, NEW s \in Store, NEW i \in 1..Len(Steps[c])
    PROVE  LET u == Updated(s, Steps[c][i]) IN
           /\ u.state = "BUSY" =>
                \/ c \in SwitchCommands /\ i # Len(Steps[c])
                \/ c \in ObsCommands /\ s.state = "BUSY"
           /\ u.obs_state \in TransientObs =>
                \/ c \in ObsCommands /\ i # Len(Steps[c])
                \/ /\ c \in SwitchCommands /\ i # Len(Steps[c])
                   /\ s.obs_state \in TransientObs
<1> DEFINE u == Updated(s, Steps[c][i])
<1>1. CASE c \in SwitchCommands
  <2>1. CASE i = Len(Steps[c])
      BY <1>1, <2>1, SwitchUpdates DEF TransientObs, None
  <2>2. CASE i # Len(Steps[c])
    <3>1. i < Len(Steps[c])
        BY <2>2, StepsLength
    <3> QED BY <1>1, <2>2, <3>1, SwitchUpdates
  <2> QED BY <2>1, <2>2
<1>2. CASE c \in ObsCommands
    BY <1>2, ObsUpdates DEF TransientObs
<1>3. CASE c = "reset_state"
    BY <1>3, ResetUpdates DEF Cleared, None, TransientObs
<1> QED BY <1>1, <1>2, <1>3 DEF Operations

-----------------------------------------------------------------------------
\* The states the machine rests in, and the commands that begin in them.

Resting == { Cleared, Assign("OFF", None), Assign("ON", "EMPTY"),
             Assign("ON", "IDLE"), Assign("ON", "READY") }

\* c passes all its decorators over the stored state s and a free lock.
Passes(c, s) == /\ ~Ignored(c, s)
                /\ Allowed(c, s)
                /\ c \in ObsCommands => s.state = "ON"

LEMMA RestingInStore == Resting \subseteq Store /\ Cleared \in Resting
BY DEF Resting, Assign, Cleared, Store, States, ObsStates, None

\* Every resting state has an entry in the table of allowed commands.
LEMMA RestingHasEntry == \A s \in Resting : HasEntry(s)
BY DEF Resting, HasEntry, AllowedCommands, Assign, Cleared, None

\* Which commands pass where.
LEMMA PassesTable ==
    ASSUME NEW s \in Resting, NEW c \in Operations
    PROVE  Passes(c, s) <=>
             \/ s = Cleared /\ c \in SwitchCommands
             \/ s = Assign("OFF", None) /\ c = "switch_on"
             \/ s = Assign("ON", "EMPTY") /\ c \in {"switch_off", "assign_resources"}
             \/ s = Assign("ON", "IDLE") /\ c \in {"release_resources", "configure"}
             \/ s = Assign("ON", "READY") /\
                  c \in {"configure", "clear_config", "scan"}
<1> USE DEF Passes, Ignored, Allowed, HasEntry, AllowedCommands, Assign,
            Cleared, None, SwitchCommands, ObsCommands, Operations
<1>1. CASE s = Cleared
    BY <1>1
<1>2. CASE s = Assign("OFF", None)
    BY <1>2
<1>3. CASE s = Assign("ON", "EMPTY")
    BY <1>3
<1>4. CASE s = Assign("ON", "IDLE")
    BY <1>4
<1>5. CASE s = Assign("ON", "READY")
    BY <1>5
<1> QED BY <1>1, <1>2, <1>3, <1>4, <1>5 DEF Resting

\* The table, entry by entry.
LEMMA SwitchTable ==
    /\ Len(Steps["switch_on"]) = 2
    /\ Steps["switch_on"][1] = Assign("BUSY", Keep)
    /\ Steps["switch_on"][2] = Assign("ON", "EMPTY")
    /\ Len(Steps["switch_off"]) = 2
    /\ Steps["switch_off"][1] = Assign("BUSY", Keep)
    /\ Steps["switch_off"][2] = Assign("OFF", None)
    /\ Len(Steps["reset_state"]) = 1
    /\ Steps["reset_state"][1] = Assign(None, None)
BY DEF Steps

LEMMA ObsTable ==
    /\ \A c \in {"assign_resources", "release_resources", "configure", "scan"} :
          Len(Steps[c]) = 3
    /\ Len(Steps["clear_config"]) = 2
    /\ \A c \in ObsCommands : Steps[c][1] = Assign(Keep, "BUSY")
    /\ Steps["assign_resources"][2] = Assign(Keep, "RESOURCING")
    /\ Steps["release_resources"][2] = Assign(Keep, "RESOURCING")
    /\ Steps["configure"][2] = Assign(Keep, "CONFIGURING")
    /\ Steps["scan"][2] = Assign(Keep, "SCANNING")
    /\ Steps["assign_resources"][3] = Assign(Keep, "IDLE")
    /\ Steps["release_resources"][3] = Assign(Keep, "EMPTY")
    /\ Steps["configure"][3] = Assign(Keep, "READY")
    /\ Steps["scan"][3] = Assign(Keep, "READY")
    /\ Steps["clear_config"][2] = Assign(Keep, "IDLE")
BY DEF Steps, ObsCommands

\* A command's updates all assign the same values: one that follows another
\* leaves nothing of it.
LEMMA UpdatesOverwrite ==
    ASSUME NEW c \in Operations, NEW s \in Store, NEW i \in 1..Len(Steps[c]),
           i + 1 \in 1..Len(Steps[c])
    PROVE  Updated(Updated(s, Steps[c][i]), Steps[c][i + 1]) =
             Updated(s, Steps[c][i + 1])
<1>1. CASE c \in SwitchCommands
  <2>1. i = 1
    <3>1. Len(Steps[c]) = 2
        BY <1>1, SwitchTable DEF SwitchCommands
    <3>2. i \in 1..2 /\ i + 1 \in 1..2
        BY <3>1, Zenon
    <3> QED BY <3>2
  <2>2. Steps[c][2] \in {Assign("ON", "EMPTY"), Assign("OFF", None)}
      BY <1>1, SwitchTable DEF SwitchCommands
  <2>3. \A r : Updated(r, Steps[c][2]) = Steps[c][2]
      BY <2>2 DEF Assign, Updated, Keep, None
  <2> QED BY <2>1, <2>3
<1>2. CASE c \in ObsCommands
  <2>1. \A j \in 1..Len(Steps[c]) : \E o \in ObsStates :
            Steps[c][j] = [state |-> Keep, obs_state |-> o]
    <3> DEFINE Sets(j) == \E o \in ObsStates :
                             Steps[c][j] = [state |-> Keep, obs_state |-> o]
    <3>1. Sets(1) /\ Sets(2)
        BY <1>2, ObsTable DEF Assign, ObsStates, ObsCommands
    <3>2. c # "clear_config" => Sets(3)
        BY <1>2, ObsTable DEF Assign, ObsStates, ObsCommands
    <3>3. PICK n : Len(Steps[c]) = n /\ (n = 2 \/ (n = 3 /\ c # "clear_config"))
        BY <1>2, ObsTable DEF ObsCommands
    <3> HIDE DEF Sets
    <3>4. ASSUME NEW j \in 1..Len(Steps[c]) PROVE Sets(j)
      <4>1. j \in 1..n
          BY <3>3, Zenon
      <4>2. j = 1 \/ j = 2 \/ (j = 3 /\ c # "clear_config")
          BY <3>3, <4>1
      <4> QED BY <3>1, <3>2, <4>2
    <3> QED BY <3>4 DEF Sets
  <2>2. PICK o \in ObsStates : Steps[c][i] = [state |-> Keep, obs_state |-> o]
      BY <2>1
  <2>3. PICK p \in ObsStates :
            Steps[c][i + 1] = [state |-> Keep, obs_state |-> p]
      BY <2>1
  <2>4. Updated(s, Steps[c][i]).state = s.state
      BY <2>2 DEF Updated
  <2>5. \A r : Updated(r, Steps[c][i + 1]) = [state |-> r.state, obs_state |-> p]
      BY <2>3 DEF Updated, Keep, ObsStates, None
  <2> QED BY <2>4, <2>5
<1>3. CASE c = "reset_state"
    BY <1>3 DEF Steps
<1> QED BY <1>1, <1>2, <1>3 DEF Operations

\* What a command that passes leads to.
Destination(c) ==
    CASE c = "switch_on"  -> Assign("ON", "EMPTY")
      [] c = "switch_off" -> Assign("OFF", None)
      [] c \in {"assign_resources", "clear_config"} -> Assign("ON", "IDLE")
      [] c = "release_resources" -> Assign("ON", "EMPTY")
      [] c \in {"configure", "scan"} -> Assign("ON", "READY")
      [] OTHER -> Cleared

LEMMA CommandsArrive ==
    ASSUME NEW c \in Operations, NEW s \in Resting,
           Passes(c, s) \/ c = "reset_state"
    PROVE  /\ Updated(s, Steps[c][Len(Steps[c])]) = Destination(c)
           /\ Destination(c) \in Resting
           /\ c # "reset_state" => Len(Steps[c]) > 1
<1>1. c \in ObsCommands => s.state = "ON"
    BY DEF Passes, ObsCommands
<1>2. Destination(c) \in Resting
    BY DEF Destination, Resting
<1>3. c \in ObsCommands =>
          /\ Len(Steps[c]) > 1
          /\ \E o \in {"EMPTY", "IDLE", "READY"} :
                /\ Steps[c][Len(Steps[c])] = Assign(Keep, o)
                /\ Destination(c) = Assign("ON", o)
  <2>1. CASE c \in {"assign_resources", "release_resources"}
      BY <2>1, ObsTable DEF Destination
  <2>2. CASE c \in {"configure", "scan"}
      BY <2>2, ObsTable DEF Destination
  <2>3. CASE c = "clear_config"
      BY <2>3, ObsTable DEF Destination
  <2> QED BY <2>1, <2>2, <2>3 DEF ObsCommands
<1> USE DEF Updated, Assign, Keep, Destination
<1>4. CASE c \in SwitchCommands
    BY <1>2, <1>4, SwitchTable DEF SwitchCommands, None
<1>5. CASE c = "reset_state"
    BY <1>2, <1>5, SwitchTable DEF None, Cleared
<1>6. CASE c \in ObsCommands
    BY <1>1, <1>2, <1>3, <1>6
<1> QED BY <1>4, <1>5, <1>6 DEF Operations

-----------------------------------------------------------------------------
\* The rest of a command's updates, from the i-th one on.
From(c, i) == SubSeq(Steps[c], i, Len(Steps[c]))

LEMMA StepsAreSequences == \A c \in Operations : \E S : Steps[c] \in Seq(S)
<1> SUFFICES ASSUME NEW c \in Operations PROVE \E S : Steps[c] \in Seq(S)
    OBVIOUS
<1>1. \A a : << a >> \in Seq({a})
    OBVIOUS
<1>2. \A a, b : << a, b >> \in Seq({a, b})
    OBVIOUS
<1>3. \A a, b, d : << a, b, d >> \in Seq({a, b, d})
    OBVIOUS
<1>4. CASE c = "reset_state"
  <2>1. \E a : Steps[c] = << a >>
      BY <1>4 DEF Steps
  <2> QED BY <1>1, <2>1
<1>5. CASE c \in {"switch_on", "switch_off", "clear_config"}
  <2>1. \E a, b : Steps[c] = << a, b >>
      BY <1>5 DEF Steps
  <2>2. PICK a, b : Steps[c] = << a, b >>
      BY <2>1
  <2>3. Steps[c] \in Seq({a, b})
      BY <2>2, <1>2
  <2> QED BY <2>3
<1>6. CASE c \in {"assign_resources", "release_resources", "configure", "scan"}
  <2>1. \E a, b, d : Steps[c] = << a, b, d >>
      BY <1>6 DEF Steps
  <2>2. PICK a, b, d : Steps[c] = << a, b, d >>
      BY <2>1
  <2>3. Steps[c] \in Seq({a, b, d})
      BY <2>2, <1>3
  <2> QED BY <2>3
<1> QED BY <1>4, <1>5, <1>6 DEF Operations, SwitchCommands, ObsCommands

LEMMA FromFacts ==
    ASSUME NEW c \in Operations
    PROVE  /\ From(c, 1) = Steps[c]
           /\ From(c, Len(Steps[c]) + 1) = << >>
           /\ \A i \in 1..Len(Steps[c]) : /\ From(c, i) # << >>
                                          /\ Head(From(c, i)) = Steps[c][i]
                                          /\ Tail(From(c, i)) = From(c, i + 1)
<1> DEFINE s == Steps[c]
           n == Len(s)
<1>0. PICK A : s \in Seq(A)
    BY StepsAreSequences
<1>1. s \in Seq(A) /\ n \in 1..3
    BY <1>0, StepsLength
<1> HIDE DEF s
<1>2. SubSeq(s, 1, n) = s
    BY <1>1, SubSeqFull
<1>3. SubSeq(s, n + 1, n) = << >>
    BY <1>1, SubSeqEmpty
<1>4. ASSUME NEW i \in 1..n
      PROVE  /\ SubSeq(s, i, n) # << >>
             /\ Head(SubSeq(s, i, n)) = s[i]
             /\ Tail(SubSeq(s, i, n)) = SubSeq(s, i + 1, n)
  <2>1. n \in i..n
      BY <1>1
  <2>2. /\ Head(SubSeq(s, i, n)) = s[i]
        /\ Tail(SubSeq(s, i, n)) = SubSeq(s, i + 1, n)
      BY <1>1, <2>1, HeadTailOfSubSeq
  <2>3. Len(SubSeq(s, i, n)) = n - i + 1
      BY <1>1
  <2>4. Len(SubSeq(s, i, n)) # 0
      BY <1>1, <2>3
  <2>5. SubSeq(s, i, n) # << >>
      BY <2>4, Len(<< >>) = 0
  <2> QED BY <2>2, <2>5
<1> QED BY <1>2, <1>3, <1>4 DEF From, s

-----------------------------------------------------------------------------
\* Type correctness.  A thread that is in a call has an operation and a step
\* of it; without this the update a Write performs has no type.

CallInv ==
    \A t \in Threads :
        /\ pc[t] = "idle" => op[t] = "none"
        /\ pc[t] # "idle" => /\ op[t] \in CommandSet
                             /\ step[t] \in 1..Len(Steps[op[t]])

TypeInv == TypeOK /\ CallInv

LEMMA TypeInvInit == Init => TypeInv
BY DEF Init, TypeInv, TypeOK, CallInv, Cleared, Store, States, ObsStates, None,
       Locations, Outcomes

LEMMA ReturnTypeInv ==
    ASSUME TypeInv, NEW t \in Threads, NEW r \in Outcomes, Return(t, r),
           store' \in Store, signalled' \in Store,
           lock' \in Threads \cup {NoThread}
    PROVE  TypeInv'
<1>1. TypeOK'
    BY DEF TypeInv, TypeOK, Return, Cleared, Store, States, ObsStates, None,
           Locations
<1>2. CallInv'
    BY DEF TypeInv, TypeOK, CallInv, Return
<1> QED BY <1>1, <1>2 DEF TypeInv

LEMMA GotoTypeInv ==
    ASSUME TypeInv, NEW t \in Threads, NEW l \in Locations \ {"idle"},
           pc[t] # "idle", Goto(t, l), UNCHANGED <<store, lock, signalled>>
    PROVE  TypeInv'
BY DEF TypeInv, TypeOK, CallInv, Goto

\* Every step keeps the types, and each call within its command.
LEMMA TypeStep == TypeInv /\ [Next]_vars => TypeInv'
<1> SUFFICES ASSUME TypeInv, [Next]_vars PROVE TypeInv'
    OBVIOUS
<1> USE ConstantsAssumption
<1>1. CASE UNCHANGED vars
    BY <1>1 DEF vars, TypeInv, TypeOK, CallInv
<1>2. ASSUME NEW t \in Threads, NEW c \in CommandSet, Call(t, c) PROVE TypeInv'
  <2>1. c \in Operations /\ Len(Steps[c]) \in 1..3
      BY StepsLength
  <2>2. Entry(c) \in Locations \ {"idle"}
      BY DEF Entry, Locations
  <2>3. TypeOK'
      BY <1>2, <2>1, <2>2 DEF TypeInv, TypeOK, Call, Outcomes
  <2>4. CallInv'
    <3> SUFFICES ASSUME NEW u \in Threads
                 PROVE  /\ pc'[u] = "idle" => op'[u] = "none"
                        /\ pc'[u] # "idle" =>
                             /\ op'[u] \in CommandSet
                             /\ step'[u] \in 1..Len(Steps[op'[u]])
        BY DEF CallInv
    <3>1. CASE u = t
      <4>1. pc'[t] = Entry(c) /\ op'[t] = c /\ step'[t] = 1
          BY <1>2 DEF Call, TypeInv, TypeOK
      <4>2. 1 \in 1..Len(Steps[c])
          BY <2>1, StepBounds, Zenon
      <4>3. Entry(c) # "idle"
          BY <2>2
      <4> QED BY <3>1, <4>1, <4>2, <4>3, Zenon
    <3>2. CASE u # t
      <4>1. pc'[u] = pc[u] /\ op'[u] = op[u] /\ step'[u] = step[u]
          BY <1>2, <3>2 DEF Call, TypeInv, TypeOK
      <4> QED BY <4>1 DEF TypeInv, CallInv
    <3> QED BY <3>1, <3>2
  <2> QED BY <2>3, <2>4 DEF TypeInv
<1>3. ASSUME NEW t \in Threads, Step(t) PROVE TypeInv'
  <2> USE DEF Outcomes, Locations
  <2>1. CASE IgnoreIfInState(t)
      BY <2>1, ReturnTypeInv, GotoTypeInv DEF IgnoreIfInState, TypeInv, TypeOK
  <2>2. CASE MustBeOn(t)
      BY <2>2, ReturnTypeInv, GotoTypeInv DEF MustBeOn, TypeInv, TypeOK
  <2>3. CASE CheckBusy(t)
      BY <2>3, ReturnTypeInv, GotoTypeInv DEF CheckBusy, TypeInv, TypeOK
  <2>4. CASE IsAllowed(t)
      BY <2>4, ReturnTypeInv, GotoTypeInv DEF IsAllowed, TypeInv, TypeOK
  <2>5. CASE Atomic(t)
      BY <2>5 DEF Atomic, TypeInv, TypeOK, CallInv
  <2>6. CASE Acquire(t)
      BY <2>6 DEF Acquire, TypeInv, TypeOK, CallInv
  <2>7. CASE Write(t)
    <3>1. Updated(local[t], Steps[op[t]][step[t]]) \in Store
        BY <2>7, UpdatedInStore DEF Write, TypeInv, TypeOK, CallInv
    <3> QED BY <2>7, <3>1 DEF Write, TypeInv, TypeOK, CallInv
  <2>8. CASE Signal(t)
    <3>1. Cleared \in Store
        BY DEF Cleared, Store, States, ObsStates
    <3> QED BY <2>8, <3>1 DEF Signal, TypeInv, TypeOK, CallInv
  <2>9. CASE Release(t)
    <3>1. CASE LastStep(t) /\ Return(t, "ok")
        BY <2>9, <3>1, ReturnTypeInv DEF Release, TypeInv, TypeOK
    <3>2. CASE ~LastStep(t)
      <4>1. op[t] \in CommandSet /\ step[t] \in 1..Len(Steps[op[t]])
          BY <2>9 DEF Release, TypeInv, CallInv
      <4>2. Len(Steps[op[t]]) \in 1..3
          BY <4>1, StepsLength
      <4>3. step[t] + 1 \in 1..Len(Steps[op[t]])
          BY <3>2, <4>1, <4>2, StepBounds, Zenon DEF LastStep
      <4>4. step' \in [Threads -> 0..3]
        <5>1. step' = [step EXCEPT ![t] = step[t] + 1]
            BY <2>9, <3>2 DEF Release
        <5>2. step[t] + 1 \in 0..3
            BY <3>2, <4>1, <4>2, StepBounds, Zenon DEF LastStep
        <5> QED BY <5>1, <5>2 DEF TypeInv, TypeOK
      <4>5. TypeOK'
          BY <2>9, <3>2, <4>4 DEF Release, TypeInv, TypeOK
      <4>6. CallInv'
          BY <2>9, <3>2, <4>1, <4>3 DEF Release, TypeInv, TypeOK, CallInv
      <4> QED BY <4>5, <4>6 DEF TypeInv
    <3> QED BY <2>9, <3>1, <3>2 DEF Release
  <2>10. CASE SleepRaises(t)
    <3>1. Cleared \in Store
        BY DEF Cleared, Store, States, ObsStates
    <3> QED BY <2>10, <3>1 DEF SleepRaises, TypeInv, TypeOK, CallInv
  <2>11. CASE Rollback(t)
      BY <2>11, ReturnTypeInv DEF Rollback, TypeInv, TypeOK
  <2> QED BY <1>3, <2>1, <2>2, <2>3, <2>4, <2>5, <2>6, <2>7, <2>8, <2>9,
             <2>10, <2>11 DEF Step
<1> QED BY <1>1, <1>2, <1>3 DEF Next, AnyCall

\* Every reachable state is well typed, and a thread in a call executes one of
\* the updates of its command.
THEOREM TypeCorrect == Spec => []TypeOK
<1>1. Spec => []TypeInv
    BY TypeInvInit, TypeStep, PTL DEF Spec
<1>2. TypeInv => TypeOK
    BY DEF TypeInv
<1> QED BY <1>1, <1>2, PTL

-----------------------------------------------------------------------------
\* The write lock, whatever delays callers pass: a thread is between Acquire
\* and Release exactly when the lock names it.

Holds(t) == pc[t] \in {"locked", "written", "signalled"}

LockInv == \A t \in Threads : Holds(t) <=> lock = t

\* Every step keeps the lock with whoever is in an update.
LEMMA LockStep == TypeInv /\ LockInv /\ [Next]_vars => LockInv'
<1> SUFFICES ASSUME TypeInv, LockInv, [Next]_vars PROVE LockInv'
    OBVIOUS
<1> USE ConstantsAssumption
<1>1. CASE UNCHANGED vars
    BY <1>1 DEF vars, LockInv, Holds
<1>2. ASSUME NEW t \in Threads, NEW c \in CommandSet, Call(t, c) PROVE LockInv'
  <2>1. Entry(c) \notin {"locked", "written", "signalled"}
      BY DEF Entry
  <2>2. pc' = [pc EXCEPT ![t] = Entry(c)] /\ lock' = lock /\ pc[t] = "idle"
      BY <1>2 DEF Call
  <2> QED BY <2>1, <2>2 DEF TypeInv, TypeOK, LockInv, Holds
<1>3. ASSUME NEW t \in Threads, Step(t) PROVE LockInv'
  <2>1. CASE IgnoreIfInState(t) \/ MustBeOn(t) \/ CheckBusy(t) \/ IsAllowed(t)
    <3>1. /\ ~Holds(t)
          /\ lock' = lock
          /\ \E l \in Locations :
               /\ l \notin {"locked", "written", "signalled"}
               /\ pc' = [pc EXCEPT ![t] = l]
        BY <2>1 DEF IgnoreIfInState, MustBeOn, CheckBusy, IsAllowed, Return,
                    Goto, Locations, Holds
    <3> QED BY <3>1 DEF TypeInv, TypeOK, LockInv, Holds
  <2>2. CASE Atomic(t)
      BY <2>2 DEF Atomic, TypeInv, TypeOK, LockInv, Holds
  <2>3. CASE Acquire(t)
      BY <2>3 DEF Acquire, TypeInv, TypeOK, LockInv, Holds
  <2>4. CASE Write(t)
      BY <2>4 DEF Write, TypeInv, TypeOK, LockInv, Holds
  <2>5. CASE Signal(t)
      BY <2>5 DEF Signal, TypeInv, TypeOK, LockInv, Holds
  <2>6. CASE Release(t)
      BY <2>6 DEF Release, Return, TypeInv, TypeOK, LockInv, Holds
  <2>7. CASE SleepRaises(t)
      BY <2>7 DEF SleepRaises, TypeInv, TypeOK, LockInv, Holds
  <2>8. CASE Rollback(t)
      BY <2>8 DEF Rollback, Return, TypeInv, TypeOK, LockInv, Holds
  <2> QED BY <1>3, <2>1, <2>2, <2>3, <2>4, <2>5, <2>6, <2>7, <2>8 DEF Step
<1> QED BY <1>1, <1>2, <1>3 DEF Next, AnyCall

-----------------------------------------------------------------------------
\* When every delay is acceptable nothing is rolled back, and the holder of
\* the lock is the only writer: what it read is still what is stored, and only
\* its own signal can be outstanding.

CopyInv ==
    /\ \A t \in Threads : pc[t] # "rollback"
    /\ \A t \in Threads : pc[t] \in {"locked", "written"} => local[t] = store
    /\ signalled = store \/ \E t \in Threads : pc[t] = "written"

LEMMA CopyInvInit == Init => CopyInv
BY DEF Init, CopyInv

\* Every step keeps the holder's copy and the last signal true, if no delay
\* raises.
LEMMA CopyStep ==
    ASSUME BadDelays = FALSE, TypeInv, LockInv, CopyInv, [Next]_vars
    PROVE  CopyInv'
<1> USE ConstantsAssumption
<1>1. CASE UNCHANGED vars
    BY <1>1 DEF vars, CopyInv
<1>2. ASSUME NEW t \in Threads, NEW c \in CommandSet, Call(t, c) PROVE CopyInv'
  <2>1. Entry(c) \notin {"rollback", "locked", "written"}
      BY DEF Entry
  <2>2. /\ pc' = [pc EXCEPT ![t] = Entry(c)]
        /\ pc[t] = "idle"
        /\ UNCHANGED <<store, signalled, local>>
      BY <1>2 DEF Call
  <2> QED BY <2>1, <2>2 DEF TypeInv, TypeOK, CopyInv
<1>3. ASSUME NEW t \in Threads, Step(t) PROVE CopyInv'
  <2>1. CASE IgnoreIfInState(t) \/ MustBeOn(t) \/ CheckBusy(t) \/ IsAllowed(t)
    <3>1. /\ pc[t] # "written"
          /\ UNCHANGED <<store, signalled>>
          /\ \E l \in Locations :
               /\ l \notin {"rollback", "locked", "written"}
               /\ pc' = [pc EXCEPT ![t] = l]
          /\ \A u \in Threads : u # t => local'[u] = local[u]
        BY <2>1 DEF IgnoreIfInState, MustBeOn, CheckBusy, IsAllowed, Return,
                    Goto, Locations, TypeInv, TypeOK
    <3> QED BY <3>1 DEF TypeInv, TypeOK, CopyInv
  <2>2. CASE Atomic(t)
      BY <2>2 DEF Atomic, TypeInv, TypeOK, CopyInv
  <2>3. CASE Acquire(t)
      BY <2>3 DEF Acquire, TypeInv, TypeOK, CopyInv
  <2>4. CASE Write(t)
    <3>1. \A u \in Threads : u # t => pc[u] \notin {"locked", "written"}
        BY <2>4 DEF Write, LockInv, Holds
    <3>2. local'[t] = store' /\ pc'[t] = "written"
        BY <2>4 DEF Write, TypeInv, TypeOK
    <3>3. \A u \in Threads : u # t => pc'[u] = pc[u]
        BY <2>4 DEF Write, TypeInv, TypeOK
    <3> QED BY <3>1, <3>2, <3>3 DEF CopyInv
  <2>5. CASE Signal(t)
    <3>1. \A u \in Threads : u # t => pc[u] \notin {"locked", "written"}
        BY <2>5 DEF Signal, LockInv, Holds
    <3> QED BY <2>5, <3>1 DEF Signal, TypeInv, TypeOK, CopyInv
  <2>6. CASE Release(t)
      BY <2>6 DEF Release, Return, TypeInv, TypeOK, CopyInv
  <2>7. ~SleepRaises(t)
      BY DEF SleepRaises
  <2>8. ~Rollback(t)
      BY DEF Rollback, CopyInv
  <2> QED BY <1>3, <2>1, <2>2, <2>3, <2>4, <2>5, <2>6, <2>7, <2>8 DEF Step
<1> QED BY <1>1, <1>2, <1>3 DEF Next, AnyCall

SafeInv == TypeInv /\ LockInv /\ CopyInv

LEMMA SafeInvAlways ==
    ASSUME BadDelays = FALSE PROVE Spec => []SafeInv
<1>1. Init => SafeInv
  <2>1. Init => LockInv
      BY ConstantsAssumption DEF Init, LockInv, Holds
  <2> QED BY <2>1, TypeInvInit, CopyInvInit DEF SafeInv
<1>2. SafeInv /\ [Next]_vars => SafeInv'
    BY TypeStep, LockStep, CopyStep DEF SafeInv
<1> QED BY <1>1, <1>2, PTL DEF Spec

\* With acceptable delays, the stored state changes only by the thread that
\* holds the write lock.
THEOREM WritersHoldTheLock ==
    ASSUME BadDelays = FALSE PROVE Spec => LockGuardsStore
<1>1. SafeInv /\ [Next]_vars =>
        [store' # store => lock # NoThread /\ pc[lock] = "locked"]_vars
  <2> SUFFICES ASSUME SafeInv, Next, store' # store
               PROVE  lock # NoThread /\ pc[lock] = "locked"
      OBVIOUS
  <2>1. PICK t \in Threads : Write(t) \/ Rollback(t)
      BY DEF Next, AnyCall, Call, Step, IgnoreIfInState, MustBeOn, CheckBusy,
             IsAllowed, Atomic, Acquire, Signal, Release, SleepRaises
  <2>2. ~Rollback(t)
      BY DEF Rollback, SafeInv, CopyInv
  <2>3. pc[t] = "locked" /\ lock = t
      BY <2>1, <2>2 DEF Write, SafeInv, LockInv, Holds
  <2> QED BY <2>3, ConstantsAssumption
<1> QED BY <1>1, SafeInvAlways, PTL DEF Spec, LockGuardsStore

\* With acceptable delays, whoever finds the lock free finds every write
\* announced.
THEOREM SignalsReflectStore ==
    ASSUME BadDelays = FALSE PROVE Spec => []SignalledWhenFree
<1>1. SafeInv => SignalledWhenFree
    BY ConstantsAssumption
    DEF SafeInv, CopyInv, LockInv, Holds, SignalledWhenFree
<1> QED BY <1>1, SafeInvAlways, PTL

-----------------------------------------------------------------------------
\* Transient states and the commands that will end them.

\* What a thread does to its own place in a command leaves every other
\* thread's place as it was.
Place(t) == <<pc[t], op[t], step[t]>>

LEMMA MidwayFrame ==
    ASSUME NEW u \in Threads, Place(u)' = Place(u), Midway(u)
    PROVE  Midway(u)' /\ op'[u] = op[u]
BY DEF Place, Midway, Begun, LastStep

LEMMA OthersKeepPlace ==
    ASSUME TypeInv, NEW t \in Threads, Step(t)
    PROVE  \A u \in Threads : u # t => Place(u)' = Place(u)
<1> SUFFICES ASSUME NEW u \in Threads, u # t
             PROVE  pc'[u] = pc[u] /\ op'[u] = op[u] /\ step'[u] = step[u]
    BY DEF Place
<1> QED BY DEF Step, IgnoreIfInState, MustBeOn, CheckBusy, IsAllowed, Atomic,
               Acquire, Write, Signal, Release, SleepRaises, Rollback, Goto,
               Return, TypeInv, TypeOK

\* A command that is midway stays midway until it writes again.
LEMMA MidwayUntilWrite ==
    ASSUME BadDelays = FALSE, TypeInv, CopyInv,
           NEW t \in Threads, Step(t), ~Write(t), Midway(t)
    PROVE  Midway(t)' /\ op'[t] = op[t]
<1>1. pc[t] \in {"acquire", "locked", "written", "signalled"}
    BY DEF Midway, Begun, CopyInv
<1>2. CASE Acquire(t)
    BY <1>2 DEF Acquire, TypeInv, TypeOK, Midway, Begun, LastStep
<1>3. CASE Signal(t)
    BY <1>3 DEF Signal, TypeInv, TypeOK, Midway, Begun, LastStep
<1>4. CASE Release(t)
  <2>1. ~LastStep(t)
      BY <1>4 DEF Release, Midway
  <2>2. /\ pc'[t] = "acquire"
        /\ op'[t] = op[t]
        /\ step'[t] = step[t] + 1
      BY <1>4, <2>1 DEF Release, TypeInv, TypeOK
  <2>3. step[t] \in 1..Len(Steps[op[t]]) /\ Len(Steps[op[t]]) \in 1..3
      BY <1>4, StepsLength, ConstantsAssumption DEF Release, TypeInv, CallInv
  <2>4. step'[t] > 1
      BY <2>2, <2>3
  <2> QED BY <2>2, <2>4 DEF Midway, Begun
<1> QED BY <1>1, <1>2, <1>3, <1>4
        DEF Step, IgnoreIfInState, MustBeOn, CheckBusy, IsAllowed, Atomic,
            SleepRaises, Rollback

\* Every step leaves a transient state its owner.
LEMMA OwnerStep ==
    ASSUME BadDelays = FALSE, SafeInv, TransientHasOwner, [Next]_vars
    PROVE  TransientHasOwner'
<1> USE ConstantsAssumption
<1>1. CASE UNCHANGED vars
    BY <1>1 DEF vars, TransientHasOwner, Midway, Begun, LastStep
<1>2. ASSUME NEW t \in Threads, NEW c \in CommandSet, Call(t, c)
      PROVE  TransientHasOwner'
  <2>1. ~Midway(t) /\ store' = store
      BY <1>2 DEF Call, Midway, Begun
  <2>2. \A u \in Threads : u # t => Place(u)' = Place(u)
      BY <1>2 DEF Call, Place, SafeInv, TypeInv, TypeOK
  <2>3. \A u \in Threads : Midway(u) => Midway(u)' /\ op'[u] = op[u]
      BY <2>1, <2>2, MidwayFrame
  <2> QED BY <2>1, <2>3 DEF TransientHasOwner
<1>3. ASSUME NEW t \in Threads, Step(t) PROVE TransientHasOwner'
  <2>1. \A u \in Threads : u # t /\ Midway(u) => Midway(u)' /\ op'[u] = op[u]
      BY <1>3, OthersKeepPlace, MidwayFrame DEF SafeInv
  <2>2. CASE ~Write(t)
    <3>1. store' = store
        BY <1>3, <2>2
        DEF Step, IgnoreIfInState, MustBeOn, CheckBusy, IsAllowed, Atomic,
            Acquire, Signal, Release, SleepRaises, Rollback, SafeInv, CopyInv
    <3>2. Midway(t) => Midway(t)' /\ op'[t] = op[t]
        BY <1>3, <2>2, MidwayUntilWrite DEF SafeInv
    <3> QED BY <2>1, <3>1, <3>2 DEF TransientHasOwner
  <2>3. CASE Write(t)
    <3> DEFINE c == op[t]
               i == step[t]
    <3>1. /\ store' = Updated(store, Steps[c][i])
          /\ pc'[t] = "written" /\ op'[t] = c /\ step'[t] = i
        BY <2>3 DEF Write, SafeInv, CopyInv, TypeInv, TypeOK
    <3>2. c \in Operations /\ i \in 1..Len(Steps[c]) /\ store \in Store
        BY <2>3 DEF Write, SafeInv, TypeInv, TypeOK, CallInv
    <3>3. Len(Steps[c]) \in 1..3
        BY <3>2, StepsLength
    <3>4. i # Len(Steps[c]) => Midway(t)' /\ op'[t] = c
        BY <3>1 DEF Midway, Begun, LastStep
    <3>5. CASE c \in SwitchCommands
      <4>1. CASE i = Len(Steps[c])
          BY <3>1, <3>2, <3>5, <4>1, SwitchUpdates
          DEF TransientHasOwner, None
      <4>2. CASE i # Len(Steps[c])
        <5>1. i < Len(Steps[c])
            BY <3>2, <3>3, <4>2
        <5>2. store'.obs_state = store.obs_state
            BY <3>1, <3>2, <3>5, <5>1, SwitchUpdates
        <5>3. c \notin ObsCommands
            BY <3>5 DEF SwitchCommands, ObsCommands
        <5> QED BY <2>1, <3>4, <3>5, <4>2, <5>2, <5>3 DEF TransientHasOwner
      <4> QED BY <4>1, <4>2
    <3>6. CASE c \in ObsCommands
      <4>1. store'.state = store.state
          BY <3>1, <3>2, <3>6, ObsUpdates
      <4>2. c \notin SwitchCommands
          BY <3>6 DEF SwitchCommands, ObsCommands
      <4>3. i = Len(Steps[c]) =>
              store'.obs_state \notin
                {"BUSY", "RESOURCING", "CONFIGURING", "SCANNING"}
          BY <3>1, <3>2, <3>6, ObsUpdates
      <4> QED BY <2>1, <3>4, <3>6, <4>1, <4>2, <4>3 DEF TransientHasOwner
    <3>7. CASE c = "reset_state"
        BY <3>1, <3>2, <3>7, ResetUpdates
        DEF TransientHasOwner, Cleared, None
    <3> QED BY <3>2, <3>5, <3>6, <3>7 DEF Operations
  <2> QED BY <2>2, <2>3
<1> QED BY <1>1, <1>2, <1>3 DEF Next, AnyCall

\* With acceptable delays and any number of racing callers, a transient state
\* is stored only while a command that will end it is under way.
THEOREM TransientsAreOwned ==
    ASSUME BadDelays = FALSE PROVE Spec => []TransientHasOwner
<1>1. Init => TransientHasOwner
    BY DEF Init, TransientHasOwner, Cleared, None
<1>2. SafeInv /\ TransientHasOwner /\ [Next]_vars => TransientHasOwner'
    BY OwnerStep
<1> QED BY <1>1, <1>2, SafeInvAlways, PTL DEF Spec

-----------------------------------------------------------------------------
\* Refinement of AtomicCommands.

LEMMA SameTables ==
    Abs!Steps = Steps /\ Abs!Cleared = Cleared /\
    \A s, a : Abs!Updated(s, a) = Updated(s, a)
BY DEF Abs!Steps, Steps, Abs!Assign, Assign, Abs!Keep, Keep, Abs!None, None,
       Abs!Cleared, Cleared, Abs!Updated, Updated

\* What the mapped variable todo holds at each place in a call.
LEMMA RemainingAt ==
    ASSUME NEW t \in Threads
    PROVE  /\ pc[t] \in {"acquire", "locked"} =>
                Remaining(t) = From(op[t], step[t])
           /\ pc[t] \in {"written", "signalled"} =>
                Remaining(t) = From(op[t], step[t] + 1)
           /\ pc[t] \notin {"acquire", "locked", "written", "signalled"} =>
                Remaining(t) = << >>
BY DEF Remaining, From

LEMMA RemainingAtNext ==
    ASSUME NEW t \in Threads
    PROVE  /\ pc'[t] \in {"acquire", "locked"} =>
                Remaining(t)' = From(op'[t], step'[t])
           /\ pc'[t] \in {"written", "signalled"} =>
                Remaining(t)' = From(op'[t], step'[t] + 1)
           /\ pc'[t] \notin {"acquire", "locked", "written", "signalled"} =>
                Remaining(t)' = << >>
BY DEF Remaining, From

\* Before its first Acquire a thread is at its command's first update.
Early == {"ignore", "must_be_on", "check_busy", "is_allowed", "atomic"}

EarlyInv == \A t \in Threads : pc[t] \in Early => step[t] = 1

LEMMA EarlyStep ==
    ASSUME TypeInv, EarlyInv, [Next]_vars PROVE EarlyInv'
<1>1. CASE UNCHANGED vars
    BY <1>1 DEF vars, EarlyInv
<1>2. ASSUME NEW t \in Threads, NEW c \in CommandSet, Call(t, c)
      PROVE  EarlyInv'
    BY <1>2 DEF Call, TypeInv, TypeOK, EarlyInv
<1>3. ASSUME NEW t \in Threads, Step(t) PROVE EarlyInv'
  <2>1. \A u \in Threads : u # t => Place(u)' = Place(u)
      BY <1>3, OthersKeepPlace
  <2>2. pc'[t] \in Early => pc[t] \in Early /\ step'[t] = step[t]
      BY <1>3
      DEF Step, IgnoreIfInState, MustBeOn, CheckBusy, IsAllowed, Atomic,
          Acquire, Write, Signal, Release, SleepRaises, Rollback, Goto,
          Return, Early, TypeInv, TypeOK
  <2> QED BY <2>1, <2>2 DEF Place, EarlyInv
<1> QED BY <1>1, <1>2, <1>3 DEF Next, AnyCall

\* A step that moves the rest of thread t's command by one abstract action, and
\* nobody else's, is that action.
LEMMA AbstractStart ==
    ASSUME NEW t \in Threads, NEW c \in CommandSet,
           Remaining(t) = << >>, Remaining(t)' = Steps[c], store' = store,
           \A u \in Threads : u # t => Remaining(u)' = Remaining(u)
    PROVE  Abs!Next
<1>1. Abs!Start(t, c)
    BY SameTables DEF Abs!Start
<1> QED BY <1>1 DEF Abs!Next

LEMMA AbstractUpdate ==
    ASSUME NEW t \in Threads,
           Remaining(t) # << >>, Remaining(t)' = Tail(Remaining(t)),
           store' = Updated(store, Head(Remaining(t))),
           \A u \in Threads : u # t => Remaining(u)' = Remaining(u)
    PROVE  Abs!Next
<1>1. Abs!Update(t)
    BY SameTables DEF Abs!Update
<1> QED BY <1>1 DEF Abs!Next

LEMMA AbstractStutter ==
    ASSUME store' = store, \A u \in Threads : Remaining(u)' = Remaining(u)
    PROVE  UNCHANGED Abs!absVars
BY DEF Abs!absVars

\* Every step is one of AtomicCommands or changes nothing in it.
LEMMA AbstractStep ==
    ASSUME BadDelays = FALSE, SafeInv, EarlyInv, [Next]_vars
    PROVE  [Abs!Next]_(Abs!absVars)
<1> USE ConstantsAssumption
<1>1. CASE UNCHANGED vars
    BY <1>1, AbstractStutter DEF vars, Remaining
<1>2. ASSUME NEW t \in Threads, Step(t) \/ \E c \in CommandSet : Call(t, c)
      PROVE  [Abs!Next]_(Abs!absVars)
  <2>1. \A u \in Threads : u # t => Remaining(u)' = Remaining(u)
    <3>1. \A u \in Threads : u # t => Place(u)' = Place(u)
      <4>1. CASE Step(t)
          BY <4>1, OthersKeepPlace DEF SafeInv
      <4>2. CASE \E c \in CommandSet : Call(t, c)
          BY <4>2 DEF Call, Place, SafeInv, TypeInv, TypeOK
      <4> QED BY <1>2, <4>1, <4>2
    <3> QED BY <3>1 DEF Place, Remaining
  <2>2. ASSUME NEW c \in CommandSet, Call(t, c)
        PROVE  [Abs!Next]_(Abs!absVars)
    <3>1. /\ Remaining(t) = << >>
          /\ store' = store
          /\ pc'[t] = Entry(c) /\ op'[t] = c /\ step'[t] = 1
        BY <2>2, RemainingAt DEF Call, SafeInv, TypeInv, TypeOK
    <3>2. CASE c = "reset_state"
      <4>1. Remaining(t)' = Steps[c]
          BY <3>1, <3>2, RemainingAtNext, FromFacts DEF Entry
      <4> QED BY <2>1, <3>1, <4>1, AbstractStart
    <3>3. CASE c # "reset_state"
      <4>1. pc'[t] \notin {"acquire", "locked", "written", "signalled"}
          BY <3>1, <3>3 DEF Entry
      <4>2. Remaining(t)' = << >>
          BY <4>1, RemainingAtNext
      <4> QED BY <2>1, <3>1, <4>2, AbstractStutter
    <3> QED BY <3>2, <3>3
  <2>3. CASE Step(t)
    <3> DEFINE c == op[t]
               i == step[t]
    <3>0. pc[t] # "idle" =>
            /\ c \in CommandSet /\ c \in Operations
            /\ i \in 1..Len(Steps[c])
        BY DEF SafeInv, TypeInv, CallInv
    <3>1. CASE IgnoreIfInState(t) \/ MustBeOn(t) \/ CheckBusy(t) \/ IsAllowed(t)
      <4>1. /\ store' = store
            /\ pc[t] \notin {"acquire", "locked", "written", "signalled"}
            /\ pc'[t] \notin {"acquire", "locked", "written", "signalled"}
          BY <3>1 DEF IgnoreIfInState, MustBeOn, CheckBusy, IsAllowed, Return,
                      Goto, SafeInv, TypeInv, TypeOK
      <4>2. Remaining(t)' = << >> /\ Remaining(t) = << >>
          BY <4>1, RemainingAt, RemainingAtNext
      <4> QED BY <2>1, <4>1, <4>2, AbstractStutter
    <3>2. CASE Atomic(t)
      <4>1. /\ store' = store /\ pc[t] = "atomic"
            /\ pc'[t] = "acquire" /\ op'[t] = c /\ step'[t] = i
          BY <3>2 DEF Atomic, SafeInv, TypeInv, TypeOK
      <4>2. i = 1
          BY <4>1 DEF EarlyInv, Early
      <4>3. Remaining(t) = << >> /\ Remaining(t)' = From(c, 1)
          BY <4>1, <4>2, RemainingAt, RemainingAtNext
      <4>4. Remaining(t)' = Steps[c]
          BY <3>0, <4>1, <4>3, FromFacts
      <4> QED BY <2>1, <3>0, <4>1, <4>3, <4>4, AbstractStart
    <3>3. CASE Acquire(t) \/ Signal(t)
      <4>1. /\ store' = store /\ op'[t] = c /\ step'[t] = i
            /\ \/ pc[t] = "acquire" /\ pc'[t] = "locked"
               \/ pc[t] = "written" /\ pc'[t] = "signalled"
          BY <3>3 DEF Acquire, Signal, SafeInv, TypeInv, TypeOK
      <4>2. Remaining(t)' = Remaining(t)
          BY <4>1, RemainingAt, RemainingAtNext
      <4> QED BY <2>1, <4>1, <4>2, AbstractStutter
    <3>4. CASE Write(t)
      <4>1. /\ store' = Updated(store, Steps[c][i])
            /\ pc[t] = "locked" /\ pc'[t] = "written"
            /\ op'[t] = c /\ step'[t] = i
          BY <3>4 DEF Write, SafeInv, CopyInv, TypeInv, TypeOK
      <4>2. Remaining(t) = From(c, i) /\ Remaining(t)' = From(c, i + 1)
          BY <4>1, RemainingAt, RemainingAtNext
      <4>3. /\ Remaining(t) # << >>
            /\ Head(Remaining(t)) = Steps[c][i]
            /\ Tail(Remaining(t)) = Remaining(t)'
          BY <3>0, <4>1, <4>2, FromFacts
      <4> QED BY <2>1, <4>1, <4>3, AbstractUpdate
    <3>5. CASE Release(t)
      <4>1. pc[t] = "signalled" /\ store' = store
          BY <3>5 DEF Release
      <4>2. Remaining(t) = From(c, i + 1)
          BY <4>1, RemainingAt
      <4>3. CASE LastStep(t)
        <5>1. pc'[t] = "idle"
            BY <3>5, <4>3 DEF Release, Return, SafeInv, TypeInv, TypeOK
        <5>2. Remaining(t)' = << >>
            BY <5>1, RemainingAtNext
        <5>3. Remaining(t) = << >>
            BY <3>0, <4>1, <4>2, <4>3, FromFacts DEF LastStep
        <5> QED BY <2>1, <4>1, <5>2, <5>3, AbstractStutter
      <4>4. CASE ~LastStep(t)
        <5>1. pc'[t] = "acquire" /\ op'[t] = c /\ step'[t] = i + 1
            BY <3>5, <4>4 DEF Release, SafeInv, TypeInv, TypeOK
        <5>2. Remaining(t)' = From(c, i + 1)
            BY <5>1, RemainingAtNext
        <5> QED BY <2>1, <4>1, <4>2, <5>2, AbstractStutter
      <4> QED BY <4>3, <4>4
    <3>6. ~SleepRaises(t) /\ ~Rollback(t)
        BY DEF SleepRaises, Rollback, SafeInv, CopyInv
    <3> QED BY <2>3, <3>1, <3>2, <3>3, <3>4, <3>5, <3>6 DEF Step
  <2> QED BY <1>2, <2>2, <2>3
<1> QED BY <1>1, <1>2 DEF Next, AnyCall

\* With acceptable delays, the in-memory updater implements atomic updates:
\* none is lost, repeated or applied out of its command's order, whatever
\* threads race.
THEOREM ImplementsAtomicCommands ==
    ASSUME BadDelays = FALSE PROVE Spec => UpdatesAreAtomic
<1>1. Init => Abs!Init
  <2> SUFFICES ASSUME Init PROVE Abs!Init
      OBVIOUS
  <2>1. \A t \in Threads : Remaining(t) = << >>
      BY RemainingAt DEF Init
  <2> QED BY <2>1, SameTables DEF Init, Abs!Init
<1>2. Init => EarlyInv
    BY DEF Init, EarlyInv, Early
<1>3. SafeInv /\ EarlyInv /\ [Next]_vars => EarlyInv'
    BY EarlyStep DEF SafeInv
<1>4. SafeInv /\ EarlyInv /\ [Next]_vars => [Abs!Next]_(Abs!absVars)
    BY AbstractStep
<1> QED BY <1>1, <1>2, <1>3, <1>4, SafeInvAlways, PTL
        DEF Spec, UpdatesAreAtomic, Abs!Spec

-----------------------------------------------------------------------------
\* One caller.  Whatever delays it passes, the stored state is one of the five
\* resting ones whenever the caller is not in a command's body; in the body it
\* is what the updates made so far have turned one of them into.

After(c, s, n) == IF n = 0 THEN s ELSE Updated(s, Steps[c][n])

Made(t) == IF pc[t] \in {"acquire", "locked"} THEN step[t] - 1 ELSE step[t]

InBody(t) == pc[t] \in {"acquire", "locked", "written", "signalled"}

Began(t, s) == /\ op[t] # "reset_state" =>
                     s = original[t] /\ Passes(op[t], s)
               /\ store = After(op[t], s, Made(t))

OneCallerInv ==
    \A t \in Threads :
        /\ result[t] # "type_error"
        /\ pc[t] \in Early \cup {"idle"} => store \in Resting
        /\ pc[t] = "ignore" => op[t] \in SwitchCommands \cup ObsCommands
        /\ pc[t] = "must_be_on" =>
              op[t] \in ObsCommands /\ ~Ignored(op[t], store)
        /\ pc[t] \in {"check_busy", "is_allowed"} =>
              /\ ~Ignored(op[t], store)
              /\ op[t] \in SwitchCommands
                    \/ (op[t] \in ObsCommands /\ store.state = "ON")
        /\ pc[t] = "atomic" => op[t] # "reset_state" /\ Passes(op[t], store)
        /\ InBody(t) => \E s \in Resting : Began(t, s)
        /\ pc[t] = "rollback" => /\ original[t] \in Resting
                                 /\ op[t] # "reset_state" /\ step[t] > 1
                                 /\ Passes(op[t], original[t])
        /\ pc[t] \in {"locked", "written"} => local[t] = store

LEMMA OneCallerInit == Init => OneCallerInv
BY RestingInStore DEF Init, OneCallerInv, InBody

\* The updates made so far, and the next one.
LEMMA AfterNext ==
    ASSUME NEW c \in Operations, NEW s \in Store, NEW i \in 1..Len(Steps[c])
    PROVE  Updated(After(c, s, i - 1), Steps[c][i]) = After(c, s, i)
<1>0. i \in Nat /\ i # 0
    BY StepsLength
<1>1. CASE i = 1
    BY <1>1 DEF After
<1>2. CASE i # 1
  <2>1. i - 1 \in 1..Len(Steps[c]) /\ (i - 1) + 1 = i /\ i - 1 # 0
      BY <1>2, StepsLength
  <2>2. Updated(Updated(s, Steps[c][i - 1]), Steps[c][(i - 1) + 1]) =
          Updated(s, Steps[c][(i - 1) + 1])
    <3>1. (i - 1) + 1 \in 1..Len(Steps[c])
        BY <2>1
    <3> QED BY <2>1, <3>1, UpdatesOverwrite
  <2> QED BY <1>0, <2>1, <2>2 DEF After
<1> QED BY <1>1, <1>2

\* Every step of a single caller keeps the machine on its way between two
\* resting states.
LEMMA OneCallerStep ==
    ASSUME NEW t, Threads = {t}, TypeInv, LockInv, EarlyInv, OneCallerInv,
           [Next]_vars
    PROVE  OneCallerInv'
<1> USE ConstantsAssumption DEF TypeInv, TypeOK
<1>1. CASE UNCHANGED vars
    BY <1>1 DEF vars, OneCallerInv, InBody, Began, Made
<1>2. ASSUME NEW c \in CommandSet, Call(t, c) PROVE OneCallerInv'
  <2>1. /\ pc'[t] = Entry(c) /\ op'[t] = c /\ step'[t] = 1
        /\ result'[t] = "pending" /\ store' = store
      BY <1>2 DEF Call
  <2>2. store \in Resting /\ c \in Operations
      BY <1>2 DEF Call, OneCallerInv
  <2>3. CASE c = "reset_state"
    <3>1. pc'[t] = "acquire"
        BY <2>1, <2>3 DEF Entry
    <3>2. Began(t, store)'
        BY <2>1, <2>3, <3>1 DEF Began, Made, After
    <3> QED BY <2>1, <2>2, <3>1, <3>2 DEF OneCallerInv, Early
  <2>4. CASE c = "configure"
    <3>1. pc'[t] = "must_be_on" /\ c \in ObsCommands /\ ~Ignored(c, store)
        BY <2>1, <2>4 DEF Entry, ObsCommands, Ignored
    <3> QED BY <2>1, <2>2, <3>1 DEF OneCallerInv, InBody
  <2>5. CASE c \notin {"reset_state", "configure"}
    <3>1. pc'[t] = "ignore" /\ c \in SwitchCommands \cup ObsCommands
        BY <2>1, <2>2, <2>5 DEF Entry, Operations
    <3> QED BY <2>1, <2>2, <3>1 DEF OneCallerInv, InBody
  <2> QED BY <2>3, <2>4, <2>5
<1>3. ASSUME Step(t) PROVE OneCallerInv'
  <2>0. t \in Threads
      OBVIOUS
  <2>1. CASE IgnoreIfInState(t)
    <3>1. store \in Resting /\ op[t] \in SwitchCommands \cup ObsCommands
        BY <2>1 DEF IgnoreIfInState, OneCallerInv, Early
    <3>2. CASE Return(t, "ignored")
        BY <2>1, <3>1, <3>2 DEF IgnoreIfInState, Return, OneCallerInv, InBody
    <3>3. CASE ~Ignored(op[t], store)
        BY <2>1, <3>1, <3>3 DEF IgnoreIfInState, Goto, OneCallerInv, InBody
    <3> QED BY <2>1, <3>2, <3>3 DEF IgnoreIfInState
  <2>2. CASE MustBeOn(t)
      BY <2>2 DEF MustBeOn, Return, Goto, OneCallerInv, InBody, Early
  <2>3. CASE CheckBusy(t)
      BY <2>3 DEF CheckBusy, Return, Goto, OneCallerInv, InBody, Early
  <2>4. CASE IsAllowed(t)
    <3>1. store \in Resting /\ HasEntry(store)
        BY <2>4, RestingHasEntry DEF IsAllowed, OneCallerInv, Early
    <3>2. CASE Return(t, "not_allowed")
        BY <2>4, <3>1, <3>2 DEF IsAllowed, Return, OneCallerInv, InBody
    <3>3. CASE Allowed(op[t], store) /\ Goto(t, "atomic")
      <4>1. Passes(op[t], store) /\ op[t] # "reset_state"
          BY <2>4, <3>3 DEF IsAllowed, OneCallerInv, Passes, SwitchCommands,
                            ObsCommands
      <4> QED BY <2>4, <3>1, <3>3, <4>1 DEF IsAllowed, Goto, OneCallerInv, InBody
    <3> QED BY <2>4, <3>1, <3>2, <3>3 DEF IsAllowed
  <2>5. CASE Atomic(t)
    <3>1. /\ store \in Resting /\ store' = store /\ step[t] = 1
          /\ op[t] # "reset_state" /\ Passes(op[t], store)
        BY <2>5 DEF Atomic, OneCallerInv, EarlyInv, Early
    <3>2. Began(t, store)'
        BY <2>5, <3>1 DEF Atomic, Began, Made, After
    <3> QED BY <2>5, <3>1, <3>2 DEF Atomic, OneCallerInv, Early
  <2>6. CASE Acquire(t)
    <3>1. PICK s \in Resting : Began(t, s)
        BY <2>6 DEF Acquire, OneCallerInv, InBody
    <3>2. Began(t, s)'
        BY <2>6, <3>1 DEF Acquire, Began, Made
    <3> QED BY <2>6, <3>2 DEF Acquire, OneCallerInv, Early
  <2>7. CASE Write(t)
    <3>1. PICK s \in Resting : Began(t, s)
        BY <2>7 DEF Write, OneCallerInv, InBody
    <3>2. /\ op[t] \in Operations /\ step[t] \in 1..Len(Steps[op[t]])
          /\ local[t] = After(op[t], s, step[t] - 1)
        BY <2>7, <3>1 DEF Write, CallInv, OneCallerInv, Began, Made
    <3>3. store' = After(op[t], s, step[t])
        BY <2>7, <3>2, AfterNext, RestingInStore DEF Write
    <3>4. Began(t, s)'
        BY <2>7, <3>1, <3>3 DEF Write, Began, Made
    <3> QED BY <2>7, <3>4 DEF Write, OneCallerInv, Early
  <2>8. CASE Signal(t)
    <3>1. PICK s \in Resting : Began(t, s)
        BY <2>8 DEF Signal, OneCallerInv, InBody
    <3>2. Began(t, s)'
        BY <2>8, <3>1 DEF Signal, Began, Made
    <3> QED BY <2>8, <3>2 DEF Signal, OneCallerInv, Early
  <2>9. CASE Release(t)
    <3>1. PICK s \in Resting : Began(t, s)
        BY <2>9 DEF Release, OneCallerInv, InBody
    <3>2. op[t] \in Operations /\ step[t] \in 1..Len(Steps[op[t]])
        BY <2>9 DEF Release, CallInv
    <3>3. Len(Steps[op[t]]) \in 1..3
        BY <3>2, StepsLength
    <3>4. CASE LastStep(t)
      <4>1. step[t] = Len(Steps[op[t]])
          BY <3>4 DEF LastStep
      <4>2. step[t] # 0
          BY <3>2, <3>3
      <4>3. store = After(op[t], s, step[t])
          BY <2>9, <3>1 DEF Release, Began, Made
      <4>4. store = Updated(s, Steps[op[t]][Len(Steps[op[t]])])
          BY <4>1, <4>2, <4>3 DEF After
      <4>5. store \in Resting
          BY <3>1, <3>2, <4>4, CommandsArrive DEF Began
      <4> QED BY <2>9, <3>4, <4>5
              DEF Release, Return, OneCallerInv, InBody
    <3>5. CASE ~LastStep(t)
      <4>1. (step[t] + 1) - 1 = step[t]
          BY <3>2
      <4>2. Began(t, s)'
          BY <2>9, <3>1, <3>5, <4>1 DEF Release, Began, Made
      <4> QED BY <2>9, <3>5, <4>2 DEF Release, OneCallerInv, Early
    <3> QED BY <3>4, <3>5
  <2>10. CASE SleepRaises(t)
    <3>1. PICK s \in Resting : Began(t, s)
        BY <2>10 DEF SleepRaises, OneCallerInv, InBody
    <3>2. op[t] # "reset_state"
      <4>1. step[t] \in 1..Len(Steps[op[t]]) /\ step[t] > 1
          BY <2>10 DEF SleepRaises, CallInv
      <4>2. Len(Steps["reset_state"]) = 1
          BY SwitchTable
      <4>3. op[t] = "reset_state" => step[t] \in 1..1
          BY <4>1, <4>2, Zenon
      <4> QED BY <4>1, <4>3
    <3> QED BY <2>10, <3>1, <3>2 DEF SleepRaises, OneCallerInv, InBody, Began,
                                     Early
  <2>11. CASE Rollback(t)
      BY <2>11 DEF Rollback, Return, OneCallerInv, InBody
  <2> QED BY <1>3, <2>1, <2>2, <2>3, <2>4, <2>5, <2>6, <2>7, <2>8, <2>9,
             <2>10, <2>11 DEF Step
<1> QED BY <1>1, <1>2, <1>3 DEF Next, AnyCall

AloneInv == TypeInv /\ LockInv /\ EarlyInv /\ OneCallerInv

LEMMA AloneInvStep ==
    ASSUME NEW t, Threads = {t}, AloneInv, [Next]_vars PROVE AloneInv'
BY TypeStep, LockStep, EarlyStep, OneCallerStep DEF AloneInv

LEMMA AloneInvInit == Init => AloneInv
<1>1. Init => LockInv
    BY ConstantsAssumption DEF Init, LockInv, Holds
<1>2. Init => EarlyInv
    BY DEF Init, EarlyInv, Early
<1> QED BY <1>1, <1>2, TypeInvInit, OneCallerInit DEF AloneInv

LEMMA AloneInvAlways ==
    ASSUME NEW t, Threads = {t} PROVE Spec => []AloneInv
BY AloneInvInit, AloneInvStep, PTL DEF Spec

\* The machine that a single caller left at rest, be it after a command that
\* was rolled back, admits one of three commands; whoever offers these is never
\* wedged.
THEOREM OneCallerNeverWedged ==
    ASSUME NEW t, Threads = {t},
           {"switch_on", "switch_off", "configure"} \subseteq CommandSet
    PROVE  Spec => []NeverWedged
<1>1. ASSUME AloneInv, Idle PROVE \E c \in CommandSet : Admitted(c)
  <2>1. store \in Resting
      BY <1>1 DEF Idle, AloneInv, OneCallerInv
  <2>2. lock = NoThread
      BY <1>1 DEF Idle, AloneInv, LockInv, Holds, TypeInv, TypeOK
  <2>3. \A c \in CommandSet : Passes(c, store) => Admitted(c)
      BY <2>2 DEF Passes, Admitted
  <2>4. \E c \in {"switch_on", "switch_off", "configure"} : Passes(c, store)
    <3>1. {"switch_on", "switch_off", "configure"} \subseteq Operations
        BY ConstantsAssumption
    <3> QED BY <2>1, <3>1, PassesTable DEF Resting, SwitchCommands
  <2> QED BY <2>3, <2>4
<1>2. AloneInv => NeverWedged
    BY <1>1 DEF NeverWedged
<1> QED BY <1>2, AloneInvAlways, PTL

-----------------------------------------------------------------------------
\* Refinement of Lifecycle by the machine of one caller.

\* What the variables of Lifecycle are mapped to.
LifeMode == IF Running = {} THEN ModeOf(store)
            ELSE ModeOf(original[CHOOSE u \in Running : TRUE])
LifeCmd  == IF Running = {} THEN "none"
            ELSE op[CHOOSE u \in Running : TRUE]

LEMMA LifeAt ==
    ASSUME NEW t, Threads = {t}
    PROVE  /\ Midway(t) => LifeMode = ModeOf(original[t]) /\ LifeCmd = op[t]
           /\ ~Midway(t) => LifeMode = ModeOf(store) /\ LifeCmd = "none"
<1>1. CASE Midway(t)
  <2>1. Running = {t}
      BY <1>1 DEF Running
  <2> QED BY <1>1, <2>1 DEF LifeMode, LifeCmd
<1>2. CASE ~Midway(t)
  <2>1. Running = {}
      BY <1>2 DEF Running
  <2> QED BY <1>2, <2>1 DEF LifeMode, LifeCmd
<1> QED BY <1>1, <1>2

LEMMA LifeAtNext ==
    ASSUME NEW t, Threads = {t}
    PROVE  /\ Midway(t)' => LifeMode' = ModeOf(original'[t]) /\ LifeCmd' = op'[t]
           /\ ~Midway(t)' => LifeMode' = ModeOf(store') /\ LifeCmd' = "none"
<1>1. CASE Midway(t)'
  <2>1. Running' = {t}
      BY <1>1 DEF Running
  <2> QED BY <1>1, <2>1 DEF LifeMode, LifeCmd, ModeOf
<1>2. CASE ~Midway(t)'
  <2>1. Running' = {}
      BY <1>2 DEF Running
  <2> QED BY <1>2, <2>1 DEF LifeMode, LifeCmd, ModeOf
<1> QED BY <1>1, <1>2

\* Lifecycle's table says where commands begin and lead to.
LEMMA TargetsTable ==
    ASSUME NEW c \in Operations, NEW s \in Resting, Passes(c, s)
    PROVE  /\ c \in DOMAIN Life!Targets[ModeOf(s)]
           /\ Life!Targets[ModeOf(s)][c] = ModeOf(Destination(c))
<1> USE DEF Life!Targets, Life!None, ModeOf, Destination, Assign, None
<1>1. CASE s = Cleared /\ c \in SwitchCommands
    BY <1>1 DEF Cleared, SwitchCommands
<1>2. CASE s = Assign("OFF", None) /\ c = "switch_on"
    BY <1>2
<1>3. CASE /\ s = Assign("ON", "EMPTY")
           /\ c \in {"switch_off", "assign_resources"}
    BY <1>3
<1>4. CASE /\ s = Assign("ON", "IDLE")
           /\ c \in {"release_resources", "configure"}
    BY <1>4
<1>5. CASE /\ s = Assign("ON", "READY")
           /\ c \in {"configure", "clear_config", "scan"}
    BY <1>5
<1> QED BY <1>1, <1>2, <1>3, <1>4, <1>5, PassesTable

LEMMA LifeBegin ==
    ASSUME NEW c \in CommandSet, LifeCmd = "none", LifeCmd' = c,
           c \in DOMAIN Life!Targets[LifeMode], LifeMode' = LifeMode
    PROVE  Life!Next
<1>1. Life!Begin(c)
    BY DEF Life!Begin, LifeMode, LifeCmd
<1> QED BY <1>1 DEF Life!Next

LEMMA LifeComplete ==
    ASSUME LifeCmd # "none", LifeCmd' = "none",
           LifeMode' = Life!Targets[LifeMode][LifeCmd]
    PROVE  Life!Next
<1>1. Life!Complete
    BY DEF Life!Complete, LifeMode, LifeCmd
<1> QED BY <1>1 DEF Life!Next

LEMMA LifeAbandon ==
    ASSUME LifeCmd # "none", LifeCmd' = "none", LifeMode' = LifeMode
    PROVE  Life!Next
<1>1. Life!Abandon
    BY DEF Life!Abandon, LifeMode, LifeCmd
<1> QED BY <1>1 DEF Life!Next

LEMMA LifeReset ==
    ASSUME "reset_state" \in CommandSet, LifeCmd = "none", LifeCmd' = "none",
           LifeMode' = None
    PROVE  Life!Next
<1>1. Life!Reset
    BY DEF Life!Reset, LifeMode, LifeCmd, Life!None, None
<1> QED BY <1>1 DEF Life!Next

LEMMA LifeStutter ==
    ASSUME LifeCmd' = LifeCmd, LifeMode' = LifeMode
    PROVE  UNCHANGED Life!lifeVars
BY DEF Life!lifeVars, LifeMode, LifeCmd

\* A step that leaves the command where it stood, seen from outside.
LEMMA LifeQuiet ==
    ASSUME NEW t, Threads = {t}, store' = store, Midway(t)' <=> Midway(t),
           Midway(t) => original'[t] = original[t] /\ op'[t] = op[t]
    PROVE  UNCHANGED Life!lifeVars
BY LifeAt, LifeAtNext, LifeStutter

\* The write of an update begins its command, completes it, resets the machine
\* or is one of the updates in between.
LEMMA LifeWrite ==
    ASSUME NEW t, Threads = {t}, AloneInv, Write(t)
    PROVE  Life!Next \/ UNCHANGED Life!lifeVars
<1> USE DEF TypeInv, TypeOK
<1>1. /\ op[t] \in CommandSet /\ op[t] \in Operations
      /\ step[t] \in 1..Len(Steps[op[t]]) /\ op[t] # "none"
    BY ConstantsAssumption
       DEF AloneInv, CallInv, Write, Operations, SwitchCommands, ObsCommands
<1>2. Len(Steps[op[t]]) \in 1..3
    BY <1>1, StepsLength
<1>3. PICK s \in Resting : Began(t, s) /\ local[t] = After(op[t], s, step[t] - 1)
    BY DEF AloneInv, OneCallerInv, InBody, Write, Began, Made
<1>4. store' = After(op[t], s, step[t])
    BY <1>1, <1>3, AfterNext, RestingInStore DEF Write
<1>5. Midway(t) <=> step[t] > 1
    BY DEF Midway, Begun, Write
<1>6. Midway(t)' <=> step[t] # Len(Steps[op[t]])
    BY DEF Midway, Begun, Write, LastStep, AloneInv
<1>7. original'[t] = original[t] /\ op'[t] = op[t]
    BY DEF Write
<1>8. CASE op[t] = "reset_state"
  <2>1. Len(Steps["reset_state"]) = 1
      BY SwitchTable
  <2>2. step[t] \in 1..1
      BY <1>1, <1>8, <2>1, Zenon
  <2>3. ~Midway(t) /\ ~Midway(t)'
      BY <1>5, <1>6, <1>8, <2>1, <2>2
  <2>4. store' = Updated(s, Steps["reset_state"][1])
      BY <1>4, <1>8, <2>2 DEF After
  <2>5. ModeOf(store') = None
      BY <2>4, SwitchTable DEF Updated, Assign, Keep, None, ModeOf
  <2>6. LifeCmd = "none" /\ LifeCmd' = "none" /\ LifeMode' = None
      BY <2>3, <2>5, LifeAt, LifeAtNext
  <2> QED BY <1>1, <1>8, <2>6, LifeReset
<1>9. CASE op[t] # "reset_state"
  <2>1. s = original[t] /\ Passes(op[t], s)
      BY <1>3, <1>9 DEF Began
  <2>2. Len(Steps[op[t]]) > 1
      BY <1>1, <1>9, <2>1, CommandsArrive
  <2>3. CASE step[t] = 1
    <3>1. store = original[t]
        BY <1>3, <2>1, <2>3 DEF Began, Made, After, Write
    <3>2. LifeMode = ModeOf(original[t]) /\ LifeCmd = "none"
        BY <1>5, <2>3, <3>1, LifeAt
    <3>3. LifeMode' = ModeOf(original[t]) /\ LifeCmd' = op[t]
      <4>1. Midway(t)'
        <5>1. step[t] # Len(Steps[op[t]])
          <6>1. \A n \in 1..3 : n > 1 => n # 1
              OBVIOUS
          <6> QED BY <1>2, <2>2, <2>3, <6>1, Zenon
        <5> QED BY <1>6, <5>1
      <4> QED BY <1>7, <4>1, LifeAtNext
    <3>4. op[t] \in DOMAIN Life!Targets[LifeMode]
        BY <1>1, <2>1, <3>2, TargetsTable
    <3> QED BY <1>1, <3>2, <3>3, <3>4, LifeBegin
  <2>4. CASE step[t] # 1 /\ step[t] = Len(Steps[op[t]])
    <3>1. LifeMode = ModeOf(original[t]) /\ LifeCmd = op[t]
        BY <1>1, <1>2, <1>5, <2>2, <2>4, LifeAt
    <3>2. LifeMode' = ModeOf(store') /\ LifeCmd' = "none"
        BY <1>6, <2>4, LifeAtNext
    <3>3. store' = Updated(s, Steps[op[t]][Len(Steps[op[t]])])
        BY <1>2, <1>4, <2>2, <2>4 DEF After
    <3>4. store' = Destination(op[t])
        BY <1>1, <2>1, <3>3, CommandsArrive
    <3>5. LifeMode' = Life!Targets[LifeMode][LifeCmd]
        BY <1>1, <2>1, <3>1, <3>2, <3>4, TargetsTable
    <3> QED BY <1>1, <3>1, <3>2, <3>5, LifeComplete
  <2>5. CASE step[t] # 1 /\ step[t] # Len(Steps[op[t]])
    <3>1. Midway(t) /\ Midway(t)'
        BY <1>1, <1>2, <1>5, <1>6, <2>5
    <3> QED BY <1>7, <3>1, LifeAt, LifeAtNext, LifeStutter
  <2> QED BY <2>3, <2>4, <2>5
<1> QED BY <1>8, <1>9

\* With one caller, every step of the machine is a step of Lifecycle or changes
\* nothing in it.
LEMMA LifeStep ==
    ASSUME NEW t, Threads = {t}, AloneInv, [Next]_vars
    PROVE  [Life!Next]_(Life!lifeVars)
<1> USE DEF Midway, Begun, AloneInv, TypeInv, TypeOK
<1>1. CASE UNCHANGED vars
    BY <1>1, LifeQuiet DEF vars, LastStep
<1>2. ASSUME NEW c \in CommandSet, Call(t, c) PROVE UNCHANGED Life!lifeVars
  <2>1. Entry(c) \in {"acquire", "must_be_on", "ignore"}
      BY DEF Entry
  <2> QED BY <1>2, <2>1, LifeQuiet DEF Call
<1>3. ASSUME Step(t) PROVE Life!Next \/ UNCHANGED Life!lifeVars
  <2>1. CASE IgnoreIfInState(t) \/ MustBeOn(t) \/ CheckBusy(t) \/ IsAllowed(t)
    <3>1. /\ pc[t] \in {"ignore", "must_be_on", "check_busy", "is_allowed"}
          /\ pc'[t] \in {"idle", "must_be_on", "check_busy", "is_allowed", "atomic"}
          /\ store' = store
        BY <2>1 DEF IgnoreIfInState, MustBeOn, CheckBusy, IsAllowed, Return, Goto
    <3> QED BY <3>1, LifeQuiet
  <2>2. CASE Atomic(t)
    <3>1. step[t] = 1 /\ step' = step /\ pc'[t] = "acquire" /\ store' = store
        BY <2>2 DEF Atomic, EarlyInv, Early
    <3> QED BY <2>2, <3>1, LifeQuiet DEF Atomic
  <2>3. CASE Acquire(t)
      BY <2>3, LifeQuiet DEF Acquire
  <2>4. CASE Write(t)
      BY <2>4, LifeWrite
  <2>5. CASE Signal(t)
      BY <2>5, LifeQuiet DEF Signal, LastStep
  <2>6. CASE Release(t)
    <3>1. CASE LastStep(t)
        BY <2>6, <3>1, LifeQuiet DEF Release, Return
    <3>2. CASE ~LastStep(t)
      <4>1. step'[t] > 1 /\ pc'[t] = "acquire" /\ pc[t] = "signalled"
          BY <2>6, <3>2, StepsLength, ConstantsAssumption DEF Release, CallInv
      <4> QED BY <2>6, <3>2, <4>1, LifeQuiet DEF Release
    <3> QED BY <3>1, <3>2
  <2>7. CASE SleepRaises(t)
      BY <2>7, LifeQuiet DEF SleepRaises
  <2>8. CASE Rollback(t)
    <3>1. /\ Midway(t) /\ ~Midway(t)' /\ op[t] # "none"
          /\ store' = original[t]
        BY <2>8, ConstantsAssumption
           DEF Rollback, Return, CallInv, Operations, SwitchCommands, ObsCommands
    <3> QED BY <3>1, LifeAt, LifeAtNext, LifeAbandon
  <2> QED BY <1>3, <2>1, <2>2, <2>3, <2>4, <2>5, <2>6, <2>7, <2>8 DEF Step
<1> QED BY <1>1, <1>2, <1>3 DEF Next, AnyCall

\* A machine with one caller is the five-mode machine of Lifecycle, but for
\* the promise that every command ends: the commands begin only where the table
\* has them, end in their target mode or where they began, one at a time.
THEOREM OneCallerFollowsLifecycle ==
    ASSUME NEW t, Threads = {t}
    PROVE  Spec => Life!Init /\ [][Life!Next]_(Life!lifeVars)
<1>1. Init => Life!Init
  <2> SUFFICES ASSUME Init PROVE Life!Init
      OBVIOUS
  <2>1. ~Midway(t) /\ ModeOf(store) = None
      BY DEF Init, Midway, Begun, ModeOf, Cleared, None
  <2> QED BY <2>1, LifeAt DEF Life!Init, LifeMode, LifeCmd, Life!None, None
<1>2. AloneInv /\ [Next]_vars => [Life!Next]_(Life!lifeVars)
    BY LifeStep
<1> QED BY <1>1, <1>2, AloneInvAlways, PTL DEF Spec

=============================================================================
