--------------------------- MODULE WsServerProofs ----------------------------
(***************************************************************************)
(* Theorems about WsServer, for any number of clients and of state changes *)
(* and any sizes of the pool of workers.                                   *)
(***************************************************************************)
EXTENDS WsServer, FiniteSetTheorems, SequenceTheorems, TLAPS

-----------------------------------------------------------------------------
\* The inductive invariant.

Ascending(s) == \A i, j \in DOMAIN s : i < j => s[i] < s[j]

Before(S, T) == \A m \in S, n \in T : m < n

\* A connection, the call of start_server() for it and the server's thread are
\* new together; the thread has an event only while it publishes.
PlaceInv ==
    \A w \in Servers :
        /\ caller[w] \in {"new", "wait", "waiting", "running"}
        /\ thread[w] \in {"unborn", "loop", "get", "publish"}
        /\ conn[w] = "new" <=> caller[w] = "new"
        /\ thread[w] = "unborn" <=> caller[w] = "new"
        /\ event[w] # 0 <=> thread[w] = "publish"

\* No job is there twice.
DistinctInv == IsInjective(queue) /\ Range(queue) \cap running = {}

\* A get() for w waits for a worker or has one.
Asked(w) == Get(w) \in Range(queue) \cup running

\* The handler of an open connection asks for an event, and not while it has
\* one to send.
AskInv ==
    \A w \in Servers :
        /\ hand[w] # 0 \/ Asked(w) => caller[w] = "running" /\ conn[w] # "closed"
        /\ conn[w] = "closed" => caller[w] = "running"
        /\ Asked(w) => hand[w] = 0

\* The four places of Stream(w), and what is anywhere in it.
ReceivedBy(w)   == Range(inbox[w])
InHand(w)     == {hand[w]} \ {0}
InEvents(w)   == Range(events[w])
Publishing(w) == {event[w]} \ {0}

Held(w) == ReceivedBy(w) \cup InHand(w) \cup InEvents(w) \cup Publishing(w)

\* w's states are in order in each place and from place to place.
PlacesOrdered(w) ==
    /\ Before(ReceivedBy(w), InHand(w)) /\ Before(ReceivedBy(w), InEvents(w))
    /\ Before(ReceivedBy(w), Publishing(w)) /\ Before(InHand(w), InEvents(w))
    /\ Before(InHand(w), Publishing(w)) /\ Before(InEvents(w), Publishing(w))

Ordered(w) == Ascending(inbox[w]) /\ Ascending(events[w]) /\ PlacesOrdered(w)

\* The signal queue is in order and has no STOP; what was taken off it, and is
\* held for one connection or is lost, is older.
SignalInv == /\ Ascending(signals) /\ Range(signals) \subseteq 1..changes
             /\ lost \subseteq 1..changes /\ Before(lost, Range(signals))
             /\ \A w \in Servers : /\ Held(w) \subseteq 1..changes
                                   /\ Before(Held(w), Range(signals))

Closed == {w \in Servers : conn[w] = "closed"}

ShareInv ==
    /\ \A w \in Servers : Ordered(w) /\ Held(w) \cap lost = {}
    /\ \A v, w \in Servers : v # w => Held(v) \cap Held(w) = {}
    /\ \A n \in 1..changes : \/ n \in Range(signals) \cup lost
                             \/ \E w \in Servers : n \in Held(w)
    /\ Cardinality(lost) = Cardinality(Closed)

IInv == TypeOK /\ PlaceInv /\ DistinctInv /\ AskInv /\ SignalInv /\ ShareInv

-----------------------------------------------------------------------------
\* Sequences that grow at the back and shrink at the front.

LEMMA Lengthened ==
    ASSUME NEW S, NEW s \in Seq(S), NEW e \in S
    PROVE  /\ Append(s, e) \in Seq(S)
           /\ Range(Append(s, e)) = Range(s) \cup {e}
           /\ IsInjective(s) /\ e \notin Range(s) => IsInjective(Append(s, e))
<1> DEFINE t == Append(s, e)
<1>1. /\ t \in Seq(S) /\ Len(s) \in Nat
      /\ DOMAIN s = 1..Len(s) /\ DOMAIN t = 1..Len(s) + 1
      /\ \A i \in 1..Len(s) : t[i] = s[i]
      /\ t[Len(s) + 1] = e
    BY AppendProperties, LenProperties
<1> HIDE DEF t
<1>2. \A i \in 1..Len(s) + 1 : i \in 1..Len(s) \/ i = Len(s) + 1
    BY <1>1
<1>3. Range(t) = Range(s) \cup {e}
    BY <1>1, <1>2 DEF Range
<1>4. ASSUME IsInjective(s), e \notin Range(s) PROVE IsInjective(t)
  <2> SUFFICES ASSUME NEW i \in DOMAIN t, NEW j \in DOMAIN t, t[i] = t[j]
               PROVE  i = j
      BY DEF IsInjective
  <2> QED BY <1>1, <1>2, <1>4 DEF IsInjective, Range
<1> QED BY <1>1, <1>3, <1>4 DEF t

LEMMA AscendingAppend ==
    ASSUME NEW S, NEW s \in Seq(S), NEW e \in S, S \subseteq Nat,
           Ascending(s), \A n \in Range(s) : n < e
    PROVE  Ascending(Append(s, e)) /\ Range(Append(s, e)) = Range(s) \cup {e}
<1> DEFINE t == Append(s, e)
<1>1. /\ Len(s) \in Nat /\ DOMAIN s = 1..Len(s) /\ DOMAIN t = 1..Len(s) + 1
      /\ \A i \in 1..Len(s) : t[i] = s[i]
      /\ t[Len(s) + 1] = e
    BY AppendProperties, LenProperties
<1>2. Range(t) = Range(s) \cup {e}
    BY Lengthened
<1> HIDE DEF t
<1>3. ASSUME NEW i \in DOMAIN t, NEW j \in DOMAIN t, i < j
      PROVE  t[i] < t[j]
  <2>1. i \in 1..Len(s) /\ (j \in 1..Len(s) \/ j = Len(s) + 1)
      BY <1>1, <1>3
  <2> QED BY <1>1, <1>3, <2>1 DEF Ascending, Range
<1> QED BY <1>2, <1>3 DEF Ascending, t

LEMMA Shortened ==
    ASSUME NEW S, NEW s \in Seq(S), s # << >>
    PROVE  /\ Head(s) \in S /\ Tail(s) \in Seq(S)
           /\ Range(s) = {Head(s)} \cup Range(Tail(s))
           /\ IsInjective(s) => /\ IsInjective(Tail(s))
                                /\ Head(s) \notin Range(Tail(s))
           /\ Ascending(s) => /\ Ascending(Tail(s))
                              /\ \A n \in Range(Tail(s)) : Head(s) < n
<1> DEFINE t == Tail(s)
<1>1. /\ t \in Seq(S) /\ Len(s) \in Nat \ {0} /\ Head(s) = s[1]
      /\ DOMAIN s = 1..Len(s) /\ DOMAIN t = 1..Len(s) - 1
      /\ \A i \in 1..Len(s) - 1 : t[i] = s[i + 1]
    BY HeadTailProperties, LenProperties, EmptySeq
<1> HIDE DEF t
<1>2. \A i \in 1..Len(s) : i = 1 \/ (i - 1 \in 1..Len(s) - 1 /\ (i - 1) + 1 = i)
    BY <1>1
<1>3. \A i \in 1..Len(s) - 1 : i + 1 \in 1..Len(s) /\ 1 \in 1..Len(s)
    BY <1>1
<1>4. Range(s) = {s[1]} \cup Range(t)
  <2>1. \A i \in 1..Len(s) : i = 1 \/ s[i] = t[i - 1]
      BY <1>1, <1>2
  <2>2. 1 \in 1..Len(s)
      BY <1>1
  <2> QED BY <1>1, <1>2, <1>3, <2>1, <2>2, SMTT(30) DEF Range
<1>5. ASSUME IsInjective(s) PROVE IsInjective(t) /\ s[1] \notin Range(t)
  <2>1. \A i, j \in 1..Len(s) : s[i] = s[j] => i = j
      BY <1>1, <1>5 DEF IsInjective
  <2>2. \A i, j \in 1..Len(s) - 1 : t[i] = t[j] => i + 1 = j + 1
      BY <1>1, <1>3, <2>1
  <2>3. \A i \in 1..Len(s) - 1 : t[i] = s[1] => i + 1 = 1
      BY <1>1, <1>3, <2>1
  <2> QED BY <1>1, <2>2, <2>3 DEF IsInjective, Range
<1>6. ASSUME Ascending(s)
      PROVE  Ascending(t) /\ \A n \in Range(t) : s[1] < n
  <2>1. \A i \in 1..Len(s) - 1 : 1 < i + 1
      BY <1>1
  <2>2. \A i, j \in 1..Len(s) - 1 : i < j => i + 1 < j + 1
      BY <1>1
  <2> QED BY <1>1, <1>3, <1>6, <2>1, <2>2, ZenonT(40) DEF Ascending, Range
<1>7. Head(s) \in S
    BY HeadTailProperties
<1> QED BY <1>1, <1>4, <1>5, <1>6, <1>7 DEF t

LEMMA InitInv == ASSUME Init PROVE IInv
<1> USE ServersAssumption, PoolAssumption DEF Init, ServerInit
<1>1. Range(<< >>) = {} /\ IsInjective(<< >>) /\ Ascending(<< >>)
    BY EmptySeq DEF Range, IsInjective, Ascending
<1>2. TypeOK
  <2>1. Cardinality({}) = 0
      BY FS_EmptySet
  <2> QED BY <2>1, EmptySeq DEF TypeOK, ServerTypeOK, ThreadStates,
                                CallerStates
<1>3. PlaceInv
    BY DEF PlaceInv
<1>4. DistinctInv /\ AskInv
    BY <1>1 DEF DistinctInv, AskInv, Asked
<1>5. \A w \in Servers : Held(w) = {} /\ Ordered(w)
  <2> SUFFICES ASSUME NEW w \in Servers PROVE Held(w) = {} /\ Ordered(w)
      OBVIOUS
  <2>1. inbox[w] = << >> /\ events[w] = << >> /\ hand[w] = 0 /\ event[w] = 0
      OBVIOUS
  <2>2. ReceivedBy(w) = {} /\ InEvents(w) = {} /\ InHand(w) = {}
        /\ Publishing(w) = {}
      BY <1>1, <2>1 DEF ReceivedBy, InEvents, InHand, Publishing
  <2> QED BY <1>1, <2>1, <2>2 DEF Held, Ordered, PlacesOrdered, Before
<1>6. SignalInv
    BY <1>1, <1>5 DEF SignalInv, Before
<1>7. ShareInv
  <2>1. Closed = {} /\ 1..changes = {}
      BY DEF Closed
  <2> QED BY <1>5, <2>1 DEF ShareInv
<1> QED BY <1>2, <1>3, <1>4, <1>6, <1>7 DEF IInv

-----------------------------------------------------------------------------
\* What every step is.
Steps ==
    \/ TakeJob
    \/ \E w \in Servers :
          \/ Connect(w) \/ Command(w) \/ Leave(w)
          \/ AwaitServer(w) \/ SetStartedFlag(w) \/ Send(w)
          \/ GotEvent(w) \/ StateSet(w)
          \/ ServeSignal(w) \/ Publish(w)

LEMMA NextSteps == Next <=> Steps
BY Zenon DEF Next, Steps, WorkerStep, ServerStep, LoopStep

LEMMA JobsFinite == IsFiniteSet(Jobs)
<1>1. IsFiniteSet({"get", "set"} \X Servers)
  <2>1. IsFiniteSet({"get"} \cup {"set"})
      BY FS_Singleton, FS_Union
  <2>2. {"get"} \cup {"set"} = {"get", "set"}
      OBVIOUS
  <2> QED BY <2>1, <2>2, FS_Product, ServersAssumption
<1> DEFINE f == [p \in {"get", "set"} \X Servers |->
                    [what |-> p[1], for |-> p[2]]]
<1>2. f \in Surjection({"get", "set"} \X Servers, Jobs)
  <2>1. f \in [{"get", "set"} \X Servers -> Jobs]
      BY DEF Jobs
  <2>2. ASSUME NEW j \in Jobs
        PROVE  \E p \in {"get", "set"} \X Servers : f[p] = j
    <3>1. <<j.what, j.for>> \in {"get", "set"} \X Servers
        BY DEF Jobs
    <3>2. f[<<j.what, j.for>>] = j
        BY <3>1 DEF Jobs
    <3> QED BY <3>1, <3>2
  <2> QED BY <2>1, <2>2 DEF Surjection
<1> QED BY <1>1, <1>2, FS_Surjection

LEMMA TypeStep ==
    ASSUME TypeOK, PlaceInv, [Next]_vars
    PROVE  TypeOK'
<1> USE ServersAssumption, PoolAssumption
    DEF TypeOK, ServerTypeOK, ThreadStates, CallerStates
<1>1. ASSUME NEW w \in Servers, Connect(w) PROVE TypeOK'
    BY <1>1 DEF Connect, StartServer
<1>2. ASSUME NEW w \in Servers, Leave(w) PROVE TypeOK'
    BY <1>2 DEF Leave, serverVars
<1>3. \A w \in Servers : Get(w) \in Jobs /\ Set(w) \in Jobs
    BY DEF Get, Set, Jobs
<1>4. ASSUME NEW w \in Servers, Command(w) PROVE TypeOK'
  <2>1. Append(queue, Set(w)) \in Seq(Jobs)
      BY <1>3, AppendProperties
  <2> QED BY <1>4, <2>1 DEF Command, serverVars
<1>5. ASSUME NEW w \in Servers, AwaitServer(w) \/ SetStartedFlag(w)
      PROVE  TypeOK'
  <2>1. Append(queue, Get(w)) \in Seq(Jobs)
      BY <1>3, AppendProperties
  <2> QED BY <1>5, <2>1
          DEF AwaitServer, WaitStarted, SetStartedFlag, SetStarted
<1>6. ASSUME NEW w \in Servers, Send(w) PROVE TypeOK'
  <2>1. Append(queue, Get(w)) \in Seq(Jobs)
      BY <1>3, AppendProperties
  <2>2. hand[w] \in 1..MaxChanges
      BY <1>6 DEF Send
  <2>3. Append(inbox[w], hand[w]) \in Seq(1..MaxChanges)
      BY <2>2, AppendProperties
  <2>4. /\ inbox' \in [Servers -> Seq(1..MaxChanges)]
        /\ queue' \in Seq(Jobs) /\ lost' \in SUBSET (1..MaxChanges)
        /\ conn' \in [Servers -> {"new", "open", "left", "closed"}]
    <3>1. CASE conn[w] = "open"
        BY <1>6, <2>1, <2>3, <3>1 DEF Send
    <3>2. CASE conn[w] = "left"
        BY <1>6, <2>2, <3>2 DEF Send
    <3> QED BY <1>6, <3>1, <3>2 DEF Send
  <2>5. hand' \in [Servers -> 0..MaxChanges]
        /\ UNCHANGED <<workers, running, events, serverVars>>
      BY <1>6 DEF Send
  <2> QED BY <2>4, <2>5 DEF serverVars
<1>7. CASE TakeJob
  <2>1. Head(queue) \in Jobs /\ Tail(queue) \in Seq(Jobs)
      BY <1>7, HeadTailProperties DEF TakeJob
  <2>2. workers \in Nat /\ Cardinality(running) \in Nat
        /\ Cardinality(running) < workers
      BY <1>7, JobsFinite, FS_Subset, FS_CardinalityType
      DEF TakeJob
  <2>3. Cardinality(running \cup {Head(queue)}) <= workers
    <3>1. IsFiniteSet(running)
        BY JobsFinite, FS_Subset
    <3>2. Cardinality(running \cup {Head(queue)})
             \in {Cardinality(running), Cardinality(running) + 1}
        BY <3>1, FS_AddElement
    <3> QED BY <2>2, <3>2
  <2> QED BY <1>7, <2>1, <2>3 DEF TakeJob, serverVars
<1>8. \A j : /\ running \ {j} \in SUBSET Jobs
             /\ Cardinality(running \ {j}) <= workers
  <2>1. /\ IsFiniteSet(running) /\ workers \in Nat
        /\ Cardinality(running) \in Nat /\ Cardinality(running) <= workers
      BY JobsFinite, FS_Subset, FS_CardinalityType
  <2>2. SUFFICES ASSUME NEW j
                 PROVE  Cardinality(running \ {j}) <= workers
      OBVIOUS
  <2>3. Cardinality(running \ {j})
           \in {Cardinality(running), Cardinality(running) - 1}
      BY <2>1, FS_RemoveElement
  <2> QED BY <2>1, <2>3
<1>9. ASSUME NEW w \in Servers, GotEvent(w) PROVE TypeOK'
  <2>1. /\ Head(events[w]) \in 1..MaxChanges
        /\ Tail(events[w]) \in Seq(1..MaxChanges)
      BY <1>9, HeadTailProperties DEF GotEvent
  <2>2. /\ hand' \in [Servers -> 0..MaxChanges]
        /\ events' \in [Servers -> Seq(1..MaxChanges)]
      BY <1>9, <2>1, SMTT(30) DEF GotEvent
  <2>3. /\ running' = running \ {Get(w)}
        /\ UNCHANGED <<workers, conn, queue, inbox, lost, serverVars>>
      BY <1>9 DEF GotEvent
  <2> QED BY <1>8, <2>2, <2>3 DEF serverVars
<1>10. ASSUME NEW w \in Servers, StateSet(w) PROVE TypeOK'
  <2>1. changes + 1 \in 0..MaxChanges
      BY <1>10 DEF StateSet, Change
  <2>2. Append(signals, changes + 1) \in Seq(0..MaxChanges)
      BY <2>1, AppendProperties
  <2> QED BY <1>8, <1>10, <2>1, <2>2 DEF StateSet, Change
<1>11. ASSUME NEW w \in Servers, ServeSignal(w) PROVE TypeOK'
  <2>1. Head(signals) \in 0..MaxChanges /\ Tail(signals) \in Seq(0..MaxChanges)
      BY <1>11, HeadTailProperties DEF ServeSignal, GetState
  <2> QED BY <1>11, <2>1 DEF ServeSignal, GetState, wsVars
<1>12. ASSUME NEW w \in Servers, Publish(w) PROVE TypeOK'
  <2>1. event[w] \in 1..MaxChanges
      BY <1>12 DEF Publish, Published, PlaceInv
  <2>2. Append(events[w], event[w]) \in Seq(1..MaxChanges)
      BY <2>1, AppendProperties
  <2> QED BY <1>12, <2>2 DEF Publish, Published
<1>13. CASE UNCHANGED vars
    BY <1>13 DEF vars, serverVars, wsVars
<1> QED BY <1>1, <1>2, <1>4, <1>5, <1>6, <1>7, <1>9, <1>10, <1>11, <1>12,
           <1>13, NextSteps DEF Steps

-----------------------------------------------------------------------------
\* Connections, their servers, and the pool's jobs.

LEMMA PlaceStep ==
    ASSUME TypeOK, PlaceInv, SignalInv, [Next]_vars
    PROVE  PlaceInv'
<1> USE DEF TypeOK, ServerTypeOK, PlaceInv
<1>1. ASSUME NEW w \in Servers, Connect(w) PROVE PlaceInv'
    BY <1>1 DEF Connect, StartServer
<1>2. ASSUME NEW w \in Servers, Command(w) \/ Leave(w) PROVE PlaceInv'
    BY <1>2 DEF Command, Leave, serverVars
<1>3. ASSUME NEW w \in Servers, AwaitServer(w) \/ SetStartedFlag(w)
      PROVE  PlaceInv'
    BY <1>3 DEF AwaitServer, WaitStarted, SetStartedFlag,
                SetStarted
<1>4. ASSUME NEW w \in Servers, Send(w) PROVE PlaceInv'
    BY <1>4 DEF Send, serverVars
<1>5. CASE TakeJob
    BY <1>5 DEF TakeJob, serverVars
<1>6. ASSUME NEW w \in Servers, GotEvent(w) \/ StateSet(w) PROVE PlaceInv'
    BY <1>6 DEF GotEvent, StateSet, Change, serverVars
<1>7. ASSUME NEW w \in Servers, ServeSignal(w) PROVE PlaceInv'
    BY <1>7 DEF ServeSignal, GetState, STOP, wsVars
<1>8. ASSUME NEW w \in Servers, Publish(w) PROVE PlaceInv'
    BY <1>8 DEF Publish, Published
<1>9. CASE UNCHANGED vars
    BY <1>9 DEF vars, serverVars, wsVars
<1> QED BY <1>1, <1>2, <1>3, <1>4, <1>5, <1>6, <1>7, <1>8, <1>9, NextSteps
        DEF Steps

\* A job is asked for ...
LEMMA JobQueued ==
    ASSUME TypeOK, DistinctInv, NEW w \in Servers,
           NEW j \in {Get(w), Set(w)},
           j \notin Range(queue) \cup running,
           queue' = Append(queue, j), running' = running
    PROVE  /\ DistinctInv'
           /\ \A v \in Servers : Asked(v)' <=> Asked(v) \/ j = Get(v)
<1>1. j \in Jobs
    BY DEF Get, Set, Jobs
<1>2. Range(queue') = Range(queue) \cup {j} /\ IsInjective(queue')
    BY <1>1, Lengthened DEF TypeOK, DistinctInv
<1>3. \A v : Asked(v)' <=> Get(v) \in Range(queue') \cup running'
    BY DEF Asked, Get
<1> QED BY <1>2, <1>3 DEF DistinctInv, Asked

LEMMA JobNames ==
    \A v, w \in Servers : /\ Set(v) # Get(w)
                          /\ Get(v) = Get(w) => v = w
BY DEF Get, Set

LEMMA DistinctAskStep ==
    ASSUME TypeOK, PlaceInv, DistinctInv, AskInv, [Next]_vars
    PROVE  DistinctInv' /\ AskInv'
<1>0. \A v : Asked(v)' <=> Get(v) \in Range(queue') \cup running'
    BY DEF Asked, Get
<1>1. ASSUME UNCHANGED hand, \A w \in Servers : Asked(w)' => Asked(w),
             \A w \in Servers : /\ caller[w] = "running" => caller'[w] = "running"
                                /\ conn'[w] = "closed" => conn[w] = "closed"
      PROVE  AskInv'
    BY <1>1 DEF AskInv
<1>2. ASSUME UNCHANGED <<queue, running>>
      PROVE  DistinctInv' /\ \A v \in Servers : Asked(v)' <=> Asked(v)
    BY <1>0, <1>2 DEF DistinctInv, Asked
<1>3. ASSUME NEW w \in Servers, Connect(w) PROVE DistinctInv' /\ AskInv'
    BY <1>1, <1>2, <1>3 DEF Connect, StartServer, TypeOK,
                            ServerTypeOK
<1>4. ASSUME NEW w \in Servers, Command(w) PROVE DistinctInv' /\ AskInv'
  <2>1. /\ Set(w) \notin Range(queue) \cup running
        /\ queue' = Append(queue, Set(w))
        /\ UNCHANGED <<running, hand, conn, caller>>
      BY <1>4 DEF Command, serverVars
  <2>2. DistinctInv' /\ \A v \in Servers : Asked(v)' <=> Asked(v)
      BY <2>1, JobQueued, JobNames
  <2> QED BY <1>1, <2>1, <2>2
<1>5. ASSUME NEW w \in Servers, Leave(w) PROVE DistinctInv' /\ AskInv'
    BY <1>1, <1>2, <1>5 DEF Leave, serverVars, TypeOK
<1>6. ASSUME NEW w \in Servers, AwaitServer(w) \/ SetStartedFlag(w)
      PROVE  DistinctInv' /\ AskInv'
  <2>1. UNCHANGED <<running, hand, conn>>
      BY <1>6 DEF AwaitServer, SetStartedFlag
  <2>2. \A v \in Servers : caller[v] = "running" => caller'[v] = "running"
      BY <1>6 DEF AwaitServer, WaitStarted, SetStartedFlag,
                  SetStarted, TypeOK,
                  ServerTypeOK
  <2>3. CASE queue' = queue
      BY <1>1, <1>2, <2>1, <2>2, <2>3
  <2>4. CASE queue' # queue
    <3>1. /\ caller[w] \in {"wait", "waiting"} /\ caller'[w] = "running"
          /\ queue' = Append(queue, Get(w))
        BY <1>6, <2>4 DEF AwaitServer, WaitStarted, SetStartedFlag,
                          SetStarted,
                          TypeOK, ServerTypeOK
    <3>2. ~Asked(w) /\ hand[w] = 0 /\ conn[w] # "closed"
        BY <3>1 DEF AskInv
    <3>3. DistinctInv' /\ \A v \in Servers : Asked(v)' <=> Asked(v) \/ v = w
        BY <2>1, <3>1, <3>2, JobQueued, JobNames DEF Asked
    <3> QED BY <2>1, <2>2, <3>1, <3>2, <3>3 DEF AskInv
  <2> QED BY <2>3, <2>4
<1>7. ASSUME NEW w \in Servers, Send(w) PROVE DistinctInv' /\ AskInv'
  <2>1. /\ hand[w] # 0 /\ UNCHANGED <<running, caller>>
        /\ \A v \in Servers : hand'[v] = IF v = w THEN 0 ELSE hand[v]
      BY <1>7 DEF Send, serverVars, TypeOK
  <2>2. ~Asked(w) /\ caller[w] = "running"
      BY <2>1 DEF AskInv
  <2>3. CASE conn[w] = "open"
    <3>1. queue' = Append(queue, Get(w)) /\ conn' = conn
        BY <1>7, <2>3 DEF Send
    <3>2. DistinctInv' /\ \A v \in Servers : Asked(v)' <=> Asked(v) \/ v = w
        BY <2>1, <2>2, <3>1, JobQueued, JobNames DEF Asked
    <3> QED BY <2>1, <2>2, <2>3, <3>1, <3>2 DEF AskInv
  <2>4. CASE conn[w] = "left"
    <3>1. /\ queue' = queue
          /\ \A v \in Servers : v # w => conn'[v] = conn[v]
        BY <1>7, <2>4 DEF Send, TypeOK
    <3> QED BY <1>2, <2>1, <2>2, <3>1 DEF AskInv
  <2> QED BY <1>7, <2>3, <2>4 DEF Send
<1>8. CASE TakeJob
  <2>1. /\ queue # << >> /\ queue' = Tail(queue)
        /\ running' = running \cup {Head(queue)}
        /\ UNCHANGED <<hand, conn, caller>>
      BY <1>8 DEF TakeJob, serverVars
  <2>2. /\ Range(queue) = {Head(queue)} \cup Range(queue')
        /\ IsInjective(queue') /\ Head(queue) \notin Range(queue')
      BY <2>1, Shortened DEF TypeOK, DistinctInv
  <2>3. /\ DistinctInv'
        /\ Range(queue') \cup running' = Range(queue) \cup running
      BY <2>1, <2>2 DEF DistinctInv
  <2> QED BY <1>0, <1>1, <2>1, <2>3 DEF Asked
<1>9. ASSUME NEW w \in Servers, GotEvent(w) PROVE DistinctInv' /\ AskInv'
  <2>1. /\ Get(w) \in running /\ running' = running \ {Get(w)}
        /\ UNCHANGED <<queue, conn, caller>>
        /\ \A v \in Servers : v # w => hand'[v] = hand[v]
      BY <1>9 DEF GotEvent, serverVars, TypeOK
  <2>2. /\ DistinctInv' /\ ~Asked(w)'
        /\ \A v \in Servers : Asked(v)' => Asked(v)
      BY <1>0, <2>1 DEF DistinctInv, Asked
  <2>3. caller[w] = "running" /\ conn[w] # "closed"
      BY <2>1 DEF AskInv, Asked
  <2> QED BY <2>1, <2>2, <2>3 DEF AskInv
<1>10. ASSUME NEW w \in Servers, StateSet(w) PROVE DistinctInv' /\ AskInv'
  <2>1. /\ running' = running \ {Set(w)}
        /\ UNCHANGED <<queue, hand, conn, caller>>
      BY <1>10 DEF StateSet, Change
  <2>2. DistinctInv' /\ \A v \in Servers : Asked(v)' => Asked(v)
      BY <1>0, <2>1 DEF DistinctInv, Asked
  <2> QED BY <1>1, <2>1, <2>2
<1>11. ASSUME NEW w \in Servers, ServeSignal(w) \/ Publish(w)
       PROVE  DistinctInv' /\ AskInv'
    BY <1>1, <1>2, <1>11 DEF ServeSignal, GetState, Publish,
                             Published, wsVars
<1>12. CASE UNCHANGED vars
    BY <1>1, <1>2, <1>12 DEF vars, serverVars, wsVars
<1> QED BY <1>3, <1>4, <1>5, <1>6, <1>7, <1>8, <1>9, <1>10, <1>11, <1>12,
           NextSteps DEF Steps

-----------------------------------------------------------------------------
\* The states that the connections share.

LEMMA Kept ==
    ASSUME NEW w \in Servers, inbox'[w] = inbox[w], hand'[w] = hand[w],
           events'[w] = events[w], event'[w] = event[w]
    PROVE  Held(w)' = Held(w) /\ (Ordered(w) => Ordered(w)')
<1>1. /\ ReceivedBy(w)' = ReceivedBy(w) /\ InHand(w)' = InHand(w)
      /\ InEvents(w)' = InEvents(w) /\ Publishing(w)' = Publishing(w)
    BY DEF ReceivedBy, InHand, InEvents, Publishing
<1>2. Held(w)' = Held(w)
    BY <1>1 DEF Held
<1>3. Ordered(w) => Ordered(w)'
    BY <1>1 DEF Ordered, PlacesOrdered, Ascending, Before
<1> QED BY <1>2, <1>3

\* Nothing comes to a connection or goes from it, at most from place to place.
LEMMA SharesKept ==
    ASSUME SignalInv, ShareInv, UNCHANGED <<changes, signals, lost>>,
           Closed' = Closed,
           \A w \in Servers : Held(w)' = Held(w) /\ Ordered(w)'
    PROVE  SignalInv' /\ ShareInv'
<1>1. SignalInv'
    BY DEF SignalInv, Before, Ascending
<1>2. /\ \A w \in Servers : Ordered(w)' /\ Held(w)' \cap lost' = {}
      /\ \A v, w \in Servers : v # w => Held(v)' \cap Held(w)' = {}
      /\ \A n \in 1..changes' : \/ n \in Range(signals') \cup lost'
                                \/ \E w \in Servers : n \in Held(w)'
      /\ Cardinality(lost') = Cardinality(Closed')
    BY DEF ShareInv
<1> QED BY <1>1, <1>2 DEF ShareInv

LEMMA ClosedKept == ASSUME conn' = conn PROVE Closed' = Closed
BY DEF Closed

\* What is numbers and what is sequences.
LEMMA Parts ==
    ASSUME TypeOK, NEW w \in Servers
    PROVE  /\ inbox[w] \in Seq(1..MaxChanges) /\ events[w] \in Seq(1..MaxChanges)
           /\ ReceivedBy(w) \subseteq Nat /\ InHand(w) \subseteq Nat
           /\ InEvents(w) \subseteq Nat /\ Publishing(w) \subseteq Nat
<1>1. inbox[w] \in Seq(1..MaxChanges) /\ events[w] \in Seq(1..MaxChanges)
    BY DEF TypeOK
<1>2. ReceivedBy(w) \subseteq Nat /\ InEvents(w) \subseteq Nat
  <2>1. /\ Range(inbox[w]) \in SUBSET (1..MaxChanges)
        /\ Range(events[w]) \in SUBSET (1..MaxChanges)
      BY <1>1, RangeOfSeq
  <2>2. 1..MaxChanges \subseteq Nat
      OBVIOUS
  <2> QED BY <2>1, <2>2 DEF ReceivedBy, InEvents
<1>3. hand[w] \in Nat /\ event[w] \in Nat
    BY ServersAssumption DEF TypeOK, ServerTypeOK
<1> QED BY <1>1, <1>2, <1>3 DEF InHand, Publishing

\* From the Publisher's queue into the coroutine's hand.
LEMMA GotEventShares ==
    ASSUME TypeOK, AskInv, SignalInv, ShareInv, NEW w \in Servers,
           GotEvent(w)
    PROVE  SignalInv' /\ ShareInv'
<1> DEFINE head == Head(events[w])
<1>1. /\ events[w] # << >> /\ hand[w] = 0
      /\ hand'[w] = head /\ events'[w] = Tail(events[w])
      /\ inbox'[w] = inbox[w] /\ event'[w] = event[w]
      /\ UNCHANGED <<changes, signals, lost, conn>>
    BY DEF GotEvent, TypeOK, serverVars, AskInv, Asked
<1>2. \A v \in Servers : v # w => /\ hand'[v] = hand[v] /\ events'[v] = events[v]
                                  /\ inbox'[v] = inbox[v] /\ event'[v] = event[v]
    BY DEF GotEvent, TypeOK, serverVars
<1>3. /\ head \in 1..MaxChanges
      /\ Range(events[w]) = {head} \cup Range(Tail(events[w]))
      /\ Ascending(events[w]) => /\ Ascending(Tail(events[w]))
                                 /\ \A n \in Range(Tail(events[w])) : head < n
    BY <1>1, Parts, Shortened
<1>4. Ordered(w) /\ InHand(w) = {}
    BY <1>1 DEF ShareInv, InHand
<1>5. /\ ReceivedBy(w)' = ReceivedBy(w) /\ Publishing(w)' = Publishing(w)
      /\ InHand(w)' = {head} /\ InEvents(w)' = Range(Tail(events[w]))
      /\ InEvents(w) = {head} \cup InEvents(w)'
    BY <1>1, <1>3 DEF ReceivedBy, Publishing, InHand, InEvents
<1>6. Held(w)' = Held(w)
    BY <1>4, <1>5 DEF Held
<1>7. Ordered(w)'
  <2>1. Ascending(inbox[w])' /\ Ascending(events[w])'
      BY <1>1, <1>3, <1>4 DEF Ordered, Ascending
  <2>2. PlacesOrdered(w)'
      BY <1>3, <1>4, <1>5 DEF Ordered, PlacesOrdered, Before
  <2> QED BY <2>1, <2>2 DEF Ordered
<1>8. \A v \in Servers : Held(v)' = Held(v) /\ Ordered(v)'
  <2> SUFFICES ASSUME NEW v \in Servers, v # w
               PROVE  Held(v)' = Held(v) /\ Ordered(v)'
      BY <1>6, <1>7
  <2> QED BY <1>2, Kept DEF ShareInv
<1> QED BY <1>1, <1>8, ClosedKept, SharesKept

\* From the server's thread into the Publisher's queue.
LEMMA PublishShares ==
    ASSUME TypeOK, PlaceInv, SignalInv, ShareInv, NEW w \in Servers,
           Publish(w)
    PROVE  SignalInv' /\ ShareInv'
<1>1. /\ event[w] # 0 /\ event'[w] = 0
      /\ events'[w] = Append(events[w], event[w])
      /\ inbox'[w] = inbox[w] /\ hand'[w] = hand[w]
      /\ UNCHANGED <<changes, signals, lost, conn>>
    BY DEF Publish, Published, TypeOK, ServerTypeOK, PlaceInv
<1>2. \A v \in Servers : v # w => /\ hand'[v] = hand[v] /\ events'[v] = events[v]
                                  /\ inbox'[v] = inbox[v] /\ event'[v] = event[v]
    BY DEF Publish, Published, TypeOK, ServerTypeOK
<1>3. Ordered(w) /\ Publishing(w) = {event[w]}
    BY <1>1 DEF ShareInv, Publishing
<1>4. /\ Range(events'[w]) = Range(events[w]) \cup {event[w]}
      /\ Ascending(events'[w])
  <2>1. event[w] \in 1..MaxChanges /\ 1..MaxChanges \subseteq Nat
      BY <1>1, ServersAssumption DEF TypeOK, ServerTypeOK
  <2>2. \A n \in Range(events[w]) : n < event[w]
      BY <1>3 DEF Ordered, PlacesOrdered, Before, InEvents
  <2>3. events[w] \in Seq(1..MaxChanges) /\ Ascending(events[w])
      BY <1>3, Parts DEF Ordered
  <2>4. /\ Range(Append(events[w], event[w])) = Range(events[w]) \cup {event[w]}
        /\ Ascending(Append(events[w], event[w]))
      BY <2>1, <2>2, <2>3, AscendingAppend
  <2> QED BY <1>1, <2>4
<1>5. /\ ReceivedBy(w)' = ReceivedBy(w) /\ InHand(w)' = InHand(w)
      /\ Publishing(w)' = {} /\ InEvents(w)' = InEvents(w) \cup Publishing(w)
    BY <1>1, <1>3, <1>4 DEF ReceivedBy, Publishing, InHand, InEvents
<1>6. Held(w)' = Held(w)
    BY <1>5 DEF Held
<1>7. Ordered(w)'
  <2>1. Ascending(inbox[w])' /\ Ascending(events[w])'
      BY <1>1, <1>3, <1>4 DEF Ordered, Ascending
  <2>2. PlacesOrdered(w)'
      BY <1>3, <1>5 DEF Ordered, PlacesOrdered, Before
  <2> QED BY <2>1, <2>2 DEF Ordered
<1>8. \A v \in Servers : Held(v)' = Held(v) /\ Ordered(v)'
  <2> SUFFICES ASSUME NEW v \in Servers, v # w
               PROVE  Held(v)' = Held(v) /\ Ordered(v)'
      BY <1>6, <1>7
  <2> QED BY <1>2, Kept DEF ShareInv
<1> QED BY <1>1, <1>8, ClosedKept, SharesKept

\* From the coroutine's hand to the client.
LEMMA SendOpenShares ==
    ASSUME TypeOK, SignalInv, ShareInv, NEW w \in Servers, Send(w),
           conn[w] = "open"
    PROVE  SignalInv' /\ ShareInv'
<1>1. /\ hand[w] # 0 /\ hand'[w] = 0
      /\ inbox'[w] = Append(inbox[w], hand[w])
      /\ events'[w] = events[w] /\ event'[w] = event[w]
      /\ UNCHANGED <<changes, signals, lost, conn>>
    BY DEF Send, serverVars, TypeOK
<1>2. \A v \in Servers : v # w => /\ hand'[v] = hand[v] /\ events'[v] = events[v]
                                  /\ inbox'[v] = inbox[v] /\ event'[v] = event[v]
    BY DEF Send, serverVars, TypeOK
<1>3. Ordered(w) /\ InHand(w) = {hand[w]}
    BY <1>1 DEF ShareInv, InHand
<1>4. /\ Range(inbox'[w]) = Range(inbox[w]) \cup {hand[w]}
      /\ Ascending(inbox'[w])
  <2>1. hand[w] \in 1..MaxChanges /\ 1..MaxChanges \subseteq Nat
      BY <1>1, ServersAssumption DEF TypeOK
  <2>2. \A n \in Range(inbox[w]) : n < hand[w]
      BY <1>3 DEF Ordered, PlacesOrdered, Before, ReceivedBy
  <2>3. inbox[w] \in Seq(1..MaxChanges) /\ Ascending(inbox[w])
      BY <1>3, Parts DEF Ordered
  <2> DEFINE s == inbox[w]
             e == hand[w]
  <2>4. /\ s \in Seq(1..MaxChanges) /\ e \in 1..MaxChanges
        /\ Ascending(s) /\ \A n \in Range(s) : n < e
      BY <2>1, <2>2, <2>3
  <2> HIDE DEF s, e
  <2>5. Ascending(Append(s, e)) /\ Range(Append(s, e)) = Range(s) \cup {e}
      BY <2>1, <2>4, AscendingAppend
  <2> QED BY <1>1, <2>5 DEF s, e
<1>5. /\ ReceivedBy(w)' = ReceivedBy(w) \cup InHand(w) /\ InHand(w)' = {}
      /\ Publishing(w)' = Publishing(w) /\ InEvents(w)' = InEvents(w)
    BY <1>1, <1>3, <1>4 DEF ReceivedBy, Publishing, InHand, InEvents
<1>6. Held(w)' = Held(w)
    BY <1>5 DEF Held
<1>7. Ordered(w)'
  <2>1. Ascending(inbox[w])' /\ Ascending(events[w])'
      BY <1>1, <1>3, <1>4 DEF Ordered, Ascending
  <2>2. PlacesOrdered(w)'
      BY <1>3, <1>5 DEF Ordered, PlacesOrdered, Before
  <2> QED BY <2>1, <2>2 DEF Ordered
<1>8. \A v \in Servers : Held(v)' = Held(v) /\ Ordered(v)'
  <2> SUFFICES ASSUME NEW v \in Servers, v # w
               PROVE  Held(v)' = Held(v) /\ Ordered(v)'
      BY <1>6, <1>7
  <2> QED BY <1>2, Kept DEF ShareInv
<1> QED BY <1>1, <1>8, ClosedKept, SharesKept

\* From the coroutine's hand to nobody.
LEMMA SendLeftShares ==
    ASSUME TypeOK, SignalInv, ShareInv, NEW w \in Servers, Send(w),
           conn[w] = "left"
    PROVE  SignalInv' /\ ShareInv'
<1>1. /\ hand[w] # 0 /\ hand'[w] = 0 /\ lost' = lost \cup {hand[w]}
      /\ inbox'[w] = inbox[w]
      /\ events'[w] = events[w] /\ event'[w] = event[w]
      /\ UNCHANGED <<changes, signals>>
    BY DEF Send, serverVars, TypeOK
<1>2. \A v \in Servers : v # w => /\ hand'[v] = hand[v] /\ events'[v] = events[v]
                                  /\ inbox'[v] = inbox[v] /\ event'[v] = event[v]
    BY DEF Send, serverVars, TypeOK
<1>3. Ordered(w) /\ InHand(w) = {hand[w]}
    BY <1>1 DEF ShareInv, InHand
<1>4. /\ ReceivedBy(w)' = ReceivedBy(w) /\ InHand(w)' = {}
      /\ Publishing(w)' = Publishing(w) /\ InEvents(w)' = InEvents(w)
    BY <1>1 DEF ReceivedBy, Publishing, InHand, InEvents
<1>5. /\ hand[w] \in Held(w) /\ hand[w] \notin Held(w)'
      /\ Held(w)' \cup {hand[w]} = Held(w)
  <2>1. \A n \in ReceivedBy(w) : n \in Nat /\ n < hand[w]
      BY <1>3, Parts DEF Ordered, PlacesOrdered, Before
  <2>2. \A n \in InEvents(w) \cup Publishing(w) : n \in Nat /\ hand[w] < n
      BY <1>3, Parts DEF Ordered, PlacesOrdered, Before
  <2>3. hand[w] \in Nat
      BY DEF TypeOK
  <2>4. hand[w] \notin ReceivedBy(w) \cup InEvents(w) \cup Publishing(w)
      BY <2>1, <2>2, <2>3
  <2> QED BY <1>3, <1>4, <2>4 DEF Held
<1>6. Ordered(w)'
  <2>1. Ascending(inbox[w])' /\ Ascending(events[w])'
      BY <1>1, <1>3 DEF Ordered, Ascending
  <2>2. PlacesOrdered(w)'
      BY <1>3, <1>4 DEF Ordered, PlacesOrdered, Before
  <2> QED BY <2>1, <2>2 DEF Ordered
<1>7. \A v \in Servers : v # w => Held(v)' = Held(v) /\ Ordered(v)'
  <2> SUFFICES ASSUME NEW v \in Servers, v # w
               PROVE  Held(v)' = Held(v) /\ Ordered(v)'
      OBVIOUS
  <2> QED BY <1>2, Kept DEF ShareInv
<1>8. SignalInv'
    BY <1>1, <1>5, <1>7 DEF SignalInv, Before, Ascending
<1>9. Cardinality(lost') = Cardinality(Closed')
  <2>1. /\ IsFiniteSet(lost) /\ IsFiniteSet(Closed)
    <3>1. IsFiniteSet(1..MaxChanges) /\ lost \in SUBSET (1..MaxChanges)
        BY FS_Interval, ServersAssumption DEF TypeOK
    <3> QED BY <3>1, FS_Subset, ServersAssumption DEF Closed
  <2>2. Closed' = Closed \cup {w} /\ w \notin Closed
      BY DEF Send, TypeOK, Closed
  <2>3. hand[w] \notin lost
      BY <1>5 DEF ShareInv
  <2>4. /\ Cardinality(lost \cup {hand[w]}) = Cardinality(lost) + 1
        /\ Cardinality(Closed \cup {w}) = Cardinality(Closed) + 1
      BY <2>1, <2>2, <2>3, FS_AddElement
  <2> QED BY <1>1, <2>2, <2>4 DEF ShareInv
<1>10. \A v \in Servers : Ordered(v)' /\ Held(v)' \cap lost' = {}
  <2>1. ASSUME NEW v \in Servers, v # w PROVE hand[w] \notin Held(v)
      BY <1>5, <2>1 DEF ShareInv
  <2> QED BY <1>1, <1>5, <1>6, <1>7, <2>1 DEF ShareInv
<1>11. \A u, v \in Servers : u # v => Held(u)' \cap Held(v)' = {}
  <2>1. \A v \in Servers : Held(v)' \subseteq Held(v)
      BY <1>5, <1>7
  <2> QED BY <2>1 DEF ShareInv
<1>12. \A n \in 1..changes' : \/ n \in Range(signals') \cup lost'
                              \/ \E v \in Servers : n \in Held(v)'
  <2> SUFFICES ASSUME NEW n \in 1..changes, n \notin Range(signals) \cup lost,
                      n # hand[w]
               PROVE  \E v \in Servers : n \in Held(v)'
      BY <1>1
  <2>1. PICK v \in Servers : n \in Held(v)
      BY DEF ShareInv
  <2> QED BY <1>5, <1>7, <2>1
<1> QED BY <1>8, <1>9, <1>10, <1>11, <1>12 DEF ShareInv

\* From the signal queue to a server's thread.
LEMMA ServeSignalShares ==
    ASSUME TypeOK, PlaceInv, SignalInv, ShareInv, NEW w \in Servers,
           ServeSignal(w)
    PROVE  SignalInv' /\ ShareInv'
<1> DEFINE head == Head(signals)
<1>1. /\ event[w] = 0 /\ event'[w] = head /\ head # 0
      /\ signals # << >> /\ signals' = Tail(signals)
      /\ \A v \in Servers : /\ hand'[v] = hand[v] /\ events'[v] = events[v]
                            /\ inbox'[v] = inbox[v]
                            /\ v # w => event'[v] = event[v]
      /\ UNCHANGED <<changes, lost, conn>>
    BY DEF ServeSignal, GetState, STOP, TypeOK, ServerTypeOK,
           wsVars, PlaceInv
<1>2. /\ Range(signals) = {head} \cup Range(signals')
      /\ Ascending(signals') /\ head \notin Range(signals')
      /\ \A n \in Range(signals') : head < n
  <2>1. /\ Range(signals) = {head} \cup Range(signals') /\ Ascending(signals')
        /\ \A n \in Range(signals') : head < n
      BY <1>1, Shortened DEF TypeOK, ServerTypeOK, SignalInv
  <2>2. head \in Nat
      BY <2>1 DEF SignalInv
  <2> QED BY <2>1, <2>2
<1>3. Ordered(w) /\ Publishing(w) = {}
    BY <1>1 DEF ShareInv, Publishing
<1>4. /\ ReceivedBy(w)' = ReceivedBy(w) /\ InHand(w)' = InHand(w)
      /\ Publishing(w)' = {head} /\ InEvents(w)' = InEvents(w)
    BY <1>1 DEF ReceivedBy, Publishing, InHand, InEvents
<1>5. Held(w)' = Held(w) \cup {head}
    BY <1>3, <1>4 DEF Held
<1>6. \A n : n \in lost \/ (\E v \in Servers : n \in Held(v))
                => n # head /\ n < head
  <2>1. \A n \in lost : n < head
      BY <1>2 DEF SignalInv, Before
  <2>2. \A v \in Servers : \A n \in Held(v) : n < head
      BY <1>2 DEF SignalInv, Before
  <2>3. head \in Nat /\ ~(head < head)
      BY <1>2 DEF SignalInv
  <2> QED BY <2>1, <2>2, <2>3
<1>7. Ordered(w)'
  <2>1. Ascending(inbox[w])' /\ Ascending(events[w])'
      BY <1>1, <1>3 DEF Ordered, Ascending
  <2>2. /\ Before(ReceivedBy(w), {head}) /\ Before(InHand(w), {head})
        /\ Before(InEvents(w), {head})
      BY <1>6 DEF Before, Held
  <2>3. PlacesOrdered(w)'
      BY <1>3, <1>4, <2>2 DEF Ordered, PlacesOrdered, Before
  <2> QED BY <2>1, <2>3 DEF Ordered
<1>8. \A v \in Servers : v # w => Held(v)' = Held(v) /\ Ordered(v)'
  <2> SUFFICES ASSUME NEW v \in Servers, v # w
               PROVE  Held(v)' = Held(v) /\ Ordered(v)'
      OBVIOUS
  <2> QED BY <1>1, Kept DEF ShareInv
<1>9. SignalInv'
    BY <1>1, <1>2, <1>5, <1>8 DEF SignalInv, Before
<1>10. ShareInv'
  <2>1. \A v \in Servers : Ordered(v)' /\ Held(v)' \cap lost' = {}
      BY <1>1, <1>5, <1>6, <1>7, <1>8 DEF ShareInv
  <2>2. \A u, v \in Servers : u # v => Held(u)' \cap Held(v)' = {}
      BY <1>5, <1>6, <1>8 DEF ShareInv
  <2>3. \A n \in 1..changes' : \/ n \in Range(signals') \cup lost'
                               \/ \E v \in Servers : n \in Held(v)'
      BY <1>1, <1>2, <1>5, <1>8 DEF ShareInv
  <2>4. Cardinality(lost') = Cardinality(Closed')
      BY <1>1, ClosedKept DEF ShareInv
  <2> QED BY <2>1, <2>2, <2>3, <2>4 DEF ShareInv
<1> QED BY <1>9, <1>10

\* A new state at the back of the signal queue.
LEMMA StateSetShares ==
    ASSUME TypeOK, SignalInv, ShareInv, NEW w \in Servers, StateSet(w)
    PROVE  SignalInv' /\ ShareInv'
<1> DEFINE new == changes + 1
<1>1. /\ changes' = new /\ signals' = Append(signals, new)
      /\ new \in 0..MaxChanges /\ 0..MaxChanges \subseteq Nat
      /\ changes \in Nat /\ UNCHANGED <<lost, conn>>
      /\ \A v \in Servers : /\ hand'[v] = hand[v] /\ events'[v] = events[v]
                            /\ inbox'[v] = inbox[v] /\ event'[v] = event[v]
    BY ServersAssumption DEF StateSet, Change, TypeOK, ServerTypeOK
<1>2. \A v \in Servers : Held(v)' = Held(v) /\ Ordered(v)'
    BY <1>1, Kept DEF ShareInv
<1>3. /\ Range(signals') = Range(signals) \cup {new}
      /\ Ascending(signals')
  <2>1. \A n \in Range(signals) : n < new
      BY <1>1 DEF SignalInv
  <2>2. signals \in Seq(0..MaxChanges)
      BY DEF TypeOK, ServerTypeOK
  <2>3. /\ Range(Append(signals, new)) = Range(signals) \cup {new}
        /\ Ascending(Append(signals, new))
      BY <1>1, <2>1, <2>2, AscendingAppend DEF SignalInv
  <2> QED BY <1>1, <2>3
<1>4. 1..new = (1..changes) \cup {new} /\ \A n \in 1..changes : n < new
    BY <1>1
<1>5. SignalInv'
    BY <1>1, <1>2, <1>3, <1>4 DEF SignalInv, Before
<1>6. ShareInv'
    BY <1>1, <1>2, <1>3, <1>4, ClosedKept DEF ShareInv
<1> QED BY <1>5, <1>6

LEMMA ShareStep ==
    ASSUME TypeOK, PlaceInv, AskInv, SignalInv, ShareInv, [Next]_vars
    PROVE  SignalInv' /\ ShareInv'
<1>1. ASSUME UNCHANGED <<changes, signals, lost, hand, events, inbox>>,
             \A v \in Servers : event'[v] = event[v], Closed' = Closed
      PROVE  SignalInv' /\ ShareInv'
    BY <1>1, Kept, SharesKept DEF ShareInv
<1>2. ASSUME NEW w \in Servers,
             Connect(w) \/ Command(w) \/ Leave(w) \/ AwaitServer(w)
                \/ SetStartedFlag(w)
      PROVE  SignalInv' /\ ShareInv'
  <2>1. Closed' = Closed
      BY <1>2 DEF Connect, Command, Leave, AwaitServer,
                  SetStartedFlag, Closed,
                  TypeOK
  <2> QED BY <1>1, <1>2, <2>1
          DEF Connect, StartServer, Command, Leave,
              AwaitServer, WaitStarted,
              SetStartedFlag, SetStarted, serverVars
<1>3. CASE TakeJob
    BY <1>1, <1>3, ClosedKept DEF TakeJob, serverVars
<1>4. ASSUME NEW w \in Servers, Send(w) PROVE SignalInv' /\ ShareInv'
  <2>1. conn[w] \in {"open", "left"}
      BY <1>4 DEF Send
  <2> QED BY <1>4, <2>1, SendOpenShares, SendLeftShares
<1>5. CASE UNCHANGED vars
    BY <1>1, <1>5, ClosedKept DEF vars, serverVars, wsVars
<1> QED BY <1>2, <1>3, <1>4, <1>5, GotEventShares, PublishShares,
           ServeSignalShares, StateSetShares, NextSteps DEF Steps

LEMMA Inductive ==
    ASSUME IInv, [Next]_vars
    PROVE  IInv'
BY TypeStep, PlaceStep, DistinctAskStep, ShareStep DEF IInv

-----------------------------------------------------------------------------
\* What the invariant says of Stream.

LEMMA Concatenated ==
    ASSUME NEW s \in Seq(Nat), NEW t \in Seq(Nat), Ascending(s), Ascending(t),
           Before(Range(s), Range(t))
    PROVE  /\ s \o t \in Seq(Nat) /\ Ascending(s \o t)
           /\ Range(s \o t) = Range(s) \cup Range(t)
<1> DEFINE u == s \o t
           m == Len(s)
           n == Len(t)
<1>1. /\ u \in Seq(Nat) /\ m \in Nat /\ n \in Nat
      /\ DOMAIN s = 1..m /\ DOMAIN t = 1..n /\ DOMAIN u = 1..m + n
      /\ \A i \in 1..m + n : u[i] = IF i <= m THEN s[i] ELSE t[i - m]
    BY ConcatProperties, LenProperties
<1> HIDE DEF u, m, n
<1>2. \A i \in 1..m + n : \/ i \in 1..m /\ i <= m
                          \/ i - m \in 1..n /\ ~(i <= m)
    BY <1>1
<1>3. \A i \in 1..m : i \in 1..m + n /\ i <= m
    BY <1>1
<1>4. \A i \in 1..n : i + m \in 1..m + n /\ ~(i + m <= m) /\ (i + m) - m = i
    BY <1>1
<1>5. \A i \in 1..m : s[i] \in Range(s) /\ u[i] = s[i]
    BY <1>1, <1>3 DEF Range
<1>6. \A i \in 1..n : t[i] \in Range(t) /\ u[i + m] = t[i]
    BY <1>1, <1>4 DEF Range
<1>7. Range(u) = Range(s) \cup Range(t)
  <2>1. Range(u) \subseteq Range(s) \cup Range(t)
      BY <1>1, <1>2 DEF Range
  <2>2. Range(s) \subseteq Range(u)
    <3>1. \A i \in 1..m : s[i] = u[i] /\ i \in 1..m + n
        BY <1>3, <1>5
    <3> QED BY <1>1, <3>1 DEF Range
  <2>3. Range(t) \subseteq Range(u)
    <3>1. ASSUME NEW i \in 1..n PROVE t[i] \in Range(u)
      <4>1. t[i] = u[i + m] /\ i + m \in DOMAIN u
          BY <1>1, <1>4, <1>6
      <4> QED BY <4>1 DEF Range
    <3> QED BY <1>1, <3>1 DEF Range
  <2> QED BY <2>1, <2>2, <2>3
<1>8. ASSUME NEW i \in 1..m + n, NEW j \in 1..m + n, i < j PROVE u[i] < u[j]
  <2>1. CASE i <= m /\ j <= m
      BY <1>1, <1>2, <1>8, <2>1 DEF Ascending
  <2>2. CASE i <= m /\ ~(j <= m)
    <3>1. /\ i \in 1..m /\ j - m \in 1..n
          /\ u[i] = s[i] /\ u[j] = t[j - m]
        BY <1>1, <1>2, <2>2
    <3> QED BY <1>5, <1>6, <3>1 DEF Before
  <2>3. CASE ~(i <= m) /\ ~(j <= m)
    <3>1. /\ i - m \in 1..n /\ j - m \in 1..n /\ i - m < j - m
          /\ u[i] = t[i - m] /\ u[j] = t[j - m]
        BY <1>1, <1>2, <1>8, <2>3
    <3> QED BY <1>1, <3>1 DEF Ascending
  <2> QED BY <1>1, <1>8, <2>1, <2>2, <2>3
<1> QED BY <1>1, <1>7, <1>8 DEF Ascending, u

LEMMA NonzeroFacts ==
    ASSUME NEW n \in Nat
    PROVE  /\ Nonzero(n) \in Seq(Nat) /\ Ascending(Nonzero(n))
           /\ Range(Nonzero(n)) = {n} \ {0}
<1>1. CASE n = 0
    BY <1>1 DEF Nonzero, Ascending, Range
<1>2. CASE n # 0
  <2>1. Nonzero(n) = <<n>>
      BY <1>2 DEF Nonzero
  <2> QED BY <1>2, <2>1 DEF Ascending, Range
<1> QED BY <1>1, <1>2

LEMMA StreamFacts ==
    ASSUME TypeOK, ShareInv, NEW w \in Servers
    PROVE  Ascending(Stream(w)) /\ Range(Stream(w)) = Held(w)
<1> DEFINE s1 == inbox[w] \o Nonzero(hand[w])
           s2 == s1 \o events[w]
<1>1. hand[w] \in Nat /\ event[w] \in Nat
    BY ServersAssumption DEF TypeOK, ServerTypeOK
<1>2. inbox[w] \in Seq(Nat) /\ events[w] \in Seq(Nat)
  <2>1. 1..MaxChanges \subseteq Nat
      OBVIOUS
  <2> QED BY <2>1, Parts, SeqMonotonic
<1>3. Ordered(w)
    BY DEF ShareInv
<1>4. /\ Nonzero(hand[w]) \in Seq(Nat) /\ Ascending(Nonzero(hand[w]))
      /\ Range(Nonzero(hand[w])) = InHand(w)
      /\ Nonzero(event[w]) \in Seq(Nat) /\ Ascending(Nonzero(event[w]))
      /\ Range(Nonzero(event[w])) = Publishing(w)
    BY <1>1, NonzeroFacts DEF InHand, Publishing
<1>5. /\ s1 \in Seq(Nat) /\ Ascending(s1)
      /\ Range(s1) = ReceivedBy(w) \cup InHand(w)
    BY <1>2, <1>3, <1>4, Concatenated DEF Ordered, PlacesOrdered, ReceivedBy
<1> HIDE DEF s1
<1>6. /\ s2 \in Seq(Nat) /\ Ascending(s2)
      /\ Range(s2) = ReceivedBy(w) \cup InHand(w) \cup InEvents(w)
  <2>1. Before(Range(s1), Range(events[w])) /\ Ascending(events[w])
      BY <1>3, <1>5 DEF Ordered, PlacesOrdered, Before, InEvents
  <2> QED BY <1>2, <1>5, <2>1, Concatenated DEF InEvents
<1> HIDE DEF s2
<1>7. /\ Ascending(s2 \o Nonzero(event[w]))
      /\ Range(s2 \o Nonzero(event[w])) = Held(w)
  <2>1. Before(Range(s2), Range(Nonzero(event[w])))
      BY <1>3, <1>4, <1>6 DEF Ordered, PlacesOrdered, Before
  <2>2. /\ Ascending(s2 \o Nonzero(event[w]))
        /\ Range(s2 \o Nonzero(event[w])) =
              Range(s2) \cup Range(Nonzero(event[w]))
      BY <1>4, <1>6, <2>1, Concatenated
  <2> QED BY <1>4, <1>6, <2>2 DEF Held
<1> QED BY <1>7 DEF Stream, s1, s2

LEMMA OnePlace ==
    ASSUME TypeOK, SignalInv, ShareInv, NEW n \in 1..changes
    PROVE  Cardinality({w \in Servers : n \in Range(Stream(w))})
             + Cardinality({i \in DOMAIN signals : signals[i] = n})
             + Cardinality(lost \cap {n}) = 1
<1> DEFINE holders == {w \in Servers : n \in Range(Stream(w))}
           waiting == {i \in DOMAIN signals : signals[i] = n}
<1>1. holders = {w \in Servers : n \in Held(w)}
    BY StreamFacts
<1>2. n \in Nat /\ ~(n < n)
    OBVIOUS
<1>3. n \in Range(signals) => \E i \in DOMAIN signals : waiting = {i}
  <2> SUFFICES ASSUME NEW i \in DOMAIN signals, signals[i] = n
               PROVE  waiting = {i}
      BY DEF Range
  <2>1. DOMAIN signals \subseteq Nat
      BY LenProperties DEF TypeOK, ServerTypeOK
  <2>2. \A j \in DOMAIN signals : signals[j] = n => ~(i < j) /\ ~(j < i)
      BY <1>2 DEF SignalInv, Ascending
  <2> QED BY <2>1, <2>2
<1>4. n \notin Range(signals) => waiting = {}
    BY DEF Range
<1> HIDE DEF holders, waiting
<1>5. CASE n \in lost
  <2>1. n \notin Range(signals)
      BY <1>2, <1>5 DEF SignalInv, Before
  <2>2. holders = {} /\ waiting = {} /\ lost \cap {n} = {n}
      BY <1>1, <1>4, <1>5, <2>1 DEF ShareInv
  <2>3. Cardinality(holders) = 0 /\ Cardinality(waiting) = 0
        /\ Cardinality(lost \cap {n}) = 1
      BY <2>2, FS_EmptySet, FS_Singleton
  <2> QED BY <2>3 DEF holders, waiting
<1>6. CASE n \in Range(signals)
  <2>1. n \notin lost /\ \A w \in Servers : n \notin Held(w)
      BY <1>2, <1>6 DEF SignalInv, Before
  <2>2. PICK i : waiting = {i}
      BY <1>3, <1>6
  <2>3. holders = {} /\ lost \cap {n} = {}
      BY <1>1, <2>1
  <2>4. Cardinality(holders) = 0 /\ Cardinality(waiting) = 1
        /\ Cardinality(lost \cap {n}) = 0
      BY <2>2, <2>3, FS_EmptySet, FS_Singleton
  <2> QED BY <2>4 DEF holders, waiting
<1>7. CASE \E w \in Servers : n \in Held(w)
  <2>1. PICK w \in Servers : n \in Held(w)
      BY <1>7
  <2>2. holders = {w}
      BY <1>1, <2>1 DEF ShareInv
  <2>3. n \notin Range(signals) /\ n \notin lost
      BY <1>2, <2>1 DEF SignalInv, ShareInv, Before
  <2>4. waiting = {} /\ lost \cap {n} = {}
      BY <1>4, <2>3
  <2>5. Cardinality(holders) = 1 /\ Cardinality(waiting) = 0
        /\ Cardinality(lost \cap {n}) = 0
      BY <2>2, <2>4, FS_EmptySet, FS_Singleton
  <2> QED BY <2>5 DEF holders, waiting
<1> QED BY <1>5, <1>6, <1>7 DEF ShareInv

LEMMA InvGivesEach == IInv => EachToOneClient
<1> SUFFICES ASSUME IInv PROVE EachToOneClient
    OBVIOUS
<1>1. \A w \in Servers : \A i, j \in DOMAIN Stream(w) :
          i < j => Stream(w)[i] < Stream(w)[j]
    BY StreamFacts DEF IInv, Ascending
<1>2. \A n \in 1..changes :
          Cardinality({w \in Servers : n \in Range(Stream(w))})
            + Cardinality({i \in DOMAIN signals : signals[i] = n})
            + Cardinality(lost \cap {n}) = 1
    BY OnePlace DEF IInv
<1>3. Cardinality(lost) = Cardinality({w \in Servers : conn[w] = "closed"})
    BY DEF IInv, ShareInv, Closed
<1> QED BY <1>1, <1>2, <1>3 DEF EachToOneClient

-----------------------------------------------------------------------------
\* The theorems about WsServer, for a pool of any size (PoolAssumption).

\* In every reachable state of the plain websocket server the inductive
\* invariant holds.
THEOREM Invariance == Spec => []IInv
BY InitInv, Inductive, PTL DEF Spec

\* Type correctness; among the rest, the event loop's pool never runs more jobs
\* than it has worker threads (loop.run_in_executor).
THEOREM TypeCorrect == Spec => []TypeOK
<1>1. IInv => TypeOK
    BY DEF IInv
<1> QED BY <1>1, Invariance, PTL

\* The StateServers of the connections, all taking from one signal queue, pass
\* each state to one client, through four places and in the order of the writes;
\* what is lost is one state for each handler that a failed send() has ended.
THEOREM EachStateToOneClient == Spec => []EachToOneClient
BY InvGivesEach, Invariance, PTL

=============================================================================
