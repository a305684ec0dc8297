----------------------- MODULE ConnectionManagerProofs ------------------------
(***************************************************************************)
(* Theorems about ConnectionManager, for any number of websockets, of      *)
(* servers and of state changes.                                           *)
(***************************************************************************)
EXTENDS ConnectionManager, FiniteSetTheorems, SequenceTheorems, TLAPS

-----------------------------------------------------------------------------
\* The inductive invariant.

Listed(w) == \E i \in DOMAIN active : active[i] = w

\* Who is connected is listed, once it is done connecting, and then there is a
\* server.  Who is not listed yet has received nothing.
ListInv ==
    /\ \A w \in Websockets :
          /\ Listed(w) <=> conn[w] \in {"open", "left"} /\ w # connecting
          /\ conn[w] = "new" \/ w = connecting => inbox[w] = << >>
    /\ connecting # Nobody => /\ conn[connecting] \in {"open", "left"}
                              /\ server # NoServer
    /\ active # << >> => server # NoServer

\* The server is joined when nobody is connected.
JoinInv == server # NoServer /\ caller[server] = "joining" =>
              active = << >> /\ connecting = Nobody

\* A thread runs if its server was started, and has an event, and somebody to
\* send it to, only while it publishes.
ThreadInv ==
    /\ server # NoServer => caller[server] # "new"
    /\ \A s \in Servers :
          /\ caller[s] = "new" <=> thread[s] = "unborn"
          /\ thread[s] = "publish" <=> event[s] # 0
          /\ target[s] # Nobody => /\ thread[s] = "publish"
                                   /\ conn[target[s]] # "new"
                                   /\ target[s] # connecting

\* Unless a thread has outlived the join() of it, there is one.
SoleInv == Abandoned = {} => \A s \in Live : s = server

\* w is to be sent event[s] still, or is being sent it.
Awaits(w, s) == \/ target[s] = w
                \/ \E i \in DOMAIN active : i >= position[s] /\ active[i] = w

\* The queue is in order, after what was taken off it.
QueueInv ==
    /\ \A i \in DOMAIN signals :
          /\ signals[i] <= changes
          /\ signals[i] # STOP => \A s \in Servers : event[s] < signals[i]
    /\ \A i, j \in DOMAIN signals :
          i < j /\ signals[i] # STOP /\ signals[j] # STOP
            => signals[i] < signals[j]
    /\ \A s \in Servers : event[s] <= changes

\* What w has received is older than what is in the queue and, if w awaits it,
\* than what is being published.
Behind(w) ==
    \A k \in DOMAIN inbox[w] :
        /\ inbox[w][k] <= changes
        /\ \A i \in DOMAIN signals :
              signals[i] # STOP => inbox[w][k] < signals[i]
        /\ \A s \in Servers : thread[s] = "publish" =>
              /\ inbox[w][k] <= event[s]
              /\ Awaits(w, s) => inbox[w][k] < event[s]

\* A publish() does not come to a websocket again.
Once(s) == target[s] # Nobody =>
              \A i \in DOMAIN active : i >= position[s] => active[i] # target[s]

OnceInv == \A s \in Servers : Once(s)

\* Unless a thread has outlived the join() of it, clients receive in order.
OrderInv == Abandoned = {} => (\A w \in Websockets : Behind(w)) /\ InOrder

NoneClosed == \A w \in Websockets : conn[w] # "closed"

\* The newest state that has been taken off the queue.
Taken == changes - Len(signals)

\* The newest one that w has been sent.
Due(w) == IF thread[server] = "publish" /\ Awaits(w, server)
          THEN Taken - 1 ELSE Taken

\* The queue holds the newest states.
QueueNewest == /\ Len(signals) <= changes
               /\ \A i \in DOMAIN signals : signals[i] = Taken + i

\* There is one server, and somebody wants it; its thread may have died.
OneServer ==
    /\ \A s \in Servers : s # server => thread[s] = "unborn"
    /\ server = NoServer => \A w \in Websockets : conn[w] = "new"
    /\ server # NoServer =>
          /\ thread[server] \in {"loop", "get", "publish", "died"}
          /\ caller[server] \in {"wait", "waiting", "running"}
          /\ thread[server] = "publish" => /\ event[server] = Taken
                                          /\ position[server] <= Len(active) + 1

\* w was sent the last state due, unless it came later.
Fed(w) == IF inbox[w] = << >> THEN since[w] >= Due(w)
                              ELSE inbox[w][Len(inbox[w])] = Due(w)

Gapless(w) == \A k \in 1..Len(inbox[w]) - 1 : inbox[w][k + 1] = inbox[w][k] + 1

AllFed == Died = {} /\ server # NoServer => \A w \in Websockets :
             Listed(w) /\ conn[w] = "open" => Fed(w)

\* Until somebody is taken off the list, nobody on it misses a state, or all do
\* from one on.
CompleteInv ==
    NoneClosed =>
        /\ QueueNewest
        /\ OneServer
        /\ AllFed
        /\ \A w \in Websockets : Gapless(w)

IInv == /\ TypeOK /\ ListInv /\ JoinInv /\ ThreadInv /\ SoleInv
        /\ QueueInv /\ OnceInv /\ OrderInv /\ StopsBalance /\ CompleteInv

-----------------------------------------------------------------------------
\* Adding to the list and taking off it.

LEMMA Enlisted ==
    ASSUME TypeOK, ListInv, NEW w \in Websockets, ~Listed(w), Enlist(w)
    PROVE  /\ active' \in Seq(Websockets) /\ IsInjective(active')
           /\ Len(active') = Len(active) + 1 /\ active'[Len(active) + 1] = w
           /\ \A i \in DOMAIN active : active'[i] = active[i]
           /\ \A v : Listed(v)' <=> Listed(v) \/ v = w
<1>1. active \in Seq(Websockets) /\ active' = Append(active, w)
    BY DEF TypeOK, Enlist
<1>2. /\ active' \in Seq(Websockets)
      /\ Len(active') = Len(active) + 1 /\ active'[Len(active) + 1] = w
      /\ \A i \in 1..Len(active) : active'[i] = active[i]
    BY <1>1, AppendProperties
<1>3. DOMAIN active = 1..Len(active) /\ DOMAIN active' = 1..Len(active')
      /\ Len(active) \in Nat
    BY <1>1, <1>2, LenProperties
<1>4. IsInjective(active')
  <2>1. /\ \A a, b \in 1..Len(active) : active[a] = active[b] => a = b
        /\ \A a \in 1..Len(active) : active[a] # w
      BY <1>3 DEF IsInjective, TypeOK, Listed
  <2> QED BY <1>2, <1>3, <2>1 DEF IsInjective
<1>5. ASSUME NEW v PROVE Listed(v)' <=> Listed(v) \/ v = w
    BY <1>2, <1>3 DEF Listed
<1> QED BY <1>2, <1>3, <1>4, <1>5

LEMMA Delisted ==
    ASSUME TypeOK, NEW w, Delist(w)
    PROVE  /\ active' \in Seq(Websockets) /\ IsInjective(active')
           /\ Len(active') = Len(active) - 1 /\ Len(active) \in Nat
           /\ Listed(w)
           /\ \A v : Listed(v)' <=> Listed(v) /\ v # w
           /\ \A i \in DOMAIN active' : \E j \in DOMAIN active :
                 j >= i /\ active[j] = active'[i]
<1>1. active \in Seq(Websockets)
    BY DEF TypeOK
<1>2. DOMAIN active = 1..Len(active) /\ Len(active) \in Nat
    BY <1>1, LenProperties
<1>3. PICK n \in 1..Len(active) :
          active[n] = w /\ active' = RemoveAt(active, n)
    BY <1>2 DEF Delist
<1>4. /\ SubSeq(active, 1, n - 1) \in Seq(Websockets)
      /\ Len(SubSeq(active, 1, n - 1)) = n - 1
      /\ \A i \in 1..n - 1 : SubSeq(active, 1, n - 1)[i] = active[i]
  <2>1. \A i \in 1..n - 1 : active[i] \in Websockets
      BY <1>1, <1>2
  <2>2. SubSeq(active, 1, n - 1) \in Seq(Websockets)
        /\ Len(SubSeq(active, 1, n - 1)) =
              (IF 1 <= n - 1 THEN n - 1 - 1 + 1 ELSE 0)
        /\ \A i \in 1..n - 1 - 1 + 1 :
              SubSeq(active, 1, n - 1)[i] = active[1 + i - 1]
      BY <1>2, <2>1, SubSeqProperties, SMTT(30)
  <2> QED BY <1>2, <2>2
<1>5. /\ SubSeq(active, n + 1, Len(active)) \in Seq(Websockets)
      /\ Len(SubSeq(active, n + 1, Len(active))) = Len(active) - n
      /\ \A i \in 1..Len(active) - n :
            SubSeq(active, n + 1, Len(active))[i] = active[n + i]
  <2>1. \A i \in n + 1..Len(active) : active[i] \in Websockets
      BY <1>1, <1>2
  <2>2. SubSeq(active, n + 1, Len(active)) \in Seq(Websockets)
        /\ Len(SubSeq(active, n + 1, Len(active))) =
              (IF n + 1 <= Len(active) THEN Len(active) - (n + 1) + 1 ELSE 0)
        /\ \A i \in 1..Len(active) - (n + 1) + 1 :
              SubSeq(active, n + 1, Len(active))[i] = active[n + 1 + i - 1]
      BY <1>2, <2>1, SubSeqProperties
  <2>3. /\ Len(active) - (n + 1) + 1 = Len(active) - n
        /\ ~(n + 1 <= Len(active)) => Len(active) - n = 0
        /\ \A i \in 1..Len(active) - n : n + 1 + i - 1 = n + i
    <3>1. n \in Int /\ Len(active) \in Int /\ n <= Len(active)
        BY <1>2, <1>3
    <3> QED BY <3>1
  <2> QED BY <2>2, <2>3
<1>6. /\ active' \in Seq(Websockets) /\ Len(active') = Len(active) - 1
      /\ \A i \in 1..Len(active) - 1 :
            active'[i] = IF i < n THEN active[i] ELSE active[i + 1]
  <2> DEFINE front == SubSeq(active, 1, n - 1)
             back == SubSeq(active, n + 1, Len(active))
  <2>1. active' = front \o back
      BY <1>3 DEF RemoveAt
  <2>2. front \in Seq(Websockets) /\ back \in Seq(Websockets)
      BY <1>4, <1>5
  <2> HIDE DEF front, back
  <2>3. /\ active' \in Seq(Websockets)
        /\ Len(active') = Len(front) + Len(back)
        /\ \A i \in 1..Len(front) + Len(back) : active'[i] =
              IF i <= Len(front) THEN front[i] ELSE back[i - Len(front)]
      BY <2>1, <2>2, ConcatProperties
  <2>4. /\ Len(front) = n - 1 /\ Len(back) = Len(active) - n
        /\ \A i \in 1..n - 1 : front[i] = active[i]
        /\ \A i \in 1..Len(active) - n : back[i] = active[n + i]
      BY <1>4, <1>5 DEF front, back
  <2> QED BY <1>2, <2>3, <2>4, SMTT(30)
<1>7. DOMAIN active' = 1..Len(active')
    BY <1>6, LenProperties
<1>8. \A a, b \in 1..Len(active) : active[a] = active[b] => a = b
    BY <1>2 DEF TypeOK, IsInjective
<1>9. IsInjective(active')
    BY <1>2, <1>6, <1>7, <1>8 DEF IsInjective
<1>10. \A i \in 1..Len(active') : \E j \in 1..Len(active) :
          j >= i /\ j # n /\ active[j] = active'[i]
    BY <1>2, <1>6
<1>11. \A j \in 1..Len(active) : j # n =>
          \E i \in 1..Len(active') : active'[i] = active[j]
  <2> SUFFICES ASSUME NEW j \in 1..Len(active), j # n
               PROVE  \E i \in 1..Len(active') : active'[i] = active[j]
      OBVIOUS
  <2>1. CASE j < n
      BY <1>2, <1>6, <2>1
  <2>2. CASE j > n
    <3>1. j - 1 \in 1..Len(active') /\ active'[j - 1] = active[j]
        BY <1>2, <1>6, <2>2
    <3> QED BY <3>1
  <2> QED BY <1>2, <2>1, <2>2
<1>12. Listed(w) /\ \A v : Listed(v)' <=> Listed(v) /\ v # w
  <2>1. Listed(w)
      BY <1>2, <1>3 DEF Listed
  <2> SUFFICES ASSUME NEW v PROVE Listed(v)' <=> Listed(v) /\ v # w
      BY <2>1
  <2>2. ASSUME NEW i \in 1..Len(active'), active'[i] = v
        PROVE  Listed(v) /\ v # w
    <3>1. PICK j \in 1..Len(active) : j # n /\ active[j] = v
        BY <1>10, <2>2
    <3> QED BY <1>2, <1>3, <1>8, <3>1 DEF Listed
  <2>3. ASSUME NEW j \in 1..Len(active), active[j] = v, v # w
        PROVE  Listed(v)'
      BY <1>3, <1>7, <1>11, <2>3 DEF Listed
  <2> QED BY <1>2, <1>7, <2>2, <2>3 DEF Listed
<1> QED BY <1>2, <1>6, <1>7, <1>9, <1>10, <1>12

LEMMA ListBound ==
    ASSUME TypeOK
    PROVE  /\ Cardinality(Websockets) \in Nat /\ Len(active) \in Nat
           /\ Len(active) <= Cardinality(Websockets)
<1>1. IsFiniteSet(Websockets) /\ Cardinality(Websockets) \in Nat
    BY ManagerAssumption, FS_CardinalityType
<1>2. active \in [1..Len(active) -> Websockets] /\ Len(active) \in Nat
    BY LenProperties DEF TypeOK
<1>3. active \in Injection(1..Len(active), Websockets)
    BY <1>2 DEF TypeOK, Injection
<1>4. Cardinality(1..Len(active)) <= Cardinality(Websockets)
    BY <1>1, <1>3, FS_Injection
<1>5. Cardinality(1..Len(active)) = Len(active)
  <2>1. \A n \in Nat : Cardinality(1..n) = n
      BY FS_Interval
  <2> QED BY <1>2, <2>1
<1> QED BY <1>1, <1>2, <1>4, <1>5

\* What every step of the event loop, of a client or of a thread is.
Steps ==
    \/ Change /\ UNCHANGED managerVars
    \/ \E w \in Websockets : Connect(w) \/ Leave(w) \/ Disconnect(w)
    \/ \E w \in Websockets, s \in Servers : ConnectFirst(w, s)
    \/ AwaitServer \/ ServerStarted \/ ServerStopped
    \/ \E s \in Servers :
          \/ SetStarted(s) /\ TakeSignal(s)
          \/ GetStop(s) /\ TakeSignal(s)
          \/ GetState(s) /\ TakeSignal(s)
          \/ NextConnection(s) \/ Send(s) \/ EndPublish(s)

LEMMA NextSteps == Next <=> Steps
BY Zenon DEF Next, Steps, Clients, LoopStep, ServerStep, TakeSignal

LEMMA InitInv == Init => IInv
<1> SUFFICES ASSUME Init PROVE IInv
    OBVIOUS
<1> USE ManagerAssumption, ServersAssumption DEF Init, ServerInit
<1>1. TypeOK
  <2>1. 1 \in 1..Cardinality(Websockets) + 1
      BY FS_CardinalityType
  <2>2. << >> \in Seq(Websockets) /\ IsInjective(<< >>)
        /\ << >> \in Seq(0..MaxChanges) /\ << >> \in Seq(1..MaxChanges)
      BY EmptySeq DEF IsInjective
  <2> QED BY <2>1, <2>2 DEF TypeOK, ServerTypeOK, ThreadStates, CallerStates
<1>2. ListInv /\ JoinInv /\ ThreadInv
    BY DEF ListInv, JoinInv, ThreadInv, Listed
<1>3. SoleInv /\ QueueInv
    BY DEF SoleInv, QueueInv, Live, Abandoned
<1>4. OnceInv /\ OrderInv
    BY DEF OnceInv, OrderInv, Behind, Once, InOrder
<1>5. StopsBalance
  <2>1. Live = {} /\ Died = {} /\ Wanted = {} /\ Stops = {}
      BY DEF Live, Died, Wanted, Stops
  <2> QED BY <2>1, FS_EmptySet DEF StopsBalance
<1>6. CompleteInv
    BY DEF CompleteInv, QueueNewest, OneServer, AllFed, Gapless, Taken
<1> QED BY <1>1, <1>2, <1>3, <1>4, <1>5, <1>6 DEF IInv

-----------------------------------------------------------------------------
\* Type correctness.

LEMMA TypeStep ==
    ASSUME TypeOK, ListInv, ThreadInv, [Next]_vars PROVE TypeOK'
<1> USE ManagerAssumption, ServersAssumption DEF TypeOK, ServerTypeOK,
        ThreadStates, CallerStates
<1>1. CASE Change /\ UNCHANGED managerVars
    BY <1>1 DEF Change, managerVars
<1>2. ASSUME NEW w \in Websockets, Connect(w) PROVE TypeOK'
  <2>1. ~Listed(w)
      BY <1>2 DEF Connect, ListInv
  <2> QED BY <1>2, <2>1, Enlisted DEF Connect, Enlist, serverVars
<1>3. ASSUME NEW w \in Websockets, Leave(w) PROVE TypeOK'
    BY <1>3 DEF Leave, serverVars
<1>4. ASSUME NEW w \in Websockets, Disconnect(w) PROVE TypeOK'
  <2>1. ServerTypeOK'
    <3>1. CASE UNCHANGED serverVars
        BY <3>1 DEF serverVars
    <3>2. CASE StopServer(server)
      <4>1. Append(signals, 0) \in Seq(0..MaxChanges)
          BY AppendProperties
      <4> QED BY <3>2, <4>1 DEF StopServer, STOP
    <3> QED BY <1>4, <3>1, <3>2 DEF Disconnect
  <2> QED BY <1>4, <2>1, Delisted DEF Disconnect
<1>5. ASSUME NEW w \in Websockets, NEW s \in Servers, ConnectFirst(w, s)
      PROVE  TypeOK'
    BY <1>5 DEF ConnectFirst, StartServer
<1>6. CASE AwaitServer
    BY <1>6 DEF AwaitServer, WaitStarted, managerVars
<1>7. CASE ServerStarted
  <2>1. ~Listed(connecting) /\ connecting \in Websockets
      BY <1>7 DEF ServerStarted, ListInv
  <2> QED BY <1>7, <2>1, Enlisted DEF ServerStarted, Enlist, serverVars
<1>8. CASE ServerStopped
    BY <1>8 DEF ServerStopped, Joined
<1>9. ASSUME NEW s \in Servers, TakeSignal(s) PROVE TypeOK'
  <2>1. ServerTypeOK'
    <3>1. signals # << >> => /\ Head(signals) \in 0..MaxChanges
                            /\ Tail(signals) \in Seq(0..MaxChanges)
        BY HeadTailProperties
    <3>2. CASE SetStarted(s)
        BY <3>2 DEF SetStarted
    <3>3. CASE GetStop(s)
        BY <3>1, <3>3 DEF GetStop
    <3>4. CASE GetState(s)
        BY <3>1, <3>4 DEF GetState
    <3> QED BY <1>9, <3>2, <3>3, <3>4 DEF TakeSignal
  <2>2. 1 \in 1..Cardinality(Websockets) + 1
      BY ListBound
  <2> QED BY <1>9, <2>1, <2>2 DEF TakeSignal
<1>10. ASSUME NEW s \in Servers, NextConnection(s) PROVE TypeOK'
  <2>1. position[s] + 1 \in 1..Cardinality(Websockets) + 1
        /\ active[position[s]] \in Websockets
    <3>1. /\ position[s] \in 1..Len(active) /\ Len(active) \in Nat
          /\ Len(active) <= Cardinality(Websockets)
          /\ Cardinality(Websockets) \in Nat
        BY <1>10, ListBound, SMTT(30) DEF NextConnection
    <3>2. active[position[s]] \in Websockets
        BY <3>1, ElementOfSeq
    <3>3. position[s] \in Nat /\ position[s] <= Len(active)
        BY <3>1
    <3>4. \A n, k, m \in Nat : n <= k /\ k <= m => n + 1 \in 1..m + 1
        OBVIOUS
    <3>5. position[s] + 1 \in 1..Cardinality(Websockets) + 1
        BY <3>1, <3>3, <3>4
    <3> QED BY <3>2, <3>5
  <2> QED BY <1>10, <2>1 DEF NextConnection, serverVars
<1>11. ASSUME NEW s \in Servers, Send(s) PROVE TypeOK'
  <2>1. ServerTypeOK'
    <3>1. CASE UNCHANGED serverVars
        BY <3>1 DEF serverVars
    <3>2. CASE PublishRaised(s)
        BY <3>2 DEF PublishRaised
    <3> QED BY <1>11, <3>1, <3>2 DEF Send
  <2>2. event[s] \in 1..MaxChanges
      BY <1>11 DEF Send, ThreadInv
  <2>3. inbox' \in [Websockets -> Seq(1..MaxChanges)]
    <3>1. Append(inbox[target[s]], event[s]) \in Seq(1..MaxChanges)
        BY <1>11, <2>2, AppendProperties DEF Send
    <3> QED BY <1>11, <3>1 DEF Send
  <2> QED BY <1>11, <2>1, <2>3 DEF Send
<1>12. ASSUME NEW s \in Servers, EndPublish(s) PROVE TypeOK'
    BY <1>12, SMTT(30) DEF EndPublish, Published, managerVars
<1>13. CASE UNCHANGED vars
    BY <1>13 DEF vars
<1> QED BY <1>1, <1>2, <1>3, <1>4, <1>5, <1>6, <1>7, <1>8, <1>9, <1>10,
           <1>11, <1>12, <1>13, NextSteps DEF Steps

-----------------------------------------------------------------------------
\* The list and the threads.

LEMMA ListStep ==
    ASSUME TypeOK, ListInv, JoinInv, ThreadInv, [Next]_vars PROVE ListInv'
<1> USE ManagerAssumption DEF TypeOK, ServerTypeOK
<1>1. CASE UNCHANGED <<active, server, connecting, conn, inbox>>
    BY <1>1 DEF ListInv, Listed
<1>2. ASSUME NEW w \in Websockets, Connect(w) PROVE ListInv'
  <2>1. ~Listed(w) /\ \A v : Listed(v)' <=> Listed(v) \/ v = w
      BY <1>2, Enlisted DEF Connect, ListInv
  <2> QED BY <1>2, <2>1 DEF Connect, LoopFree, ListInv
<1>3. ASSUME NEW w \in Websockets, Leave(w) PROVE ListInv'
  <2>1. \A v : Listed(v)' <=> Listed(v)
      BY <1>3 DEF Leave, Listed
  <2> QED BY <1>3, <2>1 DEF Leave, ListInv
<1>4. ASSUME NEW w \in Websockets, Disconnect(w) PROVE ListInv'
  <2>1. \A v : Listed(v)' <=> Listed(v) /\ v # w
      BY <1>4, Delisted DEF Disconnect
  <2>2. active # << >>
      BY <1>4 DEF Disconnect, Delist
  <2> QED BY <1>4, <2>1, <2>2 DEF Disconnect, LoopFree, ListInv
<1>5. ASSUME NEW w \in Websockets, NEW s \in Servers, ConnectFirst(w, s)
      PROVE  ListInv'
  <2>1. \A v : Listed(v)' <=> Listed(v)
      BY <1>5 DEF ConnectFirst, Listed
  <2> QED BY <1>5, <2>1 DEF ConnectFirst, LoopFree, ListInv
<1>6. CASE ServerStarted
  <2>1. ~Listed(connecting)
        /\ \A v : Listed(v)' <=> Listed(v) \/ v = connecting
      BY <1>6, Enlisted DEF ServerStarted, ListInv
  <2> QED BY <1>6, <2>1 DEF ServerStarted, ListInv
<1>7. CASE ServerStopped
    BY <1>7 DEF ServerStopped, Joined, ListInv, JoinInv, Listed
<1>8. ASSUME NEW s \in Servers, Send(s) PROVE ListInv'
  <2>1. \A v : Listed(v)' <=> Listed(v)
      BY <1>8 DEF Send, Listed
  <2> QED BY <1>8, <2>1 DEF Send, ListInv, ThreadInv
<1>9. CASE Next
    BY <1>1, <1>2, <1>3, <1>4, <1>5, <1>6, <1>7, <1>8, <1>9, NextSteps
       DEF Steps, managerVars, AwaitServer, TakeSignal, NextConnection,
           EndPublish
<1> QED BY <1>1, <1>9 DEF vars

LEMMA JoinStep ==
    ASSUME TypeOK, ListInv, JoinInv, ThreadInv, [Next]_vars PROVE JoinInv'
<1> USE ManagerAssumption DEF TypeOK, ServerTypeOK
<1>1. CASE UNCHANGED <<active, server, connecting, caller>>
    BY <1>1 DEF JoinInv
<1>2. ASSUME NEW w \in Websockets, Connect(w) PROVE JoinInv'
    BY <1>2 DEF Connect, LoopFree, serverVars, JoinInv
<1>3. ASSUME NEW w \in Websockets, Disconnect(w) PROVE JoinInv'
  <2>1. CASE UNCHANGED serverVars
      BY <1>3, <2>1 DEF Disconnect, LoopFree, serverVars, JoinInv
  <2>2. CASE active' = << >>
      BY <1>3, <2>2 DEF Disconnect, LoopFree, JoinInv
  <2> QED BY <1>3, <2>1, <2>2 DEF Disconnect
<1>4. ASSUME NEW w \in Websockets, NEW s \in Servers, ConnectFirst(w, s)
      PROVE  JoinInv'
    BY <1>4 DEF ConnectFirst, StartServer, JoinInv
<1>5. CASE AwaitServer
    BY <1>5 DEF AwaitServer, WaitStarted, managerVars, JoinInv
<1>6. CASE ServerStarted
    BY <1>6 DEF ServerStarted, serverVars, JoinInv
<1>7. CASE ServerStopped
    BY <1>7 DEF ServerStopped, JoinInv
<1>8. ASSUME NEW s \in Servers, SetStarted(s), TakeSignal(s) PROVE JoinInv'
    BY <1>8 DEF TakeSignal, SetStarted, JoinInv
<1>9. ASSUME NEW s \in Servers, Send(s) PROVE JoinInv'
    BY <1>1, <1>9 DEF Send, PublishRaised, serverVars
<1>10. CASE Next
    BY <1>1, <1>2, <1>3, <1>4, <1>5, <1>6, <1>7, <1>8, <1>9, <1>10, NextSteps
       DEF Steps, Change, managerVars, serverVars, Leave, TakeSignal, GetStop,
           GetState, NextConnection, EndPublish, Published
<1> QED BY <1>1, <1>10 DEF vars

LEMMA ThreadStep ==
    ASSUME TypeOK, ListInv, ThreadInv, [Next]_vars PROVE ThreadInv'
<1> USE ManagerAssumption DEF TypeOK, ServerTypeOK, ThreadInv
<1>1. CASE UNCHANGED <<server, connecting, conn, caller, thread, event, target>>
    BY <1>1
<1>2. ASSUME NEW w \in Websockets, Connect(w) \/ Leave(w) PROVE ThreadInv'
    BY <1>2 DEF Connect, Leave, serverVars
<1>3. ASSUME NEW w \in Websockets, Disconnect(w) PROVE ThreadInv'
    BY <1>3 DEF Disconnect, StopServer, serverVars
<1>4. ASSUME NEW w \in Websockets, NEW s \in Servers, ConnectFirst(w, s)
      PROVE  ThreadInv'
    BY <1>4 DEF ConnectFirst, StartServer
<1>5. CASE AwaitServer
    BY <1>5 DEF AwaitServer, WaitStarted, managerVars
<1>6. CASE ServerStarted
    BY <1>6 DEF ServerStarted, serverVars
<1>7. CASE ServerStopped
    BY <1>7 DEF ServerStopped, Joined
<1>8. ASSUME NEW s \in Servers, TakeSignal(s) PROVE ThreadInv'
  <2>1. CASE SetStarted(s)
      BY <1>8, <2>1 DEF TakeSignal, SetStarted
  <2>2. CASE GetStop(s)
      BY <1>8, <2>2 DEF TakeSignal, GetStop
  <2>3. CASE GetState(s)
    <3>1. Head(signals) # 0
        BY <2>3 DEF GetState, STOP
    <3> QED BY <1>8, <2>3, <3>1 DEF TakeSignal, GetState
  <2> QED BY <1>8, <2>1, <2>2, <2>3 DEF TakeSignal
<1>9. ASSUME NEW s \in Servers, NextConnection(s) PROVE ThreadInv'
  <2>1. /\ target'[s] \in Websockets /\ target'[s] # connecting
        /\ conn[target'[s]] # "new"
    <3>1. position[s] \in DOMAIN active /\ target'[s] = active[position[s]]
        BY <1>9 DEF NextConnection
    <3>2. Listed(target'[s]) /\ target'[s] \in Websockets
        BY <3>1 DEF Listed
    <3> QED BY <3>2 DEF ListInv
  <2> QED BY <1>9, <2>1 DEF NextConnection, serverVars
<1>10. ASSUME NEW s \in Servers, Send(s) PROVE ThreadInv'
    BY <1>10, SMTT(30) DEF Send, PublishRaised, serverVars
<1>11. ASSUME NEW s \in Servers, EndPublish(s) PROVE ThreadInv'
    BY <1>11 DEF EndPublish, Published, managerVars
<1>12. CASE Next
    BY <1>1, <1>2, <1>3, <1>4, <1>5, <1>6, <1>7, <1>8, <1>9, <1>10, <1>11,
       <1>12, NextSteps DEF Steps, Change, managerVars
<1> QED BY <1>1, <1>12 DEF vars

\* Who was given up on stays given up on.
LEMMA StillAwaited ==
    ASSUME TypeOK, [Next]_vars, Abandoned' = {} PROVE Abandoned = {}
<1> SUFFICES ASSUME NEW s \in Servers, caller[s] = "abandoned"
             PROVE  caller'[s] = "abandoned"
    BY DEF Abandoned
<1> USE DEF TypeOK, ServerTypeOK
<1>1. CASE Next
    BY <1>1, NextSteps
       DEF Steps, Change, managerVars, serverVars, Connect, Leave, Disconnect,
           ConnectFirst, StartServer, StopServer, AwaitServer, WaitStarted,
           ServerStarted, ServerStopped, Joined, TakeSignal, SetStarted,
           GetStop, GetState, NextConnection, Send, PublishRaised, EndPublish,
           Published
<1> QED BY <1>1 DEF vars, serverVars

\* A new server is started once there is no other, or join() has given up.
LEMMA SoleStep ==
    ASSUME TypeOK, ThreadInv, SoleInv, [Next]_vars PROVE SoleInv'
<1> SUFFICES ASSUME Abandoned' = {}, NEW s \in Servers,
                    thread'[s] \in {"loop", "get", "publish"}
             PROVE  s = server'
    BY DEF SoleInv, Live
<1>0. thread[s] \in {"loop", "get", "publish"} => s = server
    BY StillAwaited DEF SoleInv, Live
<1> USE ManagerAssumption DEF TypeOK, ServerTypeOK
<1>1. CASE server' = server /\ (thread[s] \in {"loop", "get", "publish"})
    BY <1>0, <1>1
<1>2. ASSUME NEW w \in Websockets, NEW r \in Servers, ConnectFirst(w, r)
      PROVE  s = server'
    BY <1>0, <1>2 DEF ConnectFirst, StartServer
<1>3. CASE ServerStopped
    BY <1>0, <1>3 DEF ServerStopped, Joined, Abandoned
<1>4. ASSUME NEW r \in Servers, TakeSignal(r) PROVE s = server'
    BY <1>0, <1>4 DEF TakeSignal, SetStarted, GetStop, GetState
<1>5. ASSUME NEW r \in Servers, Send(r) PROVE s = server'
    BY <1>0, <1>5 DEF Send, PublishRaised, serverVars
<1>6. ASSUME NEW r \in Servers, EndPublish(r) PROVE s = server'
    BY <1>0, <1>6 DEF EndPublish, Published, managerVars
<1>7. CASE UNCHANGED <<server, thread>>
    BY <1>0, <1>7
<1>8. CASE Next
    BY <1>2, <1>3, <1>4, <1>5, <1>6, <1>7, <1>8, NextSteps
       DEF Steps, Change, managerVars, serverVars, Connect, Leave, Disconnect,
           StopServer, AwaitServer, WaitStarted, ServerStarted, NextConnection
<1> QED BY <1>7, <1>8 DEF vars

-----------------------------------------------------------------------------
\* The queue.

LEMMA Queued ==
    ASSUME TypeOK, NEW n \in 0..MaxChanges, signals' = Append(signals, n)
    PROVE  /\ Len(signals) \in Nat /\ DOMAIN signals = 1..Len(signals)
           /\ Len(signals') = Len(signals) + 1
           /\ DOMAIN signals' = 1..Len(signals) + 1
           /\ \A i \in 1..Len(signals) : signals'[i] = signals[i]
           /\ signals'[Len(signals) + 1] = n
<1>1. signals \in Seq(0..MaxChanges)
    BY DEF TypeOK, ServerTypeOK
<1> QED BY <1>1, AppendProperties, LenProperties

LEMMA Dequeued ==
    ASSUME TypeOK, signals # << >>, signals' = Tail(signals)
    PROVE  /\ Len(signals) \in Nat \ {0} /\ DOMAIN signals = 1..Len(signals)
           /\ Len(signals') = Len(signals) - 1
           /\ DOMAIN signals' = 1..Len(signals) - 1
           /\ \A i \in 1..Len(signals) - 1 : signals'[i] = signals[i + 1]
           /\ Head(signals) = signals[1]
<1>1. signals \in Seq(0..MaxChanges)
    BY DEF TypeOK, ServerTypeOK
<1>2. Len(signals) \in Nat \ {0}
    BY <1>1, EmptySeq
<1> QED BY <1>1, <1>2, HeadTailProperties, LenProperties

LEMMA QueueStep ==
    ASSUME TypeOK, QueueInv, [Next]_vars PROVE QueueInv'
<1> USE ServersAssumption DEF QueueInv, STOP
<1>0. /\ changes \in Nat
      /\ \A s \in Servers : event[s] \in Nat
      /\ \A i \in DOMAIN signals : signals[i] \in Nat
  <2>1. signals \in Seq(0..MaxChanges)
      BY DEF TypeOK, ServerTypeOK
  <2> QED BY <2>1 DEF TypeOK, ServerTypeOK
<1>1. ASSUME UNCHANGED <<changes, signals>>,
             \A s \in Servers : event'[s] = event[s] \/ event'[s] = 0
      PROVE  QueueInv'
  <2>1. \A s \in Servers : event'[s] <= event[s]
      BY <1>0, <1>1
  <2>2. \A s \in Servers : event'[s] \in Nat
      BY <1>0, <1>1
  <2> QED BY <1>0, <1>1, <2>1, <2>2
<1>2. CASE Change
  <2>1. changes + 1 \in 0..MaxChanges /\ signals' = Append(signals, changes + 1)
      BY <1>2 DEF Change, TypeOK, ServerTypeOK
  <2>2. changes' = changes + 1 /\ event' = event
      BY <1>2 DEF Change
  <2> QED BY <1>0, <2>1, <2>2, Queued
<1>3. ASSUME NEW s, StopServer(s) PROVE QueueInv'
  <2>1. 0 \in 0..MaxChanges /\ signals' = Append(signals, 0)
      BY <1>3 DEF StopServer
  <2>2. changes' = changes /\ event' = event
      BY <1>3 DEF StopServer
  <2> QED BY <1>0, <2>1, <2>2, Queued
<1>4. ASSUME NEW s \in Servers, GetStop(s) PROVE QueueInv'
  <2>1. signals # << >> /\ signals' = Tail(signals)
        /\ changes' = changes /\ event' = event
      BY <1>4 DEF GetStop
  <2> QED BY <1>0, <2>1, Dequeued
<1>5. ASSUME NEW s \in Servers, GetState(s) PROVE QueueInv'
  <2>1. /\ signals # << >> /\ signals' = Tail(signals) /\ changes' = changes
        /\ Head(signals) # 0
        /\ \A r \in Servers :
              event'[r] = IF r = s THEN Head(signals) ELSE event[r]
      BY <1>5 DEF GetState, TypeOK, ServerTypeOK
  <2> QED BY <1>0, <2>1, Dequeued, SMTT(30)
<1>6. ASSUME NEW s \in Servers, PublishRaised(s) \/ Published(s)
      PROVE  QueueInv'
    BY <1>1, <1>6 DEF PublishRaised, Published, TypeOK, ServerTypeOK
<1>7. CASE Next
  <2>1. CASE UNCHANGED <<changes, signals, event>>
      BY <1>1, <2>1
  <2> QED BY <1>2, <1>3, <1>4, <1>5, <1>6, <1>7, <2>1, NextSteps
          DEF Steps, serverVars, Connect, Leave, Disconnect, ConnectFirst,
              StartServer, AwaitServer, WaitStarted, ServerStarted, Send,
              ServerStopped, Joined, SetStarted, NextConnection, EndPublish
<1> QED BY <1>1, <1>7 DEF vars

-----------------------------------------------------------------------------

-----------------------------------------------------------------------------
\* The order in which states are received, unless a thread outlives join().

LEMMA Numbers ==
    ASSUME TypeOK
    PROVE  /\ changes \in Nat
           /\ \A s \in Servers : event[s] \in Nat /\ position[s] \in Nat
           /\ \A i \in DOMAIN signals : signals[i] \in Nat
           /\ \A w \in Websockets : \A k \in DOMAIN inbox[w] : inbox[w][k] \in Nat
           /\ \A w \in Websockets : DOMAIN inbox[w] = 1..Len(inbox[w])
                                    /\ Len(inbox[w]) \in Nat
<1>1. signals \in Seq(0..MaxChanges)
      /\ \A w \in Websockets : inbox[w] \in Seq(1..MaxChanges)
    BY DEF TypeOK, ServerTypeOK
<1>2. \A w \in Websockets : DOMAIN inbox[w] = 1..Len(inbox[w])
                            /\ Len(inbox[w]) \in Nat
    BY <1>1, LenProperties
<1>3. \A w \in Websockets : \A k \in DOMAIN inbox[w] :
          inbox[w][k] \in 1..MaxChanges
    BY <1>1, <1>2, ElementOfSeq
<1> QED BY <1>1, <1>2, <1>3, ServersAssumption DEF TypeOK, ServerTypeOK

\* A step that sends nothing, and takes nothing off the queue to publish it.
LEMMA BehindFrame ==
    ASSUME TypeOK, \A w \in Websockets : Behind(w),
           inbox' = inbox, changes' \in Nat, changes' >= changes,
           \A i \in DOMAIN signals' :
              \/ signals'[i] = STOP \/ signals'[i] = changes + 1
              \/ \E j \in DOMAIN signals : signals[j] = signals'[i],
           \A s \in Servers : thread'[s] = "publish" =>
              /\ thread[s] = "publish" /\ event'[s] = event[s]
              /\ \A w \in Websockets :
                    Awaits(w, s)' => Awaits(w, s) \/ inbox[w] = << >>
    PROVE  \A w \in Websockets : Behind(w)'
<1> SUFFICES ASSUME NEW w \in Websockets, NEW k \in DOMAIN inbox[w]
             PROVE  /\ inbox[w][k] <= changes'
                    /\ \A i \in DOMAIN signals' :
                          signals'[i] # STOP => inbox[w][k] < signals'[i]
                    /\ \A s \in Servers : thread'[s] = "publish" =>
                          /\ inbox[w][k] <= event'[s]
                          /\ Awaits(w, s)' => inbox[w][k] < event'[s]
    BY DEF Behind
<1>1. /\ inbox[w][k] <= changes
      /\ \A i \in DOMAIN signals :
            signals[i] # STOP => inbox[w][k] < signals[i]
      /\ \A s \in Servers : thread[s] = "publish" =>
            /\ inbox[w][k] <= event[s]
            /\ Awaits(w, s) => inbox[w][k] < event[s]
    BY DEF Behind
<1>2. inbox[w][k] \in Nat /\ changes \in Nat /\ inbox[w] # << >>
    BY Numbers
<1> QED BY <1>1, <1>2

LEMMA BehindStep ==
    ASSUME TypeOK, ListInv, ThreadInv, SoleInv, QueueInv, Abandoned = {},
           \A w \in Websockets : Behind(w), OnceInv,
           [Next]_vars
    PROVE  \A w \in Websockets : Behind(w)'
<1> USE DEF STOP
<1> DEFINE All == \A w \in Websockets : Behind(w)'
           Shorter == \A i \in DOMAIN signals' :
                         \/ signals'[i] = 0
                         \/ \E j \in DOMAIN signals : signals[j] = signals'[i]
           Kept == \A s \in Servers : thread'[s] = "publish" =>
                      /\ thread[s] = "publish" /\ event'[s] = event[s]
                      /\ position'[s] = position[s] /\ target'[s] = target[s]
           Later == \A i \in DOMAIN active' :
                       \/ inbox[active'[i]] = << >>
                       \/ \E j \in DOMAIN active :
                             j >= i /\ active[j] = active'[i]
<1>1. /\ changes \in Nat /\ \A s \in Servers : position[s] \in Nat
      /\ DOMAIN active = 1..Len(active) /\ DOMAIN active' = 1..Len(active')
      /\ Len(active) \in Nat /\ Len(active') \in Nat
  <2>1. active \in Seq(Websockets) /\ active' \in Seq(Websockets)
      BY TypeStep DEF TypeOK
  <2> QED BY <2>1, Numbers, LenProperties
<1>2. ASSUME inbox' = inbox, changes' = changes, Shorter, Kept, Later
      PROVE  All
  <2>1. ASSUME NEW s \in Servers, thread'[s] = "publish",
               NEW w \in Websockets, Awaits(w, s)'
        PROVE  Awaits(w, s) \/ inbox[w] = << >>
    <3>1. CASE target'[s] = w
        BY <1>2, <2>1, <3>1 DEF Awaits
    <3>2. ASSUME NEW i \in DOMAIN active', i >= position'[s], active'[i] = w,
                 inbox[w] # << >>
          PROVE  Awaits(w, s)
      <4>1. PICK j \in DOMAIN active : j >= i /\ active[j] = w
          BY <1>2, <3>2
      <4>2. position'[s] = position[s]
          BY <1>2, <2>1
      <4>3. j >= position[s]
          BY <1>1, <3>2, <4>1, <4>2
      <4> QED BY <4>1, <4>3 DEF Awaits
    <3> QED BY <2>1, <3>1, <3>2 DEF Awaits
  <2> QED BY <1>1, <1>2, <2>1, BehindFrame
<1>3. /\ active' = active => Later
      /\ signals' = signals => Shorter
      /\ UNCHANGED <<thread, event, position, target>> => Kept
    BY <1>1
<1>4. CASE Change /\ UNCHANGED managerVars
  <2>1. /\ inbox' = inbox /\ changes' = changes + 1
        /\ UNCHANGED <<active, thread, event, position, target>>
      BY <1>4 DEF Change, managerVars
  <2>2. \A i \in DOMAIN signals' :
           \/ signals'[i] = changes + 1
           \/ \E j \in DOMAIN signals : signals[j] = signals'[i]
    <3>1. changes + 1 \in 0..MaxChanges /\ signals' = Append(signals, changes + 1)
        BY <1>4, ServersAssumption DEF Change, TypeOK, ServerTypeOK
    <3> QED BY <3>1, Queued
  <2>3. changes' \in Nat /\ changes' >= changes
      BY <1>1, <2>1
  <2> QED BY <2>1, <2>2, <2>3, BehindFrame DEF Awaits
<1>5. ASSUME NEW w \in Websockets, ~Listed(w), Enlist(w),
             inbox[w] = << >>
      PROVE  Later
  <2>1. /\ Len(active') = Len(active) + 1 /\ active'[Len(active) + 1] = w
        /\ \A i \in DOMAIN active : active'[i] = active[i]
      BY <1>5, Enlisted
  <2>2. \A i \in DOMAIN active' : i = Len(active) + 1 \/ i \in DOMAIN active
      BY <1>1, <2>1
  <2>3. \A i \in DOMAIN active : i >= i
      BY <1>1
  <2> QED BY <1>5, <2>1, <2>2, <2>3
<1>6. ASSUME NEW w \in Websockets, Connect(w) PROVE All
  <2>1. ~Listed(w) /\ inbox[w] = << >> /\ Enlist(w)
      BY <1>6 DEF Connect, ListInv
  <2> QED BY <1>2, <1>3, <1>5, <1>6, <2>1 DEF Connect, serverVars
<1>7. ASSUME NEW w \in Websockets, Leave(w) PROVE All
    BY <1>2, <1>3, <1>7 DEF Leave, serverVars
<1>8. ASSUME NEW w \in Websockets, Disconnect(w) PROVE All
  <2>1. Later
      BY <1>8, Delisted DEF Disconnect
  <2>2. Shorter
    <3>1. CASE UNCHANGED serverVars
        BY <1>3, <3>1 DEF serverVars
    <3>2. CASE StopServer(server)
        BY <3>2, Queued, ServersAssumption DEF StopServer
    <3> QED BY <1>8, <3>1, <3>2 DEF Disconnect
  <2> QED BY <1>2, <1>3, <1>8, <2>1, <2>2
          DEF Disconnect, serverVars, StopServer
<1>9. ASSUME NEW w \in Websockets, NEW s \in Servers, ConnectFirst(w, s)
      PROVE  All
  <2>1. Kept
      BY <1>9 DEF ConnectFirst, StartServer, TypeOK, ServerTypeOK
  <2> QED BY <1>2, <1>3, <1>9, <2>1 DEF ConnectFirst, StartServer
<1>10. CASE AwaitServer
    BY <1>2, <1>3, <1>10 DEF AwaitServer, WaitStarted, managerVars
<1>11. CASE ServerStarted
  <2>1. ~Listed(connecting) /\ inbox[connecting] = << >> /\ Enlist(connecting)
        /\ connecting \in Websockets
      BY <1>11 DEF ServerStarted, ListInv, TypeOK
  <2> QED BY <1>2, <1>3, <1>5, <1>11, <2>1 DEF ServerStarted, serverVars
<1>12. CASE ServerStopped
    BY <1>2, <1>3, <1>12 DEF ServerStopped, Joined
<1>13. ASSUME NEW s \in Servers, SetStarted(s) \/ GetStop(s), TakeSignal(s)
       PROVE  All
  <2>1. Kept
      BY <1>13 DEF SetStarted, GetStop, TakeSignal, TypeOK, ServerTypeOK
  <2>2. Shorter
    <3>1. CASE SetStarted(s)
        BY <1>3, <3>1 DEF SetStarted
    <3>2. CASE GetStop(s)
      <4>1. signals # << >> /\ signals' = Tail(signals)
          BY <3>2 DEF GetStop
      <4> QED BY <4>1, Dequeued
    <3> QED BY <1>13, <3>1, <3>2
  <2> QED BY <1>2, <1>3, <1>13, <2>1, <2>2 DEF SetStarted, GetStop, TakeSignal
<1>14. ASSUME NEW s \in Servers, GetState(s), TakeSignal(s) PROVE All
  <2>1. /\ signals # << >> /\ signals' = Tail(signals) /\ changes' = changes
        /\ Head(signals) # 0 /\ inbox' = inbox /\ event'[s] = Head(signals)
        /\ thread' = [thread EXCEPT ![s] = "publish"] /\ s = server
      BY <1>14 DEF GetState, TakeSignal, TypeOK, ServerTypeOK, SoleInv, Live
  <2>2. \A r \in Servers : thread'[r] = "publish" => r = s
      BY <2>1 DEF TypeOK, ServerTypeOK, SoleInv, Live
  <2> SUFFICES ASSUME NEW w \in Websockets, NEW k \in DOMAIN inbox[w]
               PROVE  /\ inbox[w][k] <= changes
                      /\ \A i \in DOMAIN signals' :
                            signals'[i] # 0 => inbox[w][k] < signals'[i]
                      /\ inbox[w][k] <= event'[s] /\ inbox[w][k] < event'[s]
      BY <2>1, <2>2 DEF Behind
  <2>3. /\ inbox[w][k] <= changes
        /\ \A i \in DOMAIN signals : signals[i] # 0 => inbox[w][k] < signals[i]
      BY DEF Behind
  <2>4. /\ Len(signals) \in Nat \ {0} /\ Head(signals) = signals[1]
        /\ DOMAIN signals = 1..Len(signals)
        /\ DOMAIN signals' = 1..Len(signals) - 1
        /\ \A i \in 1..Len(signals) - 1 : signals'[i] = signals[i + 1]
      BY <2>1, Dequeued
  <2>5. inbox[w][k] \in Nat /\ signals[1] \in Nat
      BY <2>4, Numbers
  <2>6. \A i \in DOMAIN signals' : i + 1 \in DOMAIN signals
      BY <2>4
  <2>7. 1 \in DOMAIN signals
      BY <2>4
  <2>8. inbox[w][k] < event'[s]
      BY <2>1, <2>3, <2>4, <2>7
  <2>9. inbox[w][k] <= event'[s]
      BY <2>1, <2>4, <2>5, <2>8
  <2> QED BY <2>3, <2>4, <2>6, <2>8, <2>9
<1>15. ASSUME NEW s \in Servers, NextConnection(s) PROVE All
  <2>1. /\ UNCHANGED <<inbox, changes, signals, thread, event, active>>
        /\ target' = [target EXCEPT ![s] = active[position[s]]]
        /\ position' = [position EXCEPT ![s] = position[s] + 1]
        /\ position[s] \in DOMAIN active
    <3>1. position[s] >= 1
        BY DEF TypeOK
    <3> QED BY <1>1, <1>15, <3>1 DEF NextConnection, serverVars
  <2>2. ASSUME NEW r \in Servers, NEW w \in Websockets, Awaits(w, r)'
        PROVE  Awaits(w, r)
    <3>1. CASE r = s
      <4>1. target'[s] = active[position[s]] /\ position'[s] = position[s] + 1
          BY <2>1 DEF TypeOK
      <4>2. CASE target'[s] = w
        <5>1. position[s] >= position[s]
            BY <1>1
        <5> QED BY <2>1, <3>1, <4>1, <4>2, <5>1 DEF Awaits
      <4>3. ASSUME NEW i \in DOMAIN active, i >= position[s] + 1, active[i] = w
            PROVE  Awaits(w, r)
          BY <1>1, <3>1, <4>3 DEF Awaits
      <4> QED BY <2>1, <2>2, <3>1, <4>1, <4>2, <4>3 DEF Awaits
    <3>2. CASE r # s
        BY <2>1, <2>2, <3>2 DEF Awaits, TypeOK
    <3> QED BY <3>1, <3>2
  <2> QED BY <1>1, <1>3, <2>1, <2>2, BehindFrame
<1>16. ASSUME NEW s \in Servers, Send(s) PROVE All
  <2> DEFINE v == target[s]
  <2>1. /\ v \in Websockets /\ thread[s] = "publish" /\ s = server
        /\ UNCHANGED <<changes, signals, active, position>>
        /\ target' = [target EXCEPT ![s] = Nobody]
      BY <1>16 DEF Send, PublishRaised, serverVars, TypeOK, ServerTypeOK,
                   ThreadInv, SoleInv, Live
  <2>2. ASSUME NEW r \in Servers, NEW w \in Websockets, Awaits(w, r)'
        PROVE  Awaits(w, r)
      BY <2>1, <2>2, ManagerAssumption DEF Awaits, TypeOK
  <2>3. CASE inbox' = inbox
    <3>1. \A r \in Servers : thread'[r] = "publish" =>
             thread[r] = "publish" /\ event'[r] = event[r]
        BY <1>16, <2>3 DEF Send, PublishRaised, serverVars, TypeOK, ServerTypeOK
    <3> QED BY <1>1, <1>3, <2>1, <2>2, <2>3, <3>1, BehindFrame
  <2>4. CASE inbox' = [inbox EXCEPT ![v] = Append(@, event[s])]
             /\ UNCHANGED <<thread, event>>
    <3> SUFFICES ASSUME NEW w \in Websockets PROVE Behind(w)'
        OBVIOUS
    <3>1. CASE w # v
      <4>1. inbox'[w] = inbox[w]
          BY <2>4, <3>1 DEF TypeOK
      <4> QED BY <2>1, <2>2, <2>4, <4>1 DEF Behind
    <3>2. CASE w = v
      <4>1. /\ event[s] \in Nat /\ event[s] # 0
            /\ \A k \in DOMAIN inbox[v] : inbox[v][k] \in Nat
          BY <2>1, Numbers DEF ThreadInv
      <4>2. /\ DOMAIN inbox'[v] = 1..Len(inbox[v]) + 1
            /\ \A k \in 1..Len(inbox[v]) : inbox'[v][k] = inbox[v][k]
            /\ inbox'[v][Len(inbox[v]) + 1] = event[s]
            /\ DOMAIN inbox[v] = 1..Len(inbox[v]) /\ Len(inbox[v]) \in Nat
        <5>1. event[s] \in 1..MaxChanges /\ inbox[v] \in Seq(1..MaxChanges)
            BY <2>1, <4>1 DEF TypeOK, ServerTypeOK
        <5>2. inbox'[v] = Append(inbox[v], event[s])
            BY <2>1, <2>4 DEF TypeOK
        <5> QED BY <5>1, <5>2, AppendProperties, LenProperties
      <4>3. \A k \in DOMAIN inbox'[v] :
               k \in DOMAIN inbox[v] \/ inbox'[v][k] = event[s]
          BY <4>2
      <4>4. \A r \in Servers : thread[r] = "publish" => r = s
          BY <2>1 DEF SoleInv, Live
      <4>5. ~Awaits(w, s)'
        <5>1. target'[s] = Nobody /\ w # Nobody /\ UNCHANGED <<active, position>>
            BY <2>1, ManagerAssumption DEF TypeOK
        <5>2. \A i \in DOMAIN active : i >= position[s] => active[i] # w
            BY <3>2, <5>1 DEF OnceInv, Once
        <5> QED BY <5>1, <5>2 DEF Awaits
      <4>6. /\ event[s] <= changes
            /\ \A i \in DOMAIN signals : signals[i] # 0 => event[s] < signals[i]
          BY DEF QueueInv
      <4>7. event[s] <= event[s]
          BY <4>1
      <4>8. Behind(v)
          BY <2>1
      <4>9. ASSUME NEW k \in DOMAIN inbox'[w]
            PROVE  /\ inbox'[w][k] <= changes
                   /\ \A i \in DOMAIN signals :
                         signals[i] # 0 => inbox'[w][k] < signals[i]
                   /\ inbox'[w][k] <= event[s]
        <5>1. CASE inbox'[w][k] = event[s]
            BY <4>6, <4>7, <5>1
        <5>2. CASE k \in DOMAIN inbox[w]
          <6>1. inbox'[w][k] = inbox[w][k]
              BY <3>2, <4>2, <5>2
          <6> QED BY <2>1, <3>2, <4>8, <5>2, <6>1 DEF Behind
        <5> QED BY <3>2, <4>3, <5>1, <5>2
      <4> QED BY <2>1, <2>4, <4>4, <4>5, <4>9 DEF Behind
    <3> QED BY <3>1, <3>2
  <2> QED BY <1>16, <2>3, <2>4 DEF Send, serverVars
<1>17. ASSUME NEW s \in Servers, EndPublish(s) PROVE All
  <2>1. Kept
      BY <1>17 DEF EndPublish, Published, managerVars, TypeOK, ServerTypeOK
  <2> QED BY <1>2, <1>3, <1>17, <2>1 DEF EndPublish, Published, managerVars
<1>18. CASE UNCHANGED vars
    BY <1>2, <1>3, <1>18 DEF vars
<1> QED BY <1>4, <1>6, <1>7, <1>8, <1>9, <1>10, <1>11, <1>12, <1>13, <1>14,
           <1>15, <1>16, <1>17, <1>18, NextSteps DEF Steps

LEMMA OnceStep ==
    ASSUME TypeOK, ListInv, ThreadInv, OnceInv, [Next]_vars PROVE OnceInv'
<1> SUFFICES ASSUME NEW s \in Servers, target'[s] # Nobody,
                    NEW i \in DOMAIN active', i >= position'[s]
             PROVE  active'[i] # target'[s]
    BY DEF OnceInv, Once
<1>0. /\ position[s] \in Nat
      /\ DOMAIN active = 1..Len(active) /\ DOMAIN active' = 1..Len(active')
      /\ Len(active) \in Nat /\ Len(active') \in Nat
  <2>1. active \in Seq(Websockets) /\ active' \in Seq(Websockets)
      BY TypeStep DEF TypeOK
  <2> QED BY <2>1, Numbers, LenProperties
<1> DEFINE New == active'[i] # target'[s]
<1>1. ASSUME target'[s] = target[s], position'[s] = position[s],
             \E j \in DOMAIN active : j >= i /\ active[j] = active'[i]
      PROVE  New
  <2>1. PICK j \in DOMAIN active : j >= i /\ active[j] = active'[i]
      BY <1>1
  <2>2. j >= position[s]
      BY <1>0, <1>1, <2>1
  <2> QED BY <1>1, <2>1, <2>2 DEF OnceInv, Once
<1>2. CASE UNCHANGED <<active, target, position>>
    BY <1>2 DEF OnceInv, Once
<1>3. ASSUME NEW w \in Websockets, ~Listed(w), Enlist(w),
             UNCHANGED <<target, position>>, w # target[s]
      PROVE  New
  <2>1. /\ Len(active') = Len(active) + 1 /\ active'[Len(active) + 1] = w
        /\ \A j \in DOMAIN active : active'[j] = active[j]
      BY <1>3, Enlisted
  <2>2. i = Len(active) + 1 \/ i \in DOMAIN active
      BY <1>0, <2>1
  <2> QED BY <1>3, <2>1, <2>2 DEF OnceInv, Once
<1>4. ASSUME NEW w \in Websockets, Connect(w) PROVE New
    BY <1>3, <1>4 DEF Connect, ListInv, ThreadInv
<1>5. CASE ServerStarted
    BY <1>3, <1>5 DEF ServerStarted, ListInv, ThreadInv, TypeOK
<1>6. ASSUME NEW w \in Websockets, Disconnect(w) PROVE New
    BY <1>1, <1>6, Delisted DEF Disconnect
<1>7. ASSUME NEW r \in Servers, TakeSignal(r) PROVE New
  <2>1. CASE r = s
      BY <1>7, <2>1 DEF TakeSignal, SetStarted, GetStop, GetState, ThreadInv
  <2>2. CASE r # s
      BY <1>7, <2>2 DEF TakeSignal, OnceInv, Once, TypeOK
  <2> QED BY <2>1, <2>2
<1>8. ASSUME NEW r \in Servers, NextConnection(r) PROVE New
  <2>1. CASE r = s
    <3>1. /\ target'[s] = active[position[s]] /\ position'[s] = position[s] + 1
          /\ active' = active /\ position[s] <= Len(active)
        BY <1>8, <2>1 DEF NextConnection, TypeOK
    <3>2. position[s] >= 1
        BY DEF TypeOK
    <3>3. position[s] \in DOMAIN active /\ i # position[s] /\ i \in DOMAIN active
        BY <1>0, <3>1, <3>2
    <3> QED BY <3>1, <3>3 DEF TypeOK, IsInjective
  <2>2. CASE r # s
      BY <1>8, <2>2 DEF NextConnection, OnceInv, Once, TypeOK
  <2> QED BY <2>1, <2>2
<1>9. ASSUME NEW r \in Servers, Send(r) PROVE New
    BY <1>9 DEF Send, OnceInv, Once, TypeOK
<1>10. CASE Next
    BY <1>2, <1>4, <1>5, <1>6, <1>7, <1>8, <1>9, <1>10, NextSteps
       DEF Steps, managerVars, Leave, ConnectFirst, AwaitServer, ServerStopped,
           EndPublish
<1> QED BY <1>2, <1>10 DEF vars

LEMMA OrderStep ==
    ASSUME TypeOK, ListInv, ThreadInv, SoleInv, QueueInv, OnceInv, OrderInv,
           [Next]_vars
    PROVE  OrderInv'
<1> DEFINE Ordered == \A w \in Websockets : \A k \in 1..Len(inbox[w]) - 1 :
                         inbox[w][k] < inbox[w][k + 1]
<1> SUFFICES ASSUME Abandoned' = {}
             PROVE  (\A w \in Websockets : Behind(w)') /\ Ordered'
    BY DEF OrderInv, InOrder
<1>0. Abandoned = {}
    BY StillAwaited
<1>1. (\A w \in Websockets : Behind(w)) /\ Ordered
    BY <1>0 DEF OrderInv, InOrder
<1>2. CASE inbox' = inbox
    BY <1>0, <1>1, <1>2, BehindStep
<1>3. ASSUME NEW s \in Servers, Send(s), inbox' # inbox PROVE Ordered'
  <2> DEFINE w == target[s]
  <2>1. /\ w \in Websockets /\ thread[s] = "publish" /\ event[s] \in 1..MaxChanges
        /\ inbox' = [inbox EXCEPT ![w] = Append(@, event[s])]
      BY <1>3, Numbers DEF Send, TypeOK, ServerTypeOK, ThreadInv
  <2>2. /\ inbox[w] \in Seq(1..MaxChanges)
        /\ inbox'[w] = Append(inbox[w], event[s])
      BY <2>1 DEF TypeOK
  <2>3. /\ Len(inbox'[w]) = Len(inbox[w]) + 1 /\ Len(inbox[w]) \in Nat
        /\ \A k \in 1..Len(inbox[w]) : inbox'[w][k] = inbox[w][k]
        /\ inbox'[w][Len(inbox[w]) + 1] = event[s]
        /\ DOMAIN inbox[w] = 1..Len(inbox[w])
      BY <2>1, <2>2, AppendProperties, LenProperties
  <2>4. \A k \in 1..Len(inbox[w]) : inbox[w][k] < event[s]
      BY <1>1, <2>1, <2>3 DEF Behind, Awaits
  <2>5. \A k \in 1..Len(inbox[w]) - 1 : inbox[w][k] < inbox[w][k + 1]
      BY <1>1, <2>1
  <2>6. \A k \in 1..Len(inbox'[w]) - 1 : inbox'[w][k] < inbox'[w][k + 1]
    <3> SUFFICES ASSUME NEW k \in 1..Len(inbox[w])
                 PROVE  inbox'[w][k] < inbox'[w][k + 1]
        BY <2>3
    <3>1. CASE k = Len(inbox[w])
        BY <2>3, <2>4, <3>1
    <3>2. CASE k # Len(inbox[w])
      <4>1. k \in 1..Len(inbox[w]) - 1 /\ k + 1 \in 1..Len(inbox[w])
          BY <2>3, <3>2
      <4> QED BY <2>3, <2>5, <4>1
    <3> QED BY <3>1, <3>2
  <2>7. \A v \in Websockets : v # w => inbox'[v] = inbox[v]
      BY <2>1 DEF TypeOK
  <2> HIDE DEF w
  <2> SUFFICES ASSUME NEW v \in Websockets
               PROVE  \A k \in 1..Len(inbox'[v]) - 1 :
                         inbox'[v][k] < inbox'[v][k + 1]
      OBVIOUS
  <2>8. CASE v = w
      BY <2>6, <2>8
  <2>9. CASE v # w
      BY <1>1, <2>7, <2>9
  <2> QED BY <2>8, <2>9
<1>4. CASE Next
  <2>1. inbox' = inbox \/ \E s \in Servers : Send(s)
      BY <1>4, NextSteps DEF Steps, managerVars, Connect, Leave, Disconnect,
         ConnectFirst, AwaitServer, ServerStarted, ServerStopped, TakeSignal,
         NextConnection, EndPublish
  <2> QED BY <1>0, <1>1, <1>2, <1>3, <2>1, BehindStep
<1> QED BY <1>2, <1>4 DEF vars

-----------------------------------------------------------------------------
\* Every STOP ends one server.

LEMMA SetsFinite ==
    ASSUME TypeOK
    PROVE  /\ IsFiniteSet(Live) /\ IsFiniteSet(Died)
           /\ IsFiniteSet(Wanted) /\ IsFiniteSet(Stops)
           /\ Cardinality(Live) \in Nat /\ Cardinality(Died) \in Nat
           /\ Cardinality(Wanted) \in Nat /\ Cardinality(Stops) \in Nat
<1>1. /\ Live \in SUBSET Servers /\ Died \in SUBSET Servers
      /\ Wanted \in SUBSET Servers
    BY DEF Live, Died, Wanted
<1>2. IsFiniteSet(1..Len(signals)) /\ DOMAIN signals = 1..Len(signals)
    BY FS_Interval, LenProperties DEF TypeOK, ServerTypeOK
<1>3. Stops \in SUBSET (1..Len(signals))
    BY <1>2 DEF Stops
<1> QED BY <1>1, <1>2, <1>3, ServersAssumption, FS_Subset, FS_CardinalityType

\* A signal at the back of the queue counts one more if it is a STOP ...
LEMMA StopsQueued ==
    ASSUME TypeOK, NEW n \in 0..MaxChanges, signals' = Append(signals, n)
    PROVE  Cardinality(Stops)' =
              IF n = STOP THEN Cardinality(Stops) + 1 ELSE Cardinality(Stops)
<1> DEFINE last == Len(signals) + 1
<1>1. /\ Len(signals) \in Nat /\ DOMAIN signals = 1..Len(signals)
      /\ DOMAIN signals' = 1..Len(signals) + 1
      /\ \A i \in 1..Len(signals) : signals'[i] = signals[i]
      /\ signals'[Len(signals) + 1] = n
    BY Queued
<1>2. last \notin Stops
    BY <1>1 DEF Stops
<1>3. CASE n = STOP
  <2>1. Stops' = Stops \cup {last}
      BY <1>1, <1>3 DEF Stops
  <2> QED BY <1>2, <1>3, <2>1, SetsFinite, FS_AddElement
<1>4. CASE n # STOP
  <2>1. Stops' = Stops
      BY <1>1, <1>4 DEF Stops
  <2> QED BY <1>4, <2>1
<1> QED BY <1>3, <1>4

LEMMA Shifted ==
    ASSUME NEW A \in SUBSET Nat, NEW B \in SUBSET Nat, IsFiniteSet(A),
           \A i \in A : i - 1 \in B, \A j \in B : j + 1 \in A
    PROVE  Cardinality(B) = Cardinality(A)
<1> DEFINE f == [i \in A |-> i - 1]
<1>1. f \in [A -> B] /\ \A i \in A : f[i] = i - 1
    OBVIOUS
<1>2. \A j \in B : j + 1 \in A /\ f[j + 1] = j
    BY <1>1
<1>3. f \in Bijection(A, B)
  <2>1. \A i, j \in A : f[i] = f[j] => i = j
      BY <1>1
  <2> QED BY <1>1, <1>2, <2>1 DEF Bijection, Injection, Surjection, IsInjective
<1>4. ExistsBijection(A, B)
    BY <1>3 DEF ExistsBijection
<1> QED BY <1>4, FS_Bijection

\* ... and one that is taken off the front one less.
LEMMA StopsDequeued ==
    ASSUME TypeOK, signals # << >>, signals' = Tail(signals)
    PROVE  /\ Cardinality(Stops) =
                 IF Head(signals) = STOP
                 THEN Cardinality(Stops)' + 1 ELSE Cardinality(Stops)'
           /\ Cardinality(Stops)' \in Nat
<1> DEFINE rest == Stops \ {1}
<1>1. /\ Len(signals) \in Nat \ {0} /\ DOMAIN signals = 1..Len(signals)
      /\ DOMAIN signals' = 1..Len(signals) - 1
      /\ \A i \in 1..Len(signals) - 1 : signals'[i] = signals[i + 1]
      /\ Head(signals) = signals[1]
    BY Dequeued
<1>2. IsFiniteSet(rest) /\ Cardinality(rest) \in Nat
      /\ Cardinality(rest) = IF 1 \in Stops THEN Cardinality(Stops) - 1
                             ELSE Cardinality(Stops)
    BY SetsFinite, FS_RemoveElement, FS_CardinalityType
<1>3. 1 \in Stops <=> Head(signals) = STOP
    BY <1>1 DEF Stops
<1>4. Cardinality(Stops') = Cardinality(rest)
  <2>1. rest \in SUBSET Nat /\ Stops' \in SUBSET Nat
      BY <1>1 DEF Stops
  <2>2. \A i \in rest : i - 1 \in Stops'
      BY <1>1 DEF Stops
  <2>3. \A j \in Stops' : j + 1 \in rest
      BY <1>1 DEF Stops
  <2> QED BY <1>2, <2>1, <2>2, <2>3, Shifted
<1> QED BY <1>2, <1>3, <1>4, SetsFinite

LEMMA BalanceStep ==
    ASSUME TypeOK, ListInv, ThreadInv, StopsBalance, [Next]_vars
    PROVE  StopsBalance'
<1>0. /\ StopsBalance
      /\ IsFiniteSet(Live) /\ IsFiniteSet(Died) /\ IsFiniteSet(Wanted)
      /\ Cardinality(Live) \in Nat /\ Cardinality(Died) \in Nat
      /\ Cardinality(Wanted) \in Nat /\ Cardinality(Stops) \in Nat
    BY SetsFinite
<1> DEFINE Unmoved == Live' = Live /\ Died' = Died /\ Wanted' = Wanted
<1>1. ASSUME Unmoved, signals' = signals PROVE StopsBalance'
    BY <1>0, <1>1 DEF StopsBalance, Stops
<1>2. ASSUME UNCHANGED <<thread, caller>> PROVE Unmoved
    BY <1>2 DEF Live, Died, Wanted
<1>3. CASE Change
  <2>1. changes + 1 \in 0..MaxChanges /\ changes + 1 # STOP
        /\ signals' = Append(signals, changes + 1)
      BY <1>3, ServersAssumption DEF Change, TypeOK, ServerTypeOK, STOP
  <2>2. Cardinality(Stops)' = Cardinality(Stops)
      BY <2>1, StopsQueued
  <2> QED BY <1>0, <1>2, <1>3, <2>2 DEF Change, StopsBalance
<1>4. ASSUME NEW s \in Servers, StartServer(s) PROVE StopsBalance'
  <2>1. /\ Live' = Live \cup {s} /\ Wanted' = Wanted \cup {s} /\ Died' = Died
        /\ s \notin Live /\ s \notin Wanted /\ signals' = signals
      BY <1>4
         DEF StartServer, Live, Died, Wanted, ThreadInv, TypeOK, ServerTypeOK
  <2>2. /\ Cardinality(Live') = Cardinality(Live) + 1
        /\ Cardinality(Wanted') = Cardinality(Wanted) + 1
      BY <1>0, <2>1, FS_AddElement
  <2>3. Stops' = Stops
      BY <2>1 DEF Stops
  <2> QED BY <1>0, <2>1, <2>2, <2>3 DEF StopsBalance
<1>5. ASSUME NEW s \in Servers, StopServer(s) PROVE StopsBalance'
  <2>1. /\ Live' = Live /\ Died' = Died
        /\ Wanted' = Wanted \ {s} /\ s \in Wanted
        /\ STOP \in 0..MaxChanges /\ signals' = Append(signals, STOP)
      BY <1>5, ServersAssumption
         DEF StopServer, Live, Died, Wanted, TypeOK, ServerTypeOK, STOP
  <2>2. /\ Cardinality(Live') = Cardinality(Live)
        /\ Cardinality(Wanted') = Cardinality(Wanted) - 1
      BY <1>0, <2>1, FS_RemoveElement
  <2>3. Cardinality(Stops)' = Cardinality(Stops) + 1
      BY <2>1, StopsQueued
  <2> QED BY <1>0, <2>1, <2>2, <2>3 DEF StopsBalance
<1>6. ASSUME NEW s, WaitStarted(s) \/ Joined(s) PROVE StopsBalance'
  <2>1. Unmoved /\ signals' = signals
      BY <1>6
         DEF WaitStarted, Joined, Live, Died, Wanted, TypeOK, ServerTypeOK
  <2> QED BY <1>1, <2>1
<1>7. ASSUME NEW s \in Servers, SetStarted(s) \/ Published(s)
      PROVE  StopsBalance'
  <2>1. Unmoved /\ signals' = signals
      BY <1>7
         DEF SetStarted, Published, Live, Died, Wanted, TypeOK, ServerTypeOK
  <2> QED BY <1>1, <2>1
<1>8. ASSUME NEW s \in Servers, GetStop(s) PROVE StopsBalance'
  <2>1. /\ Live' = Live \ {s} /\ s \in Live
        /\ Died' = Died /\ Wanted' = Wanted
        /\ signals # << >> /\ signals' = Tail(signals) /\ Head(signals) = STOP
      BY <1>8 DEF GetStop, Live, Died, Wanted, TypeOK, ServerTypeOK
  <2>2. Cardinality(Live') = Cardinality(Live) - 1
      BY <1>0, <2>1, FS_RemoveElement
  <2>3. /\ Cardinality(Stops) = Cardinality(Stops)' + 1
        /\ Cardinality(Stops)' \in Nat
      BY <2>1, StopsDequeued
  <2>4. /\ Cardinality(Died)' = Cardinality(Died)
        /\ Cardinality(Wanted)' = Cardinality(Wanted)
        /\ Cardinality(Live)' = Cardinality(Live) - 1
      BY <2>1, <2>2
  <2> QED BY <1>0, <2>3, <2>4 DEF StopsBalance
<1>9. ASSUME NEW s \in Servers, GetState(s) PROVE StopsBalance'
  <2>1. /\ Unmoved /\ signals # << >> /\ signals' = Tail(signals)
        /\ Head(signals) # STOP
      BY <1>9 DEF GetState, Live, Died, Wanted, TypeOK, ServerTypeOK
  <2>2. Cardinality(Stops) = Cardinality(Stops)'
      BY <2>1, StopsDequeued
  <2> QED BY <1>0, <2>1, <2>2 DEF StopsBalance
<1>10. ASSUME NEW w \in Websockets, Disconnect(w) PROVE StopsBalance'
  <2>1. server \in Servers
    <3>1. active # << >>
        BY <1>10 DEF Disconnect, Delist
    <3> QED BY <3>1 DEF ListInv, TypeOK
  <2> QED BY <1>1, <1>2, <1>5, <1>10, <2>1 DEF Disconnect, serverVars
<1>11. ASSUME NEW s \in Servers, Send(s) PROVE StopsBalance'
  <2>1. CASE UNCHANGED serverVars
      BY <1>1, <1>2, <2>1 DEF serverVars
  <2>2. CASE PublishRaised(s)
    <3>1. /\ Live' = Live \ {s} /\ s \in Live
          /\ Died' = Died \cup {s} /\ s \notin Died
          /\ Wanted' = Wanted /\ Stops' = Stops
        BY <2>2
           DEF PublishRaised, Live, Died, Wanted, Stops, TypeOK, ServerTypeOK
    <3>2. /\ Cardinality(Live') = Cardinality(Live) - 1
          /\ Cardinality(Died') = Cardinality(Died) + 1
        BY <1>0, <3>1, FS_AddElement, FS_RemoveElement
    <3> QED BY <1>0, <3>1, <3>2 DEF StopsBalance
  <2> QED BY <1>11, <2>1, <2>2 DEF Send
<1>12. CASE UNCHANGED serverVars
    BY <1>1, <1>2, <1>12 DEF serverVars
<1>13. CASE Next
    BY <1>3, <1>4, <1>6, <1>7, <1>8, <1>9, <1>10, <1>11, <1>12, <1>13, NextSteps
       DEF Steps, Connect, Leave, ConnectFirst, AwaitServer, ServerStarted,
           ServerStopped, NextConnection, EndPublish
<1> QED BY <1>12, <1>13 DEF vars, serverVars

-----------------------------------------------------------------------------
\* Nobody misses a state until somebody is taken off the list.

\* The step takes nothing off the list and ends no server.
LEMMA StillOpen ==
    ASSUME TypeOK, [Next]_vars, NoneClosed'
    PROVE  NoneClosed /\ \A w \in Websockets : ~Disconnect(w)
<1>1. \A w \in Websockets : conn[w] = "closed" => conn'[w] = "closed"
    BY NextSteps DEF TypeOK, Steps, managerVars, Connect, Leave, Disconnect,
       ConnectFirst, AwaitServer, ServerStarted, ServerStopped, TakeSignal,
       NextConnection, Send, EndPublish, vars
<1>2. \A w \in Websockets : ~Disconnect(w)
    BY DEF NoneClosed, Disconnect, TypeOK
<1> QED BY <1>1, <1>2 DEF NoneClosed

LEMMA StillAlive ==
    ASSUME TypeOK, ThreadInv, [Next]_vars, Died' = {} PROVE Died = {}
<1> SUFFICES ASSUME NEW s \in Servers, thread[s] = "died"
             PROVE  thread'[s] = "died"
    BY DEF Died
<1> USE DEF TypeOK, ServerTypeOK
<1>1. ASSUME NEW r \in Servers, Send(r) PROVE thread'[s] = "died"
    BY <1>1 DEF Send, PublishRaised, serverVars
<1>2. CASE Next
    BY <1>1, <1>2, NextSteps
       DEF Steps, Change, managerVars, serverVars, Connect, Leave, Disconnect,
           ConnectFirst, StartServer, StopServer, AwaitServer, WaitStarted,
           ServerStarted, ServerStopped, Joined, TakeSignal, SetStarted,
           GetStop, GetState, NextConnection, EndPublish, Published, ThreadInv
<1> QED BY <1>2 DEF vars, serverVars

LEMMA NewestStep ==
    ASSUME TypeOK, QueueNewest, [Next]_vars,
           \A w \in Websockets : ~Disconnect(w)
    PROVE  /\ QueueNewest' /\ \A s \in Servers : ~GetStop(s)
           /\ Taken \in Nat /\ Taken <= changes
           /\ UNCHANGED <<changes, signals>> \/ Change => Taken' = Taken
           /\ \A s \in Servers : GetState(s) /\ TakeSignal(s) =>
                 Taken' = Taken + 1 /\ event'[s] = Taken'
<1> USE DEF QueueNewest, Taken, STOP
<1>1. /\ changes \in Nat /\ Len(signals) \in Nat /\ Taken \in Nat
      /\ DOMAIN signals = 1..Len(signals)
  <2>1. Len(signals) \in Nat /\ DOMAIN signals = 1..Len(signals)
      BY LenProperties DEF TypeOK, ServerTypeOK
  <2> QED BY <2>1, Numbers
<1>2. signals # << >> => Head(signals) = Taken + 1
  <2> SUFFICES ASSUME signals # << >> PROVE Head(signals) = Taken + 1
      OBVIOUS
  <2>1. 1 \in DOMAIN signals /\ Head(signals) = signals[1]
      BY EmptySeq, LenProperties DEF TypeOK, ServerTypeOK
  <2> QED BY <2>1
<1>3. \A s \in Servers : ~GetStop(s)
    BY <1>1, <1>2 DEF GetStop
<1>4. ASSUME UNCHANGED <<changes, signals>>
      PROVE  QueueNewest' /\ Taken' = Taken
    BY <1>4
<1>5. ASSUME Change PROVE QueueNewest' /\ Taken' = Taken
  <2>1. /\ changes + 1 \in 0..MaxChanges /\ changes' = changes + 1
        /\ signals' = Append(signals, changes + 1)
      BY <1>5, ServersAssumption DEF Change, TypeOK, ServerTypeOK
  <2>2. /\ Len(signals') = Len(signals) + 1
        /\ DOMAIN signals' = 1..Len(signals) + 1
        /\ \A i \in 1..Len(signals) : signals'[i] = signals[i]
        /\ signals'[Len(signals) + 1] = changes + 1
      BY <2>1, Queued
  <2>3. Taken' = Taken /\ Taken + (Len(signals) + 1) = changes + 1
      BY <1>1, <2>1, <2>2
  <2>4. \A i \in DOMAIN signals' : signals'[i] = Taken + i
    <3> SUFFICES ASSUME NEW i \in DOMAIN signals' PROVE signals'[i] = Taken + i
        OBVIOUS
    <3>1. CASE i = Len(signals) + 1
        BY <2>2, <2>3, <3>1
    <3>2. CASE i \in 1..Len(signals)
        BY <1>1, <2>2, <3>2
    <3> QED BY <1>1, <2>2, <3>1, <3>2
  <2>5. Len(signals') <= changes'
      BY <1>1, <2>1, <2>2
  <2> QED BY <1>1, <1>3, <2>3, <2>4, <2>5
<1>6. ASSUME NEW s \in Servers, GetState(s), TakeSignal(s)
      PROVE  QueueNewest' /\ Taken' = Taken + 1 /\ event'[s] = Taken'
  <2>1. /\ signals # << >> /\ signals' = Tail(signals) /\ changes' = changes
        /\ event'[s] = Taken + 1
      BY <1>2, <1>6 DEF GetState, TypeOK, ServerTypeOK
  <2>2. /\ Len(signals) \in Nat \ {0} /\ Len(signals') = Len(signals) - 1
        /\ DOMAIN signals' = 1..Len(signals) - 1
        /\ \A i \in 1..Len(signals) - 1 : signals'[i] = signals[i + 1]
      BY <2>1, Dequeued
  <2>3. Taken' = Taken + 1
      BY <1>1, <2>1, <2>2
  <2>4. \A i \in DOMAIN signals' : signals'[i] = Taken + 1 + i
    <3> SUFFICES ASSUME NEW i \in DOMAIN signals'
                 PROVE  signals'[i] = Taken + 1 + i
        OBVIOUS
    <3>1. i \in Int /\ i + 1 \in DOMAIN signals /\ signals'[i] = signals[i + 1]
        BY <1>1, <2>2
    <3>2. signals[i + 1] = Taken + (i + 1)
        BY <3>1
    <3> HIDE DEF Taken
    <3> QED BY <1>1, <3>1, <3>2
  <2>5. Len(signals') <= changes'
      BY <1>1, <2>1, <2>2
  <2> QED BY <2>1, <2>3, <2>4, <2>5
<1>7. CASE Next
  <2>1. QueueNewest'
      BY <1>3, <1>4, <1>5, <1>6, <1>7, NextSteps
         DEF Steps, serverVars, Connect, Leave, ConnectFirst, StartServer,
             AwaitServer, WaitStarted, ServerStarted, Send, PublishRaised,
             ServerStopped, Joined, SetStarted, NextConnection, EndPublish,
             Published
  <2> QED BY <1>1, <1>3, <1>4, <1>5, <1>6, <2>1
<1> QED BY <1>1, <1>3, <1>4, <1>5, <1>6, <1>7 DEF vars

LEMMA OneServerStep ==
    ASSUME TypeOK, ListInv, ThreadInv, QueueNewest, OneServer, NoneClosed',
           [Next]_vars
    PROVE  OneServer'
<1>0. /\ NoneClosed /\ \A w \in Websockets : ~Disconnect(w)
      /\ \A s \in Servers : ~GetStop(s)
      /\ UNCHANGED <<changes, signals>> \/ Change => Taken' = Taken
      /\ \A s \in Servers : GetState(s) /\ TakeSignal(s) =>
            Taken' = Taken + 1 /\ event'[s] = Taken'
    BY StillOpen, NewestStep
<1>1. Len(active) \in Nat /\ \A s \in Servers : position[s] \in Nat
    BY Numbers, LenProperties DEF TypeOK
<1> USE ManagerAssumption DEF TypeOK, ServerTypeOK, OneServer
<1>2. ASSUME UNCHANGED <<thread, server, caller, event, position>>,
             Len(active') \in Nat, Len(active') >= Len(active), Taken' = Taken,
             server = NoServer => conn' = conn
      PROVE  OneServer'
    BY <1>1, <1>2
<1>3. CASE Change /\ UNCHANGED managerVars
    BY <1>0, <1>1, <1>2, <1>3 DEF Change, managerVars
<1>4. ASSUME NEW w \in Websockets, Connect(w) PROVE OneServer'
  <2>1. ~Listed(w)
      BY <1>4 DEF Connect, ListInv
  <2>2. Len(active') = Len(active) + 1
      BY <1>4, <2>1, Enlisted DEF Connect
  <2>3. Len(active') \in Nat /\ Len(active') >= Len(active)
      BY <1>1, <2>2
  <2> QED BY <1>0, <1>2, <1>4, <2>3 DEF Connect, serverVars
<1>5. ASSUME NEW w \in Websockets, Leave(w) PROVE OneServer'
  <2>1. server # NoServer
      BY <1>5 DEF Leave
  <2>2. Len(active) >= Len(active)
      BY <1>1
  <2> QED BY <1>0, <1>1, <1>2, <1>5, <2>1, <2>2 DEF Leave, serverVars
<1>6. ASSUME NEW w \in Websockets, NEW s \in Servers, ConnectFirst(w, s)
      PROVE  OneServer'
    BY <1>6 DEF ConnectFirst, StartServer, ThreadInv
<1>7. CASE AwaitServer
  <2>1. caller'[server] \in {"waiting", "running"}
      BY <1>7 DEF AwaitServer, WaitStarted
  <2> QED BY <1>0, <1>7, <2>1 DEF AwaitServer, WaitStarted, managerVars
<1>8. CASE ServerStarted
  <2>1. ~Listed(connecting) /\ connecting \in Websockets
      BY <1>8 DEF ServerStarted, ListInv
  <2>2. Len(active') = Len(active) + 1
      BY <1>8, <2>1, Enlisted DEF ServerStarted
  <2>3. Len(active') \in Nat /\ Len(active') >= Len(active)
      BY <1>1, <2>2
  <2> QED BY <1>0, <1>2, <1>8, <2>3 DEF ServerStarted, serverVars
<1>9. ~ServerStopped
    BY DEF ServerStopped, Joined
<1>10. ASSUME NEW s \in Servers, SetStarted(s), TakeSignal(s) PROVE OneServer'
    BY <1>10 DEF SetStarted, TakeSignal
<1>11. ASSUME NEW s \in Servers, GetState(s), TakeSignal(s) PROVE OneServer'
  <2>1. s = server /\ position'[s] = 1 /\ 1 <= Len(active) + 1
      BY <1>1, <1>11 DEF GetState, TakeSignal
  <2> QED BY <1>0, <1>11, <2>1 DEF GetState, TakeSignal
<1>12. ASSUME NEW s \in Servers, NextConnection(s) PROVE OneServer'
  <2>1. s = server /\ position'[s] = position[s] + 1 /\ Taken' = Taken
      BY <1>0, <1>12 DEF NextConnection, serverVars
  <2>2. position'[s] <= Len(active) + 1
      BY <1>1, <1>12, <2>1 DEF NextConnection
  <2> QED BY <1>12, <2>1, <2>2 DEF NextConnection, serverVars
<1>13. ASSUME NEW s \in Servers, Send(s) PROVE OneServer'
    BY <1>0, <1>13 DEF Send, PublishRaised, serverVars, ThreadInv
<1>14. ASSUME NEW s \in Servers, EndPublish(s) PROVE OneServer'
    BY <1>14 DEF EndPublish, Published, managerVars
<1>15. CASE UNCHANGED vars
    BY <1>0, <1>15 DEF vars
<1> QED BY <1>0, <1>3, <1>4, <1>5, <1>6, <1>7, <1>8, <1>9, <1>10, <1>11,
           <1>12, <1>13, <1>14, <1>15, NextSteps DEF Steps

LEMMA AwaitsEnlisted ==
    ASSUME TypeOK, ListInv, NEW w \in Websockets, ~Listed(w), Enlist(w),
           UNCHANGED <<target, position>>, NEW v \in Websockets, v # w,
           NEW s \in Servers
    PROVE  Awaits(v, s)' <=> Awaits(v, s)
<1>1. /\ Len(active') = Len(active) + 1 /\ active'[Len(active) + 1] = w
      /\ \A i \in DOMAIN active : active'[i] = active[i]
    BY Enlisted
<1>2. /\ DOMAIN active = 1..Len(active) /\ DOMAIN active' = 1..Len(active')
      /\ Len(active) \in Nat
  <2>1. active \in Seq(Websockets) /\ active' \in Seq(Websockets)
      BY Enlisted DEF TypeOK
  <2> QED BY <2>1, LenProperties
<1>3. \A i \in DOMAIN active' : i \in DOMAIN active \/ active'[i] = w
    BY <1>1, <1>2
<1>4. \A i \in DOMAIN active : i \in DOMAIN active'
    BY <1>1, <1>2
<1> QED BY <1>1, <1>3, <1>4 DEF Awaits

LEMMA Received ==
    ASSUME TypeOK, NEW w \in Websockets, NEW e \in 1..MaxChanges,
           inbox'[w] = Append(inbox[w], e)
    PROVE  /\ inbox'[w] # << >> /\ Len(inbox[w]) \in Nat
           /\ Len(inbox'[w]) = Len(inbox[w]) + 1
           /\ \A k \in 1..Len(inbox[w]) : inbox'[w][k] = inbox[w][k]
           /\ inbox'[w][Len(inbox'[w])] = e
           /\ inbox[w] = << >> <=> Len(inbox[w]) = 0
<1>1. inbox[w] \in Seq(1..MaxChanges)
    BY DEF TypeOK
<1>2. /\ Len(Append(inbox[w], e)) = Len(inbox[w]) + 1
      /\ \A k \in 1..Len(inbox[w]) : Append(inbox[w], e)[k] = inbox[w][k]
      /\ Append(inbox[w], e)[Len(inbox[w]) + 1] = e
    BY <1>1, AppendProperties
<1>3. Len(inbox[w]) \in Nat /\ (inbox[w] = << >> <=> Len(inbox[w]) = 0)
    BY <1>1, EmptySeq, LenProperties
<1>4. \A n \in Nat : n + 1 # 0
    OBVIOUS
<1>5. Len(Append(inbox[w], e)) # Len(<< >>)
    BY <1>2, <1>3, <1>4, EmptySeq, Zenon
<1>6. Append(inbox[w], e) # << >>
    BY <1>5, Zenon
<1> QED BY <1>2, <1>3, <1>6, Zenon

LEMMA FedFrame ==
    ASSUME NEW w \in Websockets, Fed(w), Taken' = Taken, server' = server,
           inbox'[w] = inbox[w], since'[w] = since[w],
           thread'[server] = "publish" /\ Awaits(w, server)' <=>
              thread[server] = "publish" /\ Awaits(w, server)
    PROVE  Fed(w)'
BY DEF Fed, Due

LEMMA FedStep ==
    ASSUME TypeOK, ListInv, ThreadInv, OnceInv, QueueNewest, OneServer,
           NoneClosed', [Next]_vars, Died' = {}, server' # NoServer, AllFed,
           NEW w \in Websockets, Listed(w)', conn'[w] = "open"
    PROVE  Fed(w)'
<1> USE ManagerAssumption DEF TypeOK, ServerTypeOK
<1>0. /\ NoneClosed /\ \A v \in Websockets : ~Disconnect(v)
      /\ \A s \in Servers : ~GetStop(s)
      /\ UNCHANGED <<changes, signals>> \/ Change => Taken' = Taken
      /\ \A s \in Servers : GetState(s) /\ TakeSignal(s) =>
            Taken' = Taken + 1 /\ event'[s] = Taken'
      /\ Taken \in Nat /\ Taken <= changes /\ changes \in Nat
    BY StillOpen, NewestStep, Numbers
<1>1. /\ \A s \in Servers : thread[s] # "unborn" => s = server
      /\ \A s \in Servers : thread[s] = "publish" => event[s] = Taken
    BY DEF OneServer
<1>2. ASSUME Listed(w), conn[w] = "open" PROVE server # NoServer /\ Fed(w)
  <2>1. Died = {}
      BY StillAlive
  <2> QED BY <1>2, <2>1 DEF ListInv, Listed, AllFed
<1>3. ASSUME UNCHANGED <<active, thread, target, position>>
      PROVE  /\ Listed(w)
             /\ \A s \in Servers : Awaits(w, s)' <=> Awaits(w, s)
    BY <1>3 DEF Listed, Awaits
<1>4. CASE Change /\ UNCHANGED managerVars
    BY <1>0, <1>2, <1>3, <1>4, FedFrame DEF Change, managerVars
<1>5. ASSUME NEW v \in Websockets, ~Listed(v), Enlist(v), inbox[v] = << >>,
             UNCHANGED <<changes, signals, thread, target, position, server,
                         inbox>>,
             conn' = conn \/ conn' = [conn EXCEPT ![v] = "open"]
      PROVE  Fed(w)'
  <2>1. Taken' = Taken /\ since' = [since EXCEPT ![v] = changes]
      BY <1>0, <1>5 DEF Enlist
  <2>2. CASE v = w
    <3>1. inbox'[w] = << >> /\ since'[w] = changes
        BY <1>5, <2>1, <2>2
    <3>2. Due(w)' \in {Taken, Taken - 1}
        BY <2>1 DEF Due
    <3>3. changes >= Due(w)'
        BY <1>0, <3>2
    <3> QED BY <3>1, <3>3 DEF Fed
  <2>3. CASE v # w
    <3>1. Listed(w) /\ conn[w] = "open"
        BY <1>5, <2>3, Enlisted
    <3>2. server \in Servers
        BY <1>2, <3>1
    <3>3. Awaits(w, server)' <=> Awaits(w, server)
        BY <1>5, <2>3, <3>2, AwaitsEnlisted
    <3> QED BY <1>2, <1>5, <2>1, <2>3, <3>1, <3>3, FedFrame
  <2> QED BY <2>2, <2>3
<1>6. ASSUME NEW v \in Websockets, Connect(v) PROVE Fed(w)'
    BY <1>5, <1>6 DEF Connect, ListInv, serverVars
<1>7. ASSUME NEW v \in Websockets, Leave(v) PROVE Fed(w)'
    BY <1>0, <1>2, <1>3, <1>7, FedFrame DEF Leave, serverVars
<1>8. ASSUME NEW v \in Websockets, NEW s \in Servers, ConnectFirst(v, s)
      PROVE  FALSE
    BY <1>8 DEF ConnectFirst, ListInv, Listed
<1>9. CASE AwaitServer
    BY <1>0, <1>2, <1>3, <1>9, FedFrame DEF AwaitServer, WaitStarted, managerVars
<1>10. CASE ServerStarted
    BY <1>5, <1>10 DEF ServerStarted, ListInv, serverVars
<1>11. ~ServerStopped
    BY DEF ServerStopped, Joined, OneServer
<1>12. ASSUME NEW s \in Servers, SetStarted(s), TakeSignal(s) PROVE Fed(w)'
  <2>1. /\ s = server /\ thread[s] # "publish" /\ thread'[s] # "publish"
        /\ Listed(w) /\ Taken' = Taken
      BY <1>0, <1>1, <1>12 DEF SetStarted, TakeSignal, Listed
  <2> QED BY <1>2, <1>12, <2>1, FedFrame DEF TakeSignal
<1>13. ASSUME NEW s \in Servers, GetState(s), TakeSignal(s) PROVE Fed(w)'
  <2>1. /\ s = server /\ thread[s] # "publish" /\ thread'[s] = "publish"
        /\ position'[s] = 1 /\ Listed(w) /\ Taken' = Taken + 1
      BY <1>0, <1>1, <1>13 DEF GetState, TakeSignal, Listed
  <2>2. Awaits(w, s)'
    <3>1. PICK i \in DOMAIN active' : active'[i] = w
        BY DEF Listed
    <3>2. i >= 1
        BY <1>13 DEF TakeSignal
    <3> QED BY <2>1, <3>1, <3>2 DEF Awaits
  <2>3. Due(w)' = Due(w)
      BY <1>0, <1>13, <2>1, <2>2 DEF Due, TakeSignal
  <2> QED BY <1>2, <1>13, <2>1, <2>3 DEF Fed, TakeSignal
<1>14. ASSUME NEW s \in Servers, NextConnection(s) PROVE Fed(w)'
  <2>1. /\ s = server /\ Listed(w) /\ Taken' = Taken
        /\ UNCHANGED <<inbox, since, active, thread, server, conn>>
      BY <1>0, <1>1, <1>14 DEF NextConnection, serverVars, Listed
  <2>2. /\ target'[s] = active[position[s]] /\ position'[s] = position[s] + 1
        /\ target[s] = Nobody
        /\ position[s] \in 1..Len(active)
      BY <1>14 DEF NextConnection
  <2> DEFINE top == Len(active)
  <2>4. top \in Nat /\ DOMAIN active = 1..top
      BY LenProperties
  <2>3. Awaits(w, s)' <=> Awaits(w, s)
    <3>1. \A n \in Nat : \A p, i \in 1..n :
             i >= p <=> (i = p \/ i >= p + 1)
        OBVIOUS
    <3> HIDE DEF top
    <3>2. \A i \in DOMAIN active :
             i >= position[s] <=> (i = position[s] \/ i >= position[s] + 1)
        BY <2>2, <2>4, <3>1, Zenon DEF top
    <3> QED BY <2>1, <2>2, <2>4, <3>2 DEF Awaits, top
  <2> QED BY <1>2, <2>1, <2>3, FedFrame
<1>15. ASSUME NEW s \in Servers, Send(s) PROVE Fed(w)'
  <2>1. /\ s = server /\ Listed(w) /\ Taken' = Taken /\ event[s] = Taken
        /\ UNCHANGED <<since, active, thread, server, conn, position>>
        /\ target'[s] = Nobody /\ event[s] \in 1..MaxChanges
    <3>1. target[s] # Nobody /\ thread[s] = "publish" /\ event[s] # 0
        BY <1>15 DEF Send, ThreadInv
    <3>2. s = server /\ event[s] = Taken /\ event[s] \in 1..MaxChanges
        BY <1>1, <3>1, Numbers
    <3>3. ~PublishRaised(s)
        BY DEF PublishRaised, Died
    <3> QED BY <1>0, <1>15, <3>2, <3>3 DEF Send, serverVars, Listed
  <2>2. CASE w # target[s]
    <3>1. inbox'[w] = inbox[w]
        BY <1>15, <2>2 DEF Send
    <3>2. Awaits(w, s)' <=> Awaits(w, s)
        BY <2>1, <2>2 DEF Awaits
    <3> QED BY <1>2, <2>1, <3>1, <3>2, FedFrame
  <2>3. CASE w = target[s]
    <3>1. inbox'[w] = Append(inbox[w], event[s])
        BY <1>15, <2>1, <2>3 DEF Send
    <3>3. inbox'[w] # << >> /\ inbox'[w][Len(inbox'[w])] = event[s]
        BY <2>1, <3>1, Received, ZenonT(40)
    <3>4. ~Awaits(w, s)'
        BY <2>1, <2>3 DEF Awaits, OnceInv, Once
    <3>5. Due(w)' = Taken
        BY <2>1, <3>4 DEF Due
    <3> QED BY <2>1, <3>3, <3>5 DEF Fed
  <2> QED BY <2>2, <2>3
<1>16. ASSUME NEW s \in Servers, EndPublish(s) PROVE Fed(w)'
  <2>1. /\ s = server /\ thread'[s] # "publish" /\ Listed(w) /\ Taken' = Taken
        /\ UNCHANGED <<inbox, since, active, server, conn>>
        /\ target[s] = Nobody /\ position[s] > Len(active)
      BY <1>0, <1>1, <1>16 DEF EndPublish, Published, managerVars, Listed
  <2>2. ~Awaits(w, s)
      BY <2>1 DEF Awaits
  <2> QED BY <1>2, <2>1, <2>2, FedFrame
<1>17. CASE UNCHANGED vars
    BY <1>0, <1>2, <1>3, <1>17, FedFrame DEF vars
<1> QED BY <1>0, <1>4, <1>6, <1>7, <1>8, <1>9, <1>10, <1>11, <1>12, <1>13,
           <1>14, <1>15, <1>16, <1>17, NextSteps DEF Steps

LEMMA GaplessStep ==
    ASSUME TypeOK, ListInv, ThreadInv, QueueNewest, OneServer,
           NoneClosed', [Next]_vars, AllFed,
           \A w \in Websockets : Gapless(w),
           NEW w \in Websockets
    PROVE  Gapless(w)'
<1>1. CASE inbox'[w] = inbox[w]
    BY <1>1 DEF Gapless
<1>2. ASSUME NEW s \in Servers, Send(s), inbox'[w] # inbox[w]
      PROVE  Gapless(w)'
  <2>1. /\ w = target[s] /\ conn[w] = "open" /\ target[s] # Nobody
        /\ inbox'[w] = Append(inbox[w], event[s])
      BY <1>2 DEF Send, TypeOK
  <2>2. /\ Listed(w) /\ s = server /\ server # NoServer
        /\ thread[s] = "publish" /\ Awaits(w, server) /\ event[s] = Taken
      BY <2>1, ManagerAssumption DEF ListInv, ThreadInv, OneServer, Awaits
  <2>3. event[s] \in 1..MaxChanges /\ Taken \in Nat
      BY <2>2, Numbers, StillOpen, NewestStep
         DEF ThreadInv, TypeOK, ServerTypeOK
  <2>4. inbox[w] # << >> => inbox[w][Len(inbox[w])] = Taken - 1
    <3>1. Died = {}
        BY <2>2 DEF OneServer, Died
    <3> QED BY <2>1, <2>2, <3>1 DEF AllFed, Fed, Due
  <2>5. /\ Len(inbox[w]) \in Nat /\ (inbox[w] = << >> <=> Len(inbox[w]) = 0)
        /\ Len(inbox'[w]) = Len(inbox[w]) + 1
        /\ \A k \in 1..Len(inbox[w]) : inbox'[w][k] = inbox[w][k]
        /\ inbox'[w][Len(inbox'[w])] = Taken
      BY <2>1, <2>2, <2>3, Received
  <2> SUFFICES ASSUME NEW k \in 1..Len(inbox[w])
               PROVE  inbox'[w][k + 1] = inbox'[w][k] + 1
      BY <2>5 DEF Gapless
  <2>6. CASE k = Len(inbox[w])
    <3>1. inbox[w] # << >>
        BY <2>5, <2>6
    <3>2. inbox'[w][k] = Taken - 1 /\ inbox'[w][k + 1] = Taken
        BY <2>4, <2>5, <2>6, <3>1
    <3> QED BY <2>3, <3>2
  <2>7. CASE k # Len(inbox[w])
    <3>1. k \in 1..Len(inbox[w]) - 1 /\ k + 1 \in 1..Len(inbox[w])
        BY <2>5, <2>7
    <3> QED BY <2>5, <3>1 DEF Gapless
  <2> QED BY <2>6, <2>7
<1>3. inbox' = inbox \/ \E s \in Servers : Send(s)
    BY NextSteps DEF Steps, managerVars, Connect, Leave, Disconnect, vars,
       ConnectFirst, AwaitServer, ServerStarted, ServerStopped, TakeSignal,
       NextConnection, EndPublish
<1> QED BY <1>1, <1>2, <1>3

LEMMA CompleteStep ==
    ASSUME TypeOK, ListInv, ThreadInv, OnceInv, CompleteInv, [Next]_vars
    PROVE  CompleteInv'
<1> SUFFICES ASSUME NoneClosed'
             PROVE  /\ QueueNewest' /\ OneServer' /\ AllFed'
                    /\ \A w \in Websockets : Gapless(w)'
    BY DEF CompleteInv
<1>1. NoneClosed /\ \A w \in Websockets : ~Disconnect(w)
    BY StillOpen
<1>2. /\ QueueNewest /\ OneServer /\ AllFed
      /\ \A w \in Websockets : Gapless(w)
    BY <1>1 DEF CompleteInv
<1>3. QueueNewest' /\ OneServer'
    BY <1>1, <1>2, NewestStep, OneServerStep
<1>4. AllFed'
    BY <1>2, FedStep DEF AllFed
<1>5. \A w \in Websockets : Gapless(w)'
    BY <1>2, GaplessStep
<1> QED BY <1>3, <1>4, <1>5

-----------------------------------------------------------------------------
LEMMA Inductive == IInv /\ [Next]_vars => IInv'
BY TypeStep, ListStep, JoinStep, ThreadStep, SoleStep, QueueStep, OnceStep,
   OrderStep, BalanceStep, CompleteStep DEF IInv

\* In every reachable state the inductive invariant holds.
THEOREM Invariance == Spec => []IInv
BY InitInv, Inductive, PTL DEF Spec

\* Type correctness; among the rest, active_connections never lists a websocket
\* twice, whatever connects and disconnects while publish() goes through it.
THEOREM TypeCorrect == Spec => []TypeOK
BY Invariance, PTL DEF IInv

\* What a client receives is in the order of the writes, though one StateServer
\* after another publishes, sends raise and the list changes under the iteration
\* (ConnectionManager.publish), until stop_server() gives up on a thread.
THEOREM ReceivedInOrder == Spec => []InOrder
<1>1. IInv => InOrder
    BY DEF IInv, OrderInv, InOrder
<1> QED BY <1>1, Invariance, PTL

\* Every STOP on the shared signal queue ends exactly one StateServer, if not
\* always the one that it was meant for, also when join() gives up; a thread that
\* a send has ended (ConnectionManager.publish) leaves one STOP to the others.
THEOREM StopsEndServers == Spec => []StopsBalance
BY Invariance, PTL DEF IInv

\* Until a connection is taken off active_connections nobody's states have a gap,
\* and unless a send has raised each subscriber has the newest when all is quiet:
\* iterating over a list that connect() appends to skips nobody.
THEOREM CompleteAtFirst == Spec => []CompleteUntilDisconnect
<1>1. IInv => CompleteUntilDisconnect
  <2> SUFFICES ASSUME IInv, NoneClosed
               PROVE  /\ Died = {} => SubscribersCurrent
                      /\ \A w \in Websockets : Gapless(w)
      BY DEF CompleteUntilDisconnect, NoneClosed, Gapless
  <2>1. /\ QueueNewest /\ OneServer /\ AllFed
        /\ \A w \in Websockets : Gapless(w)
      BY DEF IInv, CompleteInv
  <2> SUFFICES ASSUME Died = {}, Quiet, NEW w \in Websockets, Listed(w),
                      conn[w] = "open", since[w] < changes
               PROVE  inbox[w] # << >> /\ inbox[w][Len(inbox[w])] = changes
    <3>1. \A w \in Range(active) : w \in Websockets /\ Listed(w)
        BY RangeOfSeq DEF IInv, TypeOK, Range, Listed
    <3> QED BY <2>1, <3>1 DEF SubscribersCurrent, Current, Last
  <2>2. server \in Servers /\ server # NoServer
      BY DEF IInv, ListInv, Listed, TypeOK
  <2>3. thread[server] = "get"
      BY <2>1, <2>2 DEF Quiet, Live, Died, OneServer
  <2>4. changes \in Nat /\ since[w] \in Nat
      BY ServersAssumption DEF IInv, TypeOK, ServerTypeOK
  <2>5. Due(w) = changes
      BY <2>3, <2>4, EmptySeq DEF Due, Taken, Quiet
  <2>6. ~(since[w] >= Due(w))
      BY <2>4, <2>5
  <2> QED BY <2>1, <2>2, <2>5, <2>6 DEF AllFed, Fed
<1> QED BY <1>1, Invariance, PTL

=============================================================================
