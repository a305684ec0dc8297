------------------------ MODULE ProxyObserverProofs -------------------------
(***************************************************************************)
(* Theorems about ProxyObserver: what subscribers hear, for any commands,  *)
(* any number of subscribers and of changes, and both kinds of proxy.      *)
(***************************************************************************)
EXTENDS ProxyObserver, SequenceTheorems, TLAPS

-----------------------------------------------------------------------------
\* The inductive invariant.

\* The event that tells of a state.
EventOf(v) == IF v = Cleared THEN Missing ELSE v

\* How far the client and its listener have come: nothing has been received yet
\* while there is no websocket, and an AsyncProxy does not go on without one.
LinkInv ==
    /\ listener = "new" <=> client = "out"
    /\ listener \in {"new", "connecting"} => previous = Unread
    /\ listener \in {"recv", "push"} => socket # "none"
    /\ kind = "async" /\ client \in {"in", "stopping"}
          => socket # "none"
    /\ client \in {"stranded", "hanging"} => kind = "sync"

\* Each change of the server's state leaves an event, which tells of it.
WireInv ==
    /\ Len(wire) <= changes
    /\ wire # << >> => Last(wire) = EventOf(value)

\* What is being pushed: not an event without keys, if there is anybody to hear
\* of it; the last event of all, if none is on its way.
PushInv ==
    listener = "push" =>
        /\ kind = "async" => asking = "none"
        /\ event = Missing => kind = "async" /\ subscribers = << >>
        /\ wire = << >> => event = EventOf(value)

\* Subscribers that this event has been pushed to have left it remembered.
PushedInv ==
    listener = "push" => \A i \in 1..position - 1 :
        previous[subscribers[i].attribute] = event[subscribers[i].attribute]

FirstOfAttribute(i) == \A j \in 1..i - 1 :
    subscribers[j].attribute # subscribers[i].attribute

\* previous is what the first subscriber of an attribute heard last; the others
\* hear nothing but None.
HeardInv ==
    \A i \in DOMAIN subscribers :
        LET s == subscribers[i] IN
        /\ s.heard # << >> =>
              Last(s.heard) = IF FirstOfAttribute(i) THEN previous[s.attribute]
                                                     ELSE None
        /\ s.owed => FirstOfAttribute(i)

\* While nobody subscribes, a Proxy's previous is the last event received.
UnheardInv ==
    subscribers = << >> /\ previous # Unread =>
        /\ kind = "sync"
        /\ listener # "ended" /\ wire = << >> =>
              \A a \in Attributes : previous[a] = value[a]

\* An event on its way that subscribers of a will be told of if previous
\* remembers another value than v, or that ends the listener.
Coming(a, v) == \E j \in DOMAIN wire : wire[j] = Missing \/ wire[j][a] = v

\* What subscribe() has read is the server's state or what it was before the
\* events on their way, if none went by since.
ReadInv ==
    /\ asking = "none" => read = Unread
    /\ asking # "none" => read["obs_state"] # Unset
    /\ asking # "none" /\ ~missed => \A a \in Attributes : read[a] # Unset =>
         /\ wire = << >> => read[a] = value[a]
         /\ subscribers = << >> /\ listener # "ended"
              /\ previous[a] \notin {Unset, None} =>
                  read[a] = previous[a] \/ Coming(a, read[a])

\* The event being pushed has not come to the i-th subscriber yet.
Ahead(i) == listener = "push" /\ position <= i

\* A subscriber that is owed the changes either hears of the event that is still
\* to come or holds the server's value; and what previous remembers from before
\* its time is the value it was given, or something else is still to come.
OwedAt(i) ==
    LET s == subscribers[i]
        a == s.attribute IN
    s.owed =>
      /\ wire = << >> /\ ~Ahead(i) => Told(s) = value[a]
      /\ s.heard = << >> /\ previous[a] \notin {Unset, None} =>
            \/ s.init = previous[a] \/ Coming(a, s.init)
            \/ Ahead(i) /\ event[a] = s.init

OwedInv == listener # "ended" => \A i \in DOMAIN subscribers : OwedAt(i)

IInv == /\ TypeOK /\ LinkInv /\ WireInv /\ PushInv /\ PushedInv /\ HeardInv /\ NoRepeats
        /\ UnheardInv /\ ReadInv /\ OwedInv

-----------------------------------------------------------------------------
\* Values, events and the command table.

LEMMA ValueFacts ==
    /\ Unset \notin Values /\ None \in Values /\ None # Unset
    /\ Cleared \in Store
    /\ \A a \in Attributes : Cleared[a] = None /\ Missing[a] = Unset
    /\ \A v \in Store : \A a \in Attributes : v[a] \in Values
    /\ Missing \notin Store
<1> USE DEF Unset, None, Values, States, ObsStates
<1>1. Unset \notin Values /\ None \in Values /\ None # Unset
    OBVIOUS
<1>2. Cleared \in Store /\ Cleared.state = None /\ Cleared.obs_state = None
    BY DEF Cleared, Store
<1>3. \A a \in Attributes : Missing[a] = Unset
    BY DEF Missing, Unread
<1>4. \A v \in Store : v.state \in Values /\ v.obs_state \in Values
    BY DEF Store
<1>5. Missing \notin Store
    BY <1>3, <1>4 DEF Attributes
<1> QED BY <1>1, <1>2, <1>3, <1>4, <1>5 DEF Attributes

LEMMA EventFacts ==
    ASSUME NEW v \in Store
    PROVE  /\ EventOf(v) \in Events
           /\ EventOf(v) = Missing => v = Cleared
           /\ EventOf(v) # Missing => EventOf(v) = v
           /\ \A e \in Events : e # Missing => e \in Store
BY ValueFacts DEF EventOf, Events

\* What an update may assign.
Assignments == [state : States \cup {Keep}, obs_state : ObsStates \cup {Keep}]

LEMMA AssignmentsOfSteps ==
    \A c \in Operations : Steps[c] \in Seq(Assignments)
<1>1. /\ Assign("BUSY", Keep) \in Assignments
      /\ Assign("ON", "EMPTY") \in Assignments
      /\ Assign("OFF", None) \in Assignments
      /\ Assign(None, None) \in Assignments
    BY DEF Assignments, Assign, States, ObsStates, None
<1>2. \A o \in ObsStates : Assign(Keep, o) \in Assignments
    BY DEF Assignments, Assign
<1>3. {"EMPTY", "RESOURCING", "IDLE", "CONFIGURING", "READY", "SCANNING",
       "BUSY"} \subseteq ObsStates
    BY DEF ObsStates
<1> HIDE DEF Assignments
<1>4. /\ Steps["switch_on"] \in Seq(Assignments)
      /\ Steps["switch_off"] \in Seq(Assignments)
      /\ Steps["reset_state"] \in Seq(Assignments)
    BY <1>1 DEF Steps
<1>5. /\ Steps["assign_resources"] \in Seq(Assignments)
      /\ Steps["release_resources"] \in Seq(Assignments)
    BY <1>2, <1>3 DEF Steps
<1>6. /\ Steps["configure"] \in Seq(Assignments)
      /\ Steps["scan"] \in Seq(Assignments)
      /\ Steps["clear_config"] \in Seq(Assignments)
    BY <1>2, <1>3 DEF Steps
<1> QED BY <1>4, <1>5, <1>6 DEF Operations, SwitchCommands, ObsCommands

LEMMA UpdatesStayInStore ==
    ASSUME NEW m \in CommandSet, NEW v \in Store, NEW u \in Range(Steps[Posted(m)])
    PROVE  Updated(v, u) \in Store
<1>1. Posted(m) \in Operations
    BY ObserverAssumption DEF Posted, Operations, SwitchCommands
<1>2. Steps[Posted(m)] \in Seq(Assignments)
    BY <1>1, AssignmentsOfSteps
<1>3. u \in Assignments
    BY <1>2 DEF Range
<1> QED BY <1>3 DEF Assignments, Updated, Store


-----------------------------------------------------------------------------
\* What the steps that touch the list of subscribers do to it.

\* The i-th subscriber before and after: what stays.
Stays(i) == /\ subscribers'[i].attribute = subscribers[i].attribute
            /\ subscribers'[i].init = subscribers[i].init

Hears(i) == subscribers'[i].heard = subscribers[i].heard

LEMMA FirstStays ==
    ASSUME TypeOK, NEW i \in DOMAIN subscribers,
           \A j \in DOMAIN subscribers : Stays(j)
    PROVE  FirstOfAttribute(i)' <=> FirstOfAttribute(i)
<1>1. \A j \in 1..i - 1 : j \in DOMAIN subscribers
    BY DEF TypeOK
<1> QED BY <1>1 DEF Stays, FirstOfAttribute

LEMMA SubscriberFields ==
    ASSUME TypeOK, NEW i \in DOMAIN subscribers
    PROVE  /\ subscribers[i].attribute \in Attributes
           /\ subscribers[i].heard \in Seq(Values)
           /\ subscribers[i].init \in Values
<1>1. subscribers[i] \in Subscriber
    BY DEF TypeOK
<1> QED BY <1>1 DEF Subscriber

LEMMA PushFacts ==
    ASSUME TypeOK, PushInv, PushNext
    PROVE  LET a == subscribers[position].attribute IN
           /\ position \in DOMAIN subscribers /\ a \in Attributes
           /\ event \in Store
           /\ subscribers' \in Seq(Subscriber)
           /\ Len(subscribers') = Len(subscribers)
           /\ DOMAIN subscribers' = DOMAIN subscribers
           /\ \A i \in DOMAIN subscribers :
                 /\ Stays(i) /\ subscribers'[i].owed = subscribers[i].owed
                 /\ i # position => Hears(i)
           /\ previous' \in [Attributes -> Values \cup {Unset}]
           /\ previous'[a] = event[a]
           /\ \A b \in Attributes : b # a => previous'[b] = previous[b]
           /\ \/ /\ Fresh(a)
                 /\ subscribers'[position].heard =
                       Append(subscribers[position].heard, event[a])
              \/ /\ ~Fresh(a) /\ Hears(position)
                 /\ previous[a] \notin {Unset, None} /\ previous[a] = event[a]
<1> DEFINE s == subscribers[position]
           a == s.attribute
<1>1. /\ position \in DOMAIN subscribers /\ position \in Nat
      /\ s \in Subscriber /\ subscribers # << >>
    BY DEF TypeOK, PushNext
<1>2. a \in Attributes /\ s.heard \in Seq(Values)
    BY <1>1 DEF Subscriber
<1>3. event \in Store
    BY <1>1, ValueFacts DEF TypeOK, PushNext, PushInv, Events
<1>4. event[a] \in Values
    BY <1>2, <1>3, ValueFacts
<1>5. CASE Fresh(a) /\ previous' = Remember(a) /\
           subscribers' = [subscribers EXCEPT ![position].heard = Append(@, event[a])]
  <2> DEFINE r == [s EXCEPT !.heard = Append(@, event[a])]
  <2>1. subscribers' = [subscribers EXCEPT ![position] = r]
      BY <1>5, Zenon
  <2>2. r \in Subscriber /\ r.attribute = a /\ r.init = s.init
        /\ r.owed = s.owed /\ r.heard = Append(s.heard, event[a])
      BY <1>1, <1>2, <1>4 DEF Subscriber
  <2> HIDE DEF r
  <2>3. /\ subscribers' \in Seq(Subscriber) /\ Len(subscribers') = Len(subscribers)
        /\ DOMAIN subscribers' = DOMAIN subscribers
        /\ subscribers'[position] = r
        /\ \A i \in DOMAIN subscribers : i # position =>
              subscribers'[i] = subscribers[i]
      BY <1>1, <2>1, <2>2 DEF TypeOK
  <2>4. \A i \in DOMAIN subscribers :
            /\ Stays(i) /\ subscribers'[i].owed = subscribers[i].owed
            /\ i # position => Hears(i)
      BY <2>2, <2>3 DEF Stays, Hears
  <2>5. /\ previous' \in [Attributes -> Values \cup {Unset}]
        /\ previous'[a] = event[a]
        /\ \A b \in Attributes : b # a => previous'[b] = previous[b]
      BY <1>2, <1>4, <1>5 DEF Remember, TypeOK
  <2> QED BY <1>1, <1>2, <1>3, <1>5, <2>2, <2>3, <2>4, <2>5
<1>6. CASE ~Fresh(a) /\ UNCHANGED <<subscribers, previous>>
  <2>1. previous[a] \notin {Unset, None} /\ previous[a] = event[a]
      BY <1>6 DEF Fresh
  <2> QED BY <1>1, <1>2, <1>3, <1>6, <2>1 DEF TypeOK, Stays, Hears
<1> QED BY <1>5, <1>6 DEF PushNext

LEMMA EnlistFacts ==
    ASSUME TypeOK, ReadInv, Enlist
    PROVE  LET n == Len(subscribers) + 1 IN
           /\ asking \in Attributes /\ read[asking] \in Values
           /\ subscribers' \in Seq(Subscriber) /\ subscribers' # << >>
           /\ Len(subscribers') = n /\ DOMAIN subscribers' = 1..n
           /\ \A i \in 1..n : i \in DOMAIN subscribers \/ i = n
           /\ n \notin DOMAIN subscribers
           /\ \A i \in DOMAIN subscribers :
                 i \in 1..n /\ subscribers'[i] = subscribers[i]
           /\ subscribers'[n].attribute = asking
           /\ subscribers'[n].init = read[asking]
           /\ subscribers'[n].heard = << >>
           /\ subscribers'[n].owed =>
                /\ ~missed
                /\ \A i \in DOMAIN subscribers : subscribers[i].attribute # asking
                /\ subscribers = << >> \/ previous[asking] \in {Unset, None}
<1> DEFINE owes == /\ ~missed
                   /\ \A s \in Range(subscribers) : s.attribute # asking
                   /\ \/ subscribers = << >>
                      \/ previous[asking] \in {Unset, None}
           r == [attribute |-> asking, init |-> read[asking], heard |-> << >>,
                 owed |-> owes]
<1>1. asking \in Attributes
    BY DEF TypeOK, Enlist
<1>2. read[asking] \in Values
    BY <1>1 DEF TypeOK, Enlist, ReadInv, Attributes
<1>3. r \in Subscriber
    BY <1>1, <1>2 DEF Subscriber
<1>4. subscribers' = Append(subscribers, r)
    BY DEF Enlist
<1>5. /\ r.attribute = asking /\ r.init = read[asking] /\ r.heard = << >>
      /\ r.owed = owes
    OBVIOUS
<1>6. owes => /\ ~missed
              /\ \A i \in DOMAIN subscribers : subscribers[i].attribute # asking
              /\ subscribers = << >> \/ previous[asking] \in {Unset, None}
    BY DEF Range
<1> HIDE DEF r, owes
<1>7. LET n == Len(subscribers) + 1 IN
      /\ subscribers' \in Seq(Subscriber)
      /\ Len(subscribers') = n /\ DOMAIN subscribers' = 1..n
      /\ \A i \in 1..n : i \in DOMAIN subscribers \/ i = n
      /\ n \notin DOMAIN subscribers
      /\ \A i \in DOMAIN subscribers :
            i \in 1..n /\ subscribers'[i] = subscribers[i]
      /\ subscribers'[n] = r
    BY <1>3, <1>4 DEF TypeOK
<1>8. subscribers' # << >>
  <2>1. Len(subscribers) + 1 # 0
      BY DEF TypeOK
  <2> QED BY <1>7, <2>1
<1> QED BY <1>1, <1>2, <1>5, <1>6, <1>7, <1>8

\* A websocket that the server did not have before, or that others had before.
LEMMA ConnectFacts ==
    ASSUME TypeOK, Connected
    PROVE  /\ subscribers' \in Seq(Subscriber)
           /\ Len(subscribers') = Len(subscribers)
           /\ DOMAIN subscribers' = DOMAIN subscribers
           /\ \A i \in DOMAIN subscribers :
                 /\ Stays(i) /\ Hears(i)
                 /\ subscribers'[i].owed => subscribers[i].owed /\ wire' = wire
           /\ \/ wire' = wire /\ missed' = missed
              \/ wire' = << >> /\ missed' = (asking # "none")
<1>1. CASE UNCHANGED <<wire, subscribers, missed>>
    BY <1>1 DEF TypeOK, Stays, Hears
<1>2. CASE /\ wire' = << >> /\ missed' = (asking # "none")
           /\ subscribers' = [i \in DOMAIN subscribers |->
                                 [subscribers[i] EXCEPT !.owed = FALSE]]
  <2> DEFINE r(i) == [subscribers[i] EXCEPT !.owed = FALSE]
  <2>1. \A i \in DOMAIN subscribers :
            /\ r(i) \in Subscriber /\ ~r(i).owed
            /\ r(i).attribute = subscribers[i].attribute
            /\ r(i).init = subscribers[i].init /\ r(i).heard = subscribers[i].heard
    <3> SUFFICES ASSUME NEW i \in DOMAIN subscribers
                 PROVE  /\ r(i) \in Subscriber /\ ~r(i).owed
                        /\ r(i).attribute = subscribers[i].attribute
                        /\ r(i).init = subscribers[i].init
                        /\ r(i).heard = subscribers[i].heard
        OBVIOUS
    <3>1. subscribers[i] \in Subscriber
        BY DEF TypeOK
    <3> QED BY <3>1 DEF Subscriber
  <2> HIDE DEF r
  <2>2. /\ subscribers' = [i \in 1..Len(subscribers) |-> r(i)]
        /\ DOMAIN subscribers = 1..Len(subscribers)
      BY <1>2 DEF r, TypeOK
  <2>3. subscribers' \in Seq(Subscriber) /\ Len(subscribers') = Len(subscribers)
    <3>1. Len(subscribers) \in Nat
        BY DEF TypeOK
    <3>2. \A i \in 1..Len(subscribers) : r(i) \in Subscriber
        BY <2>1, <2>2
    <3>3. subscribers' \in [1..Len(subscribers) -> Subscriber]
        BY <2>2, <3>2
    <3>4. subscribers' \in Seq(Subscriber)
        BY <3>1, <3>3, SeqDef
    <3>5. DOMAIN subscribers' = 1..Len(subscribers')
        BY <3>4
    <3> QED BY <2>2, <3>1, <3>4, <3>5
  <2> QED BY <1>2, <2>1, <2>2, <2>3 DEF Stays, Hears
<1> QED BY <1>1, <1>2 DEF Connected

\* Taking the first event off the wire.
LEMMA ReceiveFacts ==
    ASSUME TypeOK, Receive
    PROVE  LET e == wire[1] IN
           /\ wire # << >> /\ wire' \in Seq(Events) /\ e \in Events
           /\ Len(wire) \in Nat \ {0} /\ Len(wire') = Len(wire) - 1
           /\ wire' = << >> => Last(wire) = e
           /\ wire' # << >> => Last(wire') = Last(wire)
           /\ \A j \in DOMAIN wire : j = 1 \/ (j - 1 \in DOMAIN wire' /\
                                               wire'[j - 1] = wire[j])
           /\ Head(wire) = e
<1>1. /\ wire # << >> /\ wire \in Seq(Events) /\ wire' = Tail(wire)
    BY DEF TypeOK, Receive
<1>2. Len(wire) \in Nat \ {0}
    BY <1>1, EmptySeq
<1>3. /\ wire' \in Seq(Events) /\ Len(wire') = Len(wire) - 1
      /\ \A j \in 1..Len(wire) - 1 : wire'[j] = wire[j + 1]
      /\ Head(wire) = wire[1] /\ wire[1] \in Events
    BY <1>1, <1>2
<1>4. wire' = << >> => Len(wire) = 1
    BY <1>2, <1>3
<1>5. wire' # << >> => Len(wire') # 0
    BY <1>3, EmptySeq
<1>6. wire' # << >> => Last(wire') = Last(wire)
  <2> SUFFICES ASSUME wire' # << >> PROVE wire'[Len(wire')] = wire[Len(wire)]
      BY DEF Last
  <2>1. Len(wire') \in 1..Len(wire) - 1 /\ Len(wire') + 1 = Len(wire)
      BY <1>2, <1>3, <1>5
  <2> QED BY <1>3, <2>1
<1>7. \A j \in DOMAIN wire : j = 1 \/ (j - 1 \in DOMAIN wire' /\
                                       wire'[j - 1] = wire[j])
  <2> SUFFICES ASSUME NEW j \in 1..Len(wire), j # 1
               PROVE  j - 1 \in 1..Len(wire') /\ wire'[j - 1] = wire[j]
      BY <1>1, <1>3
  <2>1. j - 1 \in 1..Len(wire) - 1 /\ (j - 1) + 1 = j
      BY <1>2
  <2> QED BY <1>3, <2>1
<1> QED BY <1>1, <1>2, <1>3, <1>4, <1>6, <1>7 DEF Last

\* A change puts one more event on the wire.
LEMMA ChangeFacts ==
    ASSUME TypeOK, Change
    PROVE  /\ value' \in Store
           /\ wire' = Append(wire, EventOf(value'))
           /\ wire' \in Seq(Events) /\ wire' # << >>
           /\ Len(wire') = Len(wire) + 1 /\ Len(wire) \in Nat
           /\ Last(wire') = EventOf(value')
           /\ \A j \in DOMAIN wire : j \in DOMAIN wire' /\ wire'[j] = wire[j]
           /\ todo' \in Seq(UNION {Range(Steps[Posted(m)]) : m \in CommandSet})
<1>1. /\ todo \in Seq(UNION {Range(Steps[Posted(m)]) : m \in CommandSet})
      /\ todo # << >> /\ todo' = Tail(todo) /\ value' = Updated(value, Head(todo))
    BY DEF TypeOK, Change
<1>2. /\ Head(todo) \in UNION {Range(Steps[Posted(m)]) : m \in CommandSet}
      /\ todo' \in Seq(UNION {Range(Steps[Posted(m)]) : m \in CommandSet})
    BY <1>1
<1>3. PICK m \in CommandSet : Head(todo) \in Range(Steps[Posted(m)])
    BY <1>2
<1>4. value' \in Store
    BY <1>1, <1>3, UpdatesStayInStore DEF TypeOK
<1>5. wire' = Append(wire, EventOf(value')) /\ EventOf(value') \in Events
    BY <1>4, EventFacts DEF Change, EventOf
<1>6. /\ wire' \in Seq(Events) /\ Len(wire') = Len(wire) + 1 /\ Len(wire) \in Nat
      /\ wire'[Len(wire')] = EventOf(value')
      /\ \A j \in DOMAIN wire : j \in DOMAIN wire' /\ wire'[j] = wire[j]
    BY <1>5 DEF TypeOK
<1>7. wire' # << >>
  <2>1. Len(wire') # 0
      BY <1>6
  <2> QED BY <2>1
<1> QED BY <1>2, <1>4, <1>5, <1>6, <1>7 DEF Last

-----------------------------------------------------------------------------
\* The steps, each by its name.

LEMMA StepCases ==
    ASSUME [Next]_vars
    PROVE  \/ UNCHANGED vars
           \/ \E m \in CommandSet : Command(m)
           \/ \E a \in Attributes : GetObsState(a)
           \/ Change \/ Drop \/ Enter \/ Stop \/ BodyRaises
           \/ Connected \/ ConnectFails \/ Receive \/ PushNext \/ EndPush
           \/ EndListening
           \/ Ready \/ TimedOut \/ GetState \/ Enlist \/ Leave
BY Zenon DEF Next, ListenerStep, ClientStep

\* Steps of the listener and its client in which no event moves and nobody
\* subscribes.
LinkStep == \/ Drop \/ Enter \/ Stop \/ BodyRaises \/ ConnectFails
            \/ EndListening \/ Ready \/ TimedOut \/ Leave

LEMMA LinkFacts ==
    ASSUME LinkInv, LinkStep
    PROVE  /\ UNCHANGED <<kind, value, todo, changes, wire, event, position>>
           /\ UNCHANGED <<subscribers, previous, asking, read, missed>>
           /\ listener' = "push" <=> listener = "push"
           /\ listener' # "ended" => listener # "ended"
BY DEF LinkInv, LinkStep, Drop, Enter, Stop, MayStop, BodyRaises,
       Leaving, ConnectFails, EndListening, Ready, TimedOut, Leave, Listening, serverVars, observerVars, askVars

LEMMA InitInv == Init => IInv
<1> SUFFICES ASSUME Init PROVE IInv
    OBVIOUS
<1> USE ValueFacts, EmptySeq DEF Init
<1>1. /\ wire = << >> /\ Len(wire) = 0
      /\ subscribers = << >> /\ Len(subscribers) = 0 /\ DOMAIN subscribers = {}
    OBVIOUS
<1>2. TypeOK
  <2>1. value \in Store /\ MaxChanges \in Nat
      BY ObserverAssumption
  <2>2. Missing \in Events
      BY DEF Events
  <2>3. Unread \in [Attributes -> Values \cup {Unset}]
      BY DEF Unread
  <2>4. position \in 1..Len(subscribers) + 1
      BY <1>1
  <2>5. /\ todo \in Seq(UNION {Range(Steps[Posted(m)]) : m \in CommandSet})
        /\ wire \in Seq(Events) /\ Len(wire) <= MaxChanges
        /\ subscribers \in Seq(Subscriber) /\ changes \in 0..MaxChanges
      BY <1>1, <2>1
  <2> QED BY <2>1, <2>2, <2>3, <2>4, <2>5 DEF TypeOK
<1>3. LinkInv /\ WireInv
    BY <1>1 DEF LinkInv, WireInv
<1>4. PushInv /\ PushedInv
    BY DEF PushInv, PushedInv
<1>5. HeardInv /\ NoRepeats /\ UnheardInv /\ ReadInv /\ OwedInv
    BY <1>1 DEF HeardInv, NoRepeats, UnheardInv, ReadInv, OwedInv, Range
<1> QED BY <1>2, <1>3, <1>4, <1>5 DEF IInv

-----------------------------------------------------------------------------
\* Types.

LEMMA TypeStep ==
    ASSUME TypeOK, LinkInv, WireInv, PushInv, ReadInv, [Next]_vars
    PROVE  TypeOK'
<1> USE DEF TypeOK
<1>1. CASE UNCHANGED vars
    BY <1>1 DEF vars, serverVars, listenVars, observerVars, askVars
<1>2. ASSUME NEW m \in CommandSet, Command(m) PROVE TypeOK'
  <2>1. Posted(m) \in Operations
      BY ObserverAssumption DEF Posted, Operations, SwitchCommands
  <2>2. Steps[Posted(m)] \in Seq(Range(Steps[Posted(m)]))
    <3>1. Steps[Posted(m)] \in [1..Len(Steps[Posted(m)]) -> Assignments]
          /\ Len(Steps[Posted(m)]) \in Nat
        BY <2>1, AssignmentsOfSteps
    <3>2. Steps[Posted(m)] \in
             [1..Len(Steps[Posted(m)]) -> Range(Steps[Posted(m)])]
        BY <3>1 DEF Range
    <3>3. Seq(Range(Steps[Posted(m)])) =
             UNION {[1..n -> Range(Steps[Posted(m)])] : n \in Nat}
        BY SeqDef, Zenon
    <3> QED BY <3>1, <3>2, <3>3
  <2>3. todo' \in Seq(UNION {Range(Steps[Posted(n)]) : n \in CommandSet})
    <3>1. Range(Steps[Posted(m)]) \subseteq
             UNION {Range(Steps[Posted(n)]) : n \in CommandSet}
        OBVIOUS
    <3> QED BY <1>2, <2>2, <3>1, SeqMonotonic DEF Command
  <2> QED BY <1>2, <2>3 DEF Command, listenVars, observerVars, askVars
<1>3. ASSUME NEW a \in Attributes, GetObsState(a) PROVE TypeOK'
  <2>1. value.obs_state \in Values
      BY ValueFacts DEF Attributes
  <2> QED BY <1>3, <2>1
          DEF GetObsState, Asking, serverVars, listenVars, Attributes
<1>4. CASE Change
  <2>1. /\ changes' \in 0..MaxChanges /\ Len(wire') <= MaxChanges
      BY <1>4, ChangeFacts, ObserverAssumption DEF Change, WireInv
  <2> QED BY <1>4, <2>1, ChangeFacts DEF Change, listenVars, observerVars, askVars
<1>5. CASE LinkStep
  <2>1. /\ socket' \in {"none", "open", "closed"}
        /\ listener' \in {"new", "connecting", "recv", "push", "ended"}
        /\ client' \in {"out", "waiting", "in", "left"} \cup Leaving
      BY <1>5 DEF LinkStep, Drop, Enter, Stop, MayStop, BodyRaises,
                  Leaving, ConnectFails, EndListening, Ready, TimedOut, Leave, Listening
  <2> QED BY <1>5, <2>1, LinkFacts
<1>6. CASE Connected
  <2>1. missed' \in BOOLEAN
    <3>1. (asking # "none") \in BOOLEAN
        OBVIOUS
    <3>2. missed' = missed \/ missed' = (asking # "none")
        BY <1>6, ConnectFacts, Zenon
    <3> QED BY <3>1, <3>2, Zenon
  <2>2. wire' \in Seq(Events) /\ Len(wire') <= MaxChanges
    <3>1. wire' = wire \/ wire' = << >>
        BY <1>6, ConnectFacts
    <3>2. << >> \in Seq(Events) /\ Len(<< >>) <= MaxChanges
        BY ObserverAssumption
    <3> QED BY <3>1, <3>2, Zenon
  <2> QED BY <1>6, <2>1, <2>2, ConnectFacts DEF Connected, serverVars, askVars
<1>7. CASE Receive
  <2>1. /\ wire' \in Seq(Events) /\ Len(wire') <= MaxChanges
        /\ Head(wire) \in Events
      BY <1>7, ReceiveFacts, ObserverAssumption
  <2>2. previous' \in [Attributes -> Values \cup {Unset}]
    <3>1. \A a \in Attributes : Head(wire)[a] \in Values \cup {Unset}
        BY <2>1, ValueFacts DEF Events
    <3> QED BY <1>7, <3>1 DEF Receive
  <2>3. missed' \in BOOLEAN
      BY <1>7 DEF Receive
  <2>4. /\ event' \in Events /\ position' \in 1..Len(subscribers) + 1
        /\ socket' \in {"none", "open", "closed"}
        /\ listener' \in {"new", "connecting", "recv", "push", "ended"}
      BY <1>7, <2>1 DEF Receive
  <2> QED BY <1>7, <2>1, <2>2, <2>3, <2>4 DEF Receive, serverVars, askVars
<1>8. CASE PushNext
  <2>1. position' \in 1..Len(subscribers') + 1
      BY <1>8, PushFacts DEF PushNext
  <2> QED BY <1>8, <2>1, PushFacts DEF PushNext, serverVars, listenVars, askVars
<1>9. CASE EndPush
  <2>1. Missing \in Events
      BY DEF Events
  <2> QED BY <1>9, <2>1 DEF EndPush, serverVars, askVars
<1>10. CASE GetState
  <2>1. value.state \in Values
      BY ValueFacts DEF Attributes
  <2> QED BY <1>10, <2>1 DEF GetState, Asking, serverVars, listenVars, Attributes
<1>11. CASE Enlist
  <2>1. position \in 1..Len(subscribers') + 1
      BY <1>11, EnlistFacts
  <2>2. Unread \in [Attributes -> Values \cup {Unset}]
      BY DEF Unread
  <2> QED BY <1>11, <2>1, <2>2, EnlistFacts
          DEF Enlist, Asking, serverVars, listenVars
<1> QED BY <1>1, <1>2, <1>3, <1>4, <1>5, <1>6, <1>7, <1>8, <1>9, <1>10, <1>11,
           StepCases DEF LinkStep

-----------------------------------------------------------------------------
\* The connection and the wire.

LEMMA LinkInvStep ==
    ASSUME TypeOK, LinkInv, PushInv, [Next]_vars
    PROVE  LinkInv'
<1> USE DEF LinkInv
<1>1. CASE UNCHANGED vars
    BY <1>1 DEF vars, serverVars, listenVars, observerVars, askVars
<1>2. CASE UNCHANGED <<kind, listener, client, socket>> /\
           (previous' = previous \/ listener \notin {"new", "connecting"})
    BY <1>2
<1>3. ASSUME NEW m \in CommandSet, Command(m) PROVE LinkInv'
    BY <1>2, <1>3 DEF Command, listenVars, observerVars
<1>4. ASSUME NEW a \in Attributes, GetObsState(a) PROVE LinkInv'
    BY <1>2, <1>4 DEF GetObsState, Asking, listenVars
<1>5. CASE Change
    BY <1>2, <1>5 DEF Change, listenVars, observerVars
<1>6. CASE LinkStep
  <2>1. UNCHANGED <<kind, previous>>
      BY <1>6, LinkFacts
  <2> QED BY <1>6, <2>1
          DEF LinkStep, Drop, Enter, Stop, MayStop, BodyRaises, ConnectFails, EndListening,
              Ready, TimedOut, Leave, Listening, TypeOK
<1>7. CASE Connected
    BY <1>7 DEF Connected
<1>8. CASE Receive
    BY <1>8 DEF Receive
<1>9. CASE PushNext
    BY <1>2, <1>9 DEF PushNext, listenVars
<1>10. CASE EndPush
    BY <1>10 DEF EndPush
<1>11. CASE GetState
    BY <1>2, <1>11 DEF GetState, Asking, listenVars
<1>12. CASE Enlist
    BY <1>2, <1>12 DEF Enlist, Asking, listenVars
<1> QED BY <1>1, <1>3, <1>4, <1>5, <1>6, <1>7, <1>8, <1>9, <1>10, <1>11, <1>12,
           StepCases DEF LinkStep

LEMMA WireStep ==
    ASSUME TypeOK, LinkInv, WireInv, [Next]_vars
    PROVE  WireInv'
<1> USE DEF WireInv
<1>1. CASE UNCHANGED <<wire, value, changes>>
    BY <1>1 DEF EventOf
<1>2. ASSUME NEW m \in CommandSet, Command(m) PROVE WireInv'
    BY <1>1, <1>2 DEF Command
<1>3. ASSUME NEW a \in Attributes, GetObsState(a) PROVE WireInv'
    BY <1>1, <1>3 DEF GetObsState, Asking, serverVars
<1>4. CASE Change
  <2>1. changes' = changes + 1 /\ changes \in Nat
      BY <1>4, ObserverAssumption DEF Change, TypeOK
  <2>2. Len(wire') <= changes'
      BY <1>4, <2>1, ChangeFacts
  <2>3. Last(wire)' = EventOf(value)'
      BY <1>4, ChangeFacts DEF Last, EventOf
  <2> QED BY <2>2, <2>3
<1>5. CASE LinkStep
    BY <1>1, <1>5, LinkFacts
<1>6. CASE Connected
  <2>1. UNCHANGED <<value, changes>> /\ changes \in Nat
      BY <1>6 DEF Connected, serverVars, TypeOK
  <2>2. wire' = wire \/ wire' = << >>
      BY <1>6, ConnectFacts
  <2> QED BY <2>1, <2>2 DEF EventOf
<1>7. CASE Receive
  <2>1. UNCHANGED <<value, changes>> /\ changes \in Nat
      BY <1>7 DEF Receive, serverVars, TypeOK
  <2> QED BY <1>7, <2>1, ReceiveFacts DEF EventOf
<1>8. CASE PushNext
    BY <1>1, <1>8 DEF PushNext, serverVars
<1>9. CASE EndPush
    BY <1>1, <1>9 DEF EndPush, serverVars
<1>10. CASE GetState
    BY <1>1, <1>10 DEF GetState, Asking, serverVars
<1>11. CASE Enlist
    BY <1>1, <1>11 DEF Enlist, Asking, serverVars
<1>12. CASE UNCHANGED vars
    BY <1>1, <1>12 DEF vars, serverVars
<1> QED BY <1>2, <1>3, <1>4, <1>5, <1>6, <1>7, <1>8, <1>9, <1>10, <1>11, <1>12,
           StepCases DEF LinkStep

-----------------------------------------------------------------------------
\* The event being pushed.

LEMMA PushStep ==
    ASSUME TypeOK, LinkInv, WireInv, PushInv, [Next]_vars
    PROVE  PushInv'
<1> SUFFICES ASSUME listener' = "push"
             PROVE  /\ kind' = "async" => asking' = "none"
                    /\ event' = Missing => kind' = "async" /\ subscribers' = << >>
                    /\ wire' = << >> => event' = EventOf(value)'
    BY DEF PushInv
<1> USE DEF PushInv
<1>1. CASE UNCHANGED <<kind, listener, asking, event, subscribers, wire, value>>
    BY <1>1 DEF EventOf
<1>2. ASSUME NEW m \in CommandSet, Command(m) PROVE PushInv'
    BY <1>1, <1>2 DEF Command, listenVars, observerVars, askVars
<1>3. ASSUME NEW a \in Attributes, GetObsState(a) PROVE PushInv'
  <2>1. kind # "async"
      BY <1>3 DEF GetObsState, LoopFree, Asking, listenVars
  <2> QED BY <1>3, <2>1 DEF GetObsState, Asking, serverVars, listenVars, EventOf
<1>4. CASE Change
  <2>1. wire' # << >>
      BY <1>4, ChangeFacts
  <2> QED BY <1>4, <2>1 DEF Change, listenVars, observerVars, askVars
<1>5. CASE LinkStep
    BY <1>5, LinkFacts DEF EventOf
<1>6. CASE Connected
    BY <1>6 DEF Connected
<1>7. CASE Receive
  <2>1. /\ ~Raises(Head(wire)) /\ event' = Head(wire)
        /\ UNCHANGED <<kind, value, asking, subscribers>>
        /\ kind = "async" => asking = "none"
      BY <1>7 DEF Receive, LoopFree, serverVars, askVars
  <2>2. event' = Missing => kind = "async" /\ subscribers = << >>
      BY <2>1 DEF Raises, TypeOK
  <2>3. wire' = << >> => event' = EventOf(value)'
      BY <1>7, <2>1, ReceiveFacts DEF WireInv, EventOf
  <2> QED BY <2>1, <2>2, <2>3
<1>8. CASE PushNext
  <2>1. event # Missing
      BY <1>8, PushFacts, ValueFacts
  <2> QED BY <1>8, <2>1 DEF PushNext, serverVars, listenVars, askVars, EventOf
<1>9. CASE EndPush
    BY <1>9 DEF EndPush
<1>10. CASE GetState
    BY <1>1, <1>10 DEF GetState, Asking, serverVars, listenVars
<1>11. CASE Enlist
    BY <1>11 DEF Enlist, Asking, serverVars, listenVars, EventOf
<1>12. CASE UNCHANGED vars
    BY <1>1, <1>12 DEF vars, serverVars, listenVars, observerVars, askVars
<1> QED BY <1>2, <1>3, <1>4, <1>5, <1>6, <1>7, <1>8, <1>9, <1>10, <1>11, <1>12,
           StepCases DEF LinkStep

\* Steps that only the server, the link and the questions notice.
Quiet == /\ UNCHANGED <<wire, value, event, position, subscribers, previous, kind>>
         /\ listener' = "push" <=> listener = "push"
         /\ listener' # "ended" => listener # "ended"

LEMMA QuietSteps ==
    ASSUME LinkInv, [Next]_vars
    PROVE  \/ Quiet \/ Change \/ Connected \/ Receive \/ PushNext \/ EndPush
           \/ Enlist
<1>1. ASSUME NEW m \in CommandSet, Command(m) PROVE Quiet
    BY <1>1 DEF Command, listenVars, observerVars, Quiet
<1>2. ASSUME NEW a \in Attributes, GetObsState(a) PROVE Quiet
    BY <1>2 DEF GetObsState, Asking, serverVars, listenVars, Quiet
<1>3. CASE GetState
    BY <1>3 DEF GetState, Asking, serverVars, listenVars, Quiet
<1>4. CASE LinkStep
    BY <1>4, LinkFacts DEF Quiet
<1>5. CASE UNCHANGED vars
    BY <1>5 DEF vars, serverVars, listenVars, observerVars, Quiet
<1> QED BY <1>1, <1>2, <1>3, <1>4, <1>5, StepCases DEF LinkStep

LEMMA PushedStep ==
    ASSUME TypeOK, LinkInv, PushInv, PushedInv, ReadInv, [Next]_vars
    PROVE  PushedInv'
<1> SUFFICES ASSUME listener' = "push", NEW i \in 1..position' - 1
             PROVE  previous'[subscribers'[i].attribute] =
                       event'[subscribers'[i].attribute]
    BY DEF PushedInv
<1>1. CASE Quiet \/ Change
    BY <1>1 DEF Quiet, Change, listenVars, observerVars, PushedInv
<1>2. CASE Connected \/ EndPush
    BY <1>2 DEF Connected, EndPush
<1>3. CASE Receive
  <2>1. position' = 1
      BY <1>3 DEF Receive
  <2> QED BY <2>1
<1>4. CASE PushNext
  <2> DEFINE a == subscribers[position].attribute
             b == subscribers[i].attribute
  <2>1. /\ position' = position + 1 /\ event' = event /\ listener = "push"
        /\ position \in Nat
      BY <1>4 DEF PushNext, listenVars, TypeOK
  <2>2. i = position \/ i \in 1..position - 1
      BY <2>1
  <2>3. position \in DOMAIN subscribers
      BY <1>4, PushFacts
  <2>4. i \in DOMAIN subscribers
      BY <2>1, <2>2, <2>3 DEF TypeOK
  <2>5. subscribers'[i].attribute = b /\ b \in Attributes
      BY <1>4, <2>4, PushFacts, SubscriberFields DEF Stays
  <2>6. b # a => i \in 1..position - 1 /\ previous'[b] = previous[b]
      BY <1>4, <2>2, <2>5, PushFacts
  <2>7. previous'[a] = event[a]
      BY <1>4, PushFacts
  <2> QED BY <2>1, <2>5, <2>6, <2>7 DEF PushedInv
<1>5. CASE Enlist
  <2>1. UNCHANGED <<listener, event, position, previous>>
      BY <1>5 DEF Enlist, Asking, listenVars
  <2>2. i \in 1..position - 1 /\ i \in DOMAIN subscribers
      BY <2>1 DEF TypeOK
  <2>3. subscribers'[i] = subscribers[i]
      BY <1>5, <2>2, EnlistFacts
  <2> QED BY <2>1, <2>2, <2>3 DEF PushedInv
<1> QED BY <1>1, <1>2, <1>3, <1>4, <1>5, QuietSteps

-----------------------------------------------------------------------------
\* What subscribers have heard.

LEMMA HeardStep ==
    ASSUME TypeOK, LinkInv, PushInv, PushedInv, HeardInv, ReadInv, [Next]_vars
    PROVE  HeardInv'
<1> SUFFICES ASSUME NEW i \in DOMAIN subscribers'
             PROVE  LET s == subscribers'[i] IN
                    /\ s.heard # << >> =>
                          Last(s.heard) = IF FirstOfAttribute(i)'
                                          THEN previous'[s.attribute] ELSE None
                    /\ s.owed => FirstOfAttribute(i)'
    BY DEF HeardInv
<1>1. CASE UNCHANGED <<subscribers, previous>>
    BY <1>1 DEF HeardInv, FirstOfAttribute
<1>2. CASE Quiet \/ Change \/ EndPush
    BY <1>1, <1>2 DEF Quiet, Change, EndPush, observerVars
<1>3. CASE Connected
  <2>1. /\ i \in DOMAIN subscribers /\ Stays(i) /\ Hears(i)
        /\ subscribers'[i].owed => subscribers[i].owed
        /\ FirstOfAttribute(i)' <=> FirstOfAttribute(i)
      BY <1>3, ConnectFacts, FirstStays
  <2>2. previous' = previous
      BY <1>3 DEF Connected
  <2> QED BY <2>1, <2>2 DEF HeardInv, Stays, Hears
<1>4. CASE Receive
  <2>1. subscribers' = subscribers /\ subscribers # << >>
      BY <1>4 DEF Receive, TypeOK
  <2>2. previous' = previous
      BY <1>4, <2>1 DEF Receive
  <2> QED BY <1>1, <2>1, <2>2
<1>5. CASE PushNext
  <2> DEFINE a == subscribers[position].attribute
             b == subscribers[i].attribute
             h == subscribers[i].heard
  <2>1. /\ i \in DOMAIN subscribers /\ position \in DOMAIN subscribers
        /\ Stays(i) /\ subscribers'[i].owed = subscribers[i].owed
        /\ FirstOfAttribute(i)' <=> FirstOfAttribute(i)
        /\ subscribers'[i].attribute = b /\ b \in Attributes
        /\ h \in Seq(Values)
    <3>1. /\ i \in DOMAIN subscribers /\ position \in DOMAIN subscribers
          /\ \A j \in DOMAIN subscribers : Stays(j)
          /\ subscribers'[i].owed = subscribers[i].owed
        BY <1>5, PushFacts
    <3>2. FirstOfAttribute(i)' <=> FirstOfAttribute(i)
        BY <3>1, FirstStays
    <3>3. b \in Attributes /\ h \in Seq(Values)
        BY <3>1, SubscriberFields
    <3>4. subscribers'[i].attribute = b
        BY <3>1 DEF Stays
    <3> QED BY <3>1, <3>2, <3>3, <3>4
  <2>2. i \in Nat /\ position \in Nat /\ i >= 1 /\ position >= 1
      BY <2>1 DEF TypeOK
  <2>3. /\ h # << >> => Last(h) = IF FirstOfAttribute(i) THEN previous[b] ELSE None
        /\ subscribers[i].owed => FirstOfAttribute(i)
      BY <2>1 DEF HeardInv
  <2>4. /\ a \in Attributes /\ event[a] \in Values /\ event[a] # Unset
        /\ previous'[a] = event[a]
      BY <1>5, PushFacts, ValueFacts
  <2>5. \A j \in 1..position - 1 :
            subscribers[j].attribute = a => previous[a] = event[a]
      BY <1>5 DEF PushNext, PushedInv
  <2>6. CASE i = position
    <3>1. CASE Fresh(a) /\ subscribers'[i].heard = Append(h, event[a])
      <4>1. Last(subscribers'[i].heard) = event[a]
          BY <2>1, <2>4, <3>1 DEF Last
      <4>2. ~FirstOfAttribute(i) => event[a] = None
        <5> SUFFICES ASSUME ~FirstOfAttribute(i) PROVE event[a] = None
            OBVIOUS
        <5>1. previous[a] = event[a]
            BY <2>5, <2>6 DEF FirstOfAttribute
        <5> QED BY <2>4, <3>1, <5>1 DEF Fresh
      <4> QED BY <2>1, <2>3, <2>4, <2>6, <4>1, <4>2
    <3>2. CASE Hears(i) /\ previous[a] = event[a]
        BY <2>1, <2>3, <2>4, <2>6, <3>2 DEF Hears
    <3> QED BY <1>5, <2>6, <3>1, <3>2, PushFacts
  <2>7. CASE i # position
    <3>1. Hears(i)
        BY <1>5, <2>1, <2>7, PushFacts
    <3>2. FirstOfAttribute(i) => previous'[b] = previous[b]
      <4>1. CASE b # a
          BY <1>5, <2>1, <4>1, PushFacts
      <4>2. CASE b = a /\ FirstOfAttribute(i)
        <5>1. ~(position < i)
            BY <2>2, <4>2 DEF FirstOfAttribute
        <5>2. i \in 1..position - 1
            BY <2>2, <2>7, <5>1
        <5> QED BY <2>4, <2>5, <4>2, <5>2
      <4> QED BY <4>1, <4>2
    <3> QED BY <2>1, <2>3, <3>1, <3>2 DEF Hears
  <2> QED BY <2>6, <2>7
<1>6. CASE Enlist
  <2>1. previous' = previous
      BY <1>6 DEF Enlist, Asking
  <2>2. CASE i \in DOMAIN subscribers
    <3>1. \A j \in 1..i : j \in DOMAIN subscribers
        BY <2>2 DEF TypeOK
    <3>2. \A j \in 1..i : subscribers'[j] = subscribers[j]
        BY <1>6, <3>1, EnlistFacts
    <3>3. i \in 1..i /\ \A j \in 1..i - 1 : j \in 1..i
        BY <2>2 DEF TypeOK
    <3>4. FirstOfAttribute(i)' <=> FirstOfAttribute(i)
        BY <3>2, <3>3 DEF FirstOfAttribute
    <3> QED BY <2>1, <2>2, <3>2, <3>3, <3>4 DEF HeardInv
  <2>3. CASE i = Len(subscribers) + 1
    <3>1. \A j \in 1..i - 1 : j \in DOMAIN subscribers
        BY <2>3 DEF TypeOK
    <3>2. \A j \in 1..i - 1 : subscribers'[j] = subscribers[j]
        BY <1>6, <3>1, EnlistFacts
    <3>3. subscribers'[i].owed => FirstOfAttribute(i)'
        BY <1>6, <2>3, <3>1, <3>2, EnlistFacts DEF FirstOfAttribute
    <3> QED BY <1>6, <2>3, <3>3, EnlistFacts
  <2> QED BY <1>6, <2>2, <2>3, EnlistFacts
<1> QED BY <1>2, <1>3, <1>4, <1>5, <1>6, QuietSteps

\* No value comes twice in a row, None excepted.
RepeatFree(h) == \A i \in 1..Len(h) - 1 : h[i] # h[i + 1] \/ h[i] = None

LEMMA RepeatsByIndex ==
    ASSUME TypeOK
    PROVE  NoRepeats <=> \A i \in DOMAIN subscribers : RepeatFree(subscribers[i].heard)
BY DEF NoRepeats, RepeatFree, Range, TypeOK

LEMMA AppendRepeatFree ==
    ASSUME NEW h \in Seq(Values), NEW v \in Values, RepeatFree(h),
           h = << >> \/ Last(h) # v \/ Last(h) = None
    PROVE  RepeatFree(Append(h, v))
<1> DEFINE g == Append(h, v)
<1> SUFFICES ASSUME NEW i \in 1..Len(g) - 1
             PROVE  g[i] # g[i + 1] \/ g[i] = None
    BY DEF RepeatFree
<1>1. /\ Len(h) \in Nat /\ Len(g) = Len(h) + 1 /\ g[Len(h) + 1] = v
      /\ \A j \in 1..Len(h) : g[j] = h[j]
    OBVIOUS
<1>2. i \in 1..Len(h) /\ g[i] = h[i]
    BY <1>1
<1>3. CASE i = Len(h)
  <2>1. h # << >>
      BY <1>2
  <2> QED BY <1>1, <1>2, <1>3, <2>1 DEF Last
<1>4. CASE i # Len(h)
  <2>1. i \in 1..Len(h) - 1 /\ i + 1 \in 1..Len(h)
      BY <1>1, <1>2, <1>4
  <2> QED BY <1>1, <1>2, <2>1 DEF RepeatFree
<1> QED BY <1>3, <1>4

LEMMA RepeatsStep ==
    ASSUME TypeOK, LinkInv, PushInv, PushedInv, HeardInv, NoRepeats, ReadInv,
           [Next]_vars, TypeOK'
    PROVE  NoRepeats'
<1>0. /\ NoRepeats' <=> \A i \in DOMAIN subscribers' : RepeatFree(subscribers'[i].heard)
      /\ \A i \in DOMAIN subscribers : RepeatFree(subscribers[i].heard)
  <2>1. \A i \in DOMAIN subscribers : RepeatFree(subscribers[i].heard)
      BY RepeatsByIndex
  <2>2. NoRepeats' <=> \A i \in DOMAIN subscribers' : RepeatFree(subscribers'[i].heard)
      BY DEF NoRepeats, RepeatFree, Range, TypeOK
  <2> QED BY <2>1, <2>2
<1> SUFFICES ASSUME NEW i \in DOMAIN subscribers'
             PROVE  RepeatFree(subscribers'[i].heard)
    BY <1>0
<1>1. CASE subscribers' = subscribers
    BY <1>0, <1>1
<1>2. CASE Quiet \/ Change \/ EndPush \/ Receive
    BY <1>1, <1>2 DEF Quiet, Change, EndPush, Receive, observerVars
<1>3. CASE Connected
    BY <1>0, <1>3, ConnectFacts DEF Hears
<1>4. CASE PushNext
  <2> DEFINE a == subscribers[position].attribute
             h == subscribers[position].heard
  <2>1. i \in DOMAIN subscribers /\ position \in DOMAIN subscribers
      BY <1>4, PushFacts
  <2>2. CASE Hears(i)
      BY <1>0, <2>1, <2>2 DEF Hears
  <2>3. CASE i = position /\ Fresh(a) /\ subscribers'[i].heard = Append(h, event[a])
    <3>1. h \in Seq(Values) /\ event[a] \in Values /\ a \in Attributes
        BY <1>4, <2>1, PushFacts, SubscriberFields, ValueFacts
    <3>2. h = << >> \/ Last(h) # event[a] \/ Last(h) = None
      <4> SUFFICES ASSUME h # << >>, Last(h) # None PROVE Last(h) # event[a]
          OBVIOUS
      <4>1. Last(h) = previous[a]
          BY <2>1 DEF HeardInv
      <4>2. Last(h) \in Values
          BY <3>1, EmptySeq DEF Last
      <4> QED BY <2>3, <4>1, <4>2, ValueFacts DEF Fresh
    <3>3. RepeatFree(h)
        BY <1>0, <2>1
    <3>4. RepeatFree(Append(h, event[a]))
        BY <3>1, <3>2, <3>3, AppendRepeatFree
    <3> QED BY <2>3, <3>4
  <2> QED BY <1>4, <2>1, <2>2, <2>3, PushFacts
<1>5. CASE Enlist
  <2>1. CASE i \in DOMAIN subscribers
      BY <1>0, <1>5, <2>1, EnlistFacts
  <2>2. CASE i = Len(subscribers) + 1
    <3>1. subscribers'[i].heard = << >>
        BY <1>5, <2>2, EnlistFacts
    <3> QED BY <3>1 DEF RepeatFree
  <2> QED BY <1>5, <2>1, <2>2, EnlistFacts
<1> QED BY <1>2, <1>3, <1>4, <1>5, QuietSteps

-----------------------------------------------------------------------------
\* What a Proxy remembers, and subscribe() reads, of the server's state.

LEMMA UnheardStep ==
    ASSUME TypeOK, LinkInv, WireInv, PushInv, UnheardInv, ReadInv, [Next]_vars
    PROVE  UnheardInv'
<1> SUFFICES ASSUME subscribers' = << >>, previous' # Unread
             PROVE  /\ kind' = "sync"
                    /\ listener' # "ended" /\ wire' = << >> =>
                          \A a \in Attributes : previous'[a] = value'[a]
    BY DEF UnheardInv
<1>1. CASE Quiet
    BY <1>1 DEF Quiet, UnheardInv
<1>2. CASE Change
  <2>1. wire' # << >>
      BY <1>2, ChangeFacts
  <2> QED BY <1>2, <2>1 DEF Change, observerVars, UnheardInv
<1>3. CASE Connected
    BY <1>3 DEF Connected, LinkInv
<1>4. CASE Receive
  <2>1. subscribers = << >> /\ UNCHANGED <<kind, value>>
      BY <1>4 DEF Receive, serverVars
  <2>2. CASE Raises(Head(wire))
      BY <1>4, <2>1, <2>2 DEF Receive, UnheardInv
  <2>3. CASE ~Raises(Head(wire)) /\ kind = "async"
      BY <1>4, <2>1, <2>3 DEF Receive, UnheardInv
  <2>4. CASE ~Raises(Head(wire)) /\ kind = "sync"
    <3>1. Head(wire) # Missing
        BY <2>1, <2>4 DEF Raises
    <3>2. previous' = [a \in Attributes |-> Head(wire)[a]]
        BY <1>4, <2>1, <2>4 DEF Receive
    <3>3. wire' = << >> => Head(wire) = value
        BY <1>4, <3>1, ReceiveFacts, EventFacts DEF WireInv, TypeOK
    <3> QED BY <2>1, <2>4, <3>2, <3>3
  <2> QED BY <2>2, <2>3, <2>4 DEF TypeOK
<1>5. CASE PushNext
  <2>1. DOMAIN subscribers' # {}
      BY <1>5, PushFacts
  <2> QED BY <2>1
<1>6. CASE EndPush
    BY <1>6 DEF EndPush, serverVars, UnheardInv
<1>7. CASE Enlist
    BY <1>7, EnlistFacts
<1> QED BY <1>1, <1>2, <1>3, <1>4, <1>5, <1>6, <1>7, QuietSteps

\* What is read now is what previous remembers, or an event tells of it.
LEMMA ReadNow ==
    ASSUME TypeOK, WireInv, UnheardInv, NEW a \in Attributes,
           subscribers = << >>, listener # "ended",
           previous[a] \notin {Unset, None}
    PROVE  value[a] = previous[a] \/ Coming(a, value[a])
<1>1. CASE wire = << >>
  <2>1. previous # Unread
      BY DEF Unread
  <2> QED BY <1>1, <2>1 DEF UnheardInv
<1>2. CASE wire # << >>
  <2>1. Len(wire) \in DOMAIN wire
      BY <1>2, EmptySeq DEF TypeOK
  <2>2. wire[Len(wire)] = EventOf(value)
      BY <1>2 DEF WireInv, Last
  <2> QED BY <2>1, <2>2, EventFacts DEF Coming, TypeOK
<1> QED BY <1>1, <1>2

\* An event on its way stays so until it is received.
LEMMA ComingStays ==
    ASSUME NEW a, NEW v, Coming(a, v), wire' = wire \/ (TypeOK /\ Change)
    PROVE  Coming(a, v)'
<1>1. \A j \in DOMAIN wire : j \in DOMAIN wire' /\ wire'[j] = wire[j]
    BY ChangeFacts
<1> QED BY <1>1 DEF Coming

LEMMA ReadStep ==
    ASSUME TypeOK, LinkInv, WireInv, PushInv, UnheardInv, ReadInv, [Next]_vars
    PROVE  ReadInv'
<1> DEFINE Reads(a) ==
              read[a] # Unset =>
                /\ wire = << >> => read[a] = value[a]
                /\ subscribers = << >> /\ listener # "ended"
                     /\ previous[a] \notin {Unset, None} =>
                         read[a] = previous[a] \/ Coming(a, read[a])
<1>0. /\ asking = "none" => read = Unread
      /\ asking # "none" => read["obs_state"] # Unset
      /\ asking # "none" /\ ~missed => \A a \in Attributes : Reads(a)
    BY DEF ReadInv
<1>1. CASE UNCHANGED <<asking, read, missed, wire, value, previous>> /\
           (subscribers' = << >> => subscribers = << >>) /\
           (listener' # "ended" => listener # "ended")
  <2>1. \A a, v : Coming(a, v)' <=> Coming(a, v)
      BY <1>1 DEF Coming
  <2> QED BY <1>1, <2>1 DEF ReadInv
<1>2. ASSUME NEW m \in CommandSet, Command(m) PROVE ReadInv'
    BY <1>1, <1>2 DEF Command, listenVars, observerVars, askVars
<1>3. ASSUME NEW a \in Attributes, GetObsState(a) PROVE ReadInv'
  <2>1. /\ asking = "none" /\ asking' = a /\ ~missed'
        /\ read' = [read EXCEPT !["obs_state"] = value.obs_state]
        /\ UNCHANGED <<wire, value, previous, subscribers, listener>>
      BY <1>3 DEF GetObsState, Asking, serverVars, listenVars
  <2>2. /\ asking' # "none" /\ "obs_state" \in Attributes
        /\ value["obs_state"] # Unset
      BY <2>1, ValueFacts DEF Attributes, TypeOK
  <2>3. /\ read'["obs_state"] = value["obs_state"]
        /\ \A b \in Attributes : b # "obs_state" => read'[b] = Unset
      BY <1>0, <2>1, <2>2 DEF TypeOK, Unread
  <2>4. ASSUME NEW b \in Attributes, read'[b] # Unset PROVE Reads(b)'
    <3>1. read'[b] = value[b]
        BY <2>3, <2>4
    <3>2. \A v : Coming(b, v)' <=> Coming(b, v)
        BY <2>1 DEF Coming
    <3> QED BY <2>1, <3>1, <3>2, ReadNow
  <2> QED BY <2>2, <2>3, <2>4 DEF ReadInv
<1>4. CASE GetState
  <2>1. /\ asking # "none" /\ UNCHANGED <<asking, missed>>
        /\ read' = [read EXCEPT !["state"] = value.state]
        /\ UNCHANGED <<wire, value, previous, subscribers, listener>>
      BY <1>4 DEF GetState, Asking, serverVars, listenVars
  <2>2. /\ read'["state"] = value["state"]
        /\ \A b \in Attributes : b # "state" => read'[b] = read[b]
      BY <2>1 DEF TypeOK, Attributes
  <2>3. ASSUME NEW b \in Attributes, ~missed PROVE Reads(b)'
    <3>1. \A v : Coming(b, v)' <=> Coming(b, v)
        BY <2>1 DEF Coming
    <3>2. CASE b = "state"
        BY <2>1, <2>2, <3>1, <3>2, ReadNow
    <3>3. CASE b # "state"
        BY <1>0, <2>1, <2>2, <2>3, <3>1, <3>3
    <3> QED BY <3>2, <3>3
  <2> QED BY <1>0, <2>1, <2>2, <2>3 DEF ReadInv, Attributes
<1>5. CASE Change
  <2>1. /\ UNCHANGED <<asking, missed, read, previous, subscribers, listener>>
        /\ wire' # << >>
      BY <1>5, ChangeFacts DEF Change, listenVars, observerVars, askVars
  <2>2. \A a, v : Coming(a, v) => Coming(a, v)'
      BY <1>5, ComingStays
  <2> QED BY <1>0, <2>1, <2>2 DEF ReadInv
<1>6. CASE LinkStep
  <2>1. /\ UNCHANGED <<asking, read, missed, wire, value, previous, subscribers>>
        /\ listener' # "ended" => listener # "ended"
      BY <1>6, LinkFacts
  <2> QED BY <1>1, <2>1
<1>7. CASE Connected
  <2>1. /\ UNCHANGED <<asking, read, value, previous>> /\ listener # "ended"
        /\ subscribers' = << >> => subscribers = << >>
      BY <1>7, ConnectFacts, EmptySeq DEF Connected, serverVars, askVars, TypeOK
  <2>2. CASE wire' = wire /\ missed' = missed
      BY <1>1, <2>1, <2>2
  <2>3. CASE missed' = (asking # "none")
      BY <1>0, <2>1, <2>3 DEF ReadInv
  <2> QED BY <1>7, <2>2, <2>3, ConnectFacts
<1>8. CASE Receive
  <2>1. UNCHANGED <<asking, read>> /\ missed' = (asking # "none")
      BY <1>8 DEF Receive, askVars
  <2> QED BY <1>0, <2>1 DEF ReadInv
<1>9. CASE PushNext
  <2>1. DOMAIN subscribers' # {}
      BY <1>9, PushFacts
  <2>2. UNCHANGED <<asking, read, missed, wire, value, listener>>
        /\ subscribers' # << >>
      BY <1>9, <2>1 DEF PushNext, serverVars, listenVars, askVars
  <2> QED BY <1>0, <2>2 DEF ReadInv
<1>10. CASE EndPush
    BY <1>1, <1>10 DEF EndPush, serverVars, askVars
<1>11. CASE Enlist
    BY <1>11 DEF Enlist, ReadInv
<1>12. CASE UNCHANGED vars
    BY <1>1, <1>12 DEF vars, serverVars, listenVars, observerVars, askVars
<1> QED BY <1>2, <1>3, <1>4, <1>5, <1>6, <1>7, <1>8, <1>9, <1>10, <1>11, <1>12,
           StepCases DEF LinkStep

-----------------------------------------------------------------------------
\* Who is owed the changes.

\* Coming, of the wire that a step leaves.
ComingNext(c, v) == \E j \in DOMAIN wire' : wire'[j] = Missing \/ wire'[j][c] = v

LEMMA ComingNextIs ==
    \A c, v : /\ wire' = wire => (ComingNext(c, v) <=> Coming(c, v))
              /\ TypeOK /\ Change /\ Coming(c, v) => ComingNext(c, v)
BY ChangeFacts DEF ComingNext, Coming

LEMMA OwedStep ==
    ASSUME IInv, [Next]_vars
    PROVE  OwedInv'
<1> USE DEF IInv
<1> SUFFICES ASSUME listener' # "ended", NEW i \in DOMAIN subscribers',
                    subscribers'[i].owed
             PROVE  LET s == subscribers'[i]
                        a == s.attribute IN
                    /\ wire' = << >> /\ ~Ahead(i)' =>
                          (IF s.heard = << >> THEN s.init ELSE Last(s.heard)) =
                             value'[a]
                    /\ s.heard = << >> /\ previous'[a] \notin {Unset, None} =>
                          \/ s.init = previous'[a] \/ ComingNext(a, s.init)
                          \/ Ahead(i)' /\ event'[a] = s.init
    BY DEF OwedInv, OwedAt, Told, Ahead, Coming, ComingNext
<1> DEFINE s == subscribers[i]
           a == s.attribute
           heard == s.heard
           init == s.init
           Tells == (IF heard = << >> THEN init ELSE Last(heard)) = value[a]
           Awaits == \/ init = previous[a] \/ Coming(a, init)
                     \/ Ahead(i) /\ event[a] = init
<1>0. ASSUME i \in DOMAIN subscribers, listener # "ended", s.owed
      PROVE  /\ wire = << >> /\ ~Ahead(i) => Tells
             /\ heard = << >> /\ previous[a] \notin {Unset, None} => Awaits
             /\ FirstOfAttribute(i) /\ a \in Attributes
             /\ heard # << >> => Last(heard) = previous[a]
  <2>1. OwedAt(i) /\ FirstOfAttribute(i)
      BY <1>0 DEF OwedInv, HeardInv
  <2>2. heard # << >> => Last(heard) = previous[a]
      BY <1>0, <2>1 DEF HeardInv
  <2> QED BY <1>0, <2>1, <2>2, SubscriberFields DEF OwedAt, Told
<1>1. CASE Quiet
  <2>1. /\ i \in DOMAIN subscribers /\ listener # "ended" /\ s.owed
        /\ UNCHANGED <<wire, value, previous, subscribers, event>>
      BY <1>1 DEF Quiet
  <2>2. /\ Ahead(i)' <=> Ahead(i)
        /\ ComingNext(a, init) <=> Coming(a, init)
      BY <1>1, ComingNextIs DEF Quiet, Ahead
  <2> QED BY <1>0, <2>1, <2>2
<1>2. CASE Change
  <2>1. /\ i \in DOMAIN subscribers /\ listener # "ended" /\ s.owed
        /\ UNCHANGED <<previous, subscribers, event, listener, position>>
        /\ wire' # << >>
      BY <1>2, ChangeFacts DEF Change, listenVars, observerVars
  <2>2. /\ Ahead(i)' <=> Ahead(i)
        /\ Coming(a, init) => ComingNext(a, init)
      BY <1>2, <2>1, ComingNextIs DEF Ahead
  <2> QED BY <1>0, <2>1, <2>2
<1>3. CASE Connected
  <2>1. /\ i \in DOMAIN subscribers /\ Stays(i) /\ Hears(i) /\ s.owed
        /\ wire' = wire
      BY <1>3, ConnectFacts
  <2>2. /\ listener = "connecting" /\ listener' = "recv"
        /\ UNCHANGED <<value, previous, event>>
      BY <1>3 DEF Connected, serverVars
  <2>3. /\ ~Ahead(i)' /\ ~Ahead(i)
        /\ ComingNext(a, init) <=> Coming(a, init)
      BY <2>1, <2>2, ComingNextIs DEF Ahead
  <2> QED BY <1>0, <2>1, <2>2, <2>3 DEF Stays, Hears
<1>4. CASE Receive
  <2>1. /\ subscribers' = subscribers /\ i \in DOMAIN subscribers
        /\ subscribers # << >> /\ listener = "recv" /\ s.owed
      BY <1>4 DEF Receive, TypeOK
  <2>2. /\ ~Raises(Head(wire)) /\ listener' = "push" /\ position' = 1
        /\ event' = Head(wire) /\ previous' = previous
      BY <1>4, <2>1 DEF Receive
  <2>3. Ahead(i)' /\ ~Ahead(i)
      BY <2>1, <2>2 DEF Ahead, TypeOK
  <2>4. Coming(a, init) => ComingNext(a, init) \/ event'[a] = init
    <3> SUFFICES ASSUME NEW j \in DOMAIN wire,
                        wire[j] = Missing \/ wire[j][a] = init
                 PROVE  ComingNext(a, init) \/ event'[a] = init
        BY DEF Coming
    <3>1. CASE j = 1
        BY <1>4, <2>1, <2>2, <3>1, ReceiveFacts DEF Raises
    <3>2. CASE j - 1 \in DOMAIN wire' /\ wire'[j - 1] = wire[j]
        BY <3>2 DEF ComingNext
    <3> QED BY <1>4, <3>1, <3>2, ReceiveFacts
  <2> QED BY <1>0, <2>1, <2>2, <2>3, <2>4
<1>5. CASE PushNext
  <2> DEFINE b == subscribers[position].attribute
  <2>1. /\ i \in DOMAIN subscribers /\ position \in DOMAIN subscribers
        /\ Stays(i) /\ subscribers[i].owed
        /\ listener = "push" /\ listener' = "push" /\ position' = position + 1
        /\ UNCHANGED <<wire, value, event>>
      BY <1>5, PushFacts DEF PushNext, serverVars, listenVars
  <2>2. i \in Nat /\ position \in Nat /\ i >= 1 /\ position >= 1
      BY <2>1 DEF TypeOK
  <2>3. ComingNext(a, init) <=> Coming(a, init)
      BY <2>1, ComingNextIs
  <2>4. wire = << >> => event = value
      BY <1>5, <2>1, PushFacts, EventFacts, ValueFacts DEF PushInv, TypeOK
  <2>5. CASE i = position
    <3>1. ~Ahead(i)' /\ Ahead(i)
        BY <2>1, <2>2, <2>5 DEF Ahead
    <3>2. CASE subscribers'[i].heard = Append(heard, event[a])
      <4>1. heard \in Seq(Values) /\ event[a] \in Values
          BY <1>5, <2>1, PushFacts, SubscriberFields, ValueFacts
      <4>2. /\ subscribers'[i].heard # << >>
            /\ Last(subscribers'[i].heard) = event[a]
        <5> DEFINE g == Append(heard, event[a])
        <5>1. /\ Len(g) = Len(heard) + 1 /\ Len(heard) \in Nat
              /\ g[Len(heard) + 1] = event[a]
            BY <4>1
        <5>2. subscribers'[i].heard = g
            BY <3>2
        <5> HIDE DEF g
        <5>3. Len(g) # 0 /\ g[Len(g)] = event[a]
            BY <5>1
        <5>4. g # << >>
            BY <5>3
        <5> QED BY <5>2, <5>3, <5>4 DEF Last
      <4> QED BY <2>1, <2>4, <3>1, <4>2 DEF Stays
    <3>3. CASE Hears(i) /\ previous[a] \notin {Unset, None} /\ previous[a] = event[a]
      <4>1. previous'[a] = previous[a]
          BY <1>5, <2>5, <3>3, PushFacts
      <4> QED BY <1>0, <2>1, <2>3, <2>4, <3>1, <3>3, <4>1 DEF Stays, Hears, Coming
    <3> QED BY <1>5, <2>5, <3>2, <3>3, PushFacts
  <2>6. CASE i # position
    <3>1. Hears(i)
        BY <1>5, <2>1, <2>6, PushFacts
    <3>2. Ahead(i)' <=> Ahead(i)
        BY <2>1, <2>2, <2>6 DEF Ahead
    <3>3. FirstOfAttribute(i) /\ a \in Attributes
        BY <1>0, <2>1
    <3>4. previous'[a] = previous[a]
      <4>1. CASE a # b
          BY <1>5, <3>3, <4>1, PushFacts
      <4>2. CASE a = b
        <5>1. ~(position < i)
            BY <2>2, <3>3, <4>2 DEF FirstOfAttribute
        <5>2. i \in 1..position - 1
            BY <2>2, <2>6, <5>1
        <5>3. previous[a] = event[a]
            BY <2>1, <5>2 DEF PushedInv
        <5> QED BY <1>5, <4>2, <5>3, PushFacts
      <4> QED BY <4>1, <4>2
    <3> QED BY <1>0, <2>1, <2>3, <3>1, <3>2, <3>4 DEF Stays, Hears
  <2> QED BY <2>5, <2>6
<1>6. CASE EndPush
  <2>1. /\ UNCHANGED <<wire, value, previous, subscribers>>
        /\ listener = "push" /\ listener' = "recv"
        /\ i \in DOMAIN subscribers /\ position > Len(subscribers)
      BY <1>6 DEF EndPush, serverVars
  <2>2. ~Ahead(i)' /\ ~Ahead(i)
    <3>1. ~(position <= i)
        BY <2>1 DEF TypeOK
    <3> QED BY <2>1, <3>1 DEF Ahead
  <2>3. ComingNext(a, init) <=> Coming(a, init)
      BY <2>1, ComingNextIs
  <2> QED BY <1>0, <2>1, <2>2, <2>3
<1>7. CASE Enlist
  <2>1. UNCHANGED <<wire, value, previous, event, listener, position>>
      BY <1>7 DEF Enlist, Asking, serverVars, listenVars
  <2>2. /\ Ahead(i)' <=> Ahead(i)
        /\ \A c, v : ComingNext(c, v) <=> Coming(c, v)
      BY <2>1, ComingNextIs DEF Ahead
  <2>3. CASE i \in DOMAIN subscribers
    <3>1. subscribers'[i] = subscribers[i]
        BY <1>7, <2>3, EnlistFacts
    <3> QED BY <1>0, <2>1, <2>2, <2>3, <3>1
  <2>4. CASE i = Len(subscribers) + 1
    <3>1. /\ asking \in Attributes /\ read[asking] # Unset
          /\ subscribers'[i].attribute = asking
          /\ subscribers'[i].init = read[asking]
          /\ subscribers'[i].heard = << >>
          /\ ~missed
          /\ subscribers = << >> \/ previous[asking] \in {Unset, None}
        BY <1>7, <2>4, EnlistFacts, ValueFacts
    <3>2. /\ wire = << >> => read[asking] = value[asking]
          /\ subscribers = << >> /\ previous[asking] \notin {Unset, None} =>
                read[asking] = previous[asking] \/ Coming(asking, read[asking])
        BY <1>7, <2>1, <3>1 DEF Enlist, ReadInv
    <3> QED BY <2>1, <2>2, <3>1, <3>2
  <2> QED BY <1>7, <2>3, <2>4, EnlistFacts
<1> QED BY <1>1, <1>2, <1>3, <1>4, <1>5, <1>6, <1>7, QuietSteps

-----------------------------------------------------------------------------
\* The theorems.

LEMMA Inductive == IInv /\ [Next]_vars => IInv'
BY TypeStep, LinkInvStep, WireStep, PushStep, PushedStep, HeardStep,
   RepeatsStep, UnheardStep, ReadStep, OwedStep DEF IInv

\* In every reachable state the inductive invariant holds.
THEOREM Invariance == Spec => []IInv
BY InitInv, Inductive, PTL DEF Spec

\* Type correctness; a subscriber is never told the value of a key that an event
\* does not have (push_event()).
THEOREM TypeCorrect == Spec => []TypeOK
BY Invariance, PTL DEF IInv

\* No subscriber is told one value twice in a row, although all of them share
\* one record of what was told (previous in push_event()).
THEOREM ChangesOnly == Spec => []NoRepeats
BY Invariance, PTL DEF IInv

\* However subscribe() and the first GETs fall among the events, the first
\* subscriber of an attribute ends on the server's value of it, if no event
\* went by while it subscribed (subscribe(), push_event()).
THEOREM FirstSubscriberIsCurrent == Spec => []OwedIsCurrent
<1>1. IInv => OwedIsCurrent
  <2> SUFFICES ASSUME IInv, Settled, NEW s \in Range(subscribers), s.owed
               PROVE  Told(s) = value[s.attribute]
      BY DEF OwedIsCurrent
  <2>1. PICK i \in DOMAIN subscribers : s = subscribers[i]
      BY DEF Range
  <2>2. OwedAt(i) /\ wire = << >> /\ ~Ahead(i)
      BY DEF IInv, OwedInv, Settled, Ahead
  <2> QED BY <2>1, <2>2 DEF OwedAt
<1> QED BY <1>1, Invariance, PTL

\* An AsyncProxy never waits for its listener without having closed the
\* websocket (listening() of AsyncWSListener; the safety part of StopReturns).
THEOREM AsyncNeverStranded ==
    Spec => [](kind = "async" => client \notin {"stranded", "hanging"})
<1>1. IInv => (kind = "async" => client \notin {"stranded", "hanging"})
    BY DEF IInv, LinkInv
<1> QED BY <1>1, Invariance, PTL

=============================================================================
