--------------------------- MODULE ProxyObserver ----------------------------
(***************************************************************************)
(* The client's side of a subscription (mv/_client/proxy.py and            *)
(* ws_listener.py): a listener receives the states that the server sends   *)
(* over a websocket and pushes them to an observer, which tells its        *)
(* subscribers what changed.  A Proxy listens in a thread beside its       *)
(* client; an AsyncProxy on the client's event loop.  The server is        *)
(* external here: one client's commands, one update at a time, each put on *)
(* the wire in order (ConnectionManager).                                  *)
(***************************************************************************)
EXTENDS Commands, SequencesExt

CONSTANTS CommandSet,     \* the commands that change the server's state
          Resting,        \* states the server may be in at the beginning
          MaxChanges,     \* bound: how often the server's state changes
          MaxSubscribers  \* bound: how often subscribe() is called

ASSUME ObserverAssumption == /\ CommandSet \subseteq Operations
                             /\ Resting \subseteq Store
                             /\ MaxChanges \in Nat
                             /\ MaxSubscribers \in Nat

VARIABLES
    kind,         \* Proxy ("sync") or AsyncProxy ("async")
    value, todo,  \* the server's state, and the rest of its command
    changes,      \* how often it has changed
    wire,         \* events that the listener has not received
    socket,       \* _websocket
    listener,     \* where _listen() stands
    client,       \* where the user of listening() stands
    event,        \* the event being pushed
    position,     \* how far push_event() is in _subscribers
    subscribers,  \* _subscribers, with what each of them was told
    previous,     \* previous; Unset for a missing key
    asking,       \* the attribute that subscribe() is being called for
    read,         \* what it has read of the server's state
    missed        \* history: whether it has missed an event meanwhile

serverVars   == <<value, todo, changes>>
listenVars   == <<socket, listener, client>>
observerVars == <<event, position, subscribers, previous>>
askVars      == <<asking, read>>
vars == <<kind, serverVars, wire, listenVars, observerVars, askVars, missed>>

Attributes == {"state", "obs_state"}
Unset == "unset"
Unread == [a \in Attributes |-> Unset]

\* The event that follows a reset: a dict without keys.
Missing == Unread

Values == States \cup ObsStates
Events == Store \cup {Missing}

\* A proxy's command_<m>() posts to the endpoint of that name or its background_
\* twin, but for one; an answer that is an error changes nothing (FastApiServer).
Posted(m) == IF m = "scan" THEN "switch_on" ELSE m

\* On the way out of listening(): the websocket has been closed, there was none
\* to close, or an exception has passed over stop().
Leaving == {"stopping", "stranded", "hanging"}

\* init: the value that init() was given; heard: the values pushed since;
\* owed: whether it can count on hearing of every change.
Subscriber == [attribute : Attributes, init : Values, heard : Seq(Values),
               owed : BOOLEAN]

TypeOK ==
    /\ kind \in {"sync", "async"}
    /\ value \in Store
    /\ todo \in Seq(UNION {Range(Steps[Posted(m)]) : m \in CommandSet})
    /\ changes \in 0..MaxChanges
    /\ wire \in Seq(Events) /\ Len(wire) <= MaxChanges
    /\ socket \in {"none", "open", "closed"}
    /\ listener \in {"new", "connecting", "recv", "push", "ended"}
    /\ client \in {"out", "waiting", "in", "left"} \cup Leaving
    /\ event \in Events /\ position \in 1..Len(subscribers) + 1
    /\ subscribers \in Seq(Subscriber)
    /\ previous \in [Attributes -> Values \cup {Unset}]
    /\ asking \in Attributes \cup {"none"}
    /\ read \in [Attributes -> Values \cup {Unset}]
    /\ missed \in BOOLEAN

Init ==
    /\ kind \in {"sync", "async"}
    /\ value \in Resting /\ todo = << >> /\ changes = 0
    /\ wire = << >>
    /\ socket = "none" /\ listener = "new" /\ client = "out"
    /\ event = Missing /\ position = 1
    /\ subscribers = << >> /\ previous = Unread
    /\ asking = "none" /\ read = Unread /\ missed = FALSE

-----------------------------------------------------------------------------
\* The server.

Command(m) ==
    LET c == Posted(m) IN
    /\ todo = << >> /\ changes < MaxChanges
    /\ c = "reset_state" \/ (Allowed(c, value) /\ ~Ignored(c, value))
    /\ todo' = Steps[c]
    /\ UNCHANGED <<kind, value, changes, wire, listenVars, observerVars,
                   askVars, missed>>

\* An update, and the event that tells of it.  While nobody is connected nobody
\* takes events off the server's queue.
Change ==
    /\ todo # << >> /\ changes < MaxChanges
    /\ value' = Updated(value, Head(todo))
    /\ wire' = Append(wire, IF value' = Cleared THEN Missing ELSE value')
    /\ todo' = Tail(todo)
    /\ changes' = changes + 1
    /\ UNCHANGED <<kind, listenVars, observerVars, askVars, missed>>

-----------------------------------------------------------------------------
\* listening(): the client starts the listener and waits until it is ready.

\* On the event loop nothing else runs in subscribe() or in push_event().
LoopFree == kind = "async" => asking = "none" /\ listener # "push"

Listening(A) == A /\ UNCHANGED <<kind, serverVars, observerVars, askVars>>

Enter ==
    /\ client = "out" /\ asking = "none"
    /\ client' = "waiting" /\ listener' = "connecting"
    /\ Listening(UNCHANGED <<wire, socket, missed, observerVars>>)

\* The server has other clients, and earlier events went to them, or it has
\* none and sends them all now.
Connected ==
    /\ listener = "connecting" /\ LoopFree
    /\ socket' = "open" /\ listener' = "recv" /\ UNCHANGED client
    /\ \/ UNCHANGED <<wire, subscribers, missed>>
       \/ /\ wire # << >> /\ wire' = << >>
          /\ missed' = (asking # "none")
          /\ subscribers' = [i \in DOMAIN subscribers |->
                                [subscribers[i] EXCEPT !.owed = FALSE]]
    /\ UNCHANGED <<kind, serverVars, event, position, previous, askVars>>

ConnectFails ==
    /\ listener = "connecting" /\ LoopFree
    /\ listener' = "ended"
    /\ Listening(UNCHANGED <<wire, socket, client, missed>>)

\* The event or the queue says that the websocket is there, or what the task
\* raised; a Proxy asks its task only once two seconds have passed ...
Ready ==
    /\ client = "waiting" /\ listener # "connecting"
    /\ client' = IF socket = "none" THEN "left" ELSE "in"
    /\ Listening(UNCHANGED <<wire, socket, listener, missed>>)

\* ... and goes on without a websocket if the task is still at it: a task
\* that runs cannot be cancelled.
TimedOut ==
    /\ client = "waiting" /\ listener = "connecting" /\ kind = "sync"
    /\ client' = "in"
    /\ Listening(UNCHANGED <<wire, socket, listener, missed>>)

MayStop == client = "in" /\ asking = "none" /\ LoopFree

\* Mutant of Stop: the websocket is not closed.
StopOnly ==
    /\ MayStop
    /\ client' = IF socket # "none" THEN "stopping" ELSE "stranded"
    /\ Listening(UNCHANGED <<wire, socket, listener, missed>>)

\* stop() closes the websocket, if there is one by now; the task is awaited.
Stop ==
    /\ MayStop
    /\ \/ socket # "none" /\ socket' = "closed" /\ client' = "stopping"
       \/ socket = "none" /\ client' = "stranded" /\ UNCHANGED socket
    /\ Listening(UNCHANGED <<wire, listener, missed>>)

\* An exception in the body of listening(), which has no "finally": it skips
\* stop().  The executor of a Proxy waits for its listener all the same; an
\* AsyncProxy leaves its task, and the websocket, behind.
BodyRaises ==
    /\ MayStop
    /\ client' = IF kind = "sync" THEN "hanging" ELSE "left"
    /\ Listening(UNCHANGED <<wire, socket, listener, missed>>)

Leave ==
    /\ client \in Leaving /\ listener = "ended"
    /\ client' = "left"
    /\ Listening(UNCHANGED <<wire, socket, listener, missed>>)

\* The server or the network closes the connection.
Drop ==
    /\ socket = "open"
    /\ socket' = "closed"
    /\ Listening(UNCHANGED <<wire, listener, client, missed>>)

-----------------------------------------------------------------------------
\* subscribe(): two GETs, then init() and the list, one call at a time.

Asking(A) == A /\ UNCHANGED <<kind, serverVars, wire, listenVars, event,
                              position, previous>>

GetObsState(a) ==
    /\ client \in {"out", "in"} /\ LoopFree
    /\ asking = "none" /\ Len(subscribers) < MaxSubscribers
    /\ asking' = a /\ missed' = FALSE
    /\ read' = [read EXCEPT !["obs_state"] = value.obs_state]
    /\ Asking(UNCHANGED subscribers)

GetState ==
    /\ asking # "none" /\ read["state"] = Unset
    /\ read' = [read EXCEPT !["state"] = value.state]
    /\ Asking(UNCHANGED <<asking, subscribers, missed>>)

\* Who subscribes hears of every change from here on, if nobody has asked for
\* that attribute before and previous does not remember an old value of it.
Enlist ==
    /\ asking # "none" /\ read["state"] # Unset
    /\ subscribers' = Append(subscribers,
          [attribute |-> asking, init |-> read[asking], heard |-> << >>,
           owed |-> /\ ~missed
                    /\ \A s \in Range(subscribers) : s.attribute # asking
                    /\ \/ subscribers = << >>
                       \/ previous[asking] \in {Unset, None}])
    /\ asking' = "none" /\ read' = Unread /\ missed' = FALSE
    /\ Asking(TRUE)

-----------------------------------------------------------------------------
\* _listen() and push_event().

\* A dict without keys raises KeyError, which ends the listener.
Raises(e) == e = Missing /\ (subscribers # << >> \/ kind = "sync")

\* An event is received.  With no subscribers a Proxy notes both values.
Receive ==
    /\ listener = "recv" /\ LoopFree
    /\ wire # << >>
    /\ wire' = Tail(wire)
    /\ missed' = (asking # "none")
    /\ IF Raises(Head(wire))
       THEN /\ listener' = "ended" /\ socket' = "closed"
            /\ UNCHANGED <<event, position, previous>>
       ELSE /\ listener' = "push" /\ event' = Head(wire) /\ position' = 1
            /\ previous' = IF subscribers = << >> /\ kind = "sync"
                           THEN [a \in Attributes |-> Head(wire)[a]]
                           ELSE previous
            /\ UNCHANGED socket
    /\ UNCHANGED <<kind, serverVars, client, subscribers, askVars>>

\* Mutant of Remember: both attributes are noted.
RememberBoth(a) == [b \in Attributes |-> event[b]]

Remember(a) == [previous EXCEPT ![a] = event[a]]

\* Mutant of Fresh: what was pushed before is not looked at.
FreshAlways(a) == TRUE

\* "Only push change events", or "first time values".
Fresh(a) == previous[a] \in {Unset, None} \/ previous[a] # event[a]

PushNext ==
    /\ listener = "push" /\ position <= Len(subscribers)
    /\ LET a == subscribers[position].attribute IN
       \/ /\ Fresh(a)
          /\ subscribers' = [subscribers EXCEPT
                                ![position].heard = Append(@, event[a])]
          /\ previous' = Remember(a)
       \/ ~Fresh(a) /\ UNCHANGED <<subscribers, previous>>
    /\ position' = position + 1
    /\ UNCHANGED <<kind, serverVars, wire, listenVars, event, askVars, missed>>

EndPush ==
    /\ listener = "push" /\ position > Len(subscribers)
    /\ listener' = "recv" /\ event' = Missing /\ position' = 1
    /\ UNCHANGED <<kind, serverVars, wire, socket, client, subscribers,
                   previous, askVars, missed>>

\* recv() raises; what was still to come is lost.
EndListening ==
    /\ listener = "recv" /\ socket = "closed" /\ LoopFree
    /\ listener' = "ended"
    /\ Listening(UNCHANGED <<wire, socket, client, missed>>)

-----------------------------------------------------------------------------
ListenerStep == \/ Connected \/ ConnectFails \/ Receive \/ PushNext \/ EndPush
                \/ EndListening

ClientStep == Ready \/ TimedOut \/ GetState \/ Enlist \/ Leave

Next == \/ \E m \in CommandSet : Command(m)
        \/ \E a \in Attributes : GetObsState(a)
        \/ Change \/ Drop \/ Enter \/ Stop \/ BodyRaises
        \/ ListenerStep \/ ClientStep

\* The listener and the client's calls go on; nobody has to call, or to change
\* the server's state, and connections need not be lost.
Fairness == WF_vars(ListenerStep) /\ WF_vars(ClientStep)

Spec == Init /\ [][Next]_vars /\ Fairness

-----------------------------------------------------------------------------
\* What a subscriber was told last of its attribute.
Told(s) == IF s.heard = << >> THEN s.init ELSE Last(s.heard)

\* Once every event has been dealt with, the first subscriber of an attribute
\* holds the server's value of it, although what decides whether it is told is
\* not what it was told but what the observer remembers; unless an event went
\* by between its first GET and the list, or before the connection was there.
Settled == todo = << >> /\ wire = << >> /\ listener = "recv" /\ socket = "open"

OwedIsCurrent ==
    Settled => \A s \in Range(subscribers) :
                   s.owed => Told(s) = value[s.attribute]

\* "Only push change events": no subscriber hears one value twice in a row,
\* None excepted, which previous cannot tell from a value it has not seen.
NoRepeats ==
    \A s \in Range(subscribers) : \A i \in 1..Len(s.heard) - 1 :
        s.heard[i] # s.heard[i + 1] \/ s.heard[i] = None

\* A client that leaves listening() in the normal way with a websocket gets out
\* of it, whatever the listener is doing, and an AsyncProxy gets out of it in
\* every way.  A Proxy that left by an exception, or without a websocket, waits
\* for a listener whose websocket nobody closes here: it gets out if the
\* connection is closed at the other end.
StopReturns ==
    /\ client = "stopping" ~> client = "left"
    /\ [](kind = "async" => client \notin {"stranded", "hanging"})
    /\ client \in {"stranded", "hanging"} /\ socket = "closed" ~> client = "left"

=============================================================================
