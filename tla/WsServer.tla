------------------------------ MODULE WsServer ------------------------------
(***************************************************************************)
(* The plain websocket server (mv/_server/_ws_server/ws_server.py).  Every *)
(* connection starts a StateServer of its own on the one signal queue, and *)
(* waits for what that one publishes; a client's command sets the state.   *)
(* Both the waiting and the setting are jobs for the event loop's pool of  *)
(* worker threads.  A connection and its StateServer have the same name.   *)
(***************************************************************************)
EXTENDS StateServer

CONSTANTS PoolSizes   \* how many worker threads there may be

ASSUME PoolAssumption == PoolSizes \subseteq Nat \ {0}

VARIABLES
    workers,   \* the size of the pool
    conn,      \* each connection, as its client sees it
    queue,     \* jobs that no worker has taken
    running,   \* jobs that a worker is doing
    events,    \* each Publisher's _events
    hand,      \* the event a get has returned, not sent yet
    inbox,     \* what each client has received
    lost       \* history: what was to be sent to a client that had left

wsVars == <<workers, conn, queue, running, events, hand, inbox, lost>>
vars == <<serverVars, wsVars>>

Get(w) == [what |-> "get", for |-> w]
Set(w) == [what |-> "set", for |-> w]
Jobs   == [what : {"get", "set"}, for : Servers]

TypeOK ==
    /\ ServerTypeOK
    /\ workers \in PoolSizes
    /\ conn \in [Servers -> {"new", "open", "left", "closed"}]
    /\ queue \in Seq(Jobs)
    /\ running \subseteq Jobs /\ Cardinality(running) <= workers
    /\ events \in [Servers -> Seq(1..MaxChanges)]
    /\ hand \in [Servers -> 0..MaxChanges]
    /\ inbox \in [Servers -> Seq(1..MaxChanges)]
    /\ lost \subseteq 1..MaxChanges

Init ==
    /\ ServerInit
    /\ workers \in PoolSizes
    /\ conn = [w \in Servers |-> "new"]
    /\ queue = << >> /\ running = {}
    /\ events = [w \in Servers |-> << >>]
    /\ hand = [w \in Servers |-> 0]
    /\ inbox = [w \in Servers |-> << >>]
    /\ lost = {}

\* The event loop is not blocked in a start_server().
LoopFree == \A w \in Servers : caller[w] \notin {"wait", "waiting"}

-----------------------------------------------------------------------------
\* Clients.

Connect(w) ==
    /\ LoopFree
    /\ conn[w] = "new"
    /\ StartServer(w)
    /\ conn' = [conn EXCEPT ![w] = "open"]
    /\ UNCHANGED <<workers, queue, running, events, hand, inbox, lost>>

\* Any command: the loop hands it to the pool and takes the next one from this
\* client when it is done.
Command(w) ==
    /\ conn[w] = "open" /\ caller[w] = "running" /\ LoopFree
    /\ Set(w) \notin Range(queue) \cup running
    /\ changes + Cardinality({v \in Servers : Set(v) \in Range(queue) \cup running})
          < MaxChanges
    /\ queue' = Append(queue, Set(w))
    /\ UNCHANGED <<workers, conn, running, events, hand, inbox, lost>>
    /\ UNCHANGED serverVars

Leave(w) ==
    /\ conn[w] = "open"
    /\ conn' = [conn EXCEPT ![w] = "left"]
    /\ UNCHANGED <<workers, queue, running, events, hand, inbox, lost>>
    /\ UNCHANGED serverVars

-----------------------------------------------------------------------------
\* The event loop.

\* start_server() waits for the flag, then the first get_new_event() is made.
AwaitServer(w) ==
    /\ WaitStarted(w)
    /\ queue' = IF caller'[w] = "running" THEN Append(queue, Get(w)) ELSE queue
    /\ UNCHANGED <<workers, conn, running, events, hand, inbox, lost>>

SetStartedFlag(w) ==
    /\ SetStarted(w)
    /\ queue' = IF caller[w] = "waiting" THEN Append(queue, Get(w)) ELSE queue
    /\ UNCHANGED <<workers, conn, running, events, hand, inbox, lost>>

\* Mutant of Send: the event loop's next get_new_event() is not made.
SendOnce(w) ==
    /\ hand[w] # 0 /\ LoopFree
    /\ hand' = [hand EXCEPT ![w] = 0]
    /\ \/ /\ conn[w] = "open"
          /\ inbox' = [inbox EXCEPT ![w] = Append(@, hand[w])]
          /\ UNCHANGED <<conn, lost>>
       \/ /\ conn[w] = "left"
          /\ conn' = [conn EXCEPT ![w] = "closed"]
          /\ lost' = lost \cup {hand[w]}
          /\ UNCHANGED inbox
    /\ UNCHANGED <<workers, queue, running, events>>
    /\ UNCHANGED serverVars

\* send() returns and the next event is asked for, or it raises: the handler
\* ends, stop_server() is not called, and the server's thread goes on.
Send(w) ==
    /\ hand[w] # 0 /\ LoopFree
    /\ hand' = [hand EXCEPT ![w] = 0]
    /\ \/ /\ conn[w] = "open"
          /\ inbox' = [inbox EXCEPT ![w] = Append(@, hand[w])]
          /\ queue' = Append(queue, Get(w))
          /\ UNCHANGED <<conn, lost>>
       \/ /\ conn[w] = "left"
          /\ conn' = [conn EXCEPT ![w] = "closed"]
          /\ lost' = lost \cup {hand[w]}
          /\ UNCHANGED <<inbox, queue>>
    /\ UNCHANGED <<workers, running, events>>
    /\ UNCHANGED serverVars

-----------------------------------------------------------------------------
\* Worker threads take the jobs in order.

\* Mutant of TakeJob: a thread for every job.
TakeJobUnpooled ==
    /\ queue # << >>
    /\ running' = running \cup {Head(queue)}
    /\ queue' = Tail(queue)
    /\ UNCHANGED <<workers, conn, events, hand, inbox, lost>>
    /\ UNCHANGED serverVars

TakeJob ==
    /\ queue # << >> /\ Cardinality(running) < workers
    /\ running' = running \cup {Head(queue)}
    /\ queue' = Tail(queue)
    /\ UNCHANGED <<workers, conn, events, hand, inbox, lost>>
    /\ UNCHANGED serverVars

\* The blocking get() of a Publisher's queue has an event.
GotEvent(w) ==
    /\ Get(w) \in running /\ events[w] # << >>
    /\ running' = running \ {Get(w)}
    /\ hand' = [hand EXCEPT ![w] = Head(events[w])]
    /\ events' = [events EXCEPT ![w] = Tail(@)]
    /\ UNCHANGED <<workers, conn, queue, inbox, lost>>
    /\ UNCHANGED serverVars

\* The update is made and signalled.
StateSet(w) ==
    /\ Set(w) \in running
    /\ Change
    /\ running' = running \ {Set(w)}
    /\ UNCHANGED <<workers, conn, queue, events, hand, inbox, lost>>

\* The thread of a StateServer.
ServeSignal(w) == GetState(w) /\ UNCHANGED wsVars

\* Mutant of Publish: all connections share one Publisher.
PublishToFirst(w) ==
    LET first == CHOOSE v \in Servers : conn[v] # "new" IN
    /\ Published(w)
    /\ events' = [events EXCEPT ![first] = Append(@, event[w])]
    /\ UNCHANGED <<workers, conn, queue, running, hand, inbox, lost>>

Publish(w) ==
    /\ Published(w)
    /\ events' = [events EXCEPT ![w] = Append(@, event[w])]
    /\ UNCHANGED <<workers, conn, queue, running, hand, inbox, lost>>

-----------------------------------------------------------------------------
WorkerStep(w) == GotEvent(w) \/ StateSet(w)
ServerStep(w) == SetStartedFlag(w) \/ ServeSignal(w) \/ Publish(w)
LoopStep(w)   == AwaitServer(w) \/ Send(w)

Next == \/ TakeJob
        \/ \E w \in Servers : \/ Connect(w) \/ Command(w) \/ Leave(w)
                              \/ WorkerStep(w) \/ ServerStep(w) \/ LoopStep(w)

\* Threads are scheduled and the event loop runs what is ready.
Fairness == /\ WF_vars(TakeJob)
            /\ \A w \in Servers : /\ WF_vars(WorkerStep(w))
                                  /\ WF_vars(ServerStep(w))
                                  /\ WF_vars(LoopStep(w))

Spec == Init /\ [][Next]_vars /\ Fairness

-----------------------------------------------------------------------------
\* Properties.

\* The states that the connection's server has taken, oldest first: received,
\* in the coroutine, in the Publisher's queue, in the server thread.
Nonzero(n) == IF n = 0 THEN << >> ELSE <<n>>

Stream(w) == inbox[w] \o Nonzero(hand[w]) \o events[w] \o Nonzero(event[w])

\* The websockets divide the signalled states among them: each state is on its
\* way to one client, or waits for a server, and was lost only if it came to a
\* server whose client has gone (whose servers go on taking); and what a client
\* receives is in the order of the writes.
EachToOneClient ==
    /\ \A w \in Servers : \A i, j \in DOMAIN Stream(w) :
          i < j => Stream(w)[i] < Stream(w)[j]
    /\ \A n \in 1..changes :
          Cardinality({w \in Servers : n \in Range(Stream(w))})
            + Cardinality({i \in DOMAIN signals : signals[i] = n})
            + Cardinality(lost \cap {n}) = 1
    /\ Cardinality(lost) = Cardinality({w \in Servers : conn[w] = "closed"})

\* Connections for whose get() a worker is or will be blocked, those included
\* whose client has gone and to whom nothing was sent since.
Blocking == {w \in Servers : conn[w] \in {"open", "left"}}

\* As long as the pool has more workers than that, every command is executed,
\* and every state that a connection's server has taken reaches its client,
\* if that stays.
Served ==
    [](Cardinality(Blocking) < workers) =>
        \A w \in Servers :
            /\ Set(w) \in Range(queue) ~> Set(w) \notin Range(queue) \cup running
            /\ thread[w] = "publish" ~> \/ conn[w] # "open"
                                       \/ Stream(w) = inbox[w]

=============================================================================
