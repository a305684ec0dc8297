------------------------- MODULE ConnectionManager --------------------------
(***************************************************************************)
(* ConnectionManager (mv/_server/_fast_api_server/connection_manager.py)   *)
(* and the websocket endpoint of fast_api_server.py, publishing what a     *)
(* StateServer takes off the signal queue.  connect() and disconnect() run *)
(* on the event loop, which start_server() and stop_server() block;        *)
(* publish() runs in the server's thread and iterates over the very list   *)
(* that the event loop changes.                                            *)
(***************************************************************************)
EXTENDS StateServer

CONSTANTS Websockets,  \* the connections made, each at most once
          Nobody,      \* no websocket
          NoServer     \* None in _server

ASSUME ManagerAssumption == /\ IsFiniteSet(Websockets)
                            /\ Nobody \notin Websockets
                            /\ NoServer \notin Servers

VARIABLES
    active,      \* active_connections
    server,      \* _server
    connecting,  \* the websocket connect() is starting the server for
    conn,        \* each connection, as the client sees it
    position,    \* how far each publish() is in the list
    target,      \* the websocket it is sending to
    inbox,       \* the states each client has received
    since        \* changes when the websocket was added to the list

managerVars == <<active, server, connecting, conn, position, target, inbox,
                 since>>
vars == <<changes, signals, thread, event, started, caller, active, server,
          connecting, conn, position, target, inbox, since>>

TypeOK ==
    /\ ServerTypeOK
    /\ active \in Seq(Websockets) /\ IsInjective(active)
    /\ server \in Servers \cup {NoServer}
    /\ connecting \in Websockets \cup {Nobody}
    /\ conn \in [Websockets -> {"new", "open", "left", "closed"}]
    /\ position \in [Servers -> 1..Cardinality(Websockets) + 1]
    /\ target \in [Servers -> Websockets \cup {Nobody}]
    /\ inbox \in [Websockets -> Seq(1..MaxChanges)]
    /\ since \in [Websockets -> 0..MaxChanges]

Init ==
    /\ ServerInit
    /\ active = << >>
    /\ server = NoServer
    /\ connecting = Nobody
    /\ conn = [w \in Websockets |-> "new"]
    /\ position = [s \in Servers |-> 1]
    /\ target = [s \in Servers |-> Nobody]
    /\ inbox = [w \in Websockets |-> << >>]
    /\ since = [w \in Websockets |-> 0]

\* The event loop is in no call that blocks it.
LoopFree == /\ connecting = Nobody
            /\ server # NoServer => caller[server] = "running"

-----------------------------------------------------------------------------
\* connect(), after the handshake.

Enlist(w) == /\ active' = Append(active, w)
             /\ since' = [since EXCEPT ![w] = changes]

\* The server is there already.
Connect(w) ==
    /\ LoopFree
    /\ conn[w] = "new"
    /\ server # NoServer
    /\ Enlist(w)
    /\ conn' = [conn EXCEPT ![w] = "open"]
    /\ UNCHANGED <<server, connecting, position, target, inbox>>
    /\ UNCHANGED serverVars

\* Mutant of ConnectFirst: the websocket is listed before the server starts,
\* and once more after.
ConnectFirstTwice(w, s) ==
    /\ LoopFree
    /\ conn[w] = "new"
    /\ server = NoServer
    /\ StartServer(s)
    /\ Enlist(w)
    /\ server' = s
    /\ connecting' = w
    /\ conn' = [conn EXCEPT ![w] = "open"]
    /\ UNCHANGED <<position, target, inbox>>

\* The first connection starts it, and is only then put on the list.
ConnectFirst(w, s) ==
    /\ LoopFree
    /\ conn[w] = "new"
    /\ server = NoServer
    /\ StartServer(s)
    /\ server' = s
    /\ connecting' = w
    /\ conn' = [conn EXCEPT ![w] = "open"]
    /\ UNCHANGED <<active, position, target, inbox, since>>

AwaitServer ==
    /\ server # NoServer
    /\ WaitStarted(server)
    /\ UNCHANGED managerVars

ServerStarted ==
    /\ connecting # Nobody
    /\ caller[server] = "running"
    /\ Enlist(connecting)
    /\ connecting' = Nobody
    /\ UNCHANGED <<server, conn, position, target, inbox>>
    /\ UNCHANGED serverVars

\* The client closes its end.
Leave(w) ==
    /\ conn[w] = "open"
    /\ conn' = [conn EXCEPT ![w] = "left"]
    /\ UNCHANGED <<active, server, connecting, position, target, inbox, since>>
    /\ UNCHANGED serverVars

\* active_connections.remove(): those behind w move up.
Delist(w) == \E i \in DOMAIN active : /\ active[i] = w
                                     /\ active' = RemoveAt(active, i)

\* Mutant of Disconnect: the server stops though others are subscribed.
DisconnectStops(w) ==
    /\ LoopFree
    /\ conn[w] = "left"
    /\ Delist(w)
    /\ conn' = [conn EXCEPT ![w] = "closed"]
    /\ \/ server # NoServer /\ StopServer(server)
       \/ server = NoServer /\ UNCHANGED serverVars
    /\ UNCHANGED <<server, connecting, position, target, inbox, since>>

\* receive_text() raises WebSocketDisconnect: disconnect().
Disconnect(w) ==
    /\ LoopFree
    /\ conn[w] = "left"
    /\ Delist(w)
    /\ conn' = [conn EXCEPT ![w] = "closed"]
    /\ \/ active' = << >> /\ StopServer(server)
       \/ active' # << >> /\ UNCHANGED serverVars
    /\ UNCHANGED <<server, connecting, position, target, inbox, since>>

ServerStopped ==
    /\ server # NoServer
    /\ Joined(server)
    /\ server' = NoServer
    /\ UNCHANGED <<active, connecting, conn, position, target, inbox, since>>

-----------------------------------------------------------------------------
\* The server thread, publish() included.

\* Mutant of TakeSignal: the iteration goes on where the last one ended.
TakeSignalOnly(s) ==
    /\ SetStarted(s) \/ GetStop(s) \/ GetState(s)
    /\ UNCHANGED managerVars

TakeSignal(s) ==
    /\ SetStarted(s) \/ GetStop(s) \/ GetState(s)
    /\ position' = [position EXCEPT ![s] = 1]
    /\ UNCHANGED <<active, server, connecting, conn, target, inbox, since>>

\* for connection in self.active_connections: by index, on the live list.
NextConnection(s) ==
    /\ thread[s] = "publish" /\ target[s] = Nobody
    /\ position[s] <= Len(active)
    /\ target' = [target EXCEPT ![s] = active[position[s]]]
    /\ position' = [position EXCEPT ![s] = @ + 1]
    /\ UNCHANGED <<active, server, connecting, conn, inbox, since>>
    /\ UNCHANGED serverVars

\* Sending to a client that has gone raises, in the thread, unless its end of the
\* connection is not known to be closed yet.
Send(s) ==
    /\ target[s] # Nobody
    /\ \/ /\ conn[target[s]] = "open"
          /\ inbox' = [inbox EXCEPT ![target[s]] = Append(@, event[s])]
          /\ UNCHANGED serverVars
       \/ /\ conn[target[s]] = "left"
          /\ UNCHANGED inbox
          /\ UNCHANGED serverVars
       \/ /\ conn[target[s]] # "open"
          /\ UNCHANGED inbox
          /\ PublishRaised(s)
    /\ target' = [target EXCEPT ![s] = Nobody]
    /\ UNCHANGED <<active, server, connecting, conn, position, since>>

EndPublish(s) ==
    /\ target[s] = Nobody
    /\ position[s] > Len(active)
    /\ Published(s)
    /\ UNCHANGED managerVars

-----------------------------------------------------------------------------
ServerStep(s) ==
    TakeSignal(s) \/ NextConnection(s) \/ Send(s) \/ EndPublish(s)

LoopStep == \/ AwaitServer \/ ServerStarted \/ ServerStopped
            \/ \E w \in Websockets : Disconnect(w)

Clients == \E w \in Websockets :
              Connect(w) \/ Leave(w) \/ \E s \in Servers : ConnectFirst(w, s)

Next == \/ Change /\ UNCHANGED managerVars
        \/ Clients
        \/ LoopStep
        \/ \E s \in Servers : ServerStep(s)

\* Threads are scheduled and the event loop runs what is ready; clients come
\* and go, and states change, as they please.
Fairness == WF_vars(LoopStep) /\ \A s \in Servers : WF_vars(ServerStep(s))

Spec == Init /\ [][Next]_vars /\ Fairness

-----------------------------------------------------------------------------
\* A client never receives a state before an older one, nor one twice, though
\* servers stop and start, sends raise and the list changes under publish(), as
\* long as no server thread has outlived the join() of it.
InOrder == Abandoned = {} =>
    \A w \in Websockets : \A i \in 1..Len(inbox[w]) - 1 :
        inbox[w][i] < inbox[w][i + 1]

\* Nothing is being signalled, published, connected or disconnected.
Quiet == /\ signals = << >>
         /\ LoopFree
         /\ \A s \in Live : thread[s] = "get"

\* When all is quiet, every subscriber whose state has changed since it
\* subscribed holds the newest one.
Current(w) == since[w] < changes => inbox[w] # << >> /\ Last(inbox[w]) = changes

SubscribersCurrent ==
    Quiet => \A w \in Range(active) : conn[w] = "open" => Current(w)

\* Until a connection is taken off the list, what a client has received has no
\* gaps; and unless a send has raised, for another client, nothing is missing at
\* the end of it either.
CompleteUntilDisconnect ==
    (\A w \in Websockets : conn[w] # "closed") =>
        /\ Died = {} => SubscribersCurrent
        /\ \A w \in Websockets : \A i \in 1..Len(inbox[w]) - 1 :
              inbox[w][i + 1] = inbox[w][i] + 1

\* The event loop always gets back to serving requests.
LoopServes == []<>LoopFree

\* ... unless a server thread has died of a send or outlived its join().
LoopServesUnlessLost == []<>(LoopFree \/ Died # {} \/ Abandoned # {})

\* While somebody is subscribed, what is signalled is published; so too when one
\* server thread has outlived its join(), but not when one has died.
SignalsDrain == <>[](active # << >>) => []<>(signals = << >> \/ Died # {})

=============================================================================
