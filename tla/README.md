# mv: models and proofs of the state machine server

The program in `mv/` is a small telescope-like state machine (`state`: ON, OFF,
BUSY; `obs_state`: EMPTY, RESOURCING, IDLE, CONFIGURING, READY, SCANNING, BUSY)
that runs as a server.  Commands take time, run on worker threads, and every
change of state is pushed to websocket subscribers.  This directory holds TLA+
specifications of the program's concurrent core, TLC configurations that check
them on small instances, and TLAPS proofs for instances of any size.

Line numbers below are of the files under `mv/`.

## 1. The system

| Part | Source | State it keeps | Operations |
|---|---|---|---|
| State machine | `_state_machine/state_machine.py` | scratch copies `_state`, `_obs_state` | 7 commands, each behind decorators; `reset_state`; `assert_ready`, `assert_method_allowed` |
| In-memory updater | `_state_machine/inmem_backend/` | `memstate._state` | `update_state`, `atomic`, `get_state`, `reset_state` |
| Lock and signal queue | `_state_machine/state_control.py` | one lock, one unbounded queue per process | lock, `put`, `get` |
| State server | `_state_machine/state_server.py` | a daemon thread and its started flag | `start_server`, `stop_server`, the thread's loop |
| Connection manager | `_server/_fast_api_server/connection_manager.py` | list of websockets, the state server | `connect`, `disconnect`, `publish` |
| REST endpoints | `_server/_fast_api_server/fast_api_server.py` | none | foreground and background POSTs, 2 GETs, the websocket |
| Redis backend | `_state_machine/redis_backend/` | a key, an expiring lock, a channel | as the updater and the state server |
| File backend | `_state_machine/file_backend/` | a JSON file, a lock for reading it | as the updater |
| Plain websocket server | `_server/_ws_server/ws_server.py` | a publisher and a state server per client; the event loop's pool of workers | ON/OFF, event stream |
| Proxies, observers, listeners | `_client/proxy.py`, `_client/ws_listener.py` | last event seen, subscribers, a websocket | commands, subscribe, listen, push |
| Tango server and proxy | `_server/_tango_server/`, `_client/tango_proxy.py` | the device, its background threads | 4 commands, subscribe, push |
| Factory, configuration, charts | `factory.py`, `config.py`, `helm/` | chosen backend | none over time |

How they interact: an endpoint calls a command of the state machine, directly or
as a background task after it has answered.  The command's decorators read the
store and the lock; its body runs two or three *updates*, each of which takes
the write lock, copies the store, sleeps, assigns, writes back, puts a signal on
the queue and releases the lock.  A state server thread takes the signals and
calls `publish` of the connection manager, which sends the state to each
websocket on its list while the event loop adds and removes websockets.

What is hard here, and which properties speak about it, is listed under
`hazards` in `PROJECT.json`.  In short:

* guards that are read one by one and hold nothing (check, then act);
* a lock that is released between the updates of one command;
* a rollback that writes without the lock and without a signal;
* a list iterated by one thread and changed by another;
* a shared queue of poison pills, a join that times out, a thread that dies;
* answers given before the work is done;
* a distributed lock that expires, replicas that die, notifications that carry
  no state;
* torn files, a restart over a file that holds a transient state;
* subscribing while events arrive, to an observer whose subscribers share one
  record of what was told;
* workers that block, servers that nobody stops, one queue with many readers;
* a device that is held while a command waits behind another one's delay.

## 2. The modules

| Module | What it is |
|---|---|
| `Commands` | the command table: states, decorators' tests, allowed commands, the updates of each command; no variables |
| `StateMachine` | worker threads that call commands over the in-memory updater |
| `AtomicCommands` | what an updater promises: updates are atomic read-modify-writes in their command's order; the in-memory, the Redis and the file updater are each shown to implement it |
| `Lifecycle` | what a single caller may rely on: five resting modes and one command at a time |
| `StateServer` | the signal queue, the server threads, their starting and stopping |
| `ConnectionManager` | extends `StateServer` with the websocket list, the event loop and `publish` |
| `FastApiServer` | REST requests, composed with an instance of `StateMachine` |
| `RedisBackend` | replicas over Redis: the commands of an instance of `StateMachine` with the Redis updater's lock, key and rollback, and a `RedisStateServer` |
| `FileBackend` | the file backend in a process that may be killed and started again: the commands of an instance of `StateMachine`, every read and write of the state one of the file |
| `ProxyObserver` | a client's proxy: listener, observer, subscriptions; the server is one client's commands and their events, in order |
| `WsServer` | extends `StateServer`: the plain websocket server, a state server per connection, and the pool of workers |
| `TangoServer` | the Tango device, composed with an instance of `StateMachine`: foreground and background commands, the signal queue, one client |
| `MCStateMachine`, `MCConnectionManager`, `MCFastApiServer`, `MCRedisBackend`, `MCFileBackend`, `MCProxyObserver`, `MCWsServer`, `MCTangoServer` | symmetry sets and command sets for TLC |
| `StateMachineProofs`, `FileBackendProofs`, `RedisBackendProofs`, `TangoServerProofs`, `FastApiServerProofs`, `ConnectionManagerProofs`, `WsServerProofs`, `ProxyObserverProofs` | the inductive invariant of the module of that name and the theorems that follow from it (section 5) |

Operators named "Mutant of ..." in a comment are plausible faults of the
definition they stand before.  Nothing uses them; each is meant to be put in
the place of that definition, and the property named for it in `PROJECT.json`
then fails, which shows that the property depends on the code.

### StateMachine

| Model | Code |
|---|---|
| `store` | `memstate._state`; the empty dict and a dict of two `None`s are one value, as `dict.get` cannot tell them apart |
| `lock` | `state_control._state_write_lock` |
| `signalled` | the state in the signal put last on the queue |
| `pc[t]`, `op[t]`, `step[t]` | where the thread is in the decorators or the body, in which command, in which `with self._update()` |
| `original[t]`, `local[t]` | `original_state` of `atomic()`, the dict `update_state()` yields |
| `result[t]` | how the call ended: returned, ignored, `StateMachineBusyError`, `CommandNotAllowed`, `TypeError`, or the error of a delay |
| `IgnoreIfInState`, `MustBeOn`, `CheckBusy`, `IsAllowed` | one step per decorator: each reads the store or the lock once |
| `Atomic`, `Acquire`, `Write`, `Signal`, `Release` | `atomic()` takes its copy; then per update: take the lock and copy, assign and store, put the signal, release |
| `SleepRaises`, `Rollback` | `sleep` rejects a delay (negative, or not a number in `config`), the `with` blocks unwind, `atomic()` restores |

A step is what no other thread can observe half done: one read of the store
(`get_state` copies a reference that `set_state` replaces), one write, one lock
operation, one `put`.  The scratch attributes `_state` and `_obs_state` of the
singleton machine are loaded, assigned and written back inside one update, under
the lock, so they are part of `Write`.  `BadDelays` says whether callers may
pass a delay that raises.

### StateServer and ConnectionManager

The n-th state signalled is the number n; `STOP` is 0.  `thread[s]` follows the
loop of `_server()`, `caller[s]` the thread inside `start_server()` or
`stop_server()`.  `start_server()` is two steps: start the thread, then wait for
its flag (`Event.wait` returns if the flag is up, or when it is set *while* the
caller is blocked).  In `ConnectionManager` that caller is the event loop, and
`LoopFree` says that it is not blocked in one of them.  `connect()` starts the
server before it appends the websocket; `publish()` is one step to fetch the
next list element by index and one to send.  `Delist` is `list.remove`, for a list
that has each websocket at most once.  A send to a client that has gone raises, as
it does with the locked versions of starlette and uvicorn, and ends the server
thread (`PublishRaised`, `Died`), or is dropped while the close is not known yet.
`JoinTimesOut` says whether `join(1)` may give up on a thread that is still alive;
that server is then `Abandoned`, and its thread goes on beside its successor's.  A
websocket object is used once: a client that comes back is another websocket, and
a state server object is started once.  The echo of received text is left out.

### FastApiServer

Each request in progress has a worker.  A foreground POST calls its command and
is answered by the outcome; a background POST runs `assert_ready` and, for the
commands on `obs_state`, `assert_method_allowed`, is answered, and then calls
the command as a background task.  `POST /switch_on` with a body raises in the
endpoint (`args.get` on a pydantic model), which is the endpoint kind "broken".
`alone` and `before` are history variables: whether no other request has
overlapped, and the state such a request found.

### RedisBackend

| Model | Code |
|---|---|
| `store`, `keyed` | key `state`; `keyed` says whether it exists, which `get_state` hides and `atomic()` does not |
| `lock` | key `_state_write_lock`: whose token it holds; `Orphan` is the token of a process that died |
| `pc`, `op`, `step`, `original`, `local`, `result` | as in `StateMachine` |
| `server[s]`, `pending[s]`, `event[s]` | a `RedisStateServer`'s thread, the notifications on its subscription, the state its handler has read |
| `shown`, `overtaken` | the state the publisher's clients were given last, and whether it came from a stopped server after its successor had started |
| `Guards`, `Acquire` | unchanged: `locked()` and `get` ask Redis, so they see all replicas |
| `Write`, `Publish` | `set`, then `publish`: two round trips, whether or not the lock is still held |
| `Release`, `GiveUp` | releasing a lock that is no longer one's own raises `LockNotOwnedError` (redis-py 5), which `atomic()` answers with a rollback |
| `Rollback` | sets the copy; if there was no key it sets `None`, which raises `DataError` and restores nothing |
| `ExpireHeld`, `ExpireOrphan`, `Crash` | the 30 s timeout, and processes that die in a call |
| `StartServer`, `Handle`, `Show` | subscribe and run the thread; the handler reads the key, then publishes |
| `StopServer`, `EndServer` | `stop()` clears a flag that the thread tests when `get_message()` has returned nothing: a stopped thread may still take one notification and publish it beside its successor |
| `ShowRaises` | `publish()` raises, as one client has gone: there is no exception handler, the thread is `dead`, and the manager keeps it until its last client leaves |

Taking the lock and reading the key are one step: nobody's step in between can
tell the difference.  `broken` and `unsaid` are history: they say from when on
the guarantees of the backend no longer apply.  A Redis that cannot be reached is
not modelled.  The branches for fakeredis are
left out; note that with it `_write_lock` takes the lock of the process while
`state_machine_is_busy` asks the one in Redis, which nobody then takes, and
changes go to a queue that `RedisStateServer` does not read.

### FileBackend

| Model | Code |
|---|---|
| `store`, `file` | the state written last, and whether `_path` is absent, empty or whole: only from a whole file can `store` be read, and after a kill that cut a write short it is lost |
| `readLock` | `_file_read_lock`, when a write holds it; a read that finds it free is one step |
| `Start`, `Created` | `__init__`: `{}` is written only if there is no file |
| `Read`, `ReadRaises`, `Acquire` | `_read`: an empty file raises twice, as the second attempt keeps the lock that a write would need |
| `Truncate`, `FillUpdate`, `FillRollback`, `FillReset` | `_write`: `open("w")` empties the file, closing it fills it |
| `Call` | `reset_state()` goes straight to `_write`: no write lock, no copy, no signal |
| `Crash` | the process is killed anywhere; what is left is the file, which is empty if that was between `Truncate` and its fill ("cut" in `harm`) |

The server process is one (the chart has one replica), and its state machine is
one object with one updater, so there is one `_file_read_lock` (`check_busy` makes an updater of its own each
time, but only asks it for the write lock).  Other processes
over the same file would have locks of their own.  `harm` is history: which kinds
of fault have happened, each of which takes away one guarantee and no other.

### ProxyObserver

| Model | Code |
|---|---|
| `value`, `todo`, `wire` | external: the server's state, the rest of its command, events on their way; a reset sends an event without keys |
| `Posted`, `Command` | `command_<m>()` posts to the endpoint of that name, `command_scan` to `switch_on` (`proxy.py:158`) |
| `Enter`, `Connected`, `ConnectFails`, `Ready`, `TimedOut`, `Stop`, `Leave` | `listening()` and the start and end of `_listen()`; a `Proxy` waits two seconds, an `AsyncProxy` for as long as it takes |
| `BodyRaises` | an exception in the body of `listening()`, which has no `finally`, skips `stop()`: a `Proxy` waits in its executor's exit ("hanging"), an `AsyncProxy` leaves task and websocket behind |
| `Drop`, `EndListening` | the connection is closed, `recv()` raises |
| `GetObsState`, `GetState`, `Enlist` | `subscribe()`: two GETs, `init()`, the list |
| `Receive`, `PushNext`, `EndPush` | `push_event()`, one subscriber per step; `previous` is the observer's record |

A `Proxy` listens in a thread of its own; an `AsyncProxy` on the event loop, where
nothing runs inside `subscribe()` or `push_event()` (`LoopFree`).  A subscriber is
`owed` the changes if it is the first of its attribute and no event slipped by
while it subscribed: only of these does the code keep track.

### WsServer

`queue` and `running` are the jobs of the event loop's default executor, which
has `workers` threads and takes them in order: a blocking `get` for each
connection (`GotEvent`), and the commands (`StateSet`).  `Connect` and
`AwaitServer` are `state_server()`'s `start_server()`, which blocks the loop.  A
client that has left is noticed when something is sent to it (`Send`); the
exception passes `state_server()`, which has no `finally`, so its server is never
stopped and no STOP is ever sent.  No reset reaches this server, so no event is
empty and its loop does not end otherwise.

### TangoServer

`Command` is the proxy's call and the device's choice: `InBackground` says which
delays go to a thread of their own, and that a delay of up to 2.9 s of
`switch_on` and `switch_off` is dropped.  The device's thread takes no other
command before it has answered one; `result[Device]` is the answer.  Tango's
serialisation, its subscription (which reads the attribute) and the delivery of
pushed events in order are external.  A rollback in a background thread sends
no event, and the history variable `undone` says that one was the last to change
the store.

## 3. The runs

| Run | Module, bounds | What it asks | Result |
|---|---|---|---|
| `TwoCallers` | `StateMachine`, 2 threads, all 8 operations, good delays | types; a transient state always has a command that will end it; the store equals the last signal whenever the lock is free; only the lock's holder writes; refinement of `AtomicCommands` | holds |
| `OneCaller` | 1 thread, all 8 operations, bad delays | refinement of `Lifecycle` with its fairness; at rest the lock is free and some command is admitted | holds |
| `Publishing` | `ConnectionManager`, 2 websockets, 2 server threads, 3 changes, sends that raise, joins that give up | in-order delivery until a thread outlives its join; no gaps until somebody is taken off the list, and nothing missing unless a thread has died; STOPs and servers balance; the event loop is given back unless a server thread was lost; signals drain while somebody subscribes unless one has died | holds |
| `Requests` | 2 requests, 4 commands, foreground and background | a request that nothing overlapped is answered by the state it found; an accepted background command on `obs_state` is carried out if the machine is on | holds |
| `Replicas` | `RedisBackend`, 2 replicas, 1 fault of any kind, `switch_on`, a state server and its successor, 1 notification waiting | writers exclude each other and transient states have owners while nothing was left midway; updates are then those of `AtomicCommands`; the clients end on the stored state, unless the server's thread is dead or a stopped one has published last; once calls cease every call returns, dead holders or not | holds |
| `Persisting` | `FileBackend`, 2 threads, `switch_on`, `assign_resources`, `reset_state`, 1 fault, which may be a kill and a restart | the file can be read unless a kill cut a write short; a command that has begun can read it; no lost update and no untold write unless a reset or rollback wrote; writers exclude each other and transient states have owners unless a command was left midway; updates are those of `AtomicCommands` unless one of these has happened; every call returns | holds |
| `Subscriptions` | `ProxyObserver`, 2 subscribers, 4 changes, both kinds of proxy | a subscriber that is owed the changes ends on the server's value; no value twice in a row; `listening()` is left, by a `Proxy` that has closed nothing once the other end closes | holds |
| `Websockets` | `WsServer`, 2 clients, 3 commands, 2 or 3 workers | each state goes to one client, in order; with a worker to spare commands are executed and states delivered | holds |
| `Tango` | `TangoServer`, 3 commands, 2 background threads, 1 signal waiting, delays that raise | a foreground answer finds the target reached; a subscriber ends on the stored state; the device is given back | holds |
| `CutShort` | `FileBackend`, 1 thread, 1 fault | "State should persist even if the power fails" (`README.md:214`) | violated: the file is empty, for good |
| `BusyMachine` | `StateMachine`, 2 threads, all 8 operations, good delays | a command that meets a busy machine is refused (`README.md:9`, "resulting in a 405 error") | violated: a `TypeError`, answered with a 500 |
| `LoopHangs` | `ConnectionManager`, 2 websockets, 2 server threads, 2 changes | the event loop gets back to its requests (`README.md:7`, subscribing whilst commanding) | violated: it waits for ever for a flag |

In `BusyMachine` `is_allowed` meets `obs_state` BUSY, written since `check_busy` saw
a free lock, for which the table has no entry.  In `LoopHangs` a send that raises
has ended the server thread; nobody takes the STOP that `disconnect` leaves but the
next thread, which may clear its flag before `start_server()` waits for it.

More disagreements are met by the same models and have no run of their own:

* `OffHasNoObsState` fails with the constants of `BusyMachine`: a `switch_off`
  that is overtaken by the last update of an `assign_resources` leaves OFF with
  IDLE, which `test_state_machine.py:166` excludes, and from there no command is
  admitted.
* `SecondIsRejected` (`test_on_off.feature:34` and `test_assign_resources.feature:36`,
  "the server should reject the command") fails with the constants of `Requests`:
  both requests look at the lock before either command has taken it, and both are
  carried out, update by update.
* `AcceptedIsNotRefused` (`fast_api_server.py:61`, "because we return immediately
  we have to check the state") fails with one request and all commands:
  `/background_switch_off` in IDLE is accepted, then refused unseen.  It also fails
  for the commands on `obs_state`, whose endpoints assert the method: none asks
  whether the machine is on, and once a race has left OFF with IDLE (see above) a
  lone `/background_configure` is accepted and refused unseen.
* `SubscribersCurrent` (`README.md:7`, "it allows for subscribing to the state
  changes") fails with two websockets, two servers and one change: a disconnect
  shifts the list under `publish()`'s iteration, which skips a subscriber.
* `OneWriterAtATime` (`redis_stateupdater.py:43`, "only one thread at a time can
  write or update the state") fails with two replicas, good delays, no state
  server, `Outlasts` true and one fault: a holder that outlasts its lock.
* A subscriber's `init` may be older than an event it missed; the second subscriber
  of an attribute is told nothing but `None`s; and although `proxy.py:33` says
  "only push change events", a `None` is pushed every time.
* An event without keys (after a reset) raises `KeyError` in the listener, which
  ends it; a `Proxy` that leaves before its websocket came, after the two seconds
  ("stranded"), or by an exception ("hanging") waits for the listener until the
  connection is closed at the other end.
* `command_scan` switches on (`proxy.py:158`).  A delay given to `command_on` is a
  500, a background command without one a 422 (no body where one is required):
  neither changes the server's state.
* With as many websockets as workers the plain websocket server executes no
  command any more: `Served` says nothing of that case, and TLC shows the jobs
  waiting.
* "When I command it again to switch On / Then the server should reject the
  command" (`test_on_off_tango.feature`) has the same race as `SecondIsRejected`,
  and the second command then holds the device for the whole delay of the first.
* `README.md:243` expects no problem from several replicas as far as commands go;
  over one file they would share neither of the two locks.
* `SignalledWhenFree` (`inmem_stateupdater.py:17`, "after a write, a signal is
  sent indicating the state has changed") fails with one thread and `BadDelays` true:
  a rollback is a write without a signal, and subscribers keep the BUSY that was
  signalled before.  With two threads `LockGuardsStore` and `UpdatesAreAtomic` fail
  too: the rollback takes no lock and writes its copy over another thread's update.
* Once a join has given up on a thread that lives, two server threads publish side
  by side, and an older state may come last: without `Abandoned = {}` `InOrder`
  fails in `Publishing`.
* After a send that raises, nobody publishes until the last client has left and
  another comes; a `RedisStateServer` whose thread died of it likewise.  Without
  `Died` `CompleteUntilDisconnect` and `SignalsDrain` fail.
* On a Redis that has no key yet, a first command that fails midway stays BUSY:
  its rollback is refused (`redis_stateupdater.py:81`).
* `POST /switch_on` with a body is always a 500.

Why the bounds are enough.  Two threads are the least that race, and the guards,
the lock and the updates only ever distinguish "me" from "somebody else"; the
safety part of `TwoCallers` is proved for any number (section 5), as are the
invariants and action properties of the other runs that hold.  The operations
are all there, so the store goes through every combination they can produce, a
second time round too.  In `Publishing` two websockets are a client that stays and one that comes
and goes, and the one on the list before the other shifts it under the iteration;
two server threads are one restart (a server object is started once, so `Servers`
bounds how often the last client may leave); three changes are one that is missed,
one that overtakes and one that comes after.  Three websockets with two changes,
which take much of the five minutes we allow a run, found the same.  It has temporal
properties, and so have `LoopHangs` and `Replicas`: symmetry would not be sound for
them.
`Requests` uses the two switch commands, `assign_resources` and `configure`: with
these a race can leave OFF with IDLE, where `configure` passes the endpoint's checks
and not the command's own; the other commands differ from them in the table only.  In `RedisBackend` the command table adds nothing that
`TwoCallers` has not covered, so one command is raced: a first one that fails may be
followed by a second one, and one that is carried out by one that is ignored.  One
fault is enough for a rollback over another's update and for a lock that is left
behind; two servers are one that is stopped, in whatever place, and its successor;
a notification waits while another is in its handler.  With fewer actors at a time
larger bounds found the same: no server, `reset_state` as well and two faults; and no
fault, `reset_state` as well and two notifications waiting.

In `Persisting` `switch_on` and `assign_resources` write different fields of the
file and have two and three updates; with both and a reset there are readers and
writers of every kind.  One fault is one kill between any two steps, after which
the server starts again and may run as long as it likes; runs with two faults, which take longer than is
convenient, found the same.  In `Subscriptions` two subscribers are the least
that share an attribute or differ in it, and four changes are two commands or a
reset and a command, on the way through which `state` comes back to an earlier
value; five, and a server that starts afresh, found the same.  In `Websockets` two clients on two workers are crowded and on three
are not; three states let one client receive twice.  In `Tango` two background
threads overlap each other and the device; `MaxBacklog` = 1 lets one signal wait
while the next state is written, and no bound on it, and two, found the same.

Deadlock checking is off where the system may stop: in `ConnectionManager`,
`ProxyObserver`, `WsServer` and `TangoServer` every client may have come and
gone and every change been made.

## 4. Fairness

`StateMachine` assumes weak fairness of each thread's steps: the operating system
runs a thread that can run.  Calls are not fair: nobody has to call.  `RedisBackend`
assumes the same of the workers and of the state servers taken together (less than
that each runs, and enough), and that the lock of a dead holder expires; faults,
calls and subscribers are not owed.  Neither lock
hands itself on in turn (redis-py polls), so a thread may be overtaken for as
long as others keep taking it; this is why `CallsReturn` is only claimed once
calls cease.
`ConnectionManager` assumes weak fairness of each server thread and of the event
loop, none of clients and updaters.  `FileBackend` assumes it of each worker, not
of starts, kills and failures; `ProxyObserver` of the listener and of a client
inside `subscribe()` or `listening()`, not of the server and the network; `WsServer`
of the workers, the server threads and the event loop, not of clients;
`TangoServer` of the device, its threads and the state server's thread.  `Lifecycle` demands that a command that has
begun completes or is abandoned, and `OneCaller` checks that the fairness of the
thread gives it.  The safety runs do not depend on fairness.

## 5. What is proved

Each module of proofs names the parts of an inductive invariant, proves for each
part that every action keeps it, and concludes `Spec => []IInv` (`Invariance`)
and from there the properties.  TLC found no violation of these invariants on
instances like those of section 3 before they were proved.  The theorems hold for
any constants that satisfy the module's `ASSUME`, which says what the code's types
and configuration say (the commands are commands of the table, `NoThread` is no
thread, bounds are natural numbers), and for any number of threads, replicas,
websockets, server threads, subscribers, changes and faults.  Hypotheses beyond
that are stated in the theorem and named here; section 3 says what happens
without them.

**`StateMachineProofs`** begins with lemmas on what the updates of each command do to
the stored state, going through the table command by command: an update stays in
`Store`, a transient value is only written by an update that is not its command's
last, a command that passes its guards in a resting state leads to a resting state.
The proofs about the modules that compose a `StateMachine` take the ones they need
from an instance `SMP` of this module, which also obliges them to show that their
constants satisfy its `ASSUME`.  For any threads, any of the 8 operations:

* `TypeCorrect`: `TypeOK` is invariant, whatever delays callers pass.  It needs
  `CallInv`: a thread in a call has an operation and a step within its updates;
  else `Write` would look up an update that does not exist.
* `LockStep`: a thread is between `Acquire` and `Release` exactly when the lock
  names it.
* If `BadDelays = FALSE`: `WritersHoldTheLock` (`LockGuardsStore`),
  `SignalsReflectStore` (`SignalledWhenFree`), from `CopyInv`, which says that
  nobody is rolling back, that what the lock's holder copied is still what is
  stored, and that signal and store differ only while somebody is between `Write`
  and `Signal`.
* If `BadDelays = FALSE`: `TransientsAreOwned` (`TransientHasOwner`), inductive
  relative to the ones above.  A `Write` that is a command's last one settles the
  value the command is about; one that is not makes its own thread the owner; no
  step of a thread ends another thread's command.
* If `BadDelays = FALSE`: `ImplementsAtomicCommands` (`UpdatesAreAtomic`).
  `todo[t]` is the rest of the command's update sequence from `step[t]` on; `Write`
  is the abstract update, `Atomic` (for `reset_state`, `Call`) the abstract start,
  all else stutters.
* If there is one thread, bad delays included: `OneCallerNeverWedged`
  (`NeverWedged`, if `switch_on`,
  `switch_off` and `configure` are offered, one of which every resting state admits)
  and `OneCallerFollowsLifecycle`, the safety part of `OneCallerLifecycle`.
  `OneCallerInv` says that the store at rest is one of the five resting states and,
  in a command, how far it has moved from `original`, where the command passed its
  guards; a rollback therefore ends where the command began.

**`FileBackendProofs`**, for any threads, kills, restarts, resets and bad delays:
`FileStaysReadable` (`ReadableUnlessCut`), `UpdatesCanRead` (`BegunCanRead`),
`TransientsSurvive` (`IntactUnlessMidway`), `NoUpdateLost`
(`CoherentUnlessSilent`).  `FileInv` ties an empty file to the write that has emptied
it or to a kill; `BegunInv` says that a command past `atomic()` goes on over a whole
file: one that was cut short would have stopped it there; `CopyInv` and `OwnedInv`
are those of `StateMachine`, each under the kinds of `harm` that leave it true.
`FileUpdatesAtomically` (`AtomicUnlessHarmed`) is the refinement of `AtomicCommands`,
until a kill cuts a write short (`store` then is what nobody can read any more), a
command is left midway or a write is not announced.  A kill that does none of this
ends commands that still have all of their updates before them (`Forgo`) or none any
more, which the abstraction does not notice; and by `FileStaysReadable` the restarted
server finds in the file what they have left.  `EarlyInv` says
that a thread that has not got past `atomic()` is at its first update, so that
`BeginBody` is the abstract start.

**`RedisBackendProofs`**, for any replicas and state servers, expiring locks,
crashes and bad delays: `UpdatesExclude` (`IntactUnlessBroken`), from `HeldInv`
(until `broken`, a thread is in an update exactly when the lock's key has its
token, and its copy is what is stored) and `OwnedInv`; `SubscribersCatchUp`
(`SettledIsShown`), from `ShownInv`: once every write has been announced, a server
with no notification waiting has read what is stored, and what its clients have is
that unless a stopped one came between.  It needs `ServerInv`, that only one server
has clients, however many stopped ones are still about.  `ReplicasUpdateAtomically`
(`AtomicUnlessBroken`): until `broken`, all replicas together implement
`AtomicCommands`, as the copy a holder writes from is what is stored (`HeldInv`);
a replica that dies other than midway is a stutter or `Forgo`, and the lock it
leaves behind is none of the abstraction's business.

**`FastApiServerProofs`**: `TypeCorrect`; and if `BadDelays = FALSE`,
`AnsweredRight` (`AloneIsAnsweredRight`) and `AcceptedIsCarriedOut`
(`AcceptedAloneIsCarriedOut`).  A request that is alone still starts from what
racing requests have left behind, which is not only the five resting states; the
invariant needs `OwnedInv`, so that no transient value is left when nobody is in
a command, and then follows the lone request through the decorators
(`AloneRuns`).

**`TangoServerProofs`**: `ClientIsCurrent` (`ClientCurrent`), `AnswersAreTrue` (the
action property `AnsweredIsDone`), for any background threads and delays, good or
bad.  `QueueInv` says that the queue ends with the stored state, or what was seen
is it, unless somebody is about to announce it; `HeldInv` that a command whose
last write has just been made has reached its target.  Both hold until a rollback
is the last to change the store (`undone`).

**`ConnectionManagerProofs`**, for any websockets and server threads:
`ReceivedInOrder` (`InOrder`), `StopsEndServers` (`StopsBalance`) and
`CompleteAtFirst` (`CompleteUntilDisconnect`), with sends that raise, and joins that
give up or not.
`TypeCorrect` includes that no websocket is on the list twice.  `OrderInv` says of
each client that what it has received is older than what is in the queue and, if
the iteration is still to come to it (`Awaits`), than what is being published;
`OnceInv` that the iteration does not come to it again, though the list shifts;
`SoleInv` that one server thread is live, which is what a join that gives up
destroys; `CompleteInv` which state each client must have had by now.

**`WsServerProofs`**, for any clients and states and pools of any sizes, each greater
than zero: `TypeCorrect`, which includes that no more jobs run than there are
workers, and `EachStateToOneClient` (`EachToOneClient`).  A state is in one of five places:
received, in the hand of `state_server()`, in its event queue, being published, or
in the signal queue.  `PlaceInv` says that each connection's share is ordered from
place to place; `SignalInv` that whatever has been taken from the signal queue is
older than all that is in it, so that what a server takes comes last in its share;
`ShareInv` that the shares, the queue and what was lost are disjoint and together all
that was signalled.  `AskInv` and `DistinctInv` say that a connection has at most
one `get` with the workers, and none while it has an event in hand; without
that two workers could hand over two events the wrong way round.

**`ProxyObserverProofs`**, for any commands, subscribers and changes, both kinds of
proxy, connections that fail and drop: `ChangesOnly` (`NoRepeats`),
`FirstSubscriberIsCurrent` (`OwedIsCurrent`) and `AsyncNeverStranded` (the safety
part of `StopReturns`).  The point is the one record `previous` that all
subscribers share.  `HeardInv`: it is what the *first* subscriber of an attribute
heard last, and later ones hear nothing but `None`.  `OwedInv`: a value that
`previous` remembers from before a subscriber's time is the one it was given, or
another event is still to come; which needs `ReadInv`, about what `subscribe()`
has read while events are on their way, and `UnheardInv`, about what a `Proxy`
notes while nobody subscribes.

Only model-checked: all liveness (`CallsReturn`, `LoopServesUnlessLost`,
`SignalsDrain`, `StopReturns`, `Served`, `DeviceIsFreed` and the fairness of `Lifecycle`: the prover
does no fairness), and the three runs that expect a violation.

## 6. Not modelled, and the plan

The plan is carried out: every invariant and action property of the runs that hold
is proved, the liveness properties are checked by TLC.

Left out for good: the factory and configuration (a choice made once), the
charts, logging, the wording of messages, the HTTP and websocket libraries
(modelled by what their callers rely on), and `abort`, `wait_busy`, `busy` and
`async_update_state`, which nothing calls.  Also left out: the mock websockets of
`ws_listener.py:17-117` (test doubles), entering `listening()` of one proxy a second
time (its flag or queue is not reset, so it is not meant to be), and
`TangoProxy.unsubscribe`, which calls a method that Tango's `DeviceProxy` does not
have.
