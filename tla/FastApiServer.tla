--------------------------- MODULE FastApiServer ----------------------------
(***************************************************************************)
(* The REST endpoints (mv/_server/_fast_api_server/fast_api_server.py)     *)
(* over the state machine.  Each request has a worker thread.  A           *)
(* foreground endpoint runs its command and answers with what became of    *)
(* it; a background endpoint looks at the machine, answers, and only then  *)
(* runs the command, whose outcome nobody sees.                            *)
(***************************************************************************)
EXTENDS Commands

CONSTANTS Threads, NoThread, CommandSet, BadDelays

\* No endpoint calls reset_state.
ASSUME ServerAssumption ==
    /\ NoThread \notin Threads
    /\ CommandSet \subseteq SwitchCommands \cup ObsCommands
    /\ BadDelays \in BOOLEAN

VARIABLES
    store, lock, signalled, pc, op, step, original, local, result,
    phase,      \* where each request stands
    endpoint,   \* whether it is answered after or before its command
    command,    \* the command it asks for
    status,     \* the HTTP status it was answered with
    alone,      \* history: whether no other request has overlapped with it
    before      \* history: if so, the stored state when it came in

SM == INSTANCE StateMachine

requestVars == <<phase, endpoint, command, status, alone, before>>
vars == <<store, lock, signalled, pc, op, step, original, local, result,
          phase, endpoint, command, status, alone, before>>

Phases == {"none", "assert_ready", "assert_allowed", "raises", "task",
           "running", "done"}

Endpoints == {"none", "foreground", "background", "broken"}

TypeOK ==
    /\ SM!TypeOK
    /\ phase \in [Threads -> Phases]
    /\ endpoint \in [Threads -> Endpoints]
    /\ command \in [Threads -> CommandSet \cup {"none"}]
    /\ status \in [Threads -> {0, 200, 405, 500}]
    /\ before \in [Threads -> Store]
    /\ alone \in [Threads -> BOOLEAN]

Init ==
    /\ SM!Init
    /\ phase = [t \in Threads |-> "none"]
    /\ endpoint = [t \in Threads |-> "none"]
    /\ command = [t \in Threads |-> "none"]
    /\ status = [t \in Threads |-> 0]
    /\ before = [t \in Threads |-> Cleared]
    /\ alone = [t \in Threads |-> FALSE]

-----------------------------------------------------------------------------
\* A request comes in.

Open(t, c, e, p) ==
    /\ phase[t] = "none"
    /\ phase' = [phase EXCEPT ![t] = p]
    /\ endpoint' = [endpoint EXCEPT ![t] = e]
    /\ command' = [command EXCEPT ![t] = c]
    /\ alone' = [u \in Threads |->
                    u = t /\ \A v \in Threads : phase[v] = "none"]
    /\ before' = [u \in Threads |-> IF alone'[u] THEN store ELSE Cleared]
    /\ UNCHANGED status

MachineUnchanged ==
    UNCHANGED <<store, lock, signalled, pc, op, step, original, local, result>>

\* @app.post("/<command>")
Post(t, c) == Open(t, c, "foreground", "running") /\ SM!Call(t, c)

\* @app.post("/switch_on") with a body: the model it is parsed into has no
\* get(), and the endpoint raises before it reaches the state machine.
PostSwitchOnBody(t) ==
    /\ "switch_on" \in CommandSet
    /\ Open(t, "switch_on", "broken", "raises")
    /\ MachineUnchanged

\* @app.post("/background_<command>")
PostBackground(t, c) ==
    /\ Open(t, c, "background", "assert_ready")
    /\ MachineUnchanged

-----------------------------------------------------------------------------
\* A background endpoint's own checks, made before it answers.  Those for the
\* switch commands only look at the lock.

Answer(t, p, s) ==
    /\ phase' = [phase EXCEPT ![t] = p]
    /\ status' = [status EXCEPT ![t] = s]
    /\ UNCHANGED <<endpoint, command, before, alone>>
    /\ MachineUnchanged

AssertReady(t) ==
    /\ phase[t] = "assert_ready"
    /\ \/ lock # NoThread /\ Answer(t, "done", 405)
       \/ /\ lock = NoThread /\ command[t] \in SwitchCommands
          /\ Answer(t, "task", 200)
       \/ /\ lock = NoThread /\ command[t] \in ObsCommands
          /\ Answer(t, "assert_allowed", 0)

\* Mutant of AssertMethodAllowed: the endpoint does not check the method.
MethodNotAsserted(t) == phase[t] = "assert_allowed" /\ Answer(t, "task", 200)

AssertMethodAllowed(t) ==
    /\ phase[t] = "assert_allowed"
    /\ \/ Allowed(command[t], store) /\ Answer(t, "task", 200)
       \/ /\ HasEntry(store) /\ ~Allowed(command[t], store)
          /\ Answer(t, "done", 405)
       \/ ~HasEntry(store) /\ Answer(t, "done", 500)

RaiseInEndpoint(t) == phase[t] = "raises" /\ Answer(t, "done", 500)

\* The background task starts once the answer is out.
RunTask(t) ==
    /\ phase[t] = "task"
    /\ SM!Call(t, command[t])
    /\ phase' = [phase EXCEPT ![t] = "running"]
    /\ UNCHANGED <<endpoint, command, status, before, alone>>

-----------------------------------------------------------------------------
\* Mutant of StatusOf: CommandNotAllowed has no exception handler.
StatusOfOneHandler(r) == CASE r \in {"ok", "ignored"} -> 200
                           [] r = "busy_error"        -> 405
                           [] OTHER                   -> 500

\* The command's call has returned or raised.  Two exception handlers turn the
\* state machine's own exceptions into a 405; an exception in a background
\* task changes no answer.
StatusOf(r) == CASE r \in {"ok", "ignored"}              -> 200
                 [] r \in {"busy_error", "not_allowed"} -> 405
                 [] OTHER                               -> 500

Finish(t) ==
    /\ phase[t] = "running"
    /\ pc[t] = "idle"
    /\ Answer(t, "done", IF endpoint[t] = "foreground"
                         THEN StatusOf(result[t]) ELSE status[t])

\* The request is forgotten.
Close(t) ==
    /\ phase[t] = "done"
    /\ phase' = [phase EXCEPT ![t] = "none"]
    /\ endpoint' = [endpoint EXCEPT ![t] = "none"]
    /\ command' = [command EXCEPT ![t] = "none"]
    /\ status' = [status EXCEPT ![t] = 0]
    /\ before' = [before EXCEPT ![t] = Cleared]
    /\ alone' = [alone EXCEPT ![t] = FALSE]
    /\ MachineUnchanged

Run(t) == SM!Step(t) /\ UNCHANGED requestVars

RequestStep(t) ==
    \/ AssertReady(t) \/ AssertMethodAllowed(t) \/ RaiseInEndpoint(t)
    \/ RunTask(t) \/ Run(t) \/ Finish(t) \/ Close(t)

Request(t) == \/ PostSwitchOnBody(t)
              \/ \E c \in CommandSet : Post(t, c) \/ PostBackground(t, c)

Next == \E t \in Threads : Request(t) \/ RequestStep(t)

Spec == Init /\ [][Next]_vars

-----------------------------------------------------------------------------
\* Would the decorators let c through in the stored state s?
Admitted(c, s) == Allowed(c, s) /\ (c \in ObsCommands => s.state = "ON")

\* A foreground request that no other one overlapped is answered by the state
\* it found: 200 if its command is ignored or admitted there, else 405; and
\* only an admitted one has changed anything.
AloneIsAnsweredRight ==
    \A t \in Threads :
        alone[t] /\ phase[t] = "done" /\ endpoint[t] = "foreground" =>
            LET c == command[t]  s == before[t] IN
            /\ status[t] = IF Ignored(c, s) \/ Admitted(c, s) THEN 200 ELSE 405
            /\ store # s => Admitted(c, s) /\ ~Ignored(c, s)

\* A background command on obs_state that was accepted with no other request
\* about is carried out to its end, if the machine is on.  If it is not, which
\* requests that overlapped before may have brought about, the endpoint has not
\* looked, and the command is refused where nobody sees it.
AcceptedAloneIsCarriedOut ==
    \A t \in Threads :
        /\ alone[t] /\ phase[t] = "done" /\ endpoint[t] = "background"
        /\ command[t] \in ObsCommands
        /\ status[t] = 200
        => result[t] = IF before[t].state = "ON" THEN "ok" ELSE "not_allowed"

\* "Because we return immediately we have to check the state before pushing
\* command to background task": what was accepted is not refused afterwards.
AcceptedIsNotRefused ==
    \A t \in Threads :
        endpoint[t] = "background" /\ status[t] = 200 /\ phase[t] = "done" =>
            result[t] \in {"ok", "ignored"}

\* A command that comes while an accepted background command is being carried
\* out is rejected or ignored (test_on_off.feature, test_assign_resources.feature).
Executing(t) == phase[t] = "running" /\
                pc[t] \in {"acquire", "locked", "written", "signalled"}

SecondIsRejected ==
    \A t, u \in Threads :
        t # u /\ endpoint[t] = "background" =>
            ~(Executing(t) /\ Executing(u))

=============================================================================
