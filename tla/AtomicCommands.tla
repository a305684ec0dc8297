--------------------------- MODULE AtomicCommands ---------------------------
(***************************************************************************)
(* What an updater promises the state machine, whatever lock and copies it *)
(* uses inside: each update is one atomic read-modify-write of the stored  *)
(* state, and the updates of one command are applied once each and in      *)
(* order.  Commands of different threads may interleave between updates;   *)
(* which commands are admitted is not this specification's business.       *)
(***************************************************************************)
EXTENDS Commands

CONSTANTS Threads, CommandSet

VARIABLES store,   \* the stored state
          todo     \* for each thread, the updates its command has yet to do

absVars == <<store, todo>>

Init == /\ store = Cleared
        /\ todo = [t \in Threads |-> <<>>]

Start(t, c) == /\ todo[t] = <<>>
               /\ todo' = [todo EXCEPT ![t] = Steps[c]]
               /\ UNCHANGED store

Update(t) == /\ todo[t] # <<>>
             /\ store' = Updated(store, Head(todo[t]))
             /\ todo' = [todo EXCEPT ![t] = Tail(@)]

\* Where processes die: commands end before their first update.
Forgo == /\ \A t \in Threads :
               \/ todo'[t] = todo[t]
               \/ (\E c \in CommandSet : todo[t] = Steps[c]) /\ todo'[t] = <<>>
         /\ UNCHANGED store

Next == \E t \in Threads : Update(t) \/ \E c \in CommandSet : Start(t, c)

Spec == Init /\ [][Next]_absVars

=============================================================================
