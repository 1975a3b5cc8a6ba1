----------------------------- MODULE TaskPool -----------------------------
(***************************************************************************)
(* What a storlet daemon promises the gateways, without processes, pids,   *)
(* pipes or messages: a pool in which each task is begun at most once, at  *)
(* most `size' of them run together, a cancel strikes down one of them and *)
(* closes the pool, and a closed pool begins no task any more.             *)
(***************************************************************************)
EXTENDS Naturals, FiniteSets

CONSTANTS Tasks, size

VARIABLES
    open,     \* tasks may still begin
    begun,    \* the tasks that were ever begun
    running,  \* those whose storlet runs
    struck    \* those that were killed and are not gone yet

vars == <<open, begun, running, struck>>

Init == open = TRUE /\ begun = {} /\ running = {} /\ struck = {}

\* The pool may close with the step: its process can fail to tell the client.
Begin(t) ==
    /\ open /\ t \notin begun
    /\ Cardinality(running) < size
    /\ begun' = begun \cup {t} /\ running' = running \cup {t}
    /\ open' \in BOOLEAN
    /\ struck' = struck

Finish(t) == t \in running /\ running' = running \ {t} /\ UNCHANGED <<open, begun, struck>>

Gone(t) == t \in struck /\ struck' = struck \ {t} /\ UNCHANGED <<open, begun, running>>

Cancel(t) ==
    /\ open /\ t \in running
    /\ running' = running \ {t} /\ struck' = struck \cup {t}
    /\ open' = FALSE
    /\ begun' = begun

\* The pool is killed and every task with it.
Kill ==
    /\ running' = {} /\ struck' = struck \cup running
    /\ open' = FALSE
    /\ begun' = begun

Close == open /\ open' = FALSE /\ UNCHANGED <<begun, running, struck>>

Next ==
    \/ \E t \in Tasks : Begin(t) \/ Finish(t) \/ Gone(t) \/ Cancel(t)
    \/ Kill \/ Close

Spec == Init /\ [][Next]_vars
============================================================================
