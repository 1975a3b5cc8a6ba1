--------------------------- MODULE StorletDaemon ---------------------------
(***************************************************************************)
(* The python storlet daemon (storlets/agent/daemon/server.py): one server *)
(* process that forks a child for every EXECUTE, keeps at most pool_size   *)
(* of them in task_id_to_pid, kills one on CANCEL, and waits for all of    *)
(* them before it exits.                                                   *)
(*                                                                         *)
(* The kernel's process table is part of the model: a pid may be given to  *)
(* a new child as soon as its previous owner has been reaped, and not      *)
(* before.  The task id drawn for an EXECUTE (uuid4) is the request        *)
(* itself: ids are unique.                                                 *)
(***************************************************************************)
EXTENDS SBusServer

CONSTANTS
    NoPid,       \* no entry in task_id_to_pid
    Pids,        \* the pids the kernel can hand out
    pool_size,   \* the daemon's argument: how many children may run at once
    Target       \* Target[c]: the task a CANCEL request names

ASSUME PoolAssumption == pool_size \in Nat \ {0}
ASSUME PidsAssumption == IsFiniteSet(Pids) /\ NoPid \notin Pids
ASSUME TargetAssumption ==
    Target \in [{c \in Requests : Command[c] = "CANCEL"} -> Requests]

VARIABLES
    task_id_to_pid,  \* the daemon's map; NoPid where a task has no entry
    proc,            \* the kernel's view of each pid
    work             \* the task the current owner of a pid was forked for

taskVars == <<task_id_to_pid, proc, work>>
vars == <<serverVars, taskVars>>

\* "none": free pid; "running": executes the storlet; "killed": SIGKILL is
\* pending; "zombie": ended, not yet waited for.
ProcStates == {"none", "running", "killed", "zombie"}

\* The commands with a handler: ping, execute, cancel, halt.
Handlers == {"PING", "EXECUTE", "CANCEL", "HALT"}

Tracked == {t \in Requests : task_id_to_pid[t] # NoPid}
Children == {p \in Pids : proc[p] # "none"}
Live == {p \in Pids : proc[p] \in {"running", "killed"}}

\* Forked children inherit the socket, so it outlives the daemon in them.
SocketHeld == bound \/ Live # {}

----------------------------------------------------------------------------
Init ==
    /\ ServerInit
    /\ task_id_to_pid = [t \in Requests |-> NoPid]
    /\ proc = [p \in Pids |-> "none"]
    /\ work = [p \in Pids |-> NoRequest]

\* Bug: the entry of the process that ended stays.
_remove_nothing(m, p) == m

\* Bug: all entries go when one process has ended.
_remove_all(m, p) == [t \in Requests |-> NoPid]

\* Bug: != for ==, the entry of another process goes.
_remove_other(m, p) ==
    LET entries == {t \in Requests : m[t] \notin {p, NoPid}}
    IN  IF entries = {} THEN m
        ELSE [m EXCEPT ![CHOOSE t \in entries : TRUE] = NoPid]

\* _remove_pid: pop the first entry that holds pid p, if there is one.
_remove_pid(m, p) ==
    LET entries == {t \in Requests : m[t] = p}
    IN  IF entries = {} THEN m
        ELSE [m EXCEPT ![CHOOSE t \in entries : TRUE] = NoPid]

\* _cleanup_pids: waitpid(WNOHANG) on every entry; those whose process has
\* ended are reaped and dropped, those that are no children of ours dropped.
Terminated == {t \in Tracked : proc[task_id_to_pid[t]] \in {"zombie", "none"}}

_cleanup_pids ==
    LET reaped == {task_id_to_pid[t] : t \in Terminated}
    IN  /\ task_id_to_pid' = [t \in Requests |->
                IF t \in Terminated THEN NoPid ELSE task_id_to_pid[t]]
        /\ proc' = [p \in Pids |-> IF p \in reaped THEN "none" ELSE proc[p]]

\* Bug: the loop of execute tests for one entry more than the pool holds.
PoolHasRoomForOneMore == Cardinality(Tracked) <= pool_size

\* The test of the loop in which execute waits.
PoolHasRoom == Cardinality(Tracked) < pool_size

\* _wait_child_process up to os.wait(): it blocks there unless the clean-up
\* removed an entry.
WaitChild ==
    /\ \/ pc = "execute" /\ ~PoolHasRoom
       \/ pc = "terminate" /\ Tracked # {}
    /\ _cleanup_pids
    /\ pc' = IF Terminated = {} THEN "oswait" ELSE pc
    /\ UNCHANGED <<running, loop_cnt, status, bound, inbox, cur, reply, work>>

\* os.wait() returns: some child, tracked or not, has ended and is reaped; or
\* there is no child at all (ECHILD).  The caller is the handler of cur, or
\* _terminate.
OsWait ==
    /\ pc = "oswait"
    /\ IF Children = {}
         THEN /\ task_id_to_pid' = [t \in Requests |-> NoPid]
              /\ proc' = proc
         ELSE \E p \in Pids :
                /\ proc[p] = "zombie"
                /\ proc' = [proc EXCEPT ![p] = "none"]
                /\ task_id_to_pid' = _remove_pid(task_id_to_pid, p)
    /\ pc' = IF cur = NoRequest THEN "terminate" ELSE "execute"
    /\ UNCHANGED <<running, loop_cnt, status, bound, inbox, cur, reply, work>>

\* execute, up to the loop that waits for room in the pool.
Execute(r) ==
    /\ Receive(r)
    /\ Command[r] = "EXECUTE"
    /\ pc' = "execute"
    /\ cur' = r
    /\ UNCHANGED <<running, status, bound, reply, taskVars>>

\* os.fork(): the child runs the storlet, the daemon notes its pid, closes the
\* invocation fds and answers with the task id.
Fork ==
    /\ pc = "execute"
    /\ PoolHasRoom
    /\ \E p \in Pids :
        /\ proc[p] = "none"
        /\ proc' = [proc EXCEPT ![p] = "running"]
        /\ work' = [work EXCEPT ![p] = cur]
        /\ task_id_to_pid' = [task_id_to_pid EXCEPT ![cur] = p]
    /\ Respond(cur, "ok", TRUE)
    /\ UNCHANGED <<running, loop_cnt, inbox>>

\* Bug: the exception is logged and nothing is answered.
ForkFailsSilently ==
    /\ pc = "execute"
    /\ PoolHasRoom
    /\ pc' = LoopTop
    /\ cur' = NoRequest
    /\ UNCHANGED <<running, loop_cnt, status, bound, inbox, reply, taskVars>>

\* os.fork() raises: 'Internal error' is answered.
ForkFails ==
    /\ pc = "execute"
    /\ PoolHasRoom
    /\ Respond(cur, "fail", TRUE)
    /\ UNCHANGED <<running, loop_cnt, inbox, taskVars>>

\* cancel: SIGKILL to the task's process and drop its entry.  The daemon
\* leaves its main loop whatever the outcome.
Cancel(c) ==
    LET p == task_id_to_pid[Target[c]]
    IN  /\ Receive(c)
        /\ Command[c] = "CANCEL"
        /\ IF p = NoPid \/ proc[p] = "none"
             THEN /\ Respond(c, "fail", FALSE)
                  /\ UNCHANGED <<task_id_to_pid, proc>>
             ELSE /\ Respond(c, "ok", FALSE)
                  /\ proc' = [proc EXCEPT ![p] = IF @ = "running" THEN "killed" ELSE @]
                  /\ task_id_to_pid' = _remove_pid(task_id_to_pid, p)
        /\ UNCHANGED <<running, work>>

\* halt: acknowledge and leave the main loop.
Halt(r) ==
    /\ Receive(r)
    /\ Command[r] = "HALT"
    /\ Respond(r, "ok", FALSE)
    /\ UNCHANGED <<running, taskVars>>

\* Bug: _terminate does not wait.
ExitAtOnce ==
    /\ pc = "terminate"
    /\ pc' = "exited"
    /\ bound' = FALSE
    /\ UNCHANGED <<running, loop_cnt, status, inbox, cur, reply, taskVars>>

\* _terminate has no child left to wait for: main_loop returns, the process
\* exits.
Exit ==
    /\ pc = "terminate"
    /\ Tracked = {}
    /\ pc' = "exited"
    /\ bound' = FALSE
    /\ UNCHANGED <<running, loop_cnt, status, inbox, cur, reply, taskVars>>

\* SIGTERM, _force_shutdown: killpg(0, SIGKILL) ends the daemon and strikes
\* every child.
SigTerm ==
    /\ pc \notin Ended \cup {"create"}
    /\ DieWith({cur} \cap Requests)
    /\ proc' = [p \in Pids |-> IF proc[p] = "running" THEN "killed" ELSE proc[p]]
    /\ UNCHANGED <<running, loop_cnt, inbox, task_id_to_pid, work>>

----------------------------------------------------------------------------
\* A child that ends stays a zombie until the daemon waits for it; nobody waits
\* for an orphan, which is then counted as gone.
AfterEnd == IF pc \in Ended THEN "none" ELSE "zombie"

\* _execute returns, normally or by an exception: sys.exit() in the child.
ChildExit(p) ==
    /\ proc[p] = "running"
    /\ proc' = [proc EXCEPT ![p] = AfterEnd]
    /\ UNCHANGED <<serverVars, task_id_to_pid, work>>

\* The pending SIGKILL takes effect.
ChildDies(p) ==
    /\ proc[p] = "killed"
    /\ proc' = [proc EXCEPT ![p] = AfterEnd]
    /\ UNCHANGED <<serverVars, task_id_to_pid, work>>

----------------------------------------------------------------------------
\* A gateway cancels only a task whose id it was given.
ClientSend(r) ==
    /\ Command[r] = "CANCEL" => reply[Target[r]] = "ok"
    /\ Send(r, SocketHeld)
    /\ UNCHANGED taskVars

Server ==
    \/ WaitChild \/ OsWait \/ Fork \/ ForkFails \/ Exit
    \/ /\ Create \/ ListenTimeout
       /\ UNCHANGED taskVars
    \/ \E r \in Requests :
        \/ Execute(r) \/ Cancel(r) \/ Halt(r)
        \/ /\ Ping(r) \/ Unsupported(r, Handlers) \/ ReceiveGarbled(r)
           /\ UNCHANGED taskVars

Signals ==
    \/ SigTerm
    \/ (SigHup \/ ListenFails) /\ UNCHANGED taskVars

Next ==
    \/ Server
    \/ Signals
    \/ \E p \in Pids : ChildExit(p) \/ ChildDies(p)
    \/ \E r \in Requests :
        \/ ClientSend(r)
        \/ ClientGone(r) /\ UNCHANGED taskVars
    \/ QueueDropped(SocketHeld) /\ UNCHANGED taskVars

Spec == Init /\ [][Next]_vars

\* The server process is scheduled and the kernel delivers signals and drops
\* dead sockets; storlets may run for ever, clients may do nothing.
KernelFairness ==
    /\ WF_vars(Server)
    /\ WF_vars(QueueDropped(SocketHeld) /\ UNCHANGED taskVars)
    /\ \A p \in Pids : WF_vars(ChildDies(p))

\* As above, and every storlet returns or is cancelled.
StorletsReturn == \A p \in Pids : WF_vars(ChildExit(p))

FairSpec == Spec /\ KernelFairness /\ StorletsReturn

----------------------------------------------------------------------------
\* Type invariant of the daemon's state (StorletDaemon.__init__ and the
\* kernel's process table).
TypeOK ==
    /\ ServerTypeOK({"execute", "oswait"})
    /\ task_id_to_pid \in [Requests -> Pids \cup {NoPid}]
    /\ proc \in [Pids -> ProcStates]
    /\ work \in [Pids -> Requests \cup {NoRequest}]

\* The pool is never oversubscribed: at most pool_size storlets run at any
\* time, the daemon's exits and crashes included; one that was cancelled does
\* not count (the wait loop of execute).
PoolBound == Cardinality({p \in Pids : proc[p] = "running"}) <= pool_size

\* An entry of task_id_to_pid never outlives its child: the pid in it is an
\* unreaped child of the daemon, forked for that very task, so that a reused
\* pid can never be signalled or awaited in its stead (_cleanup_pids,
\* _remove_pid, cancel).
EntriesAreOwn ==
    pc \notin Ended =>
        \A t \in Tracked : /\ proc[task_id_to_pid[t]] # "none"
                           /\ work[task_id_to_pid[t]] = t

\* No running storlet is forgotten: while the daemon lives each of them is
\* in the map, so _terminate waits for it and cancel can find it.
NoStorletForgotten ==
    pc \notin Ended =>
        \A p \in Pids : proc[p] = "running" => \E t \in Tracked : task_id_to_pid[t] = p

\* When main_loop() has returned no storlet is running any more
\* (_wait_all_child_processes).
ExitLeavesNoStorlet == pc = "exited" => \A p \in Pids : proc[p] # "running"

\* What a client has read is final: no request is answered twice, none is
\* answered after its pipe was closed.
AnsweredOnce ==
    [][\A r \in Requests :
         reply[r] \in {"ok", "fail", "eof", "refused"} => reply'[r] = reply[r]]_vars

\* A storlet is struck down only by a CANCEL that names its own task, whatever
\* pids were reused in between, or by a SIGTERM that ends the daemon.
KilledOnlyByItsCancel ==
    [][\A p \in Pids :
         proc[p] = "running" /\ proc'[p] = "killed" =>
            \/ pc' = "dead" /\ inbox' = inbox
            \/ /\ inbox # <<>>
               /\ Command[Head(inbox)] = "CANCEL"
               /\ work[p] = Target[Head(inbox)]]_vars

\* A daemon that gets no more requests goes away, by its idle timeout at the
\* latest, once its storlets have returned.
DaemonEnds == <>(pc \in Ended)

----------------------------------------------------------------------------
(***************************************************************************)
(* What the gateways see of all this is a pool of tasks.                   *)
(***************************************************************************)
Tasks == {r \in Requests : Command[r] = "EXECUTE"}

\* Tasks are begun until the daemon leaves its main loop.
Open == pc \notin Ended \cup {"terminate"} /\ ~(pc = "oswait" /\ cur = NoRequest)
Begun == {t \in Tasks : reply[t] = "ok" \/ \E p \in Pids : work[p] = t}
In(state) == {t \in Tasks : \E p \in Pids : proc[p] = state /\ work[p] = t}

Pool == INSTANCE TaskPool WITH
    size <- pool_size, open <- Open, begun <- Begun,
    running <- In("running"), struck <- In("killed")

\* The daemon is a TaskPool: however datagrams, forks, deaths, reused pids and
\* signals interleave, no task is begun twice, none beyond the size of the pool
\* or once the daemon has left its main loop, and a CANCEL strikes one task and
\* ends the pool (execute, cancel, _wait_child_process, _terminate).
ImplementsTaskPool == Pool!Spec
============================================================================
