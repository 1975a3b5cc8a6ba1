----------------------- MODULE StorletDaemonFactory -----------------------
(***************************************************************************)
(* The daemon factory (storlets/agent/daemon_factory/server.py), process 1 *)
(* of a sandbox: it starts one daemon process per storlet, pings it until  *)
(* it serves, tells whether it runs, kills it, and halts all daemons       *)
(* before it leaves.                                                       *)
(*                                                                         *)
(* The daemons are seen from outside: processes that bind their pipe some  *)
(* time after they were started, answer PING and HALT while they serve,    *)
(* and may end at any moment.  A daemon that ends abruptly can leave       *)
(* storlet processes behind, which keep its socket open and silent.        *)
(***************************************************************************)
EXTENDS SBusServer

CONSTANTS
    Storlets,     \* storlet names
    NoStorlet,
    Storlet,      \* Storlet[r]: params['storlet_name'] of a daemon command
    Pids,         \* pids of daemon processes
    NoPid,        \* not a pid: no entry, no process
    Orphans,      \* not a pid: storlet processes that outlived their daemon
    Tries,        \* NUM_OF_TRIES_PINGING_STARTING_DAEMON, 10 in the code
    PidReuse,     \* whether the kernel hands out a pid again
    LoggerFails   \* whether the `logger' process may fail to start

DaemonCommands == {"START_DAEMON", "STOP_DAEMON", "DAEMON_STATUS"}
ASSUME NamesAssumption == NoPid \notin Pids /\ Orphans \notin Pids /\ Orphans # NoPid
ASSUME StorletsAssumption == NoStorlet \notin Storlets
ASSUME TriesAssumption == Tries \in Nat \ {0}
ASSUME StorletAssumption ==
    Storlet \in [{r \in Requests : Command[r] \in DaemonCommands} -> Storlets]

VARIABLES
    storlet_name_to_pid,  \* the factory's map; NoPid where there is no entry
    proc,      \* the kernel's view of each pid
    runs,      \* the storlet the (last) owner of a pid was started for
    pipe,      \* who holds the socket a storlet's pipe path leads to
    orphaned,  \* storlets with processes left behind by a dead daemon
    at,        \* the storlet the factory is starting or shutting down
    child,     \* the pid it has just started
    peer,      \* whose answer to PING or HALT it is waiting for
    tries,     \* pings left
    todo,      \* storlets still to shut down
    failed     \* storlets whose shutdown failed

daemonVars == <<proc, runs, pipe, orphaned>>
workVars == <<at, child, peer, tries, todo, failed>>
factoryVars == <<storlet_name_to_pid, daemonVars, workVars>>
vars == <<serverVars, factoryVars>>

\* "starting": not bound yet; "serving": in its main loop; "leaving": out of
\* it, socket still open; "killed": SIGKILL pending; "zombie": not waited for.
Alive == {"starting", "serving", "leaving", "killed"}
ProcStates == Alive \cup {"none", "zombie"}

Handlers == DaemonCommands \cup {"PING", "STOP_DAEMONS", "HALT"}
HandlerPcs == {"spawn", "check", "ping", "pingwait", "shutdown", "haltwait", "waitpid"}

Tracked == {s \in Storlets : storlet_name_to_pid[s] # NoPid}

----------------------------------------------------------------------------
Init ==
    /\ ServerInit
    /\ storlet_name_to_pid = [s \in Storlets |-> NoPid]
    /\ proc = [p \in Pids |-> "none"]
    /\ runs = [p \in Pids |-> NoStorlet]
    /\ pipe = [s \in Storlets |-> NoPid]
    /\ orphaned = {}
    /\ at = NoStorlet /\ child = NoPid /\ peer = NoPid
    /\ tries = 0 /\ todo = {} /\ failed = {}

\* Bug: a daemon runs as long as it is in the map.
RunningByMap(p) == p # NoPid

\* get_process_status_by_pid: waitpid(WNOHANG) says "runs" of a child that has
\* not ended, reaps one that has, and fails with ECHILD on anything else.
Running(p) == p # NoPid /\ proc[p] \in Alive
Reap(p) == proc' = [q \in Pids |-> IF q = p /\ proc[q] = "zombie" THEN "none" ELSE proc[q]]

\* daemon_status: the entry stays in the map whatever the answer.
DaemonStatus(r) ==
    LET p == storlet_name_to_pid[Storlet[r]]
    IN  /\ Receive(r)
        /\ Command[r] = "DAEMON_STATUS"
        /\ Respond(r, IF Running(p) THEN "ok" ELSE "fail", TRUE)
        /\ Reap(p)
        /\ UNCHANGED <<running, storlet_name_to_pid, runs, pipe, orphaned, workVars>>

\* start_daemon up to the decision to spawn: failure for a language that is
\* not supported, nothing to do for a daemon that already runs.
StartDaemon(r) ==
    LET p == storlet_name_to_pid[Storlet[r]]
    IN  /\ Receive(r)
        /\ Command[r] = "START_DAEMON"
        /\ \/ Respond(r, "fail", TRUE) /\ UNCHANGED <<proc, at>>
           \/ Running(p) /\ Respond(r, "ok", TRUE) /\ UNCHANGED <<proc, at>>
           \/ /\ ~Running(p)
              /\ Reap(p)
              /\ pc' = "spawn" /\ cur' = r /\ at' = Storlet[r]
              /\ UNCHANGED <<status, bound, reply>>
        /\ UNCHANGED <<running, storlet_name_to_pid, runs, pipe, orphaned,
                       child, peer, tries, todo, failed>>

\* subprocess.Popen first polls the processes started before it (_cleanup),
\* which reaps those that have ended.
Reaped == [q \in Pids |-> IF proc[q] = "zombie" THEN "none" ELSE proc[q]]

Popen(p) ==
    /\ Reaped[p] = "none"
    /\ PidReuse \/ runs[p] = NoStorlet
    /\ proc' = [Reaped EXCEPT ![p] = "starting"]
    /\ runs' = [runs EXCEPT ![p] = at]

\* spawn_subprocess: start the daemon, then the logger it is piped into.  When
\* the logger cannot be started the daemon runs on and is not in the map.
Spawn ==
    /\ pc = "spawn"
    /\ \E p \in Pids :
        /\ Popen(p)
        /\ \/ pc' = "check" /\ child' = p /\ UNCHANGED <<status, bound, cur, reply, at>>
           \/ LoggerFails /\ Respond(cur, "fail", TRUE) /\ child' = child /\ at' = NoStorlet
    /\ UNCHANGED <<running, loop_cnt, inbox, storlet_name_to_pid, pipe, orphaned,
                   peer, tries, todo, failed>>

\* The runtime is not there, or Popen of the daemon raises OSError.
SpawnFails ==
    /\ pc = "spawn"
    /\ proc' \in {proc, Reaped}
    /\ Respond(cur, "fail", TRUE)
    /\ at' = NoStorlet
    /\ UNCHANGED <<running, loop_cnt, inbox, storlet_name_to_pid, runs, pipe, orphaned,
                   child, peer, tries, todo, failed>>

\* Bug: the pid is kept only after the daemon has answered a ping.
CheckSpawnedUntracked ==
    /\ pc = "check"
    /\ child' = NoPid
    /\ IF Running(child)
         THEN pc' = "ping" /\ tries' = Tries /\ UNCHANGED <<status, bound, cur, reply, at>>
         ELSE Respond(cur, "fail", TRUE) /\ at' = NoStorlet /\ tries' = tries
    /\ Reap(child)
    /\ UNCHANGED <<running, loop_cnt, inbox, storlet_name_to_pid, runs, pipe, orphaned,
                   peer, todo, failed>>

\* One second later: a daemon that has already ended is an error, one that has
\* not is entered into the map and will be pinged.
CheckSpawned ==
    /\ pc = "check"
    /\ child' = NoPid
    /\ IF Running(child)
         THEN /\ storlet_name_to_pid' = [storlet_name_to_pid EXCEPT ![at] = child]
              /\ pc' = "ping" /\ tries' = Tries
              /\ UNCHANGED <<status, bound, cur, reply, at>>
         ELSE /\ Respond(cur, "fail", TRUE) /\ at' = NoStorlet
              /\ UNCHANGED <<storlet_name_to_pid, tries>>
    /\ Reap(child)
    /\ UNCHANGED <<running, loop_cnt, inbox, runs, pipe, orphaned, peer, todo, failed>>

\* spawn_subprocess returns or raises: the Popen object is collected, which
\* polls the daemon once more, and START_DAEMON is answered.
StartReturns(answer) ==
    /\ Respond(cur, answer, TRUE)
    /\ Reap(storlet_name_to_pid[at])
    /\ at' = NoStorlet /\ peer' = NoPid /\ tries' = 0
    /\ UNCHANGED <<running, loop_cnt, inbox, storlet_name_to_pid, runs, pipe, orphaned,
                   child, todo, failed>>

\* wait_for_daemon_to_initialize, one attempt: nobody behind the pipe is a
\* SendError, tried again; otherwise the factory blocks until it is answered.
Ping1 ==
    /\ pc = "ping"
    /\ tries > 0
    /\ tries' = tries - 1
    /\ IF pipe[at] = NoPid THEN pc' = pc /\ peer' = peer
                           ELSE pc' = "pingwait" /\ peer' = pipe[at]
    /\ UNCHANGED <<running, loop_cnt, status, bound, inbox, cur, reply,
                   storlet_name_to_pid, daemonVars, at, child, todo, failed>>

\* The last attempt failed: START fails, the entry stays in the map.
PingGivesUp == pc = "ping" /\ tries = 0 /\ StartReturns("fail")

\* The daemon answered the ping.
PingAnswered ==
    /\ pc = "pingwait"
    /\ peer \in Pids /\ proc[peer] = "serving"
    /\ StartReturns("ok")

\* Bug: the exception of the ping is logged and START is not answered.
PingUnansweredSilent ==
    /\ pc = "pingwait"
    /\ peer = NoPid
    /\ pc' = LoopTop /\ cur' = NoRequest /\ at' = NoStorlet /\ tries' = 0
    /\ UNCHANGED <<running, loop_cnt, status, bound, inbox, reply, storlet_name_to_pid,
                   daemonVars, child, peer, todo, failed>>

\* The pipe was closed unanswered: a malformed response, no further attempt.
PingUnanswered == pc = "pingwait" /\ peer = NoPid /\ StartReturns("fail")

----------------------------------------------------------------------------
\* process_kill on the entries of S: kill(2) fails (ESRCH) on a pid that was
\* reaped, and the entry stays; otherwise the entry goes, and the process with
\* it: at once, or when the signal is delivered after the waitpid.
Killable(S) == {s \in S : proc[storlet_name_to_pid[s]] # "none"}

\* Bug: SIGHUP instead of SIGKILL.
ProcessHangUp(S) ==
    LET struck == {storlet_name_to_pid[s] : s \in Killable(S)}
    IN  /\ storlet_name_to_pid' =
               [s \in Storlets |-> IF s \in Killable(S) THEN NoPid ELSE storlet_name_to_pid[s]]
        /\ proc' = [p \in Pids |-> IF p \notin struck THEN proc[p]
                                   ELSE IF proc[p] = "zombie" THEN "none" ELSE "leaving"]

ProcessKill(S) ==
    LET struck == {storlet_name_to_pid[s] : s \in Killable(S)}
    IN  /\ storlet_name_to_pid' =
               [s \in Storlets |-> IF s \in Killable(S) THEN NoPid ELSE storlet_name_to_pid[s]]
        /\ proc' = [p \in Pids |-> IF p \notin struck THEN proc[p]
                                   ELSE IF proc[p] = "zombie" THEN "none" ELSE "killed"]

\* stop_daemon.
StopDaemon(r) ==
    LET S == {Storlet[r]} \cap Tracked
    IN  /\ Receive(r)
        /\ Command[r] = "STOP_DAEMON"
        /\ Respond(r, IF Killable(S) = {} THEN "fail" ELSE "ok", TRUE)
        /\ ProcessKill(S)
        /\ UNCHANGED <<running, runs, pipe, orphaned, workVars>>

\* stop_daemons: process_kill_all, then leave the main loop.
StopDaemons(r) ==
    /\ Receive(r)
    /\ Command[r] = "STOP_DAEMONS"
    /\ Respond(r, IF Killable(Tracked) = Tracked THEN "ok" ELSE "fail", FALSE)
    /\ ProcessKill(Tracked)
    /\ UNCHANGED <<running, runs, pipe, orphaned, workVars>>

----------------------------------------------------------------------------
\* halt: shutdown_all_processes on behalf of a client.
Halt(r) ==
    /\ Receive(r)
    /\ Command[r] = "HALT"
    /\ pc' = "shutdown" /\ cur' = r
    /\ todo' = Tracked /\ failed' = {}
    /\ UNCHANGED <<running, status, bound, reply, storlet_name_to_pid, daemonVars,
                   at, child, peer, tries>>

\* Bug: nothing is shut down on the way out.
TerminateNothing ==
    /\ pc = "terminate"
    /\ pc' = "shutdown"
    /\ todo' = {} /\ failed' = {}
    /\ UNCHANGED <<running, loop_cnt, status, bound, inbox, cur, reply,
                   storlet_name_to_pid, daemonVars, at, child, peer, tries>>

\* _terminate: shutdown_all_processes once more, on the way out.
Terminate ==
    /\ pc = "terminate"
    /\ pc' = "shutdown"
    /\ todo' = Tracked /\ failed' = {}
    /\ UNCHANGED <<running, loop_cnt, status, bound, inbox, cur, reply,
                   storlet_name_to_pid, daemonVars, at, child, peer, tries>>

\* Bug: a daemon that cannot be reached is taken for one that has ended.
HaltSendForgiving(s) ==
    /\ pc = "shutdown"
    /\ s \in todo
    /\ todo' = todo \ {s}
    /\ IF pipe[s] = NoPid THEN UNCHANGED <<pc, at, peer>>
                          ELSE pc' = "haltwait" /\ at' = s /\ peer' = pipe[s]
    /\ UNCHANGED <<running, loop_cnt, status, bound, inbox, cur, reply,
                   storlet_name_to_pid, daemonVars, child, tries, failed>>

\* shutdown_process: send HALT through the pipe of the storlet.
HaltSend(s) ==
    /\ pc = "shutdown"
    /\ s \in todo
    /\ todo' = todo \ {s}
    /\ IF pipe[s] = NoPid
         THEN failed' = failed \cup {s} /\ UNCHANGED <<pc, at, peer>>
         ELSE failed' = failed /\ pc' = "haltwait" /\ at' = s /\ peer' = pipe[s]
    /\ UNCHANGED <<running, loop_cnt, status, bound, inbox, cur, reply,
                   storlet_name_to_pid, daemonVars, child, tries>>

\* The daemon acknowledges HALT and leaves its main loop.
HaltAnswered ==
    /\ pc = "haltwait"
    /\ peer \in Pids /\ proc[peer] = "serving"
    /\ proc' = [proc EXCEPT ![peer] = "leaving"]
    /\ pc' = "waitpid" /\ peer' = NoPid
    /\ UNCHANGED <<running, loop_cnt, status, bound, inbox, cur, reply,
                   storlet_name_to_pid, runs, pipe, orphaned, at, child, tries, todo, failed>>

HaltUnanswered ==
    /\ pc = "haltwait"
    /\ peer = NoPid
    /\ pc' = "shutdown" /\ failed' = failed \cup {at} /\ at' = NoStorlet
    /\ UNCHANGED <<running, loop_cnt, status, bound, inbox, cur, reply,
                   storlet_name_to_pid, daemonVars, child, peer, tries, todo>>

\* waitpid(dmn_pid, 0): reap the daemon and drop its entry; ECHILD when it was
\* reaped before.
WaitDaemon ==
    LET p == storlet_name_to_pid[at]
    IN  /\ pc = "waitpid"
        /\ proc[p] \in {"zombie", "none"}
        /\ IF proc[p] = "zombie"
             THEN /\ storlet_name_to_pid' = [storlet_name_to_pid EXCEPT ![at] = NoPid]
                  /\ failed' = failed
             ELSE /\ failed' = failed \cup {at}
                  /\ storlet_name_to_pid' = storlet_name_to_pid
        /\ Reap(p)
        /\ pc' = "shutdown" /\ at' = NoStorlet
        /\ UNCHANGED <<running, loop_cnt, status, bound, inbox, cur, reply,
                       runs, pipe, orphaned, child, peer, tries, todo>>

\* halt has seen every storlet: answer, and leave the main loop.
HaltDone ==
    /\ pc = "shutdown" /\ cur # NoRequest
    /\ todo = {}
    /\ Respond(cur, IF failed = {} THEN "ok" ELSE "fail", FALSE)
    /\ UNCHANGED <<running, loop_cnt, inbox, factoryVars>>

\* _terminate has seen every storlet: main_loop returns its status, unless
\* shutdown_all_processes raised, which makes it EXIT_FAILURE.
Exit ==
    /\ pc = "shutdown" /\ cur = NoRequest
    /\ todo = {}
    /\ pc' = "exited" /\ bound' = FALSE
    /\ status' = IF failed = {} THEN status ELSE "failure"
    /\ UNCHANGED <<running, loop_cnt, inbox, cur, reply, factoryVars>>

\* SIGTERM, _force_shutdown: kill every daemon of the map, then os._exit.
SigTerm ==
    /\ pc \notin Ended \cup {"create"}
    /\ DieWith({cur} \cap Requests)
    /\ ProcessKill(Tracked)
    /\ UNCHANGED <<running, loop_cnt, inbox, runs, pipe, orphaned, workVars>>

\* The factory is process 1 of its container: when it has ended, so has every
\* other process there.
ContainerGone ==
    /\ pc \in Ended
    /\ orphaned # {} \/ \E p \in Pids : proc[p] # "none"
    /\ proc' = [p \in Pids |-> "none"]
    /\ pipe' = [s \in Storlets |-> NoPid]
    /\ orphaned' = {}
    /\ UNCHANGED <<serverVars, storlet_name_to_pid, runs, workVars>>

----------------------------------------------------------------------------
(***************************************************************************)
(* The daemon processes.                                                   *)
(***************************************************************************)
\* sbus.create in the daemon: the path now leads to its socket.
DaemonBinds(p) ==
    /\ proc[p] = "starting"
    /\ proc' = [proc EXCEPT ![p] = "serving"]
    /\ pipe' = [pipe EXCEPT ![runs[p]] = p]
    /\ UNCHANGED <<serverVars, storlet_name_to_pid, runs, orphaned, workVars>>

\* It leaves its main loop: idle, or on a CANCEL or HALT of somebody else.
DaemonLeaves(p) ==
    /\ proc[p] = "serving"
    /\ proc' = [proc EXCEPT ![p] = "leaving"]
    /\ UNCHANGED <<serverVars, storlet_name_to_pid, runs, pipe, orphaned, workVars>>

\* The process is over; `heir' is who keeps its socket open.
End(p, heir) ==
    LET s == runs[p]
    IN  /\ proc' = [proc EXCEPT ![p] = "zombie"]
        /\ pipe' = [pipe EXCEPT ![s] = IF @ = p THEN heir ELSE @]
        /\ peer' = IF peer = p THEN heir ELSE peer
        /\ orphaned' = IF heir = Orphans THEN orphaned \cup {s} ELSE orphaned
        /\ UNCHANGED <<serverVars, storlet_name_to_pid, runs, at, child, tries, todo, failed>>

\* main_loop returned: its storlets have ended (StorletDaemon, GracefulExit).
DaemonExits(p) == proc[p] = "leaving" /\ End(p, NoPid)

\* An exception, or the end of a process that could not load its storlet.
DaemonCrashes(p) ==
    \/ proc[p] = "starting" /\ End(p, NoPid)
    \/ proc[p] = "serving" /\ \E heir \in {NoPid, Orphans} : End(p, heir)

\* SIGKILL takes effect; a daemon that had bound its pipe may leave orphans.
DaemonDies(p) ==
    /\ proc[p] = "killed"
    /\ \E heir \in {NoPid, Orphans} :
        /\ heir = Orphans => pipe[runs[p]] = p
        /\ End(p, heir)

\* The last storlet left behind by a dead daemon of s ends.
OrphansEnd(s) ==
    /\ s \in orphaned
    /\ orphaned' = orphaned \ {s}
    /\ pipe' = [pipe EXCEPT ![s] = IF @ = Orphans THEN NoPid ELSE @]
    /\ peer' = IF peer = Orphans /\ at = s THEN NoPid ELSE peer
    /\ UNCHANGED <<serverVars, storlet_name_to_pid, proc, runs, at, child, tries, todo, failed>>

----------------------------------------------------------------------------
Factory ==
    \/ Spawn \/ SpawnFails \/ CheckSpawned
    \/ Ping1 \/ PingGivesUp \/ PingUnanswered
    \/ Terminate \/ HaltUnanswered \/ WaitDaemon \/ HaltDone \/ Exit
    \/ \E s \in Storlets : HaltSend(s)
    \/ /\ Create \/ ListenTimeout
       /\ UNCHANGED factoryVars
    \/ \E r \in Requests :
        \/ DaemonStatus(r) \/ StartDaemon(r) \/ StopDaemon(r) \/ StopDaemons(r) \/ Halt(r)
        \/ /\ Ping(r) \/ Unsupported(r, Handlers) \/ ReceiveGarbled(r)
           /\ UNCHANGED factoryVars

\* What a daemon in its main loop does about the factory's request.
Answers == PingAnswered \/ HaltAnswered

Next ==
    \/ Factory \/ Answers
    \/ SigTerm \/ ContainerGone
    \/ (SigHup \/ ListenFails) /\ UNCHANGED factoryVars
    \/ \E p \in Pids :
        DaemonBinds(p) \/ DaemonLeaves(p) \/ DaemonExits(p) \/ DaemonCrashes(p) \/ DaemonDies(p)
    \/ \E s \in Storlets : OrphansEnd(s)
    \/ \E r \in Requests : (Send(r, bound) \/ ClientGone(r)) /\ UNCHANGED factoryVars
    \/ QueueDropped(bound) /\ UNCHANGED factoryVars

Spec == Init /\ [][Next]_vars

\* The factory and the kernel make progress, and a daemon is given the time to
\* die.
KernelFairness ==
    /\ WF_vars(Factory)
    /\ WF_vars(ContainerGone)
    /\ WF_vars(QueueDropped(bound) /\ UNCHANGED factoryVars)
    /\ \A p \in Pids : WF_vars(DaemonDies(p))

\* A daemon answers while it serves (a full pool delays it until one of its
\* storlets returns: StorletDaemon, EveryRequestSettled).
DaemonsAnswer == WF_vars(Answers)

\* Storlets return: a daemon that left its main loop exits, and one that was
\* killed leaves no process behind for ever.
DaemonsExit == \A p \in Pids : WF_vars(DaemonExits(p))
OrphansReturn == \A s \in Storlets : WF_vars(OrphansEnd(s))

FairSpec == Spec /\ KernelFairness /\ DaemonsAnswer /\ DaemonsExit /\ OrphansReturn

----------------------------------------------------------------------------
\* Type invariant of the factory's state.
TypeOK ==
    /\ ServerTypeOK(HandlerPcs)
    /\ storlet_name_to_pid \in [Storlets -> Pids \cup {NoPid}]
    /\ proc \in [Pids -> ProcStates]
    /\ runs \in [Pids -> Storlets \cup {NoStorlet}]
    /\ pipe \in [Storlets -> Pids \cup {NoPid, Orphans}]
    /\ orphaned \in SUBSET Storlets
    /\ at \in Storlets \cup {NoStorlet}
    /\ child \in Pids \cup {NoPid}
    /\ peer \in Pids \cup {NoPid, Orphans}
    /\ tries \in 0 .. Tries
    /\ todo \in SUBSET Storlets
    /\ failed \in SUBSET Storlets

\* A daemon nobody has struck down.
Up(p) == proc[p] \in {"starting", "serving", "leaving"}

\* A storlet never has two daemons: they would compete for the same pipe path
\* (process_start_daemon, process_kill).
OneDaemonPerStorlet ==
    \A p, q \in Pids : Up(p) /\ Up(q) /\ runs[p] = runs[q] => p = q

\* No daemon escapes the factory: each is in its map, or has just been started
\* and is about to be entered, so that halt and stop reach it.
DaemonsTracked ==
    pc \notin Ended =>
        \A p \in Pids : Up(p) => storlet_name_to_pid[runs[p]] = p \/ child = p

\* DAEMON_STATUS tells the truth about the storlet it was asked about: "ok" only
\* if a daemon was started for it and has not ended, failure only if none is up
\* (get_process_status_by_name).
StatusTruthful ==
    [][\A r \in Requests :
         Command[r] = "DAEMON_STATUS" /\ reply[r] = "sent" =>
            /\ reply'[r] = "ok" => \E p \in Pids : runs[p] = Storlet[r] /\ proc[p] \in Alive
            /\ reply'[r] = "fail" => \A p \in Pids : runs[p] = Storlet[r] => ~Up(p)]_vars

\* When STOP_DAEMON is answered "ok" no daemon of that storlet is left up, and
\* when STOP_DAEMONS or HALT is, none at all (process_kill, shutdown_process).
StopStops ==
    [][\A r \in Requests, p \in Pids :
         /\ reply[r] = "sent" /\ reply'[r] = "ok"
         /\ \/ Command[r] = "STOP_DAEMON" /\ runs[p] = Storlet[r]
            \/ Command[r] \in {"STOP_DAEMONS", "HALT"}
         => ~Up(p)']_vars

\* A factory that ends with EXIT_SUCCESS has brought its daemons down itself:
\* none is left to be killed with the container, its storlets half done
\* (_terminate, shutdown_all_processes).
CleanExit ==
    pc = "exited" /\ status = "success" => \A p \in Pids : ~Up(p)

\* When START_DAEMON is answered "ok" the map holds a daemon of that storlet
\* that has not been waited for.
StartStarts ==
    [][\A r \in Requests :
         Command[r] = "START_DAEMON" /\ reply[r] = "sent" /\ reply'[r] = "ok" =>
            \E p \in Pids : /\ storlet_name_to_pid'[Storlet[r]] = p
                            /\ runs[p] = Storlet[r] /\ proc'[p] \in Alive \cup {"zombie"}]_vars

\* The factory comes to an end once requests stop coming, by its idle timeout at
\* the latest, and takes every daemon with it.
FactoryEnds == <>(pc \in Ended /\ \A p \in Pids : proc[p] = "none")
============================================================================
