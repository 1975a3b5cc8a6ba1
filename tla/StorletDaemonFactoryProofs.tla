-------------------- MODULE StorletDaemonFactoryProofs --------------------
(***************************************************************************)
(* Proofs about the daemon factory, for any set of requests, storlets and  *)
(* pids and any number of pings.  Where it is stated, pids are not handed  *)
(* out again and the logger starts.                                        *)
(***************************************************************************)
EXTENDS StorletDaemonFactory, TLAPS

\* The handlers that work across several steps.
Starting == {"spawn", "check", "ping", "pingwait"}
Halting == {"shutdown", "haltwait", "waitpid"}

\* What the type invariant rests on: the idle counter of a listening server is
\* below its limit, a handler knows its request and its storlet, and a process
\* was started for a storlet.
LoopInv ==
    /\ pc \in {"create"} => loop_cnt = 0
    /\ pc = "listen" => loop_cnt < IdleLimit
    /\ cur \in Requests => loop_cnt = 0

CurInv ==
    /\ pc \in Starting => cur \in Requests /\ Command[cur] = "START_DAEMON" /\ at = Storlet[cur]
    /\ pc \in Halting => cur = NoRequest \/ (cur \in Requests /\ Command[cur] = "HALT")
    /\ pc \in {"haltwait", "waitpid"} => at \in Storlets
    /\ pc \notin Starting \cup Halting => cur = NoRequest

OwnersInv == \A p \in Pids : proc[p] # "none" => runs[p] \in Storlets

TypeInv == TypeOK /\ LoopInv /\ CurInv /\ OwnersInv

----------------------------------------------------------------------------
\* A pid in the map is one of a process started for that storlet, and so is the
\* pid a pipe leads to or a ping is waiting for.
EntriesOwn == \A s \in Storlets : storlet_name_to_pid[s] # NoPid => runs[storlet_name_to_pid[s]] = s
PipesOwn == \A s \in Storlets : pipe[s] \in Pids => runs[pipe[s]] = s
PingsOwn == pc = "pingwait" /\ peer \in Pids => runs[peer] = at

\* Every daemon that is up is in the map, or is the one just started.
AllTracked ==
    pc \notin Ended =>
        \A p \in Pids : Up(p) => storlet_name_to_pid[runs[p]] = p \/ (pc = "check" /\ child = p)

\* A daemon is started only where none runs.
NoneBefore ==
    /\ pc \in {"spawn", "check"} => ~Running(storlet_name_to_pid[at])
    /\ pc = "check" => child \in Pids /\ runs[child] = at

\* What a shutdown has not seen yet, could not shut down or is busy with.
AllSeen ==
    /\ pc = "shutdown" => Tracked \subseteq todo \cup failed
    /\ pc \in {"haltwait", "waitpid"} => Tracked \subseteq todo \cup failed \cup {at}

\* The inductive invariant behind the safety properties.
TrackInv ==
    /\ EntriesOwn /\ PipesOwn /\ PingsOwn
    /\ AllTracked /\ NoneBefore /\ AllSeen
    /\ OneDaemonPerStorlet /\ CleanExit

----------------------------------------------------------------------------
\* The type invariant.

\* The factory's own part of it.
FactoryTyped ==
    /\ storlet_name_to_pid \in [Storlets -> Pids \cup {NoPid}]
    /\ proc \in [Pids -> ProcStates]
    /\ runs \in [Pids -> Storlets \cup {NoStorlet}]
    /\ pipe \in [Storlets -> Pids \cup {NoPid, Orphans}]
    /\ orphaned \in SUBSET Storlets
    /\ at \in Storlets \cup {NoStorlet}
    /\ child \in Pids \cup {NoPid}
    /\ peer \in Pids \cup {NoPid, Orphans}
    /\ tries \in 0 .. Tries
    /\ todo \in SUBSET Storlets
    /\ failed \in SUBSET Storlets

ServerTyped == ServerTypeOK(HandlerPcs)

LEMMA TypeParts ==
    TypeInv <=> ServerTyped /\ FactoryTyped /\ LoopInv /\ CurInv /\ OwnersInv
BY DEF TypeInv, TypeOK, FactoryTyped, ServerTyped

LEMMA InitTypeInv == Init => TypeInv
<1> SUFFICES ASSUME Init PROVE TypeInv
  OBVIOUS
<1>1. FlagsTypeOK
  BY DEF Init, ServerInit, FlagsTypeOK
<1>2. ServerTyped /\ LoopInv /\ CurInv
  BY <1>1, IdleLimitAssumption
     DEF Init, ServerInit, ServerTyped, ServerTypeOK, LoopInv, CurInv, Replies, Ended, Starting, Halting
<1>3. FactoryTyped /\ OwnersInv
  BY TriesAssumption DEF Init, FactoryTyped, OwnersInv, ProcStates
<1> QED BY <1>2, <1>3, TypeParts

\* self.running and the ownership of the socket stay Boolean.
LEMMA NextFlags == FlagsTypeOK /\ [Next]_vars => FlagsTypeOK'
<1> SUFFICES ASSUME FlagsTypeOK, [Next]_vars PROVE FlagsTypeOK'
  OBVIOUS
<1> USE DEF Next, Factory, Answers, Spawn, SpawnFails, CheckSpawned, Ping1, PingGivesUp, PingUnanswered,
     PingAnswered, StartReturns, Terminate, HaltUnanswered, HaltAnswered, WaitDaemon, HaltDone, Exit,
     HaltSend, Create, ListenTimeout, DaemonStatus, StartDaemon, StopDaemon, StopDaemons, Halt, Ping,
     Unsupported, ReceiveGarbled, SigTerm, ContainerGone, SigHup, ListenFails, DaemonBinds,
     DaemonLeaves, DaemonExits, DaemonCrashes, DaemonDies, End, OrphansEnd, Send, ClientGone,
     QueueDropped, serverVars, vars
<1>1. running' = running \/ running' = FALSE
  OBVIOUS
<1>2. bound' = bound \/ bound' = FALSE \/ bound' = TRUE
  BY DEF Respond, DieWith
<1> QED
  BY <1>1, <1>2 DEF FlagsTypeOK

LEMMA TriesFacts == 0 \in 0 .. Tries /\ Tries \in 0 .. Tries
BY TriesAssumption

\* A storlet's name comes with every daemon command.
LEMMA StorletTyped ==
    ASSUME NEW r \in Requests, Command[r] \in DaemonCommands
    PROVE  Storlet[r] \in Storlets
BY StorletAssumption

\* Answering a request ends its handler.
LEMMA RespondTyped ==
    ASSUME ServerTyped, FlagsTypeOK', NEW r \in Requests, NEW answer \in Replies,
           NEW iterable \in BOOLEAN, Respond(r, answer, iterable) \/ DieWith({r}),
           inbox' \in Seq(Requests), loop_cnt' = 0
    PROVE  /\ ServerTyped' /\ LoopInv' /\ CurInv'
           /\ pc' \in {"listen", "terminate", "dead"} /\ cur' = NoRequest
<1>1. pc' \in {"listen", "terminate", "dead"} /\ cur' = NoRequest
  BY DEF Respond, DieWith, LoopTop
<1>2. status' \in {"success", "failure"} /\ reply' \in [Requests -> Replies]
  BY DEF Respond, DieWith, ServerTyped, ServerTypeOK, Replies
<1>3. ServerTyped'
  BY <1>1, <1>2, IdleLimitAssumption DEF ServerTyped, ServerTypeOK, Ended
<1>4. LoopInv' /\ CurInv'
  BY <1>1, IdleLimitAssumption, RequestsAssumption DEF LoopInv, CurInv, Starting, Halting
<1> QED BY <1>1, <1>3, <1>4

\* The handler of a command that is answered at once.
LEMMA HandlerTyped ==
    ASSUME TypeInv, FlagsTypeOK', NEW r \in Requests, NEW answer \in Replies, NEW iterable \in BOOLEAN,
           Receive(r), Respond(r, answer, iterable) \/ DieWith({r}),
           FactoryTyped', OwnersInv'
    PROVE  TypeInv'
<1>1. inbox' \in Seq(Requests) /\ loop_cnt' = 0
  BY DEF TypeInv, TypeOK, ServerTypeOK, Receive
<1> QED BY <1>1, RespondTyped, TypeParts DEF TypeInv, TypeOK, FactoryTyped, ServerTyped

\* The end of a handler that has worked across several steps.
LEMMA ReturnTyped ==
    ASSUME TypeInv, FlagsTypeOK', NEW answer \in Replies, NEW iterable \in BOOLEAN,
           cur \in Requests, Respond(cur, answer, iterable), UNCHANGED <<inbox, loop_cnt>>,
           FactoryTyped', OwnersInv'
    PROVE  TypeInv'
<1>1. inbox' \in Seq(Requests) /\ loop_cnt' = 0
  BY DEF TypeInv, TypeOK, ServerTypeOK, LoopInv
<1> QED BY <1>1, RespondTyped, TypeParts DEF TypeInv, TypeOK, FactoryTyped, ServerTyped

\* A step within a handler.
LEMMA WithinTyped ==
    ASSUME TypeInv, FlagsTypeOK', pc \notin {"create", "listen"}, pc' \in HandlerPcs,
           UNCHANGED <<running, loop_cnt, status, bound, inbox, cur, reply>>,
           FactoryTyped', OwnersInv', CurInv'
    PROVE  TypeInv'
<1>1. ServerTyped' /\ LoopInv'
  BY DEF TypeInv, TypeOK, ServerTyped, ServerTypeOK, LoopInv, HandlerPcs
<1> QED BY <1>1, TypeParts DEF TypeInv, TypeOK, FactoryTyped, ServerTyped

\* A step that leaves the server's loop where it is.
LEMMA OutsideTyped ==
    ASSUME TypeInv, UNCHANGED <<serverVars, at>>, FactoryTyped', OwnersInv'
    PROVE  TypeInv'
BY DEF TypeInv, TypeOK, FactoryTyped, ServerTypeOK, FlagsTypeOK, LoopInv, CurInv, serverVars

LEMMA ReapTyped ==
    ASSUME FactoryTyped, OwnersInv, NEW p, Reap(p), runs' = runs
    PROVE  proc' \in [Pids -> ProcStates] /\ OwnersInv'
BY DEF FactoryTyped, OwnersInv, Reap, ProcStates

LEMMA KillTyped ==
    ASSUME FactoryTyped, OwnersInv, NEW S \in SUBSET Tracked, ProcessKill(S), runs' = runs
    PROVE  /\ proc' \in [Pids -> ProcStates] /\ OwnersInv'
           /\ storlet_name_to_pid' \in [Storlets -> Pids \cup {NoPid}]
<1> DEFINE struck == {storlet_name_to_pid[s] : s \in Killable(S)}
<1>1. \A p \in struck : p \in Pids => proc[p] # "none"
  BY DEF Killable
<1>2. proc' = [p \in Pids |-> IF p \notin struck THEN proc[p]
                                   ELSE IF proc[p] = "zombie" THEN "none" ELSE "killed"]
  BY DEF ProcessKill
<1>3. storlet_name_to_pid' \in [Storlets -> Pids \cup {NoPid}]
  BY DEF ProcessKill, FactoryTyped
<1> HIDE DEF struck
<1>4. proc' \in [Pids -> ProcStates]
  BY <1>2 DEF FactoryTyped, ProcStates, Alive
<1>5. OwnersInv'
  BY <1>1, <1>2 DEF OwnersInv
<1> QED BY <1>3, <1>4, <1>5

\* The main loop's own steps.
LEMMA LoopTyped ==
    ASSUME TypeInv, FlagsTypeOK', Create \/ ListenTimeout \/ ListenFails \/ SigHup, UNCHANGED factoryVars
    PROVE  TypeInv'
<1>1. FactoryTyped' /\ OwnersInv'
  BY TypeParts DEF factoryVars, daemonVars, workVars, FactoryTyped, OwnersInv
<1> USE IdleLimitAssumption, RequestsAssumption
    DEF TypeInv, TypeOK, ServerTyped, ServerTypeOK, LoopInv, CurInv, Ended, Starting, Halting,
        HandlerPcs, factoryVars, daemonVars, workVars
<1>2. ServerTyped' /\ LoopInv' /\ CurInv'
  <2>1. CASE Create
    <3>1. /\ pc' = "listen" \/ pc' = "exited"
          /\ pc = "create"
          /\ status' = status \/ status' = "failure"
          /\ UNCHANGED <<running, loop_cnt, inbox, cur, reply>>
      BY <2>1, Zenon DEF Create
    <3> QED BY <3>1
  <2>2. CASE ListenTimeout
    BY <2>2 DEF ListenTimeout, LoopTop
  <2>3. CASE ListenFails
    BY <2>3 DEF ListenFails
  <2>4. CASE SigHup
    BY <2>4 DEF SigHup
  <2> QED BY <2>1, <2>2, <2>3, <2>4
<1> QED BY <1>1, <1>2, TypeParts DEF FactoryTyped

\* Clients come, go and are dropped.
LEMMA ClientTyped ==
    ASSUME TypeInv, UNCHANGED factoryVars,
           (\E r \in Requests : Send(r, bound) \/ ClientGone(r)) \/ QueueDropped(bound)
    PROVE  TypeInv'
<1>1. FactoryTyped' /\ OwnersInv'
  BY TypeParts DEF factoryVars, daemonVars, workVars, FactoryTyped, OwnersInv
<1>2. UNCHANGED <<pc, running, loop_cnt, status, bound, cur>>
  BY DEF Send, ClientGone, QueueDropped
<1>3. inbox \in Seq(Requests) /\ reply \in [Requests -> Replies]
  BY DEF TypeInv, TypeOK, ServerTypeOK
<1>4. inbox' \in Seq(Requests) /\ reply' \in [Requests -> Replies]
  <2>1. ASSUME NEW r \in Requests, Send(r, bound)
        PROVE  inbox' \in Seq(Requests) /\ reply' \in [Requests -> Replies]
    <3>1. inbox' = Append(inbox, r) \/ inbox' = inbox
      BY <2>1 DEF Send
    <3>2. inbox' \in Seq(Requests)
      BY <1>3, <3>1
    <3>3. reply' \in [Requests -> Replies]
      BY <1>3, <2>1 DEF Send, Replies
    <3> QED BY <3>2, <3>3
  <2>2. ASSUME NEW r \in Requests, ClientGone(r)
        PROVE  inbox' \in Seq(Requests) /\ reply' \in [Requests -> Replies]
    BY <1>3, <2>2 DEF ClientGone, Replies
  <2>3. ASSUME QueueDropped(bound)
        PROVE  inbox' \in Seq(Requests) /\ reply' \in [Requests -> Replies]
    BY <1>3, <2>3 DEF QueueDropped, Replies
  <2> QED BY <2>1, <2>2, <2>3
<1> QED BY <1>1, <1>2, <1>4
      DEF TypeInv, TypeOK, FactoryTyped, ServerTypeOK, FlagsTypeOK, LoopInv, CurInv, factoryVars, workVars

\* Starting a daemon.
LEMMA StartTyped ==
    ASSUME TypeInv, FlagsTypeOK', NEW r \in Requests, StartDaemon(r)
    PROVE  TypeInv'
<1>1. FactoryTyped /\ OwnersInv /\ Storlet[r] \in Storlets
  BY TypeParts, StorletTyped DEF StartDaemon, DaemonCommands
<1>2. /\ Receive(r) /\ Command[r] = "START_DAEMON"
      /\ UNCHANGED <<running, storlet_name_to_pid, runs, pipe, orphaned, child, peer, tries, todo, failed>>
  BY DEF StartDaemon
<1>3. CASE UNCHANGED <<proc, at>> /\ (Respond(r, "fail", TRUE) \/ Respond(r, "ok", TRUE))
  <2>1. FactoryTyped' /\ OwnersInv'
    BY <1>1, <1>2, <1>3 DEF FactoryTyped, OwnersInv
  <2> QED BY <1>2, <1>3, <2>1, HandlerTyped DEF Replies
<1>4. CASE /\ Reap(storlet_name_to_pid[Storlet[r]])
           /\ pc' = "spawn" /\ cur' = r /\ at' = Storlet[r]
           /\ UNCHANGED <<status, bound, reply>>
  <2>1. proc' \in [Pids -> ProcStates] /\ OwnersInv'
    BY <1>1, <1>2, <1>4, ReapTyped
  <2>2. FactoryTyped'
    BY <1>1, <1>2, <1>4, <2>1 DEF FactoryTyped
  <2>3. inbox' \in Seq(Requests) /\ loop_cnt' = 0
    BY <1>2 DEF TypeInv, TypeOK, ServerTypeOK, Receive
  <2>4. ServerTyped'
    BY <1>4, <2>3, IdleLimitAssumption DEF TypeInv, TypeOK, ServerTyped, ServerTypeOK, HandlerPcs
  <2>5. LoopInv' /\ CurInv'
    BY <1>2, <1>4, <2>3 DEF LoopInv, CurInv, Starting, Halting
  <2> QED BY <2>1, <2>2, <2>4, <2>5 DEF TypeInv, TypeOK, FactoryTyped, ServerTyped
<1> QED BY <1>3, <1>4 DEF StartDaemon

\* The storlet and the request of a daemon that is being started.
LEMMA StartingFacts ==
    ASSUME TypeInv, pc \in Starting
    PROVE  /\ cur \in Requests /\ at = Storlet[cur] /\ at \in Storlets
           /\ Command[cur] = "START_DAEMON"
BY StorletTyped DEF TypeInv, CurInv, DaemonCommands

LEMMA PopenTyped ==
    ASSUME FactoryTyped, OwnersInv, at \in Storlets, NEW p \in Pids, Popen(p)
    PROVE  /\ proc' \in [Pids -> ProcStates] /\ runs' \in [Pids -> Storlets \cup {NoStorlet}] /\ OwnersInv'
           /\ proc'[p] = "starting" /\ runs'[p] = at
           /\ \A q \in Pids \ {p} : runs'[q] = runs[q] /\ proc'[q] \in {proc[q], "none"}
<1>1. Reaped \in [Pids -> ProcStates] /\ \A q \in Pids : Reaped[q] \in {proc[q], "none"}
  BY DEF Reaped, FactoryTyped, ProcStates
<1>2. /\ proc' = [Reaped EXCEPT ![p] = "starting"]
      /\ runs' = [runs EXCEPT ![p] = at]
  BY DEF Popen
<1>3. proc' \in [Pids -> ProcStates] /\ runs' \in [Pids -> Storlets \cup {NoStorlet}]
  BY <1>1, <1>2 DEF FactoryTyped, ProcStates, Alive
<1>4. /\ proc'[p] = "starting" /\ runs'[p] = at
      /\ \A q \in Pids \ {p} : runs'[q] = runs[q] /\ proc'[q] \in {proc[q], "none"}
  BY <1>1, <1>2 DEF FactoryTyped
<1>5. OwnersInv'
  BY <1>4 DEF OwnersInv
<1> QED BY <1>3, <1>4, <1>5

LEMMA SpawnTyped ==
    ASSUME TypeInv, FlagsTypeOK', Spawn \/ SpawnFails \/ CheckSpawned
    PROVE  TypeInv'
<1>1. pc \in Starting /\ pc \notin {"create", "listen"} /\ UNCHANGED <<inbox, loop_cnt>>
  BY DEF Spawn, SpawnFails, CheckSpawned, Starting
<1>2. FactoryTyped /\ OwnersInv /\ CurInv
  BY TypeParts
<1>3. cur \in Requests /\ at = Storlet[cur] /\ at \in Storlets /\ Command[cur] = "START_DAEMON"
  BY <1>1, StartingFacts
<1>4. CASE Spawn
  <2>1. PICK p \in Pids :
          /\ Popen(p)
          /\ \/ pc' = "check" /\ child' = p /\ UNCHANGED <<status, bound, cur, reply, at>>
             \/ LoggerFails /\ Respond(cur, "fail", TRUE) /\ child' = child /\ at' = NoStorlet
    BY <1>4 DEF Spawn
  <2>2. /\ proc' \in [Pids -> ProcStates] /\ runs' \in [Pids -> Storlets \cup {NoStorlet}]
        /\ OwnersInv'
    BY <1>2, <1>3, <2>1, PopenTyped
  <2>3. child' \in Pids \cup {NoPid} /\ at' \in Storlets \cup {NoStorlet}
    BY <1>2, <2>1 DEF FactoryTyped
  <2>4. /\ FactoryTyped'
    BY <1>2, <1>4, <2>2, <2>3 DEF FactoryTyped, Spawn
  <2>5. CASE Respond(cur, "fail", TRUE)
    BY <1>1, <1>3, <2>2, <2>4, <2>5, ReturnTyped DEF Replies
  <2>6. CASE pc' = "check" /\ UNCHANGED <<status, bound, cur, reply, at>>
    <3>1. CurInv'
      BY <1>3, <2>6 DEF CurInv, Starting, Halting
    <3> QED BY <1>1, <1>4, <2>2, <2>4, <2>6, <3>1, WithinTyped DEF Spawn, HandlerPcs
  <2> QED BY <2>1, <2>5, <2>6
<1>5. CASE SpawnFails
  <2>1. proc' \in [Pids -> ProcStates] /\ OwnersInv'
    BY <1>2, <1>5 DEF SpawnFails, Reaped, FactoryTyped, OwnersInv, ProcStates
  <2>2. FactoryTyped'
    BY <1>2, <1>5, <2>1 DEF FactoryTyped, SpawnFails
  <2> QED BY <1>1, <1>3, <1>5, <2>1, <2>2, ReturnTyped DEF SpawnFails, Replies
<1>6. CASE CheckSpawned
  <2>1. Reap(child) /\ runs' = runs
    BY <1>6 DEF CheckSpawned
  <2>2. proc' \in [Pids -> ProcStates] /\ OwnersInv'
    BY <1>2, <2>1, ReapTyped
  <2>3. CASE Running(child)
    <3>1. /\ storlet_name_to_pid' = [storlet_name_to_pid EXCEPT ![at] = child]
          /\ pc' = "ping" /\ tries' = Tries
          /\ UNCHANGED <<status, bound, cur, reply, at>>
      BY <1>6, <2>3 DEF CheckSpawned
    <3>2. child \in Pids
      BY <1>2, <2>3 DEF Running, FactoryTyped
    <3>3. storlet_name_to_pid' \in [Storlets -> Pids \cup {NoPid}] /\ tries' \in 0 .. Tries
      BY <1>2, <3>1, <3>2, TriesFacts DEF FactoryTyped
    <3>4. FactoryTyped'
      BY <1>2, <1>6, <2>2, <3>1, <3>3 DEF FactoryTyped, CheckSpawned
    <3>5. CurInv'
      BY <1>3, <3>1 DEF CurInv, Starting, Halting
    <3> QED BY <1>1, <1>6, <2>2, <3>1, <3>4, <3>5, WithinTyped DEF CheckSpawned, HandlerPcs
  <2>4. CASE ~Running(child)
    <3>1. Respond(cur, "fail", TRUE) /\ at' = NoStorlet /\ UNCHANGED <<storlet_name_to_pid, tries>>
      BY <1>6, <2>4 DEF CheckSpawned
    <3>2. FactoryTyped'
      BY <1>2, <1>6, <2>2, <3>1 DEF FactoryTyped, CheckSpawned
    <3> QED BY <1>1, <1>3, <2>2, <3>1, <3>2, ReturnTyped DEF Replies
  <2> QED BY <2>3, <2>4
<1> QED BY <1>4, <1>5, <1>6

LEMMA PingTyped ==
    ASSUME TypeInv, FlagsTypeOK', Ping1 \/ PingGivesUp \/ PingAnswered \/ PingUnanswered
    PROVE  TypeInv'
<1>1. pc \in Starting /\ pc \notin {"create", "listen"} /\ UNCHANGED <<inbox, loop_cnt>>
  BY DEF Ping1, PingGivesUp, PingAnswered, PingUnanswered, StartReturns, Starting
<1>2. FactoryTyped /\ OwnersInv /\ CurInv
  BY TypeParts
<1>3. cur \in Requests /\ at = Storlet[cur] /\ at \in Storlets /\ Command[cur] = "START_DAEMON"
  BY <1>1, StartingFacts
<1>4. CASE Ping1
  <2>1. peer' \in Pids \cup {NoPid, Orphans} /\ tries' \in 0 .. Tries
    BY <1>2, <1>3, <1>4, TriesAssumption DEF Ping1, FactoryTyped
  <2>2. FactoryTyped' /\ OwnersInv'
    BY <1>2, <1>4, <2>1 DEF FactoryTyped, OwnersInv, Ping1, daemonVars
  <2>3. pc' \in {"ping", "pingwait"}
    BY <1>4 DEF Ping1
  <2>4. CurInv'
    BY <1>3, <1>4, <2>3 DEF Ping1, CurInv, Starting, Halting
  <2> QED BY <1>1, <1>4, <2>2, <2>3, <2>4, WithinTyped DEF Ping1, HandlerPcs
<1>5. CASE StartReturns("ok") \/ StartReturns("fail")
  <2>1. Reap(storlet_name_to_pid[at]) /\ runs' = runs
    BY <1>5 DEF StartReturns
  <2>2. proc' \in [Pids -> ProcStates] /\ OwnersInv'
    BY <1>2, <2>1, ReapTyped
  <2>3. FactoryTyped'
    BY <1>2, <1>5, <2>2, TriesFacts DEF FactoryTyped, StartReturns
  <2> QED BY <1>1, <1>3, <1>5, <2>2, <2>3, ReturnTyped DEF StartReturns, Replies
<1> QED BY <1>4, <1>5 DEF PingGivesUp, PingAnswered, PingUnanswered

\* Shutting down.
LEMMA HaltTyped ==
    ASSUME TypeInv, FlagsTypeOK', NEW r \in Requests, Halt(r)
    PROVE  TypeInv'
<1>1. FactoryTyped' /\ OwnersInv'
  BY TypeParts DEF Halt, FactoryTyped, OwnersInv, daemonVars, Tracked
<1>2. inbox' \in Seq(Requests) /\ loop_cnt' = 0
  BY DEF Halt, TypeInv, TypeOK, ServerTypeOK, Receive
<1>3. ServerTyped'
  BY <1>2, IdleLimitAssumption DEF Halt, TypeInv, TypeOK, ServerTyped, ServerTypeOK, HandlerPcs
<1>4. LoopInv' /\ CurInv'
  BY <1>2 DEF Halt, LoopInv, CurInv, Starting, Halting
<1> QED BY <1>1, <1>3, <1>4 DEF TypeInv, TypeOK, FactoryTyped, ServerTyped

LEMMA ShutdownTyped ==
    ASSUME TypeInv, FlagsTypeOK',
           \/ Terminate \/ HaltAnswered \/ HaltUnanswered \/ WaitDaemon
           \/ \E s \in Storlets : HaltSend(s)
    PROVE  TypeInv'
<1>1. FactoryTyped /\ OwnersInv /\ CurInv
  BY TypeParts
<1>2. CASE Terminate
  <2>1. FactoryTyped' /\ OwnersInv'
    BY <1>1, <1>2 DEF Terminate, FactoryTyped, OwnersInv, daemonVars, Tracked
  <2>2. CurInv'
    BY <1>1, <1>2 DEF Terminate, CurInv, Starting, Halting
  <2> QED BY <1>2, <2>1, <2>2, WithinTyped DEF Terminate, HandlerPcs
<1>3. ASSUME NEW s \in Storlets, HaltSend(s) PROVE TypeInv'
  <2>1. pc' \in {"shutdown", "haltwait"} /\ (pc' = "haltwait" => at' \in Storlets)
    BY <1>3 DEF HaltSend
  <2>2. /\ peer' \in Pids \cup {NoPid, Orphans} /\ at' \in Storlets \cup {NoStorlet}
        /\ failed' \in SUBSET Storlets /\ todo' \in SUBSET Storlets
    BY <1>1, <1>3 DEF HaltSend, FactoryTyped
  <2>3. FactoryTyped' /\ OwnersInv'
    BY <1>1, <1>3, <2>2 DEF HaltSend, FactoryTyped, OwnersInv, daemonVars
  <2>4. CurInv'
    BY <1>1, <1>3, <2>1 DEF HaltSend, CurInv, Starting, Halting
  <2> QED BY <1>3, <2>1, <2>3, <2>4, WithinTyped DEF HaltSend, HandlerPcs
<1>4. CASE HaltAnswered
  <2>1. FactoryTyped' /\ OwnersInv'
    BY <1>1, <1>4 DEF HaltAnswered, FactoryTyped, OwnersInv, ProcStates, Alive
  <2>2. CurInv'
    BY <1>1, <1>4 DEF HaltAnswered, CurInv, Starting, Halting
  <2> QED BY <1>4, <2>1, <2>2, WithinTyped DEF HaltAnswered, HandlerPcs
<1>5. CASE HaltUnanswered
  <2>1. FactoryTyped' /\ OwnersInv'
    BY <1>1, <1>5 DEF HaltUnanswered, FactoryTyped, OwnersInv, daemonVars, CurInv
  <2>2. CurInv'
    BY <1>1, <1>5 DEF HaltUnanswered, CurInv, Starting, Halting
  <2> QED BY <1>5, <2>1, <2>2, WithinTyped DEF HaltUnanswered, HandlerPcs
<1>6. CASE WaitDaemon
  <2>1. Reap(storlet_name_to_pid[at]) /\ runs' = runs /\ at \in Storlets
    BY <1>1, <1>6 DEF WaitDaemon, CurInv
  <2>2. proc' \in [Pids -> ProcStates] /\ OwnersInv'
    BY <1>1, <2>1, ReapTyped
  <2>3. storlet_name_to_pid' \in [Storlets -> Pids \cup {NoPid}] /\ failed' \in SUBSET Storlets
    BY <1>1, <1>6, <2>1 DEF WaitDaemon, FactoryTyped
  <2>4. FactoryTyped'
    BY <1>1, <1>6, <2>2, <2>3 DEF WaitDaemon, FactoryTyped
  <2>5. CurInv'
    BY <1>1, <1>6 DEF WaitDaemon, CurInv, Starting, Halting
  <2> QED BY <1>6, <2>2, <2>4, <2>5, WithinTyped DEF WaitDaemon, HandlerPcs
<1> QED BY <1>2, <1>3, <1>4, <1>5, <1>6

LEMMA EndTyped ==
    ASSUME TypeInv, FlagsTypeOK', HaltDone \/ Exit \/ SigTerm
    PROVE  TypeInv'
<1>1. FactoryTyped /\ OwnersInv /\ CurInv
  BY TypeParts
<1>2. CASE HaltDone
  <2>1. FactoryTyped' /\ OwnersInv'
    BY <1>1, <1>2 DEF HaltDone, factoryVars, daemonVars, workVars, FactoryTyped, OwnersInv
  <2>2. cur \in Requests
    BY <1>1, <1>2 DEF HaltDone, CurInv, Halting
  <2>3. PICK a \in {"ok", "fail"} : Respond(cur, a, FALSE)
    BY <1>2 DEF HaltDone
  <2> QED BY <1>2, <2>1, <2>2, <2>3, ReturnTyped DEF HaltDone, Replies
<1>3. CASE Exit
  <2>1. FactoryTyped' /\ OwnersInv'
    BY <1>1, <1>3 DEF Exit, factoryVars, daemonVars, workVars, FactoryTyped, OwnersInv
  <2>2. ServerTyped' /\ LoopInv' /\ CurInv'
    BY <1>3 DEF Exit, TypeInv, TypeOK, ServerTyped, ServerTypeOK, LoopInv, CurInv, Ended, Starting, Halting
  <2> QED BY <2>1, <2>2 DEF TypeInv, TypeOK, FactoryTyped, ServerTyped
<1>4. CASE SigTerm
  <2>1. /\ proc' \in [Pids -> ProcStates] /\ OwnersInv'
        /\ storlet_name_to_pid' \in [Storlets -> Pids \cup {NoPid}]
    BY <1>1, <1>4, KillTyped DEF SigTerm
  <2>2. FactoryTyped'
    BY <1>1, <1>4, <2>1 DEF SigTerm, workVars, FactoryTyped
  <2>3. ServerTyped' /\ LoopInv' /\ CurInv'
    BY <1>4, RequestsAssumption DEF SigTerm, DieWith, TypeInv, TypeOK, ServerTyped, ServerTypeOK, LoopInv,
       CurInv, Ended, Starting, Halting, Replies
  <2> QED BY <2>1, <2>2, <2>3 DEF TypeInv, TypeOK, FactoryTyped, ServerTyped
<1> QED BY <1>2, <1>3, <1>4

\* The commands that are answered at once.
LEMMA CommandTyped ==
    ASSUME TypeInv, FlagsTypeOK', NEW r \in Requests,
           \/ DaemonStatus(r) \/ StopDaemon(r) \/ StopDaemons(r)
           \/ (Ping(r) \/ Unsupported(r, Handlers) \/ ReceiveGarbled(r)) /\ UNCHANGED factoryVars
    PROVE  TypeInv'
<1>1. FactoryTyped /\ OwnersInv
  BY TypeParts
<1>2. CASE DaemonStatus(r)
  <2>1. proc' \in [Pids -> ProcStates] /\ OwnersInv'
    BY <1>1, <1>2, ReapTyped DEF DaemonStatus
  <2>2. FactoryTyped'
    BY <1>1, <1>2, <2>1 DEF DaemonStatus, workVars, FactoryTyped
  <2>3. PICK a \in {"ok", "fail"} : Respond(r, a, TRUE)
    BY <1>2 DEF DaemonStatus
  <2> QED BY <1>2, <2>1, <2>2, <2>3, HandlerTyped DEF DaemonStatus, Replies
<1>3. CASE StopDaemon(r)
  <2>1. PICK S \in SUBSET Tracked : ProcessKill(S)
    BY <1>3 DEF StopDaemon
  <2>2. /\ proc' \in [Pids -> ProcStates] /\ OwnersInv'
        /\ storlet_name_to_pid' \in [Storlets -> Pids \cup {NoPid}]
    BY <1>1, <1>3, <2>1, KillTyped DEF StopDaemon
  <2>3. FactoryTyped'
    BY <1>1, <1>3, <2>2 DEF StopDaemon, workVars, FactoryTyped
  <2>4. PICK a \in {"ok", "fail"} : Respond(r, a, TRUE)
    BY <1>3 DEF StopDaemon
  <2> QED BY <1>3, <2>2, <2>3, <2>4, HandlerTyped DEF StopDaemon, Replies
<1>4. CASE StopDaemons(r)
  <2>1. /\ proc' \in [Pids -> ProcStates] /\ OwnersInv'
        /\ storlet_name_to_pid' \in [Storlets -> Pids \cup {NoPid}]
    BY <1>1, <1>4, KillTyped DEF StopDaemons
  <2>2. FactoryTyped'
    BY <1>1, <1>4, <2>1 DEF StopDaemons, workVars, FactoryTyped
  <2>3. PICK a \in {"ok", "fail"} : Respond(r, a, FALSE)
    BY <1>4 DEF StopDaemons
  <2> QED BY <1>4, <2>1, <2>2, <2>3, HandlerTyped DEF StopDaemons, Replies
<1>5. CASE (Ping(r) \/ Unsupported(r, Handlers) \/ ReceiveGarbled(r)) /\ UNCHANGED factoryVars
  <2>1. FactoryTyped' /\ OwnersInv'
    BY <1>1, <1>5 DEF factoryVars, daemonVars, workVars, FactoryTyped, OwnersInv
  <2>2. Receive(r)
    BY <1>5 DEF Ping, Unsupported, ReceiveGarbled
  <2>3. PICK a \in {"ok", "fail"} : Respond(r, a, TRUE) \/ DieWith({r})
    BY <1>5 DEF Ping, Unsupported, ReceiveGarbled
  <2> QED BY <2>1, <2>2, <2>3, HandlerTyped DEF Replies
<1> QED BY <1>2, <1>3, <1>4, <1>5

\* The daemons, and the end of the container.
LEMMA DaemonTyped ==
    ASSUME TypeInv,
           \/ ContainerGone \/ \E s \in Storlets : OrphansEnd(s)
           \/ \E p \in Pids : \/ DaemonBinds(p) \/ DaemonLeaves(p)
                              \/ \E heir \in {NoPid, Orphans} : End(p, heir) /\ proc[p] # "none"
    PROVE  TypeInv'
<1>1. FactoryTyped /\ OwnersInv
  BY TypeParts
<1> USE <1>1, OutsideTyped DEF FactoryTyped, OwnersInv, ProcStates, Alive, workVars
<1>2. CASE ContainerGone
  BY <1>2 DEF ContainerGone
<1>3. ASSUME NEW s \in Storlets, OrphansEnd(s) PROVE TypeInv'
  BY <1>3 DEF OrphansEnd
<1>4. ASSUME NEW p \in Pids, DaemonBinds(p) PROVE TypeInv'
  BY <1>4 DEF DaemonBinds
<1>5. ASSUME NEW p \in Pids, DaemonLeaves(p) PROVE TypeInv'
  BY <1>5 DEF DaemonLeaves
<1>6. ASSUME NEW p \in Pids, NEW heir \in {NoPid, Orphans}, End(p, heir), proc[p] # "none" PROVE TypeInv'
  BY <1>6 DEF End
<1> QED BY <1>2, <1>3, <1>4, <1>5, <1>6

\* The ways a daemon process comes to its end.
LEMMA DaemonEnds ==
    ASSUME NEW p \in Pids, DaemonExits(p) \/ DaemonCrashes(p) \/ DaemonDies(p)
    PROVE  proc[p] \in Alive /\ \E heir \in {NoPid, Orphans} : End(p, heir)
BY DEF DaemonExits, DaemonCrashes, DaemonDies, Alive

LEMMA NextTypeInv == TypeInv /\ [Next]_vars => TypeInv'
<1> SUFFICES ASSUME TypeInv, [Next]_vars PROVE TypeInv'
  OBVIOUS
<1>1. FlagsTypeOK'
  BY NextFlags DEF TypeInv, TypeOK, ServerTypeOK
<1>2. ASSUME NEW p \in Pids, DaemonExits(p) \/ DaemonCrashes(p) \/ DaemonDies(p) PROVE TypeInv'
  BY <1>2, DaemonEnds, DaemonTyped DEF Alive
<1>3. CASE UNCHANGED vars
  BY <1>3 DEF vars, serverVars, factoryVars, daemonVars, workVars, TypeInv, TypeOK, ServerTypeOK,
     FlagsTypeOK, LoopInv, CurInv, OwnersInv
<1>4. CASE Factory
  BY <1>1, <1>4, StartTyped, SpawnTyped, PingTyped, HaltTyped, ShutdownTyped, EndTyped, CommandTyped,
     LoopTyped DEF Factory
<1>5. CASE Answers
  BY <1>1, <1>5, PingTyped, ShutdownTyped DEF Answers
<1> QED BY <1>1, <1>2, <1>3, <1>4, <1>5, EndTyped, DaemonTyped, LoopTyped, ClientTyped DEF Next

\* Type correctness of the factory, with daemons that bind, leave, crash and are
\* killed at any moment, pids handed out again and loggers that do not start:
\* a handler always knows the request it answers and the storlet it works on
\* (DaemonFactory).
THEOREM FactoryTypeCorrect == Spec => []TypeOK
<1>1. TypeInv => TypeOK
  BY DEF TypeInv
<1> QED BY <1>1, InitTypeInv, NextTypeInv, PTL DEF Spec

----------------------------------------------------------------------------
\* The daemons and the factory's map.

\* No process comes to life, and none that was struck down is up again.
Lowers ==
    \A p \in Pids : /\ Up(p)' => Up(p)
                    /\ proc'[p] \in Alive => proc[p] \in Alive

\* A step that leaves the map alone and does not go on with a handler.
LEMMA GoOnTracks ==
    ASSUME TypeInv, TrackInv, Lowers, UNCHANGED <<runs, storlet_name_to_pid>>, PipesOwn', PingsOwn',
           \/ UNCHANGED <<pc, at, child, status, todo, failed>>
           \/ pc \notin Ended /\ pc' \in {"listen", "terminate", "dead"}
              /\ \A p \in Pids : pc = "check" /\ p = child => ~Up(p)'
    PROVE  TrackInv'
<1>1. FactoryTyped
  BY TypeParts
<1>2. EntriesOwn' /\ Tracked' = Tracked
  BY DEF TrackInv, EntriesOwn, Tracked
<1>3. AllTracked'
  BY DEF TrackInv, AllTracked, Lowers, Ended
<1>4. NoneBefore'
  <2>1. pc \in {"spawn", "check"} => storlet_name_to_pid[at] \in Pids \cup {NoPid}
    BY <1>1, StartingFacts DEF Starting, FactoryTyped
  <2> QED BY <2>1 DEF TrackInv, NoneBefore, Running, Lowers
<1>5. AllSeen'
  BY <1>2 DEF TrackInv, AllSeen
<1>6. OneDaemonPerStorlet'
  BY DEF TrackInv, OneDaemonPerStorlet, Lowers
<1>7. CleanExit'
  BY DEF TrackInv, CleanExit, Lowers
<1> QED BY <1>2, <1>3, <1>4, <1>5, <1>6, <1>7 DEF TrackInv

LEMMA ReapLowers ==
    ASSUME NEW p, Reap(p)
    PROVE  Lowers
BY DEF Reap, Lowers, Up, Alive

LEMMA SameLowers ==
    ASSUME proc' = proc
    PROVE  Lowers
BY DEF Lowers, Up

LEMMA RespondPc ==
    ASSUME NEW r, NEW answer, NEW iterable, Respond(r, answer, iterable) \/ DieWith({r})
    PROVE  pc' \in {"listen", "terminate", "dead"}
BY DEF Respond, DieWith, LoopTop

\* A step that answers, and leaves the pipes and the map alone.
LEMMA AnswerTracks ==
    ASSUME TypeInv, TrackInv, Lowers, UNCHANGED <<runs, storlet_name_to_pid, pipe>>,
           pc \notin Ended, NEW r, NEW answer, NEW iterable, Respond(r, answer, iterable) \/ DieWith({r}),
           \A p \in Pids : pc = "check" /\ p = child => ~Up(p)'
    PROVE  TrackInv'
<1>1. pc' \in {"listen", "terminate", "dead"}
  BY RespondPc
<1>2. PipesOwn' /\ PingsOwn'
  BY <1>1 DEF TrackInv, PipesOwn, PingsOwn
<1> QED BY <1>1, <1>2, GoOnTracks

\* Starting a daemon.
LEMMA StartTracks ==
    ASSUME TypeInv, TrackInv, NEW r \in Requests, StartDaemon(r)
    PROVE  TrackInv'
<1> DEFINE p == storlet_name_to_pid[Storlet[r]]
<1>1. FactoryTyped /\ Storlet[r] \in Storlets /\ pc = "listen"
  BY TypeParts, StorletTyped DEF StartDaemon, DaemonCommands, Receive
<1>2. UNCHANGED <<storlet_name_to_pid, runs, pipe>>
  BY DEF StartDaemon
<1>3. CASE proc' = proc /\ (Respond(r, "fail", TRUE) \/ Respond(r, "ok", TRUE))
  BY <1>1, <1>2, <1>3, SameLowers, AnswerTracks DEF Ended
<1>4. CASE ~Running(p) /\ Reap(p) /\ pc' = "spawn" /\ at' = Storlet[r]
  <2>1. Lowers
    BY <1>4, ReapLowers
  <2>2. EntriesOwn' /\ PipesOwn' /\ PingsOwn' /\ AllSeen' /\ CleanExit'
    BY <1>2, <1>4 DEF TrackInv, EntriesOwn, PipesOwn, PingsOwn, AllSeen, CleanExit
  <2>3. AllTracked'
    BY <1>1, <1>2, <2>1 DEF TrackInv, AllTracked, Lowers, Ended
  <2>4. NoneBefore'
    BY <1>1, <1>2, <1>4, <2>1 DEF NoneBefore, Running, Lowers, FactoryTyped
  <2>5. OneDaemonPerStorlet'
    BY <1>2, <2>1 DEF TrackInv, OneDaemonPerStorlet, Lowers
  <2> QED BY <2>2, <2>3, <2>4, <2>5 DEF TrackInv
<1> QED BY <1>3, <1>4 DEF StartDaemon

LEMMA SpawnTracks ==
    ASSUME ~PidReuse, ~LoggerFails, TypeInv, TrackInv, Spawn
    PROVE  TrackInv'
<1>1. FactoryTyped /\ OwnersInv /\ pc = "spawn"
  BY TypeParts DEF Spawn
<1>2. at \in Storlets
  BY <1>1, StartingFacts DEF Starting
<1>3. PICK p \in Pids : Popen(p) /\ pc' = "check" /\ child' = p /\ at' = at
  BY DEF Spawn
<1>4. /\ proc'[p] = "starting" /\ runs'[p] = at
      /\ \A q \in Pids \ {p} : runs'[q] = runs[q] /\ proc'[q] \in {proc[q], "none"}
  BY <1>1, <1>2, <1>3, PopenTyped
<1>5. runs[p] = NoStorlet /\ UNCHANGED <<storlet_name_to_pid, pipe>>
  BY <1>3 DEF Popen, Spawn
<1>6. \A s \in Storlets : storlet_name_to_pid[s] # p /\ pipe[s] # p
  BY <1>5, StorletsAssumption, NamesAssumption DEF TrackInv, EntriesOwn, PipesOwn
<1>7. EntriesOwn' /\ PipesOwn'
  BY <1>1, <1>4, <1>5, <1>6 DEF TrackInv, EntriesOwn, PipesOwn, FactoryTyped
<1>8. PingsOwn' /\ AllSeen' /\ CleanExit'
  BY <1>3 DEF PingsOwn, AllSeen, CleanExit
<1>9. \A q \in Pids \ {p} : Up(q)' => Up(q) /\ runs'[q] # at
  <2> SUFFICES ASSUME NEW q \in Pids \ {p}, Up(q)' PROVE Up(q) /\ runs'[q] # at
    OBVIOUS
  <2>1. Up(q) /\ runs'[q] = runs[q]
    BY <1>4 DEF Up
  <2>2. storlet_name_to_pid[runs[q]] = q
    BY <1>1, <2>1 DEF TrackInv, AllTracked, Ended
  <2>3. ~Running(storlet_name_to_pid[at])
    BY <1>1 DEF TrackInv, NoneBefore
  <2>4. runs[q] = at => Running(storlet_name_to_pid[at])
    BY <2>1, <2>2, NamesAssumption DEF Running, Up, Alive
  <2> QED BY <2>1, <2>3, <2>4
<1>10. AllTracked'
  <2> SUFFICES ASSUME NEW q \in Pids, Up(q)'
               PROVE  storlet_name_to_pid'[runs'[q]] = q \/ (pc' = "check" /\ child' = q)
    BY DEF AllTracked
  <2>1. CASE q = p
    BY <1>3, <2>1
  <2>2. CASE q # p
    BY <1>1, <1>4, <1>5, <1>9, <2>2 DEF TrackInv, AllTracked, Ended
  <2> QED BY <2>1, <2>2
<1>11. NoneBefore'
  <2>1. ~Running(storlet_name_to_pid[at])'
    BY <1>1, <1>2, <1>3, <1>4, <1>5, <1>6 DEF TrackInv, NoneBefore, Running, FactoryTyped, Alive
  <2> QED BY <1>3, <1>4, <2>1 DEF NoneBefore
<1>12. OneDaemonPerStorlet'
  BY <1>4, <1>9 DEF TrackInv, OneDaemonPerStorlet
<1> QED BY <1>7, <1>8, <1>10, <1>11, <1>12 DEF TrackInv

LEMMA SpawnFailsTracks ==
    ASSUME TypeInv, TrackInv, SpawnFails
    PROVE  TrackInv'
<1>1. Lowers
  BY DEF SpawnFails, Reaped, Lowers, Up, Alive
<1> QED BY <1>1, AnswerTracks DEF SpawnFails, Ended

LEMMA CheckTracks ==
    ASSUME TypeInv, TrackInv, CheckSpawned
    PROVE  TrackInv'
<1>1. FactoryTyped /\ pc = "check" /\ child \in Pids /\ runs[child] = at
  BY TypeParts DEF CheckSpawned, TrackInv, NoneBefore
<1>2. at \in Storlets
  BY <1>1, StartingFacts DEF Starting
<1>3. Lowers /\ UNCHANGED <<runs, pipe>>
  BY ReapLowers DEF CheckSpawned
<1>4. CASE Running(child)
  <2>1. storlet_name_to_pid' = [storlet_name_to_pid EXCEPT ![at] = child] /\ pc' = "ping"
    BY <1>4 DEF CheckSpawned
  <2>2. storlet_name_to_pid'[at] = child /\ \A s \in Storlets \ {at} : storlet_name_to_pid'[s] = storlet_name_to_pid[s]
    BY <1>1, <1>2, <2>1 DEF FactoryTyped
  <2>3. EntriesOwn' /\ PipesOwn'
    BY <1>1, <1>3, <2>2 DEF TrackInv, EntriesOwn, PipesOwn
  <2>4. PingsOwn' /\ NoneBefore' /\ AllSeen' /\ CleanExit'
    BY <2>1 DEF PingsOwn, NoneBefore, AllSeen, CleanExit
  <2>5. AllTracked'
    <3> SUFFICES ASSUME NEW q \in Pids, Up(q)' PROVE storlet_name_to_pid'[runs'[q]] = q
      BY DEF AllTracked
    <3>1. Up(q) /\ runs'[q] = runs[q]
      BY <1>3 DEF Lowers
    <3>2. runs[q] \in Storlets
      BY <3>1, TypeParts DEF OwnersInv, Up
    <3>3. CASE q = child
      BY <1>1, <2>2, <3>1, <3>3
    <3>4. CASE q # child
      <4>1. storlet_name_to_pid[runs[q]] = q
        BY <1>1, <3>1, <3>4 DEF TrackInv, AllTracked, Ended
      <4>2. ~Running(storlet_name_to_pid[at])
        BY <1>1 DEF TrackInv, NoneBefore
      <4>3. runs[q] # at
        BY <3>1, <4>1, <4>2, NamesAssumption DEF Running, Up, Alive
      <4> QED BY <2>2, <3>1, <3>2, <4>1, <4>3
    <3> QED BY <3>3, <3>4
  <2>6. OneDaemonPerStorlet'
    BY <1>3 DEF TrackInv, OneDaemonPerStorlet, Lowers
  <2> QED BY <2>3, <2>4, <2>5, <2>6 DEF TrackInv
<1>5. CASE ~Running(child)
  <2>1. Respond(cur, "fail", TRUE) /\ storlet_name_to_pid' = storlet_name_to_pid
    BY <1>5 DEF CheckSpawned
  <2>2. \A p \in Pids : p = child => ~Up(p)'
    <3>1. child # NoPid /\ proc[child] \notin Alive
      BY <1>1, <1>5, NamesAssumption DEF Running
    <3>2. ~Up(child)
      BY <3>1 DEF Up, Alive
    <3>3. proc'[child] \in {proc[child], "none"}
      BY <1>1 DEF CheckSpawned, Reap
    <3>4. proc'[child] \notin {"starting", "serving", "leaving"}
      BY <3>2, <3>3 DEF Up
    <3> QED BY <1>1, <3>4 DEF Up
  <2> QED BY <1>1, <1>3, <2>1, <2>2, AnswerTracks DEF Ended
<1> QED BY <1>4, <1>5

\* Pinging it.
LEMMA PingTracks ==
    ASSUME TypeInv, TrackInv, Ping1
    PROVE  TrackInv'
<1>1. /\ pc = "ping" /\ pc' \in {"ping", "pingwait"} /\ (pc' = "pingwait" => peer' = pipe[at])
      /\ UNCHANGED <<storlet_name_to_pid, proc, runs, pipe, at>>
  BY DEF Ping1, daemonVars
<1>2. at \in Storlets
  BY <1>1, StartingFacts DEF Starting
<1>3. EntriesOwn' /\ PipesOwn' /\ OneDaemonPerStorlet'
  BY <1>1 DEF TrackInv, EntriesOwn, PipesOwn, OneDaemonPerStorlet, Up
<1>4. PingsOwn'
  BY <1>1, <1>2 DEF TrackInv, PipesOwn, PingsOwn
<1>5. AllTracked'
  BY <1>1 DEF TrackInv, AllTracked, Up, Ended
<1>6. NoneBefore' /\ AllSeen' /\ CleanExit'
  BY <1>1 DEF NoneBefore, AllSeen, CleanExit
<1> QED BY <1>3, <1>4, <1>5, <1>6 DEF TrackInv

LEMMA ReturnTracks ==
    ASSUME TypeInv, TrackInv, PingGivesUp \/ PingUnanswered \/ PingAnswered
    PROVE  TrackInv'
<1>1. PICK a \in {"ok", "fail"} : StartReturns(a)
  BY DEF PingGivesUp, PingUnanswered, PingAnswered
<1>2. pc \in {"ping", "pingwait"}
  BY DEF PingGivesUp, PingUnanswered, PingAnswered
<1>3. Lowers
  BY <1>1, ReapLowers DEF StartReturns
<1> QED BY <1>1, <1>2, <1>3, AnswerTracks DEF StartReturns, Ended

\* What is struck down loses its entry.
LEMMA KillFacts ==
    ASSUME FactoryTyped, NEW S \in SUBSET Tracked, ProcessKill(S)
    PROVE  /\ Lowers
           /\ \A s \in Storlets : storlet_name_to_pid'[s] \in {storlet_name_to_pid[s], NoPid}
           /\ \A s \in Storlets : \A p \in Pids :
                storlet_name_to_pid[s] = p /\ Up(p)' => storlet_name_to_pid'[s] = p
           /\ \A s \in Killable(S) : \A p \in Pids : storlet_name_to_pid[s] = p => ~Up(p)'
<1> DEFINE struck == {storlet_name_to_pid[s] : s \in Killable(S)}
<1>1. proc' = [p \in Pids |-> IF p \notin struck THEN proc[p]
                                   ELSE IF proc[p] = "zombie" THEN "none" ELSE "killed"]
  BY DEF ProcessKill
<1>2. \A p \in Pids : p \in struck => proc[p] \in Alive \cup {"zombie"}
  BY DEF Killable, FactoryTyped, ProcStates
<1>3. \A s \in Killable(S) : storlet_name_to_pid[s] \in struck
  OBVIOUS
<1>4. \A s \in Storlets : storlet_name_to_pid'[s] = IF s \in Killable(S) THEN NoPid ELSE storlet_name_to_pid[s]
  BY DEF ProcessKill
<1> HIDE DEF struck
<1>5. Lowers
  BY <1>1, <1>2 DEF Lowers, Up, Alive
<1>6. \A s \in Killable(S) : \A p \in Pids : storlet_name_to_pid[s] = p => ~Up(p)'
  BY <1>1, <1>3 DEF Up
<1>7. \A s \in Storlets : \A p \in Pids :
        storlet_name_to_pid[s] = p /\ Up(p)' => storlet_name_to_pid'[s] = p
  BY <1>4, <1>6
<1> QED BY <1>4, <1>5, <1>6, <1>7

\* STOP_DAEMON, STOP_DAEMONS and SIGTERM.
LEMMA KillTracks ==
    ASSUME TypeInv, TrackInv, NEW S \in SUBSET Tracked, ProcessKill(S), UNCHANGED <<runs, pipe>>,
           \/ pc = "listen" /\ pc' \in {"listen", "terminate", "dead"}
           \/ pc' = "dead"
    PROVE  TrackInv'
<1>1. FactoryTyped /\ OwnersInv
  BY TypeParts
<1>2. Lowers
  BY <1>1, KillFacts
<1>3. \A s \in Storlets : storlet_name_to_pid'[s] \in {storlet_name_to_pid[s], NoPid}
  BY <1>1, KillFacts
<1>4. EntriesOwn' /\ PipesOwn'
  BY <1>3 DEF TrackInv, EntriesOwn, PipesOwn
<1>5. PingsOwn' /\ NoneBefore' /\ AllSeen' /\ CleanExit'
  BY DEF PingsOwn, NoneBefore, AllSeen, CleanExit
<1>6. OneDaemonPerStorlet'
  BY <1>2 DEF TrackInv, OneDaemonPerStorlet, Lowers
<1>7. AllTracked'
  <2> SUFFICES ASSUME pc = "listen", NEW p \in Pids, Up(p)'
               PROVE  storlet_name_to_pid'[runs'[p]] = p
    BY DEF AllTracked, Ended
  <2>1. Up(p)
    BY <1>2 DEF Lowers
  <2>2. runs[p] \in Storlets /\ storlet_name_to_pid[runs[p]] = p
    BY <1>1, <2>1 DEF OwnersInv, Up, TrackInv, AllTracked, Ended
  <2>3. storlet_name_to_pid'[runs[p]] = p
    BY <1>1, <2>2, KillFacts
  <2> QED BY <2>3
<1> QED BY <1>4, <1>5, <1>6, <1>7 DEF TrackInv

\* Shutting down: what is still in the map is to do, or has failed.
LEMMA BeginTracks ==
    ASSUME TypeInv, TrackInv, pc \in {"listen", "terminate"}, pc' = "shutdown", todo' = Tracked,
           UNCHANGED <<storlet_name_to_pid, daemonVars>>
    PROVE  TrackInv'
<1>1. EntriesOwn' /\ PipesOwn' /\ OneDaemonPerStorlet'
  BY DEF TrackInv, EntriesOwn, PipesOwn, OneDaemonPerStorlet, Up, daemonVars
<1>2. AllTracked'
  BY DEF TrackInv, AllTracked, Up, daemonVars, Ended
<1>3. AllSeen'
  BY DEF AllSeen, Tracked
<1>4. PingsOwn' /\ NoneBefore' /\ CleanExit'
  BY DEF PingsOwn, NoneBefore, CleanExit
<1> QED BY <1>1, <1>2, <1>3, <1>4 DEF TrackInv

LEMMA ShutdownTracks ==
    ASSUME TypeInv, TrackInv, pc \in Halting, pc' \in Halting, Lowers, UNCHANGED <<runs, pipe>>,
           \A s \in Storlets :
             \/ storlet_name_to_pid'[s] = storlet_name_to_pid[s]
             \/ storlet_name_to_pid'[s] = NoPid /\ ~Running(storlet_name_to_pid[s]),
           AllSeen'
    PROVE  TrackInv'
<1>1. EntriesOwn' /\ PipesOwn' /\ OneDaemonPerStorlet'
  BY DEF TrackInv, EntriesOwn, PipesOwn, OneDaemonPerStorlet, Lowers
<1>2. AllTracked'
  <2> SUFFICES ASSUME NEW p \in Pids, Up(p)' PROVE storlet_name_to_pid'[runs'[p]] = p
    BY DEF AllTracked
  <2>1. Up(p)
    BY DEF Lowers
  <2>2. runs[p] \in Storlets /\ storlet_name_to_pid[runs[p]] = p
    BY <2>1, TypeParts DEF OwnersInv, Up, TrackInv, AllTracked, Ended, Halting
  <2>3. Running(p)
    BY <2>1, NamesAssumption DEF Running, Up, Alive
  <2> QED BY <2>2, <2>3
<1>3. PingsOwn' /\ NoneBefore' /\ CleanExit'
  BY DEF PingsOwn, NoneBefore, CleanExit, Halting
<1> QED BY <1>1, <1>2, <1>3 DEF TrackInv

LEMMA HaltTracks ==
    ASSUME TypeInv, TrackInv,
           HaltAnswered \/ HaltUnanswered \/ WaitDaemon \/ \E s \in Storlets : HaltSend(s)
    PROVE  TrackInv'
<1>1. FactoryTyped /\ CurInv /\ AllSeen
  BY TypeParts DEF TrackInv
<1>2. ASSUME NEW s \in Storlets, HaltSend(s) PROVE TrackInv'
  <2>1. UNCHANGED <<storlet_name_to_pid, proc, runs, pipe>> /\ Lowers /\ Tracked' = Tracked
    BY <1>2, SameLowers DEF HaltSend, daemonVars, Tracked
  <2>2. AllSeen'
    BY <1>1, <1>2, <2>1 DEF HaltSend, AllSeen
  <2> QED BY <1>2, <2>1, <2>2, ShutdownTracks DEF HaltSend, Halting
<1>3. CASE HaltAnswered
  <2>1. UNCHANGED <<storlet_name_to_pid, runs, pipe>> /\ Tracked' = Tracked
    BY <1>3 DEF HaltAnswered, Tracked
  <2>2. Lowers
    BY <1>1, <1>3 DEF HaltAnswered, FactoryTyped, Lowers, Up, Alive
  <2>3. AllSeen'
    BY <1>1, <1>3, <2>1 DEF HaltAnswered, AllSeen
  <2> QED BY <1>3, <2>1, <2>2, <2>3, ShutdownTracks DEF HaltAnswered, Halting
<1>4. CASE HaltUnanswered
  <2>1. UNCHANGED <<storlet_name_to_pid, proc, runs, pipe>> /\ Lowers /\ Tracked' = Tracked
    BY <1>4, SameLowers DEF HaltUnanswered, daemonVars, Tracked
  <2>2. AllSeen'
    BY <1>1, <1>4, <2>1 DEF HaltUnanswered, AllSeen
  <2> QED BY <1>4, <2>1, <2>2, ShutdownTracks DEF HaltUnanswered, Halting
<1>5. CASE WaitDaemon
  <2> DEFINE p == storlet_name_to_pid[at]
  <2>1. at \in Storlets /\ UNCHANGED <<runs, pipe, todo>> /\ pc = "waitpid" /\ pc' = "shutdown"
    BY <1>1, <1>5 DEF WaitDaemon, CurInv
  <2>2. Lowers
    BY <1>5, ReapLowers DEF WaitDaemon
  <2>3. ~Running(p)
    BY <1>5 DEF WaitDaemon, Running, Alive
  <2>4. CASE proc[p] = "zombie"
    <3>1. storlet_name_to_pid' = [storlet_name_to_pid EXCEPT ![at] = NoPid] /\ failed' = failed
      BY <1>5, <2>4 DEF WaitDaemon
    <3>2. /\ storlet_name_to_pid'[at] = NoPid
          /\ \A s \in Storlets \ {at} : storlet_name_to_pid'[s] = storlet_name_to_pid[s]
      BY <1>1, <2>1, <3>1 DEF FactoryTyped
    <3>3. AllSeen'
      BY <1>1, <2>1, <3>1, <3>2 DEF AllSeen, Tracked
    <3> QED BY <2>1, <2>2, <2>3, <3>2, <3>3, ShutdownTracks DEF Halting
  <2>5. CASE proc[p] # "zombie"
    <3>1. storlet_name_to_pid' = storlet_name_to_pid /\ failed' = failed \cup {at}
      BY <1>5, <2>5 DEF WaitDaemon
    <3>2. AllSeen'
      BY <1>1, <2>1, <3>1 DEF AllSeen, Tracked
    <3> QED BY <2>1, <2>2, <3>1, <3>2, ShutdownTracks DEF Halting
  <2> QED BY <2>4, <2>5
<1> QED BY <1>2, <1>3, <1>4, <1>5

LEMMA ExitTracks ==
    ASSUME TypeInv, TrackInv, Exit
    PROVE  TrackInv'
<1>1. /\ UNCHANGED <<storlet_name_to_pid, proc, runs, pipe>> /\ pc = "shutdown" /\ pc' = "exited"
      /\ todo = {} /\ (status' = "success" => failed = {})
  BY DEF Exit, factoryVars, daemonVars
<1>2. EntriesOwn' /\ PipesOwn' /\ OneDaemonPerStorlet'
  BY <1>1 DEF TrackInv, EntriesOwn, PipesOwn, OneDaemonPerStorlet, Up
<1>3. PingsOwn' /\ NoneBefore' /\ AllSeen' /\ AllTracked'
  BY <1>1 DEF PingsOwn, NoneBefore, AllSeen, AllTracked, Ended
<1>4. CleanExit'
  <2> SUFFICES ASSUME status' = "success", NEW p \in Pids, Up(p) PROVE FALSE
    BY <1>1 DEF CleanExit, Up
  <2>1. Tracked = {}
    BY <1>1 DEF TrackInv, AllSeen
  <2>2. runs[p] \in Storlets /\ storlet_name_to_pid[runs[p]] = p
    BY <1>1, TypeParts DEF OwnersInv, Up, TrackInv, AllTracked, Ended
  <2> QED BY <2>1, <2>2, NamesAssumption DEF Tracked
<1> QED BY <1>2, <1>3, <1>4 DEF TrackInv

\* The daemons, and the end of the container.
LEMMA DaemonTracks ==
    ASSUME TypeInv, TrackInv,
           \/ ContainerGone \/ \E s \in Storlets : OrphansEnd(s)
           \/ \E p \in Pids : \/ DaemonBinds(p) \/ DaemonLeaves(p)
                              \/ DaemonExits(p) \/ DaemonCrashes(p) \/ DaemonDies(p)
    PROVE  TrackInv'
<1>1. FactoryTyped /\ OwnersInv /\ PipesOwn /\ PingsOwn
  BY TypeParts DEF TrackInv
<1>2. CASE ContainerGone
  <2>1. Lowers
    BY <1>2 DEF ContainerGone, Lowers, Up, Alive
  <2>2. PipesOwn' /\ PingsOwn'
    BY <1>1, <1>2, NamesAssumption DEF ContainerGone, PipesOwn, PingsOwn, serverVars, workVars
  <2> QED BY <1>2, <2>1, <2>2, GoOnTracks DEF ContainerGone, serverVars, workVars
<1>3. ASSUME NEW s \in Storlets, OrphansEnd(s) PROVE TrackInv'
  <2>1. Lowers
    BY <1>3, SameLowers DEF OrphansEnd
  <2>2. PipesOwn' /\ PingsOwn'
    BY <1>1, <1>3, NamesAssumption DEF OrphansEnd, PipesOwn, PingsOwn, serverVars, FactoryTyped
  <2> QED BY <1>3, <2>1, <2>2, GoOnTracks DEF OrphansEnd, serverVars
<1>4. ASSUME NEW p \in Pids, DaemonBinds(p) PROVE TrackInv'
  <2>1. runs[p] \in Storlets
    BY <1>1, <1>4 DEF DaemonBinds, OwnersInv
  <2>2. Lowers
    BY <1>1, <1>4 DEF DaemonBinds, Lowers, Up, Alive, FactoryTyped
  <2>3. PipesOwn' /\ PingsOwn'
    BY <1>1, <1>4, <2>1 DEF DaemonBinds, PipesOwn, PingsOwn, serverVars, workVars, FactoryTyped
  <2> QED BY <1>4, <2>2, <2>3, GoOnTracks DEF DaemonBinds, serverVars, workVars
<1>5. ASSUME NEW p \in Pids, DaemonLeaves(p) PROVE TrackInv'
  <2>1. Lowers
    BY <1>1, <1>5 DEF DaemonLeaves, Lowers, Up, Alive, FactoryTyped
  <2>2. PipesOwn' /\ PingsOwn'
    BY <1>1, <1>5 DEF DaemonLeaves, PipesOwn, PingsOwn, serverVars, workVars
  <2> QED BY <1>5, <2>1, <2>2, GoOnTracks DEF DaemonLeaves, serverVars, workVars
<1>6. ASSUME NEW p \in Pids, NEW heir \in {NoPid, Orphans}, End(p, heir) PROVE TrackInv'
  <2>1. Lowers
    BY <1>1, <1>6 DEF End, Lowers, Up, Alive, FactoryTyped
  <2>2. heir \notin Pids
    BY NamesAssumption
  <2>3. PipesOwn' /\ PingsOwn'
    BY <1>1, <1>6, <2>2 DEF End, PipesOwn, PingsOwn, serverVars, FactoryTyped
  <2> QED BY <1>6, <2>1, <2>3, GoOnTracks DEF End, serverVars
<1> QED BY <1>2, <1>3, <1>4, <1>5, <1>6, DaemonEnds

\* The main loop's own steps, and the clients.
LEMMA LoopTracks ==
    ASSUME TypeInv, TrackInv, UNCHANGED factoryVars,
           \/ Create \/ ListenTimeout \/ ListenFails \/ SigHup
           \/ (\E r \in Requests : Send(r, bound) \/ ClientGone(r)) \/ QueueDropped(bound)
    PROVE  TrackInv'
<1>1. Lowers /\ UNCHANGED <<storlet_name_to_pid, proc, runs, pipe, at, child, peer, todo, failed>>
  BY SameLowers DEF factoryVars, daemonVars, workVars
<1>2. \/ UNCHANGED <<pc, status>>
      \/ pc \in {"create", "listen"} /\ pc' \in {"listen", "terminate"}
      \/ pc' = "exited" /\ status' = "failure"
  BY DEF Create, ListenTimeout, LoopTop, ListenFails, SigHup, Send, ClientGone, QueueDropped
<1>3. PipesOwn' /\ PingsOwn'
  BY <1>1, <1>2 DEF TrackInv, PipesOwn, PingsOwn
<1>4. CASE pc' = "exited" /\ status' = "failure"
  <2>1. EntriesOwn' /\ OneDaemonPerStorlet'
    BY <1>1 DEF TrackInv, EntriesOwn, OneDaemonPerStorlet, Up
  <2>2. NoneBefore' /\ AllSeen' /\ AllTracked' /\ CleanExit'
    BY <1>4 DEF NoneBefore, AllSeen, AllTracked, CleanExit, Ended
  <2> QED BY <1>3, <2>1, <2>2 DEF TrackInv
<1> QED BY <1>1, <1>2, <1>3, <1>4, GoOnTracks DEF Ended

LEMMA CommandTracks ==
    ASSUME TypeInv, TrackInv, NEW r \in Requests,
           \/ DaemonStatus(r) \/ StopDaemon(r) \/ StopDaemons(r) \/ Halt(r)
           \/ (Ping(r) \/ Unsupported(r, Handlers) \/ ReceiveGarbled(r)) /\ UNCHANGED factoryVars
    PROVE  TrackInv'
<1>1. pc = "listen"
  BY DEF DaemonStatus, StopDaemon, StopDaemons, Halt, Ping, Unsupported, ReceiveGarbled, Receive
<1>2. CASE DaemonStatus(r)
  <2>1. Lowers
    BY <1>2, ReapLowers DEF DaemonStatus
  <2> QED BY <1>1, <1>2, <2>1, AnswerTracks DEF DaemonStatus, Ended
<1>3. CASE StopDaemon(r)
  <2>1. PICK S \in SUBSET Tracked : ProcessKill(S)
    BY <1>3 DEF StopDaemon
  <2>2. pc' \in {"listen", "terminate", "dead"}
    BY <1>3, RespondPc DEF StopDaemon
  <2> QED BY <1>1, <1>3, <2>1, <2>2, KillTracks DEF StopDaemon
<1>4. CASE StopDaemons(r)
  <2>1. pc' \in {"listen", "terminate", "dead"}
    BY <1>4, RespondPc DEF StopDaemons
  <2> QED BY <1>1, <1>4, <2>1, KillTracks DEF StopDaemons
<1>5. CASE Halt(r)
  BY <1>1, <1>5, BeginTracks DEF Halt
<1>6. CASE (Ping(r) \/ Unsupported(r, Handlers) \/ ReceiveGarbled(r)) /\ UNCHANGED factoryVars
  <2>1. Lowers /\ UNCHANGED <<storlet_name_to_pid, runs, pipe>>
    BY <1>6, SameLowers DEF factoryVars, daemonVars
  <2>2. \E a \in {"ok", "fail"} : Respond(r, a, TRUE) \/ DieWith({r})
    BY <1>6 DEF Ping, Unsupported, ReceiveGarbled
  <2> QED BY <1>1, <2>1, <2>2, AnswerTracks DEF Ended
<1> QED BY <1>2, <1>3, <1>4, <1>5, <1>6

LEMMA EndTracks ==
    ASSUME TypeInv, TrackInv, HaltDone \/ Terminate \/ SigTerm
    PROVE  TrackInv'
<1>1. CASE HaltDone
  <2>1. Lowers /\ UNCHANGED <<storlet_name_to_pid, runs, pipe>>
    BY <1>1, SameLowers DEF HaltDone, factoryVars, daemonVars
  <2> QED BY <1>1, <2>1, AnswerTracks DEF HaltDone, Ended
<1>2. CASE Terminate
  BY <1>2, BeginTracks DEF Terminate
<1>3. CASE SigTerm
  BY <1>3, KillTracks DEF SigTerm, DieWith
<1> QED BY <1>1, <1>2, <1>3

LEMMA NextTracks ==
    ASSUME ~PidReuse, ~LoggerFails, TypeInv, TrackInv, [Next]_vars
    PROVE  TrackInv'
<1>1. CASE UNCHANGED vars
  <2>1. Lowers /\ UNCHANGED <<storlet_name_to_pid, runs, pipe, pc, at, child, peer, status, todo, failed>>
    BY <1>1, SameLowers DEF vars, serverVars, factoryVars, daemonVars, workVars
  <2>2. PipesOwn' /\ PingsOwn'
    BY <2>1 DEF TrackInv, PipesOwn, PingsOwn
  <2> QED BY <2>1, <2>2, GoOnTracks
<1>2. CASE Factory
  BY <1>2, StartTracks, SpawnTracks, SpawnFailsTracks, CheckTracks, PingTracks, ReturnTracks,
     CommandTracks, EndTracks, HaltTracks, ExitTracks, LoopTracks DEF Factory
<1>3. CASE Answers
  BY <1>3, ReturnTracks, HaltTracks DEF Answers
<1> QED BY <1>1, <1>2, <1>3, EndTracks, DaemonTracks, LoopTracks DEF Next

LEMMA InvariantHolds ==
    ASSUME ~PidReuse, ~LoggerFails
    PROVE  Spec => [](TypeInv /\ TrackInv)
<1>1. Init => TrackInv
  BY NamesAssumption DEF Init, ServerInit, TrackInv, EntriesOwn, PipesOwn, PingsOwn, AllTracked, NoneBefore,
     AllSeen, OneDaemonPerStorlet, CleanExit, Up
<1>2. TypeInv /\ TrackInv /\ [Next]_vars => TrackInv'
  BY NextTracks
<1> QED BY <1>1, <1>2, InitTypeInv, NextTypeInv, PTL DEF Spec

\* A storlet never has two daemons that compete for its pipe, whatever the order
\* of START_DAEMON, STOP_DAEMON, pings, crashes and signals (process_start_daemon,
\* process_kill).
THEOREM OneDaemonHolds ==
    ASSUME ~PidReuse, ~LoggerFails
    PROVE  Spec => []OneDaemonPerStorlet
<1>1. TrackInv => OneDaemonPerStorlet
  BY DEF TrackInv
<1> QED BY <1>1, InvariantHolds, PTL

\* No daemon escapes the factory: each is in its map or is about to be entered,
\* so that halt, stop and SIGTERM reach it (spawn_subprocess).
THEOREM DaemonsTrackedHolds ==
    ASSUME ~PidReuse, ~LoggerFails
    PROVE  Spec => []DaemonsTracked
<1>1. TrackInv => DaemonsTracked
  BY DEF TrackInv, AllTracked, DaemonsTracked
<1> QED BY <1>1, InvariantHolds, PTL

\* A factory that ends with EXIT_SUCCESS has brought its daemons down itself
\* (_terminate, shutdown_all_processes).
THEOREM CleanExitHolds ==
    ASSUME ~PidReuse, ~LoggerFails
    PROVE  Spec => []CleanExit
<1>1. TrackInv => CleanExit
  BY DEF TrackInv
<1> QED BY <1>1, InvariantHolds, PTL

----------------------------------------------------------------------------
\* What an answer means.

LEMMA RespondOther ==
    ASSUME reply \in [Requests -> Replies], NEW q, NEW answer, NEW iterable,
           Respond(q, answer, iterable) \/ DieWith({q}), NEW r \in Requests, reply'[r] # reply[r]
    PROVE  r = q
BY DEF Respond, DieWith

LEMMA RespondSame ==
    ASSUME reply \in [Requests -> Replies], NEW r \in Requests, NEW answer, NEW iterable,
           Respond(r, answer, iterable), reply[r] = "sent"
    PROVE  reply'[r] = answer
BY DEF Respond

\* The steps that answer a client are those of the handler of its command.
LEMMA AnsweredBy ==
    ASSUME TypeInv, [Next]_vars, NEW r \in Requests, reply[r] = "sent", reply'[r] \in {"ok", "fail"}
    PROVE  \/ DaemonStatus(r) \/ StartDaemon(r) \/ StopDaemon(r) \/ StopDaemons(r)
           \/ Command[r] \notin DaemonCommands \cup {"STOP_DAEMONS", "HALT"}
           \/ /\ cur = r /\ Command[r] = "START_DAEMON"
              /\ Spawn \/ SpawnFails \/ CheckSpawned \/ PingGivesUp \/ PingUnanswered \/ PingAnswered
           \/ cur = r /\ Command[r] = "HALT" /\ HaltDone
<1>1. reply \in [Requests -> Replies] /\ reply'[r] # reply[r]
  BY DEF TypeInv, TypeOK, ServerTypeOK
<1>2. ASSUME NEW q \in Requests, DaemonStatus(q) \/ StartDaemon(q) \/ StopDaemon(q) \/ StopDaemons(q)
      PROVE  q = r
  <2>1. reply' = reply \/ \E a \in {"ok", "fail"}, it \in BOOLEAN : Respond(q, a, it)
    BY <1>2 DEF DaemonStatus, StartDaemon, StopDaemon, StopDaemons
  <2>2. reply' # reply
    BY <1>1
  <2> QED BY <1>1, <2>1, <2>2, RespondOther
<1>3. ASSUME NEW q \in Requests, Ping(q) \/ Unsupported(q, Handlers) \/ ReceiveGarbled(q)
      PROVE  Command[r] \notin DaemonCommands \cup {"STOP_DAEMONS", "HALT"}
  <2>1. \E a \in {"ok", "fail"}, it \in BOOLEAN : Respond(q, a, it) \/ DieWith({q})
    BY <1>3 DEF Ping, Unsupported, ReceiveGarbled
  <2>2. q = r
    BY <1>1, <2>1, RespondOther
  <2> QED BY <1>3, <2>2 DEF Ping, Unsupported, ReceiveGarbled, Handlers, DaemonCommands
<1>4. ASSUME Spawn \/ SpawnFails \/ CheckSpawned \/ PingGivesUp \/ PingUnanswered \/ PingAnswered
      PROVE  cur = r /\ Command[r] = "START_DAEMON"
  <2>1. reply' = reply \/ \E a \in {"ok", "fail"}, it \in BOOLEAN : Respond(cur, a, it)
    BY <1>4 DEF Spawn, SpawnFails, CheckSpawned, PingGivesUp, PingUnanswered, PingAnswered, StartReturns
  <2>2. cur = r
    <3>1. reply' # reply
      BY <1>1
    <3> QED BY <1>1, <2>1, <3>1, RespondOther
  <2>3. pc \in Starting
    BY <1>4 DEF Spawn, SpawnFails, CheckSpawned, PingGivesUp, PingUnanswered, PingAnswered, Starting
  <2> QED BY <2>2, <2>3, StartingFacts
<1>5. ASSUME HaltDone PROVE cur = r /\ Command[r] = "HALT"
  <2>1. PICK a \in {"ok", "fail"}, it \in BOOLEAN : Respond(cur, a, it)
    BY <1>5 DEF HaltDone
  <2>2. cur = r
    BY <1>1, <2>1 DEF Respond, DieWith
  <2> QED BY <1>5, <2>2, RequestsAssumption DEF TypeInv, CurInv, HaltDone, Halting
<1>6. ~SigTerm
  BY DEF SigTerm, DieWith
<1>7. ASSUME NEW q \in Requests PROVE ~Send(q, bound) /\ ~ClientGone(q)
  BY <1>1, <1>7 DEF Send, ClientGone
<1>8. ~QueueDropped(bound)
  BY DEF QueueDropped
<1>9. /\ ~Ping1 /\ ~Terminate /\ ~HaltUnanswered /\ ~HaltAnswered /\ ~WaitDaemon /\ ~Exit
      /\ \A s \in Storlets : ~HaltSend(s)
      /\ ~Create /\ ~ListenTimeout /\ ~ListenFails /\ ~SigHup /\ ~UNCHANGED vars /\ ~ContainerGone
      /\ \A q \in Requests : ~Halt(q)
  BY <1>1 DEF Ping1, Terminate, HaltUnanswered, HaltAnswered, WaitDaemon, Exit, HaltSend, Create,
     ListenTimeout, ListenFails, SigHup, vars, serverVars, ContainerGone, Halt
<1>10. /\ \A s \in Storlets : ~OrphansEnd(s)
       /\ \A p \in Pids : /\ ~DaemonBinds(p) /\ ~DaemonLeaves(p) /\ ~DaemonExits(p) /\ ~DaemonCrashes(p)
                          /\ ~DaemonDies(p)
  BY <1>1 DEF OrphansEnd, DaemonBinds, DaemonLeaves, DaemonExits, DaemonCrashes, DaemonDies, End, serverVars
<1>11. CASE Factory
  BY <1>2, <1>3, <1>4, <1>5, <1>9, <1>11 DEF Factory
<1>12. CASE Answers
  BY <1>4, <1>9, <1>12 DEF Answers
<1> QED BY <1>6, <1>7, <1>8, <1>9, <1>10, <1>11, <1>12 DEF Next

\* A daemon that is up while no handler is at work is the one in the map.
LEMMA UpIsTracked ==
    ASSUME TypeInv, TrackInv, pc \notin Ended \cup {"check"}, NEW p \in Pids, Up(p)
    PROVE  runs[p] \in Storlets /\ storlet_name_to_pid[runs[p]] = p
BY TypeParts DEF OwnersInv, Up, TrackInv, AllTracked

LEMMA StatusStep ==
    ASSUME TypeInv, TrackInv, [Next]_vars, NEW r \in Requests,
           Command[r] = "DAEMON_STATUS", reply[r] = "sent"
    PROVE  /\ reply'[r] = "ok" => \E p \in Pids : runs[p] = Storlet[r] /\ proc[p] \in Alive
           /\ reply'[r] = "fail" => \A p \in Pids : runs[p] = Storlet[r] => ~Up(p)
<1> SUFFICES ASSUME reply'[r] \in {"ok", "fail"}
             PROVE  /\ reply'[r] = "ok" => \E p \in Pids : runs[p] = Storlet[r] /\ proc[p] \in Alive
                    /\ reply'[r] = "fail" => \A p \in Pids : runs[p] = Storlet[r] => ~Up(p)
  OBVIOUS
<1> DEFINE q == storlet_name_to_pid[Storlet[r]]
<1>1. DaemonStatus(r)
  BY AnsweredBy DEF DaemonCommands, StartDaemon, StopDaemon, StopDaemons
<1>2. Storlet[r] \in Storlets /\ q \in Pids \cup {NoPid} /\ pc = "listen"
  BY <1>1, TypeParts, StorletTyped DEF DaemonCommands, DaemonStatus, Receive, FactoryTyped
<1>3. reply \in [Requests -> Replies]
  BY DEF TypeInv, TypeOK, ServerTypeOK
<1>4. reply'[r] = IF Running(q) THEN "ok" ELSE "fail"
  <2>1. PICK it \in BOOLEAN : Respond(r, IF Running(q) THEN "ok" ELSE "fail", it)
    BY <1>1 DEF DaemonStatus
  <2> QED BY <1>3, <2>1, RespondSame
<1>5. CASE Running(q)
  BY <1>2, <1>4, <1>5 DEF Running, TrackInv, EntriesOwn
<1>6. CASE ~Running(q)
  <2> SUFFICES ASSUME NEW p \in Pids, runs[p] = Storlet[r], Up(p) PROVE FALSE
    BY <1>4, <1>6
  <2>1. q = p
    BY <1>2, UpIsTracked DEF Ended
  <2> QED BY <1>6, <2>1, NamesAssumption DEF Running, Up, Alive
<1> QED BY <1>5, <1>6

LEMMA StopStep ==
    ASSUME TypeInv, TrackInv, [Next]_vars, NEW r \in Requests, NEW p \in Pids,
           reply[r] = "sent", reply'[r] = "ok",
           \/ Command[r] = "STOP_DAEMON" /\ runs[p] = Storlet[r]
           \/ Command[r] \in {"STOP_DAEMONS", "HALT"}
    PROVE  ~Up(p)'
<1>1. FactoryTyped /\ reply \in [Requests -> Replies]
  BY TypeParts DEF TypeInv, TypeOK, ServerTypeOK
<1>2. CASE StopDaemon(r)
  <2> DEFINE s == Storlet[r]
             S == {s} \cap Tracked
  <2>1. /\ pc = "listen" /\ Command[r] = "STOP_DAEMON" /\ runs[p] = s /\ ProcessKill(S)
        /\ S \in SUBSET Tracked
    BY <1>2 DEF StopDaemon, Receive
  <2>2. Killable(S) # {}
    <3>1. PICK it \in BOOLEAN : Respond(r, IF Killable(S) = {} THEN "fail" ELSE "ok", it)
      BY <1>2 DEF StopDaemon
    <3>2. reply'[r] = IF Killable(S) = {} THEN "fail" ELSE "ok"
      BY <1>1, <3>1, RespondSame
    <3> QED BY <3>2
  <2>3. s \in Killable(S)
    BY <2>2 DEF Killable
  <2> HIDE DEF S
  <2>4. Lowers
    BY <1>1, <2>1, KillFacts
  <2>5. Up(p) => storlet_name_to_pid[s] = p
    BY <2>1, UpIsTracked DEF Ended
  <2>6. storlet_name_to_pid[s] = p => ~Up(p)'
    BY <1>1, <2>1, <2>3, KillFacts
  <2> QED BY <2>4, <2>5, <2>6 DEF Lowers
<1>3. CASE StopDaemons(r)
  <2>1. pc = "listen" /\ ProcessKill(Tracked)
    BY <1>3 DEF StopDaemons, Receive
  <2>2. Killable(Tracked) = Tracked
    <3>1. PICK it \in BOOLEAN : Respond(r, IF Killable(Tracked) = Tracked THEN "ok" ELSE "fail", it)
      BY <1>3 DEF StopDaemons
    <3>2. reply'[r] = IF Killable(Tracked) = Tracked THEN "ok" ELSE "fail"
      BY <1>1, <3>1, RespondSame
    <3> QED BY <3>2
  <2>3. Lowers
    BY <1>1, <2>1, KillFacts
  <2>4. Up(p) => runs[p] \in Tracked /\ storlet_name_to_pid[runs[p]] = p
    BY <2>1, UpIsTracked, NamesAssumption DEF Ended, Tracked
  <2>5. \A s \in Tracked : storlet_name_to_pid[s] = p => ~Up(p)'
    BY <1>1, <2>1, <2>2, KillFacts
  <2> QED BY <2>3, <2>4, <2>5 DEF Lowers
<1>4. CASE HaltDone
  <2>1. pc = "shutdown" /\ todo = {} /\ proc' = proc
    BY <1>4 DEF HaltDone, factoryVars, daemonVars
  <2>2. failed = {}
    <3>1. PICK it \in BOOLEAN : Respond(cur, IF failed = {} THEN "ok" ELSE "fail", it)
      BY <1>4 DEF HaltDone
    <3>2. cur = r
      BY <1>1, <3>1 DEF Respond, DieWith
    <3>3. reply'[r] = IF failed = {} THEN "ok" ELSE "fail"
      BY <1>1, <3>1, <3>2, RespondSame
    <3> QED BY <3>3
  <2>3. Tracked = {}
    BY <2>1, <2>2 DEF TrackInv, AllSeen
  <2>4. ~Up(p)
    BY <2>1, <2>3, UpIsTracked, NamesAssumption DEF Ended, Tracked
  <2> QED BY <2>1, <2>4 DEF Up
<1> QED BY <1>2, <1>3, <1>4, AnsweredBy DEF DaemonCommands, DaemonStatus, StartDaemon

LEMMA StartStep ==
    ASSUME TypeInv, TrackInv, [Next]_vars, NEW r \in Requests,
           Command[r] = "START_DAEMON", reply[r] = "sent", reply'[r] = "ok"
    PROVE  \E p \in Pids : /\ storlet_name_to_pid'[Storlet[r]] = p
                           /\ runs[p] = Storlet[r] /\ proc'[p] \in Alive \cup {"zombie"}
<1>1. FactoryTyped /\ reply \in [Requests -> Replies] /\ Storlet[r] \in Storlets
  BY TypeParts, StorletTyped DEF TypeInv, TypeOK, ServerTypeOK, DaemonCommands
<1>2. CASE StartDaemon(r)
  <2> DEFINE p == storlet_name_to_pid[Storlet[r]]
  <2>1. ~Respond(r, "fail", TRUE) /\ reply' # reply
    BY <1>1 DEF Respond
  <2>2. Running(p) /\ proc' = proc /\ storlet_name_to_pid' = storlet_name_to_pid
    BY <1>2, <2>1 DEF StartDaemon
  <2>3. p \in Pids /\ proc[p] \in Alive
    BY <1>1, <2>2 DEF Running, FactoryTyped
  <2> QED BY <1>1, <2>2, <2>3, NamesAssumption DEF TrackInv, EntriesOwn
<1>3. CASE PingAnswered /\ cur = r
  <2>1. /\ pc = "pingwait" /\ peer \in Pids /\ proc[peer] = "serving" /\ Reap(storlet_name_to_pid[at])
        /\ storlet_name_to_pid' = storlet_name_to_pid
    BY <1>3 DEF PingAnswered, StartReturns
  <2>2. at = Storlet[r] /\ runs[peer] = at
    BY <1>3, <2>1, StartingFacts DEF Starting, TrackInv, PingsOwn
  <2>3. storlet_name_to_pid[at] = peer
    BY <2>1, <2>2, UpIsTracked DEF Ended, Up
  <2>4. proc'[peer] = "serving"
    BY <2>1 DEF Reap
  <2> QED BY <2>1, <2>2, <2>3, <2>4 DEF Alive
<1>4. ~Spawn /\ ~SpawnFails /\ ~CheckSpawned /\ ~PingGivesUp /\ ~PingUnanswered
  <2>1. reply' # reply
    OBVIOUS
  <2>2. ~Respond(cur, "fail", TRUE)
    BY <1>1, RespondOther, Zenon DEF Respond, DieWith
  <2> QED BY <2>1, <2>2 DEF Spawn, SpawnFails, CheckSpawned, PingGivesUp, PingUnanswered, StartReturns
<1> QED BY <1>2, <1>3, <1>4, AnsweredBy DEF DaemonCommands, DaemonStatus, StopDaemon, StopDaemons

\* DAEMON_STATUS tells the truth: "ok" only of a storlet whose daemon was started
\* and has not ended, failure only of one that has none up, however the daemons
\* end and whoever reaped them before (get_process_status_by_name).
THEOREM StatusTruthfulHolds ==
    ASSUME ~PidReuse, ~LoggerFails
    PROVE  Spec => StatusTruthful
<1> DEFINE A == \A r \in Requests :
                  Command[r] = "DAEMON_STATUS" /\ reply[r] = "sent" =>
                    /\ reply'[r] = "ok" => \E p \in Pids : runs[p] = Storlet[r] /\ proc[p] \in Alive
                    /\ reply'[r] = "fail" => \A p \in Pids : runs[p] = Storlet[r] => ~Up(p)
<1>1. TypeInv /\ TrackInv /\ [Next]_vars => [A]_vars
  BY StatusStep
<1> QED BY <1>1, InvariantHolds, PTL DEF Spec, StatusTruthful

\* When STOP_DAEMON is answered "ok" no daemon of that storlet is left up, and
\* when STOP_DAEMONS or HALT is, none at all (process_kill, process_kill_all,
\* shutdown_all_processes).
THEOREM StopStopsHolds ==
    ASSUME ~PidReuse, ~LoggerFails
    PROVE  Spec => StopStops
<1> DEFINE A == \A r \in Requests, p \in Pids :
                  /\ reply[r] = "sent" /\ reply'[r] = "ok"
                  /\ \/ Command[r] = "STOP_DAEMON" /\ runs[p] = Storlet[r]
                     \/ Command[r] \in {"STOP_DAEMONS", "HALT"}
                  => ~Up(p)'
<1>1. TypeInv /\ TrackInv /\ [Next]_vars => [A]_vars
  BY StopStep
<1> QED BY <1>1, InvariantHolds, PTL DEF Spec, StopStops

\* When START_DAEMON is answered "ok" the map holds a daemon of that storlet that
\* has not been waited for, so that the next command finds it
\* (process_start_daemon, wait_for_daemon_to_initialize).
THEOREM StartStartsHolds ==
    ASSUME ~PidReuse, ~LoggerFails
    PROVE  Spec => StartStarts
<1> DEFINE A == \A r \in Requests :
                  Command[r] = "START_DAEMON" /\ reply[r] = "sent" /\ reply'[r] = "ok" =>
                    \E p \in Pids : /\ storlet_name_to_pid'[Storlet[r]] = p
                                    /\ runs[p] = Storlet[r] /\ proc'[p] \in Alive \cup {"zombie"}
<1>1. TypeInv /\ TrackInv /\ [Next]_vars => [A]_vars
  BY StartStep
<1> QED BY <1>1, InvariantHolds, PTL DEF Spec, StartStarts
============================================================================
