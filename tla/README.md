# A TLA+ model of OpenStack Storlets

Storlets run user code next to the data of an OpenStack Swift cluster. A request
with the header `X-Run-Storlet` makes the Swift middleware hand the object's
data to a *gateway*; the gateway brings the storlet's code into a *sandbox* (a
Docker or Podman container per account), sees to it that a *daemon* for that
storlet runs there, and exchanges data with it through pipes.

This directory models the part of that machinery where several processes meet:
the two halves of the middleware, which decide separately who runs a storlet;
the gateways of a node, which start and restart its sandboxes; the servers
inside a sandbox (daemon and daemon factory, over the SBus datagram socket); the
way of a storlet's code from Swift into the daemon; and the exchange of data
between a Swift worker and the storlet.
Section 1 is the inventory of the system, section 2 relates the modules to the
code, sections 3 to 6 say what is checked and what is proved, section 7 what is
left out, section 8 what comes next. All paths are relative to the repository.

## 1. Inventory

| Component | State it keeps | Operations | Hard behaviour |
|---|---|---|---|
| SBus transport (`src/c/sbus/sbus.c`, `storlets/sbus/`) | a bound UNIX datagram socket, its queue | create, listen, receive, send; a datagram carries descriptors | the socket outlives the server in forked children; datagrams that cannot be decoded; listen interrupted by a signal |
| SBus server (`storlets/agent/common/server.py`) | `running`, the idle count, exit status | `main_loop`, `dispatch_command`, `_respond`, `ping`, SIGHUP, SIGTERM | the idle time-out racing with a request; a client that has gone |
| SBus client (`storlets/sbus/client/`) | the service pipe of a request | `_request` and one method per command | a blocking read without time limit |
| Python daemon (`storlets/agent/daemon/server.py`) | `task_id_to_pid`, children | `execute`, `cancel`, `halt`, reaping | pool limit, reuse of pids, reaping in three places, waiting for children |
| Storlet files (`storlets/agent/daemon/files.py`) | position in a stream | `read`, `write`, `set_metadata`, `close` | ranges, short reads |
| Daemon factory (`storlets/agent/daemon_factory/server.py`) | `storlet_name_to_pid`, `storlet_name_to_pipe_name` | `start_daemon`, `stop_daemon`, `daemon_status`, `stop_daemons`, `halt` | daemons ending at any moment, stale entries, blocking pings, one of several shutdowns failing |
| Storlet cache (`storlets/gateway/gateways/container/gateway.py`) | cached files, files in the sandbox's directory | `bring_from_cache`, `update_container_from_cache`, `invocation_flow` | workers sharing files without locks, broken downloads, uploads in between |
| Sandbox runtime (`.../container/runtime.py`, `docker/`, `podman/`) | containers of the node, the pipes of each scope | `activate_storlet_daemon`, `restart`, `_restart`, `wait` | several gateways restarting one sandbox, a fall-back image beside the tenant's, the limit on containers read before it is used |
| Invocation protocol (`.../container/runtime.py`, `storlets/gateway/common/stob.py`) | pipes, task id | `communicate`, `_wait_for_read_with_timeout`, `_wait_for_write_with_timeout`, `_write_input_data`, `_cancel`, the iterator | blocking reads that stop all green threads, a daemon that leaves after a CANCEL, time-outs racing with what they wait for, descriptors on error paths and closed twice by number |
| Swift middleware (`storlets/swift_middleware/`) | a request's headers; a container's read ACL | GET, PUT, COPY, POST of the proxy's handler, GET of the object server's | two servers deciding who runs the storlet; ranges, large, erasure coded and linked objects, replicas, copies; ACL read and written back |
| Java daemon (`src/java/SDaemon/`) | thread pool, map of futures | the same commands as the python daemon | a task ending before it is entered into the map |
| Tools, packaging, samples | none | deployment scripts | none of interest here |

How they interact: a worker of the proxy or of an object server calls the
gateway; the gateway sends `DAEMON_STATUS`, `STOP_DAEMON`, `START_DAEMON` to the
factory and `EXECUTE`, `CANCEL` to the daemon, each as one datagram with a pipe
for the answer; the factory starts daemons, pings them, and halts or kills them;
the daemon forks a child per execution. Gateways share the cache, the sandbox's
directory, the factory and the daemons without any lock.

What makes each part correct:

* a server answers each client once, forgets none, and ends when it should;
* the daemon never runs more than `pool_size` storlets, never signals a process
  that is not the one meant, and leaves none behind when it exits;
* the factory runs one daemon per storlet, reaches all of them, and its answers
  agree with the processes;
* what a daemon runs is a whole version of the storlet, and a current one;
* an invocation ends whatever the storlet does, leaves no descriptor open and
  no storlet waiting, and delivers what the storlet wrote;
* an activation that nobody disturbed ends with a daemon behind the storlet's
  pipe, in the sandbox it belongs to; the limit on containers is kept up to the
  race the code leaves open; every activation ends;
* a request with `X-Run-Storlet` has its storlet run exactly once, on the server
  and on the range that were asked for, and is answered.

`PROJECT.json` lists the hazards line by line with the properties that would
notice them.

## 2. Modules and code

    SBusServer  <-EXTENDS-  StorletDaemon  <-  StorletDaemonProofs  <-  StorletDaemonRefinement
                                           <-  MCStorletDaemon
                <-EXTENDS-  StorletDaemonFactory  <-  StorletDaemonFactoryProofs
                                                  <-  MCStorletDaemonFactory
    TaskPool  <-INSTANCE-  StorletDaemon
    StorletSandbox  <-  StorletSandboxProofs
                    <-  MCStorletSandbox
    StorletCache  <-  StorletCacheProofs
                  <-  MCStorletCache
    StorletInvocation  <-  StorletInvocationProofs
    StorletMiddleware  <-  StorletMiddlewareProofs
                       <-  MCStorletMiddleware

The modules meet at their seams by assumption and guarantee: `StorletSandbox`
uses of the factory that it answers every request (`EveryRequestSettled` of
`StorletDaemonFactory`), the factory uses of the daemons that they answer
(`EveryRequestSettled` of `StorletDaemon`), and `StorletInvocation` sees of the
daemon a pool of a certain size (`TaskPool`).

**SBusServer** is what both servers inherit from `agent/common/server.py`. A
*request* is one datagram with the pipe on which its client waits; `reply[r]` is
what that client has seen: answered, end-of-file, `sendmsg` refused, or that it
left. `pc` is the place of the server process, with a label wherever it blocks
or another process can act in between. `Create`, `ListenTimeout`, `ListenFails`,
`Ping`, `Unsupported`, `ReceiveGarbled`, `SigHup` are whole paths through
`main_loop`. `Respond` writes the answer; it models that the buffered write
happens when the pipe is closed, outside the `try` of `_respond`, so that a
client that has gone ends the process. `QueueDropped` is the kernel discarding
datagrams when nobody holds the socket any more, which clients see as
end-of-file. A server module adds its own state to these actions with UNCHANGED.

**StorletDaemon** adds `task_id_to_pid` and the kernel's process table: `proc`
(free, running, SIGKILL pending, zombie) and `work` (the task a pid was forked
for, a history variable no action reads). `Execute` receives the request;
`WaitChild` is one turn of the loop that waits for room (`_cleanup_pids`, the
pool test); `OsWait` is the blocking `os.wait()`; `Fork` and `ForkFails` end the
handler. `Cancel` and `Halt` answer and leave the loop, `Exit` is
`_wait_all_child_processes`. A pid is free for a new child once its owner was
reaped. Task ids come from `uuid4`, so an id is identified with its request.

**TaskPool** is what a daemon promises, without processes and messages: a task
is begun at most once, at most `size` tasks run together, a cancel strikes down
one running task and closes the pool, and a closed pool begins no task any more.
`StorletDaemon` instantiates it as `Pool`, with a task for each EXECUTE: `open`
is `Open`, that the server process has not left its loop; `begun` is the tasks
whose client was told a task id or for which a child was ever forked; `running`
and `struck` are the tasks of the children that run, and of those with a SIGKILL
pending. `ImplementsTaskPool` is `Pool!Spec`.

**StorletDaemonFactory** adds the map of daemons, the process table of daemons,
and for each storlet who holds the socket its pipe path leads to (`pipe`): a
daemon, storlet processes that outlived one (`Orphans`), or nobody. The daemons
are seen from outside, as `StorletDaemon` behaves: they bind some time after the
start, answer PING and HALT while they serve, and may leave, crash or be killed
at any moment. `START_DAEMON` takes several steps (`StartDaemon`, `Spawn`,
`CheckSpawned`, `Ping1`, `PingAnswered` or `PingUnanswered`, `PingGivesUp`), and
so does a shutdown (`HaltSend`, `HaltAnswered` or `HaltUnanswered`,
`WaitDaemon`, `HaltDone`). The collection of an unreferenced `Popen` object,
which also reaps, is in `Popen` and `StartReturns`. SIGTERM kills the process
group, and the end of
process 1 ends the container (`ContainerGone`).

**StorletCache** follows invocations through `invocation_flow`. A file is a
sequence of blocks, each tagged with the version it came from, and a
modification time; this is what tells a partial or mixed file from a whole one.
An invocation learns the storlet's size and time when it is authorised
(`Invoke`), compares the cached file (`Bring`), downloads block by block (`Get`,
`Write`, `BreakOff`), compares and copies into the sandbox (`Compare`,
`CopyStat`: `copy2` copies data, then times), and activates the daemon
(`Status`, `Stop`, `Start`, `ActivateFails`). The clocks of the Swift nodes are
assumed to agree. A restart of the sandbox is seen as the end of the daemon.

**StorletSandbox** is a node with several workers, each going through
`activate_storlet_daemon` for one request after the other. A container is known
by its name, `<<image, scope>>`, with image `"tenant"` or `"default"`; the two
containers a scope may have share the scope's directory of pipes, and
`factory_pipe` and `storlet_pipe` say whom a path leads to. The labels of a
gateway follow the code: `status`, `stop` and `start` ask the factory
(`Ask` sends the datagram to whoever is behind the pipe, `peer` is the factory
it now waits for; `Status`, `StopDaemon`, `StartDaemon` are the answers,
`Unreachable` and `StartFails` their absence); `get`, `kill`, `limit`, `run` are
the calls of `_restart` to the container engine, each with its own failures
(`Refuse` falls back to the default image or gives up); `ping` is `wait`, which
sleeps between pings and can be timed out only there. The docker and the podman
runtime make the same calls in the same order and are one model. Containers end,
daemons end, factories are slow to bind, daemons slower than the factory's pings
(`StartGivesUp`, `DaemonBinds`) and images are installed at any moment. Of the engine it
is assumed that `stop` returns once the name of an `auto_remove` container is
free again. What the factory does to answer is `StorletDaemonFactory`; here an
answer is one step. `twins`, `calm`, `restarted` and `why` are history
variables: `calm[g]` says that since g asked for the status nobody else has
stopped, started or bound anything in its scope, a daemon started where the
storlet's pipe led nowhere excepted.

**StorletMiddleware** follows requests through both handlers. A request is a
record of what the handlers look at (method, kind of object, ranges, headers);
a body is what it was made of, whether it is all of it, a range, or a range of a
range (`"twice"`), and the servers whose storlet runs went into it. Clients send
`Asks`: by the tests of the handler only a POST is an ACL update, only a PUT or a POST a registration.
`ProxyCall` builds the proxy's handler with all
its checks, `VerifyAccess` goes on to the first request to Swift, `Read` is the
entry into Swift with the second try under an internal referer, `ObjectCall` the
handler of one object server on one replica, `GetReturns` and `CopyReturns` the
proxy's decision on the response, `Upload` a PUT, `AclRead` and `AclWrite` the
two requests of an ACL update. The operators named after methods
(`execute_on_proxy`, `is_proxy_runnable`, `not_runnable` ...) are those methods.
Swift is external: authorisation, replicas tried in turn on a server error,
following of links, assembly of large objects, decoding of erasure coded ones.

**StorletInvocation** is the other end of EXECUTE: the invocations one worker
process has under way against one daemon, each with its log file and its three
pipes. `communicate` is followed from wait to wait. `Invoke` opens the descriptors
and sends EXECUTE; `Answer`, `Refused` and `AnswerFails` are what comes back;
`Writable`, `Metadata`, `NoMetadata` and `Data` are the three waits and what
follows them; `WaitFails`, `Timeout` and `WriteTimeout` leave them; `Cancelled`,
`CancelRefused` and `CancelFails` are the outcomes of `_cancel`. The iterator the
client reads from is `NextChunk`, `NextStops` and `NextEnds`, the green thread that
writes the body `WriteChunk` and `WriteEnds` (its second close of the input pipe,
`runtime.py:836`, follows the first without giving way and is part of that step).
Green threads change at a select and at a write to a full pipe
(`eventlet.monkey_patch()` at `runtime.py:40` covers `select` and `os.fdopen`);
the patched `os.read` only gives way on a descriptor that is non-blocking, which
the service pipe of an SBus request is not, so that `Blocked` stops the worker
between a request and its answer. When such a worker runs on, the timers that are
due fire before descriptors are polled: a timeout may strike at any moment the
worker is not blocked, whether or not what it waits for has come.

`table` is the worker's descriptor table and `num` the attributes that remember
numbers. A new descriptor is the lowest free number, as in the kernel; closing is by
number, as in the code, and strikes whatever the number leads to by then; every
read, write and select goes through the number too (`Leads`). `robbed` is a history
variable: the invocations that had a descriptor closed by another one. `chan` says
what there is to read in each pipe. `daemon` is `"up"` in its main loop,
`"leaving"` while it waits for its children and reads nothing (after any CANCEL, a
HALT, or idle), then `"gone"`: the model follows one daemon to its end. The storlet
sets its metadata and copies its input to its output, and may hang or crash. What
`StorletDaemon` says of pids, the map and other commands is left out here. The two
invocations of the runs, one with a pipe for its body (proxy) and one with a
descriptor (object server), run in different workers in most installations;
together they cover both.

The mutants named in `PROJECT.json` are the definitions marked `Bug:`; no
specification uses them.

## 3. Runs

Deadlock is not checked: servers end, and clients and workers stop when their
requests are used up. Counts are distinct states.

| Run | Instance | Shows |
|---|---|---|
| `daemon` | 3 EXECUTE, 1 CANCEL, HALT, PING, pool of 2, 3 pids, idle limit 2, one client may leave (610 000) | `TypeOK`, `PoolBound`, `EntriesAreOwn`, `NoStorletForgotten`, `ExitLeavesNoStorlet`, `NoClientForgotten`, `KilledOnlyByItsCancel`, `AnsweredOnce`, `ImplementsTaskPool` |
| `daemon_live` | 2 EXECUTE, CANCEL, an unsupported command, a garbled datagram, pool of 1 | `EveryRequestSettled`, `DaemonEnds` |
| `factory` | START twice, STOP, STATUS of one storlet; or two storlets started, HALT and STOP_DAEMONS; or START and PING; 2 pids (820 000) | `TypeOK`, `OneDaemonPerStorlet`, `DaemonsTracked`, `CleanExit`, `StatusTruthful`, `StopStops`, `StartStarts` |
| `factory_live` | START twice, unsupported, garbled; one pid, handed out again; the logger may fail | `EveryRequestSettled`, `FactoryEnds` |
| `sandbox` | 2 workers, 2 scopes, room for one container, the engine may fail (180 000) | `TypeOK`, `ContainerLimit`, `ActivationHolds`, `RunsInItsSandbox`, `ActivationsEnd` |
| `cache` | storlet with a dependency, one worker, 5 invocations, 3 versions of sizes 2, 1, 3, broken downloads of the storlet (200 000) | `TypeOK`, `CodeIsWhole`, `Fresh` |
| `cache_shared` | two workers of 2 invocations, 2 versions, uploads at any moment (6.4 million) | `DaemonRunsBox` |
| `cache_same_size` | one worker, 2 versions of one size | violates `Fresh` |
| `invocation` | two invocations, one with a pipe for its body, bodies of 2 chunks, pipes of 1, pool of 2, storlets may hang, one may crash, the daemon may stop at any moment (290 000) | `TypeOK`, `DescriptorsClosed`, `NoStorletStranded`, `NothingLost`, `InvocationsEnd` |
| `invocation_pool` | two invocations, pool of 1, storlets do not hang | violates `RequestsAnswered` |
| `middleware` | every kind of request alone, and two ACL updates with a read that needs one; 2 replicas (76 000) | `TypeOK`, `ProcessedOnce`, `RunsWhereAsked`, `RangeHonoured`, `GrantsKept`, `EveryRequestAnswered` |
| `middleware_erasure` | a read of an erasure coded object | violates `ErasureCodedProcessed` |

Bounds, and why they are enough:

* `Requests` is what clients may send in the life of a server, in every order.
  Three executions for a pool of two make one wait for room, with one child
  running, one ended and one cancelled; three pids leave one to be reused while
  two are in use.
* `IdleLimit` (600 in the code) is 1 or 2: the count is compared with its limit
  only, and 2 shows that it is reset.
* `Impatient` limits the clients that may leave: a client that left ends the
  server when it is answered, so one per run suffices.
* `Tries` (10 in the code) is 1: a daemon that binds before the ping and one that
  does not are both covered, and the loop does nothing else with its count.
* `Groups` (in `MCStorletDaemonFactory`): a run of the factory sees the requests
  of one of three groups; the constraint cuts off only states in which requests
  of two groups were sent.
* `Pids` of the factory: `PidReuse` says whether a pid is handed out again. The
  safety runs exclude it, see section 6; `factory_live` includes it.
* `Rounds`, `Versions`, `Size`: five invocations bring a version, break the
  download of the next, repair it, and go on to a third; sizes 2, 1, 3 grow and
  shrink, so that a partial file of one version has the size of another.
* `Chunks` = 2 and `Capacity` = 1 make the body and the output larger than a
  pipe, so that both sides block on full and on empty pipes.
* `MaxFd` = 12 is what two invocations need, so that every number is handed out
  again when one of them has closed something. An invocation that reads or writes
  through a number that has become another's needs a third to have been robbed
  first; such steps are enabled in the model, and reached by the proofs only.
* `Failing` lets one of the two invocations fail to open its pipes and its storlet
  crash, while the other meets every other failure; the safety properties were also
  checked with both (550 000 states).
* `Workloads` of the sandboxes: two requests of one scope in a row (the second
  finds what the first left), two of one scope that meet, and two of different
  scopes. `max_containers_per_node` is 1, so that the second container is always
  one too many; the safety properties were also checked with 0 (no limit), with
  2, and with two requests for each worker.
* `Workloads` of the middleware: requests do not meet except at an ACL, so each
  kind is explored alone, beside clients that have nothing to do with storlets.
  `Confs`: `storlet_execute_on_proxy` is the same on all servers, see section 6.
* `Replicas` = 2: a replica that fails and a last one.
* `Breaking`, `UploadsRace`, `EngineFails`, `LoggerFails`, `Stops` (the
  daemon of the invocations) turn kinds of failure on. `Fresh` is
  checked without an upload during a download
  (`UploadsRace`) and with a container engine that can stop a sandbox
  (`EngineFails`); without these it does not hold, see section 6.

Pids are interchangeable: symmetry is used in the runs without liveness.

## 4. Fairness

The server process is scheduled (`WF` on all its steps together), the kernel
delivers a pending SIGKILL and discards the queue of a dead socket. Nothing is
assumed about clients: they may never send. That storlets return
(`StorletsReturn`, `DaemonsExit`, `OrphansReturn`, the storlet's steps in
`StorletInvocation`) is an assumption about user code, made in the `FairSpec`s
and not in the `HungSpec` of the invocations; the code enforces it only through
CANCEL. That a serving daemon answers (`DaemonsAnswer`) is what `daemon_live`
shows of the daemon. The kernel ends the processes of a container
whose process 1 is gone (`ContainerGone`). In `StorletInvocation` green threads
of a worker that is not blocked run on, a timeout fires on a descriptor that stays
silent, and a client reads or
goes away (Swift's own time-outs see to that). The writing thread goes on too, with
one exception: what is left in its buffer is flushed by the close, outside any
timeout, and stays there while the pipe is full and unread (`Flushes`). The daemon
serves its socket only in its main loop. `InvocationsEnd` passes
under this `HungSpec`, without any assumption about storlets; it excepts a worker
that is held up for ever by a daemon that waits for a storlet (`HeldUp`), which the
code does not prevent. The stronger `FairSpec` adds that storlets do not hang; even
so `RequestsAnswered` is violated.

In `StorletSandbox` a worker that is busy goes on, and the factory it waits for
answers or its container ends (weak fairness of the two together, for each
worker; `EveryRequestSettled` of the factory justifies it). The timeout of
`wait` is an eventlet timer: once due, it fires the next time the worker sleeps
between two pings. As the worker goes in and out of that sleep, this is strong
fairness of `WaitTimeout`. Nothing is assumed of containers, daemons and the
other workers' requests. In `StorletMiddleware` Swift goes on with each request
(weak fairness for each client).

## 5. Proofs

### The daemon

`StorletDaemonProofs` proves eight theorems of `StorletDaemon`, and
`StorletDaemonRefinement` a ninth, for every finite set of requests and pids,
every idle limit and every pool size:

| Theorem | Statement |
|---|---|
| `TypeCorrect` | `Spec => []TypeOK` |
| `ClientsRemembered` | `Spec => []NoClientForgotten` |
| `EntriesOwn` | `Spec => []EntriesAreOwn` |
| `StorletsTracked` | `Spec => []NoStorletForgotten` |
| `GracefulExit` | `Spec => []ExitLeavesNoStorlet` |
| `PoolBounded` | `Spec => []PoolBound` |
| `AnswersFinal` | `Spec => AnsweredOnce` |
| `CancelHitsItsTask` | `Spec => KilledOnlyByItsCancel` |
| `DaemonIsTaskPool` | `Spec => ImplementsTaskPool` |

Assumptions: `RequestsAssumption` and `PidsAssumption` (finite sets that do not
contain their null values), `IdleLimitAssumption`, `PoolAssumption` (positive)
and `TargetAssumption` (a CANCEL names some request).

None of these is inductive by itself. The invariant is
`IInv == TypeInv /\ QueueInv /\ TaskInv`:

* `TypeInv` adds to the types that the idle count is below its limit while the
  server listens, that a handler is suspended exactly in `execute` and `oswait`;
* `QueueInv` says that the queue holds each request once, that the request in a
  handler's hands is not queued, and that neither kind has been answered:
  without it a request could be answered twice;
* `TaskInv` says that each entry belongs to an unreaped child forked for that
  task, that each running child is in the map, that the map has at most
  `pool_size` entries, that no storlet runs before `create` and after `exited`,
  and that every task in the map has been answered "ok", so that `Fork` adds an
  entry and never replaces one. `PoolBound` then follows by counting: the
  running children inject into the map (`FiniteSetTheorems`).

The proof of a step has one lemma per handler that changes the map (`WaitChild`,
`OsWait`, `Fork`, `Cancel`) and one for all that leave it alone. The two action
properties follow from `IInv` and the step.

`DaemonIsTaskPool` shows that the initial state maps to the initial state of the
pool and that each step maps to a step of `TaskPool` or to a stutter: `Fork` to
`Begin`, the end of a child to `Finish` or `Gone`, `Cancel` to `Cancel`, SIGTERM
to `Kill`, the ways out of the loop to `Close`. Beyond `IInv` it needs `WorkInv`: no
two pids were ever forked for one task, and while the daemon lives the client of
every task that was forked has been told so. That the pool has room at `Begin`
is the counting argument of `PoolBound`.

### The sandboxes

`StorletSandboxProofs` proves of `StorletSandbox`, for every set of workers,
scopes and storlets, every workload and every limit:

| Theorem | Statement |
|---|---|
| `SandboxTypeCorrect` | `Spec => []TypeOK` |
| `LimitKept` | `Spec => []ContainerLimit` |
| `PipesKnown` | `Spec => []PipeInv` |
| `UndisturbedHolds` | `Spec => []ActivationHolds` |
| `OwnSandbox` | `Spec => []RunsInItsSandbox` |

Assumptions: `GatewaysAssumption` and `ScopesAssumption` (finite, at least one
worker), `LimitAssumption` (a natural number), `WorkloadAssumption` (a sequence
of requests for each worker) and `NoneAssumption` (null values that are no
containers).

* `TypeOK` is inductive; its proof takes the node, the gateways and the history
  flags separately.
* `ContainerLimit` counts: a worker that passed the test of the limit is at
  `run`, and starting a container turns it into one that exists. The sum of the
  two grows only where the test is made, by one, and there the containers are
  below the limit and at most all the other workers are at `run`.
* `ActivationHolds` rests on `PipeInv`, of three parts. `NodeInv`: an ended
  container has no daemons, and as long as no two containers of a scope have
  lived together there is one at the most and each of its daemons that has bound
  its pipe is where the pipe leads. `PeerInv`: a worker waits only for a factory
  that serves its own scope and stops only containers of its own scope.
  `CalmInv`: a worker about to execute undisturbed has seen or started a daemon.
* `RunsInItsSandbox` rests on `OwnInv`, which follows an undisturbed worker
  through its activation. `AskInv`: what it was told still holds. `RestartInv`:
  while it restarts nobody serves in the scope and the name it is about to use
  is free, so that a conflict, or a container that ended under its hands, cannot
  be why it falls back. `RestartedInv`: the pipes of the scope lead to the
  container it has started or nowhere. The proof has a lemma for each step the
  worker takes itself, and one each for steps in other scopes, for daemons that
  others start beside it (the only change of its scope that leaves it calm), and
  for what the node does by itself.

### The factory

`StorletDaemonFactoryProofs` proves of `StorletDaemonFactory`, for every set of
requests, storlets and pids and every number of pings:

| Theorem | Statement | Under |
|---|---|---|
| `FactoryTypeCorrect` | `Spec => []TypeOK` | |
| `OneDaemonHolds` | `Spec => []OneDaemonPerStorlet` | `~PidReuse`, `~LoggerFails` |
| `DaemonsTrackedHolds` | `Spec => []DaemonsTracked` | `~PidReuse`, `~LoggerFails` |
| `CleanExitHolds` | `Spec => []CleanExit` | `~PidReuse`, `~LoggerFails` |
| `StatusTruthfulHolds` | `Spec => StatusTruthful` | `~PidReuse`, `~LoggerFails` |
| `StopStopsHolds` | `Spec => StopStops` | `~PidReuse`, `~LoggerFails` |
| `StartStartsHolds` | `Spec => StartStarts` | `~PidReuse`, `~LoggerFails` |

Without the two conditions the properties fail, see section 6. Assumptions:
`NamesAssumption` and `StorletsAssumption` (null values are no pids and no
storlets), `TriesAssumption` and `IdleLimitAssumption` (positive),
`StorletAssumption` (a command that needs a storlet names one), and those of
`SBusServer`.

* The types need that a handler suspended between two steps has the request and
  the storlet it works on (`CurInv`), that every process was started for some
  storlet (`OwnersInv`), and that the idle count is below its limit (`LoopInv`).
* The safety properties rest on `TrackInv`. The entries of the map, the pipes and
  the daemon a ping waits for belong to the storlet they are kept under
  (`EntriesOwn`, `PipesOwn`, `PingsOwn`): where a pid may be handed out again
  nothing of this holds. `AllTracked` sharpens `DaemonsTracked`: a daemon missing
  from the map is the one just started, and only between `Popen` and the entry.
  `NoneBefore` says that nothing of the storlet runs when a daemon is started,
  although time has passed since the test. `AllSeen` follows a shutdown: whatever
  is in the map is still to do, is under way or has failed, so that a shutdown
  without failures has seen everything.
* Daemons end, crash and are reaped between any two steps of the factory; one
  lemma for each such step shows that `TrackInv` survives it. The action
  properties follow from `TrackInv` before the step.

### The cache

`StorletCacheProofs` proves of `StorletCache`, for any objects, versions, sizes
and number of invocations:

| Theorem | Statement | Under |
|---|---|---|
| `CacheTypeCorrect` | `Spec => []TypeOK` | |
| `DaemonRunsBoxHolds` | `Spec => []DaemonRunsBox` | `~EngineFails` |
| `CodeIsWholeHolds` | `Spec => []CodeIsWhole` | `OneAtATime`, `OnlyStorletBreaks` |
| `FreshHolds` | `Spec => []Fresh` | `OneAtATime`, `~EngineFails`, `SizesDiffer` |

`OnlyStorletBreaks` (downloads of dependencies do not break off), `OneAtATime`
(one worker, no upload during a download), `SizesDiffer` (no two versions of the
storlet have one size) and `~EngineFails` are needed, each where the table names
it: TLC finds a counterexample without it (section 6). The first two theorems hold for
any number of workers that share the files without a lock. Assumptions:
`RoundsAssumption`, `ObjectsAssumption`, `VersionsAssumption`, `SizeAssumption`,
`BreakingAssumption` (types), `StorletAssumption` (the storlet is the first of
the objects and no dependency), `NoFileAssumption` (a null value).

* The types need `WorkerOK`: a worker past an object has a file of it in the
  sandbox, which no other worker takes away.
* `DaemonRunsBox` rests on `StopInv`: where the daemon differs from its
  directory, some worker has noted so and is on the way to the step that stops
  it. The note is lost when an invocation ends after it has copied something:
  by a failure of the engine, hence the condition, or by a download that breaks
  off. The second does no harm, but only by `Stocked`: files are never taken away,
  so that while a daemon runs every dependency is cached and none is downloaded;
  and the storlet is downloaded before anything is copied.
* `CodeIsWhole` rests on `WholeInv`: the cached storlet may be a part of the
  current version, which its size gives away, or of an older one, which its time
  gives away; every other file not being written, and everything a worker is about
  to copy, is whole. It says so of the storlet and of the dependencies whose
  downloads do not break off (`Sound`), so that `Fresh` can use it for the storlet
  whatever happens to the dependencies.
* `Fresh` rests on `FreshInv`: from the comparison on, the cached file is the
  version the request was authorised for, and once the storlet has been dealt with
  so is the file in the sandbox. That a stale file in the sandbox is noticed is
  decided by its size, since the comparison of times with the cached file has the
  wrong direction; this is where `SizesDiffer` is used.

### The invocations

`StorletInvocationProofs` proves of `StorletInvocation`, for any number of
invocations, descriptors, chunks and places in the pool, and any capacity of the
pipes:

| Theorem | Statement |
|---|---|
| `InvocationTypeCorrect` | `Spec => []TypeOK` |
| `DescriptorsClosedHolds` | `Spec => []DescriptorsClosed` |
| `NoStorletStrandedHolds` | `Spec => []NoStorletStranded` |
| `NothingLostHolds` | `Spec => []NothingLost` |

There is no condition on the worker or the kernel: numbers are handed out again,
timeouts strike late, the daemon stops at any moment. Where the code fails because
of one of these, the property itself names the exception: `NothingLost` speaks of a
worker none of whose invocations has had a descriptor closed by another, and
`NoStorletStranded` excepts a storlet whose body nobody began to write.
Assumptions: `InvocationsAssumption` (`HasFd` is a set of invocations),
`PipesAssumption` (natural numbers, positive capacity) and `NoFdAssumption` (a null
value).

Closing by number makes the invocations depend on one another, so the invariant is
split by what survives a foreign close.

* `FdInv`: the ends of one invocation have different numbers, while two invocations
  may remember the same one; by `TypeOK` an open number belongs to the invocation
  that remembers it. `OpenFacts` says what opening gives (the lowest free numbers,
  each end its own) and `CloseFacts` what closing leaves.
* `Shut(i)`: which ends an invocation has no longer open, by its place in
  `communicate` and that of its writing thread. Others can close descriptors but
  never open one for it, so it holds whatever they close. `DescriptorsClosed` is
  what it says at the end; `NoStorletStranded` needs besides that a body is written
  from the second wait on.
* `Live(i)`: which ends it does have open, what the storlet finds there, and the
  count of chunks (`ChunkInv`): those delivered, in the two pipes and in the
  storlet's hands are together never more than were put in, and exactly as many
  while the invocation is under way and the storlet did not crash. This holds only
  while `robbed` is empty. A storlet that ended by itself has read all its input,
  so at the end of the data all chunks have been delivered: `NothingLost`.

### The middleware

`StorletMiddlewareProofs` proves of `StorletMiddleware`, for any requests, any
number of clients and of replicas:

| Theorem | Statement | Under |
|---|---|---|
| `MiddlewareTypeCorrect` | `Spec => []TypeOK` | |
| `ProcessedOnceHolds` | `Spec => []ProcessedOnce` | `SameOption` |
| `RangeHonouredHolds` | `Spec => []RangeHonoured` | `SameOption` |
| `RunsWhereAskedHolds` | `Spec => []RunsWhereAsked` | `SameOption` |
| `GrantsKeptHolds` | `Spec => []GrantsKept` | |

`SameOption` says that `storlet_execute_on_proxy` has one value on all servers,
without which the three properties fail (section 6). Assumptions:
`ReplicasAssumption` (positive), `MaxExtraAssumption`, `ConfsAssumption` and
`WorkloadsAssumption` (types).

The two servers decide at different times from different pieces of the request:
the proxy before and after the read, the object server in between. The invariant
writes down what passes between them. `HeadersOK` gives the headers that reach
the object server as functions of the request. `AttemptsOK` says where the storlet
has been started and that the attempts on object servers are those on the replicas
before the current one. `ReadOK` lists the three responses the proxy can get: an
error, what the storlet made of the object on an object server, or the object
untouched, and if untouched why; and that it was cut to a range by the read or by
the gateway, not by both, unless a copy came with both ranges. `DecisionsFit` is
the heart of it: of each of these the proxy makes the right thing.
`GrantsKept` is inductive with the types.

### Only model-checked

All liveness (`EveryRequestSettled`, `DaemonEnds`,
`FactoryEnds`, `InvocationsEnd`, `ActivationsEnd`, `EveryRequestAnswered`), which
needs fairness and ENABLED.

## 6. What the code says and does not do

The runs that end in a violation:

* **An upload of the same size never reaches the sandbox** (`cache_same_size`).
  The comparison of times in `bring_from_cache` is the opposite of its comment.
* **A full pool and one worker can wait for each other** (`invocation_pool`). The
  worker waits, with all its green threads, for the answer to EXECUTE; the daemon
  waits for a storlet to end; the storlet waits for the body that a green thread
  of that worker has to write. No timeout fires, since the worker's timers stand
  still as well.
* **A read of an erasure coded object comes back unprocessed**
  (`middleware_erasure`). The object server leaves it to the proxy, and the proxy,
  which does not look for erasure coding, takes it for done.

Seen while modelling, with no run of their own. In the servers:

* `execute` waits for room inside its handler, in `os.wait()`: while the pool is
  full no datagram is read, the CANCEL that would make room included.
* The error `_respond` means to catch, of a client that has gone, is raised by
  the close of the buffered pipe, one level further out; it leaves `main_loop`
  and ends the server.
* When `os.fork()` fails the daemon keeps the descriptors of the request.
* CANCEL ends the daemon whatever its outcome (its response says
  `iterable=False`), so the other requests of that daemon are not read any more.
* START_DAEMON does not give up when storlets that outlived a crashed or killed
  daemon hang: they hold its socket, the factory's ping is queued there, and its
  blocking read never returns.
* The factory keeps the entries of daemons that ended. Its final clean-up fails
  on them and turns a normal end into a failure; and with `PidReuse` a pid that
  now belongs to the daemon of another storlet makes `DAEMON_STATUS` report the
  ended one as running (`StatusTruthful` fails).
* With `LoggerFails`, a daemon whose logger could not be started runs on
  untracked, and the next START_DAEMON starts a second one
  (`OneDaemonPerStorlet` fails).

In the cache:

* A dependency is only tested for existence and the cached file is written in
  place: a broken download of a dependency is copied and used from then on
  (`CodeIsWhole` fails with the dependency in `Breaking`).
* With `UploadsRace`, a version uploaded while its predecessor is downloaded is
  older than the cached file and is only noticed if its size differs; two workers
  writing one cached file can leave a mixture (`Fresh`, `CodeIsWhole` fail).
* With `EngineFails`, an invocation that copied a new file and could then neither
  stop the daemon nor restart the sandbox leaves the old daemon running for good
  (`DaemonRunsBox`, `Fresh` fail): that something was copied is known only to it.

In the invocation:

* When `os.pipe` fails half way through `_prepare_invocation_descriptors`, the
  error handler closes attributes that are still `None`; the TypeError hides the
  first error and the pipes opened so far stay open.
* A second CANCEL is not read. Every answer to CANCEL ends the daemon's main loop,
  and the daemon then waits for all its other children with its socket open
  (`agent/daemon/server.py:219-229`, `agent/common/server.py:224-228`). If one of
  these hangs, the CANCEL that its own timeout sends lies unread, and the worker
  stays in the blocking read of the answer with all its green threads
  (`RequestsAnswered` fails in this way with a pool of two; `InvocationsEnd` without
  its exception fails).
* By its docstring the wait for the input pipe times out "to cancel the existing
  task" (`runtime.py:764-765`). It neither cancels nor closes the pipe, and the
  storlet waits for a body nobody writes. It takes a worker that was blocked, by the
  answer of another invocation, for longer than the time limit. When the answer to
  EXECUTE is lost, because the daemon dies between its fork and its answer, the
  storlet is left in the same way; and as after every failed EXECUTE the write end
  of the input pipe stays open in the worker (`NoStorletStranded` excepts both).
* A failure after the metadata were read closes `metadata_read_fd` again. A comment
  expects the number to be closed still (`runtime.py:646-647`), but another
  invocation may have been given it: its pipe is closed under it, and it may go on to
  read from or write to a pipe of a third (`robbed`; `NothingLost` excepts a worker
  where this has happened).
* The iterator ends normally when its select times out: the client cannot tell a
  response that was cut off from a complete one, and the task is not cancelled.

In the sandbox runtime:

* A worker that loses the race for the tenant container's name falls back to the
  default image, and so two containers of one scope live together, sharing one
  directory of pipes (also when the tenant's image is installed while the default
  container runs). The storlet's pipe then leads to whichever daemon bound it last,
  the factory behind the factory pipe may call "running" a daemon that cannot be
  reached, and this lasts until a container ends (`ActivationHolds` excepts
  such a scope).
* A daemon that binds later than the factory's pings are answered stays in the
  factory's map: the activation fails, and the next one is told that the
  daemon is running although its pipe is not there yet.
* `max_containers_per_node` can be exceeded by the workers that counted before
  the last container was started, one for each (`ContainerLimit`).
* `restart` stops the scope's container before it tests the limit, which may
  then refuse to start it again.
* StorletTimeout in `wait` is a StorletRuntimeException, but is raised on before
  the handler of those (`except StorletTimeout: raise`): no other image is tried,
  and the container is left running.

In the middleware:

* Both handlers read the option `storlet_execute_on_proxy` (`base.py:203-204`),
  while the installation guide, the sample configuration and devstack set
  `storlet_execute_on_proxy_only` (`doc/source/installation.rst:72`,
  `etc/proxy-server.conf-sample:633`, `devstack/plugin.sh:271`), which nothing
  reads. Where the two servers have different values a storlet runs twice or not
  at all, and a range is cut twice.
* With `multipart-manifest=get` on an object that is not a large one both
  servers leave the storlet to each other (`Unclaimed`).
* A copy goes on with whatever the read of its source returned: an error page is
  run through the storlet and stored.
* A copy whose storlet runs on the proxy ignores `X-Storlet-Range`: no Range is set
  for the read, and the storlet gets the whole object. One whose storlet runs on the
  object server, with a Range of the client besides, is cut twice
  (`RangeHonoured` speaks of GET, and of copies run on the object server without a
  client's Range).
* Two ACL updates that overlap lose an entry (`GrantsKept` excepts them).
* A POST with `X-Run-Storlet` to an object ends in the handler of ACL updates and
  is answered 401.

## 7. Not modelled

* The encoding of datagrams: a datagram decodes or is `"GARBLED"`.
* What a storlet does with its descriptors; descriptors of the servers (those of a worker
  are in `StorletInvocation`), so that a failed fork's leak shows nowhere.
* Argument lists and environments of the processes the factory starts.
* The Java daemon, and line and range reading of the storlet files: see the plan.
* In the middleware: the parsing of `X-Storlet-Range`, what a registration's
  headers must be, the forwarding of user metadata, and how extra resources are
  fetched; links to large or erasure coded objects.
* Extra data sources of an invocation (input pipes like the first); `readline`
  and `readlines` of its iterator.
* The command line tool of the SBus client, the stub gateway, the loader: no
  state.
* Log upload, configuration, tools, packaging, samples: no state of interest.
* SIGTERM of one daemon strikes its process group, which includes its siblings
  and the factory; nothing in the repository sends it, and `StorletDaemon`
  models its effect on the daemon's own children only.

## 8. Plan

1. **JavaDaemon**: the thread pool and the map of futures of `SDaemon`, against
   `TaskPool`. The Java daemon queues tasks where the Python one waits, so that
   `Begin` will need a step of its own for accepting a task.
2. **RangeStream**: `files.py`, `stob.py` and `RangeFileInputStream` as stream
   algorithms against a reference definition.
3. An abstract specification of **StorletCache**: a register that returns the
   version a request was authorised for.
4. Proofs: the abstract cache of item 3 as a refinement.
