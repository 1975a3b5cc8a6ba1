-------------------------- MODULE StorletSandbox --------------------------
(***************************************************************************)
(* The sandboxes of a node as the gateways of its worker processes manage  *)
(* them (RunTimeSandbox.activate_storlet_daemon and restart, and _restart  *)
(* of the docker and podman runtimes): ask the daemon factory behind the   *)
(* scope's pipe, restart the scope's container if nobody answers, fall     *)
(* back to the default image if the tenant's container cannot be started,  *)
(* start the storlet's daemon, and execute.                                *)
(*                                                                         *)
(* A container is known by its name, <<image, scope>>; the containers of a *)
(* scope share its directory of pipes, where whoever binds a path last is  *)
(* the one it leads to.  The factory's own work is StorletDaemonFactory.   *)
(***************************************************************************)
EXTENDS Naturals, Sequences, FiniteSets

CONSTANTS
    Gateways,     \* workers that invoke storlets, each at most one at a time
    Scopes,
    Storlets,
    max_containers_per_node,
    EngineFails,  \* whether the container engine may fail (APIError)
    TenantImages, \* scopes for which an image of their own is installed, sooner or later
    Workloads,    \* bound: the requests each gateway has to serve, in turn
    None,         \* no container
    Eof           \* SBusClientException: nobody there, or the pipe closed unanswered

ASSUME GatewaysAssumption == IsFiniteSet(Gateways) /\ Gateways # {}
ASSUME ScopesAssumption == IsFiniteSet(Scopes) /\ TenantImages \subseteq Scopes
ASSUME LimitAssumption == max_containers_per_node \in Nat

Requests == [scope : Scopes, storlet : Storlets]
ASSUME WorkloadAssumption == \A w \in Workloads : w \in [Gateways -> Seq(Requests)]

Containers == {"tenant", "default"} \X Scopes
ASSUME NoneAssumption == None \notin Containers /\ Eof \notin Containers /\ None # Eof

VARIABLES
    images,        \* scopes with an image of their own
    state,         \* "none", "starting", or "up": its factory serves
    daemons,       \* the storlets whose daemons run in each container
    slow,          \* those of them that have not bound their pipe yet
    factory_pipe,  \* the container a scope's factory pipe leads to
    storlet_pipe,  \* the container the pipe of each storlet leads to
    todo,          \* the requests each gateway has yet to finish, the one it serves first
    pc, cache_updated, image, scontainer,  \* of each gateway
    peer,          \* the factory a gateway waits for
    twins,         \* history: scopes with two containers at once since they last had none
    calm,          \* history: nothing has interfered since the status was asked
    restarted,     \* history: the gateway has started the container image names
    why            \* history: why the tenant's container was refused

nodeVars == <<images, state, daemons, slow, factory_pipe, storlet_pipe, twins>>
localVars == <<todo, cache_updated, image, scontainer, peer, calm, restarted, why>>
vars == <<nodeVars, pc, localVars>>

Scope(g) == Head(todo[g]).scope
Storlet(g) == Head(todo[g]).storlet

Mine(g) == <<image[g], Scope(g)>>
Goto(g, label) == pc' = [pc EXCEPT ![g] = label]
HangUp(g) == peer' = [peer EXCEPT ![g] = None]

\* The containers `client.containers.list' counts.
Existing == {c \in Containers : state[c] # "none"}

\* Containers outlive the workers: those of `up' were started before, one for a
\* scope at the most, each from an image that is there.
Node(up) ==
    /\ \A c, d \in up : c[2] = d[2] => c = d
    /\ max_containers_per_node > 0 => Cardinality(up) <= max_containers_per_node
    /\ images = {s \in Scopes : <<"tenant", s>> \in up} /\ images \subseteq TenantImages
    /\ state = [c \in Containers |-> IF c \in up THEN "up" ELSE "none"]
    /\ daemons \in [Containers -> SUBSET Storlets]
    /\ \A c \in Containers \ up : daemons[c] = {}
    /\ factory_pipe = [s \in Scopes |->
           IF \E c \in up : c[2] = s THEN CHOOSE c \in up : c[2] = s ELSE None]
    /\ storlet_pipe = [s \in Scopes |-> [x \in Storlets |->
           LET c == factory_pipe[s] IN IF c # None /\ x \in daemons[c] THEN c ELSE None]]

Init ==
    /\ \E up \in SUBSET Containers : Node(up)
    /\ slow = {}
    /\ pc = [g \in Gateways |-> "idle"]
    /\ todo \in Workloads
    /\ cache_updated = [g \in Gateways |-> FALSE]
    /\ image = [g \in Gateways |-> "tenant"]
    /\ scontainer = [g \in Gateways |-> None]
    /\ peer = [g \in Gateways |-> None]
    /\ twins = {}
    /\ calm = [g \in Gateways |-> FALSE]
    /\ restarted = [g \in Gateways |-> FALSE]
    /\ why = [g \in Gateways |-> "none"]

\* What happened to scope s is news to its gateways, except to those of `by'.
Disturb(s, by) == calm' = [g \in Gateways |-> calm[g] /\ (Scope(g) # s \/ g \in by)]

\* A daemon of storlet x in container c is over.
DaemonGone(c, x) ==
    /\ daemons' = [daemons EXCEPT ![c] = @ \ {x}]
    /\ slow' = slow \ {<<c, x>>}
    /\ storlet_pipe' = [storlet_pipe EXCEPT ![c[2]][x] = IF @ = c THEN None ELSE @]

\* A container is over, and with it its factory and daemons: requests it was to
\* answer break off, and so will a stop through an object that was got before.
ContainerGone(c) ==
    LET s == c[2]
    IN  /\ state' = [state EXCEPT ![c] = "none"]
        /\ twins' = {t \in twins : \E d \in Existing \ {c} : d[2] = t}
        /\ daemons' = [daemons EXCEPT ![c] = {}]
        /\ slow' = slow \ ({c} \X Storlets)
        /\ factory_pipe' = [factory_pipe EXCEPT ![s] = IF @ = c THEN None ELSE @]
        /\ storlet_pipe' = [storlet_pipe EXCEPT ![s] =
                               [x \in Storlets |-> IF @[x] = c THEN None ELSE @[x]]]
        /\ peer' = [g \in Gateways |-> IF peer[g] = c THEN Eof ELSE peer[g]]
        /\ scontainer' = [g \in Gateways |-> IF scontainer[g] = c THEN None ELSE scontainer[g]]

----------------------------------------------------------------------------
(***************************************************************************)
(* activate_storlet_daemon.                                                *)
(***************************************************************************)
Activate(g) ==
    /\ pc[g] = "idle" /\ todo[g] # <<>>
    /\ Goto(g, "status")
    /\ cache_updated' \in {[cache_updated EXCEPT ![g] = b] : b \in BOOLEAN}
    /\ calm' = [calm EXCEPT ![g] = TRUE]
    /\ UNCHANGED <<nodeVars, todo, image, scontainer, peer, restarted, why>>

\* invocation_flow is left, by an exception or with the storlet's response; its
\* RunTimeSandbox object is gone.
Return(g) ==
    /\ Goto(g, "idle")
    /\ HangUp(g)
    /\ cache_updated' = [cache_updated EXCEPT ![g] = FALSE]
    /\ image' = [image EXCEPT ![g] = "tenant"]
    /\ scontainer' = [scontainer EXCEPT ![g] = None]
    /\ calm' = [calm EXCEPT ![g] = FALSE]
    /\ restarted' = [restarted EXCEPT ![g] = FALSE]
    /\ why' = [why EXCEPT ![g] = "none"]
    /\ todo' = [todo EXCEPT ![g] = Tail(@)]

\* SBusClient._request: the datagram goes to whoever is behind the pipe now.
Ask(g) ==
    /\ pc[g] \in {"status", "stop", "start", "ping"} /\ peer[g] = None
    /\ peer' = [peer EXCEPT ![g] = IF factory_pipe[Scope(g)] = None THEN Eof
                                   ELSE factory_pipe[Scope(g)]]
    /\ UNCHANGED <<nodeVars, pc, todo, cache_updated, image, scontainer, calm, restarted, why>>

\* Bug: the default image comes first.
RestartDefault(g) ==
    /\ Goto(g, "get")
    /\ image' = [image EXCEPT ![g] = "default"]
    /\ why' = [why EXCEPT ![g] = "none"]

\* restart: the directory of pipes is there, the tenant's image comes first.
Restart(g) ==
    /\ Goto(g, "get")
    /\ image' = [image EXCEPT ![g] = "tenant"]
    /\ why' = [why EXCEPT ![g] = "none"]

\* _get_storlet_daemon_status was answered.
Status(g) ==
    /\ pc[g] = "status" /\ peer[g] \in Containers
    /\ Goto(g, IF Storlet(g) \notin daemons[peer[g]] THEN "start"
               ELSE IF cache_updated[g] THEN "stop" ELSE "execute")
    /\ HangUp(g)
    /\ UNCHANGED <<nodeVars, todo, cache_updated, image, scontainer, calm, restarted, why>>

\* It was not, or STOP_DAEMON was not: restart.
Unreachable(g) ==
    /\ pc[g] \in {"status", "stop"} /\ peer[g] = Eof
    /\ Restart(g)
    /\ HangUp(g)
    /\ UNCHANGED <<nodeVars, todo, cache_updated, scontainer, calm, restarted>>

\* Bug: is_running is not cleared after the daemon was stopped.
StopDaemonOnly(g) ==
    /\ pc[g] = "stop" /\ peer[g] \in Containers
    /\ Storlet(g) \in daemons[peer[g]]
    /\ DaemonGone(peer[g], Storlet(g))
    /\ Disturb(Scope(g), {g})
    /\ Goto(g, "execute") /\ HangUp(g)
    /\ UNCHANGED <<images, twins, state, factory_pipe, todo, cache_updated, image, scontainer,
                   restarted, why>>

\* stop_storlet_daemon: the factory kills the daemon, or has none (any more), a
\* failure that restarts the sandbox.
StopDaemon(g) ==
    LET c == peer[g]
    IN  /\ pc[g] = "stop" /\ c \in Containers
        /\ IF Storlet(g) \in daemons[c]
             THEN /\ DaemonGone(c, Storlet(g))
                  /\ Disturb(Scope(g), {g})
                  /\ Goto(g, "start")
                  /\ UNCHANGED <<image, why>>
             ELSE Restart(g) /\ UNCHANGED <<daemons, slow, storlet_pipe, calm>>
        /\ HangUp(g)
        /\ UNCHANGED <<images, twins, state, factory_pipe, todo, cache_updated, scontainer,
                       restarted>>

\* start_storlet_daemon: a daemon that runs is left alone, a new one binds the
\* pipe of its storlet, even if it leads to another container's.
StartDaemon(g) ==
    LET c == peer[g]
    IN  /\ pc[g] = "start" /\ c \in Containers
        /\ IF Storlet(g) \in daemons[c]
             THEN UNCHANGED <<daemons, storlet_pipe, calm>>
             ELSE /\ daemons' = [daemons EXCEPT ![c] = @ \cup {Storlet(g)}]
                  /\ storlet_pipe' = [storlet_pipe EXCEPT ![Scope(g)][Storlet(g)] = c]
                  /\ Disturb(Scope(g), IF storlet_pipe[Scope(g)][Storlet(g)] = None
                                         THEN Gateways ELSE {g})
        /\ Goto(g, "execute") /\ HangUp(g)
        /\ UNCHANGED <<images, twins, state, slow, factory_pipe, todo, cache_updated, image,
                       scontainer, restarted, why>>

\* The daemon does not start, or the factory is gone.
StartFails(g) ==
    /\ pc[g] = "start" /\ peer[g] # None
    /\ Return(g)
    /\ UNCHANGED nodeVars

\* The daemon starts, but not within the pings the factory has for it: a
\* failure to the gateway, though the factory keeps the daemon.
StartGivesUp(g) ==
    LET c == peer[g]
    IN  /\ pc[g] = "start" /\ c \in Containers
        /\ Storlet(g) \notin daemons[c]
        /\ daemons' = [daemons EXCEPT ![c] = @ \cup {Storlet(g)}]
        /\ slow' = slow \cup {<<c, Storlet(g)>>}
        /\ Return(g)
        /\ UNCHANGED <<images, twins, state, factory_pipe, storlet_pipe>>

\* communicate: the EXECUTE goes through the storlet's pipe.
Execute(g) ==
    /\ pc[g] = "execute"
    /\ Return(g)
    /\ UNCHANGED nodeVars

----------------------------------------------------------------------------
(***************************************************************************)
(* restart, and _restart of one image.                                     *)
(***************************************************************************)
\* Bug: the container that was found is not stopped.
GetContainerOnly(g) ==
    /\ pc[g] = "get"
    /\ Goto(g, "limit")
    /\ scontainer' = [scontainer EXCEPT ![g] = IF state[Mine(g)] = "none" THEN @ ELSE Mine(g)]
    /\ UNCHANGED <<nodeVars, todo, cache_updated, image, peer, calm, restarted, why>>

\* client.containers.get: is there a container of that name?
GetContainer(g) ==
    /\ pc[g] = "get"
    /\ IF state[Mine(g)] = "none"
         THEN Goto(g, "limit") /\ UNCHANGED scontainer
         ELSE Goto(g, "kill") /\ scontainer' = [scontainer EXCEPT ![g] = Mine(g)]
    /\ UNCHANGED <<nodeVars, todo, cache_updated, image, peer, calm, restarted, why>>

\* StorletRuntimeException: the default image is tried after the tenant's.
Refuse(g, reason) ==
    IF image[g] = "tenant"
      THEN /\ image' = [image EXCEPT ![g] = "default"]
           /\ why' = [why EXCEPT ![g] = reason]
           /\ scontainer' = [scontainer EXCEPT ![g] = None]
           /\ Goto(g, "get")
           /\ UNCHANGED <<nodeVars, todo, cache_updated, peer, calm, restarted>>
      ELSE Return(g) /\ UNCHANGED nodeVars

\* scontainer.stop; with auto_remove the name is free again.  A container that
\* ended meanwhile is NotFound, an APIError.
StopContainer(g) ==
    /\ pc[g] = "kill"
    /\ IF scontainer[g] = None
         THEN Refuse(g, "gone")
         ELSE /\ ContainerGone(scontainer[g])
              /\ Disturb(Scope(g), {g})
              /\ Goto(g, "limit")
              /\ UNCHANGED <<images, todo, cache_updated, image, restarted, why>>

\* Bug: > instead of >=.
LimitReachedLate == max_containers_per_node > 0 /\ Cardinality(Existing) > max_containers_per_node

LimitReached == max_containers_per_node > 0 /\ Cardinality(Existing) >= max_containers_per_node

\* The containers are counted ...
CheckLimit(g) ==
    /\ pc[g] = "limit"
    /\ IF LimitReached THEN Refuse(g, "limit")
                       ELSE Goto(g, "run") /\ UNCHANGED <<nodeVars, localVars>>

\* ... and then one more is started.
RunContainer(g) ==
    /\ pc[g] = "run"
    /\ image[g] = "default" \/ Scope(g) \in images
    /\ state[Mine(g)] = "none"
    /\ state' = [state EXCEPT ![Mine(g)] = "starting"]
    /\ restarted' = [restarted EXCEPT ![g] = TRUE]
    /\ Disturb(Scope(g), {g})
    /\ twins' = twins \cup {s \in {Scope(g)} : \E c \in Existing : c[2] = s}
    /\ Goto(g, "ping")
    /\ UNCHANGED <<images, daemons, slow, factory_pipe, storlet_pipe, todo, cache_updated, image,
                   scontainer, peer, why>>

\* Its image is missing, or its name has been taken since.
RunFails(g) ==
    /\ pc[g] = "run"
    /\ \/ image[g] = "tenant" /\ Scope(g) \notin images /\ Refuse(g, "image")
       \/ state[Mine(g)] # "none" /\ Refuse(g, "conflict")

\* Any other error of the engine.
EngineError(g) ==
    /\ EngineFails
    /\ pc[g] \in {"get", "kill", "limit", "run"}
    /\ Refuse(g, "engine")

\* wait: the factory answers the ping.
PingAnswered(g) ==
    /\ pc[g] = "ping" /\ peer[g] \in Containers
    /\ Goto(g, "start") /\ HangUp(g)
    /\ UNCHANGED <<nodeVars, todo, cache_updated, image, scontainer, calm, restarted, why>>

\* Nobody there yet: sleep, and ping again.
PingAgain(g) ==
    /\ pc[g] = "ping" /\ peer[g] = Eof
    /\ HangUp(g)
    /\ UNCHANGED <<nodeVars, pc, todo, cache_updated, image, scontainer, calm, restarted, why>>

\* Bug: the wait has no limit.
WaitForEver(g) == FALSE /\ UNCHANGED vars

\* StorletTimeout while the gateway sleeps: no further image is tried, and the
\* container is left running.
WaitTimeout(g) ==
    /\ pc[g] = "ping" /\ peer[g] = Eof
    /\ Return(g)
    /\ UNCHANGED nodeVars

----------------------------------------------------------------------------
(***************************************************************************)
(* The containers.                                                         *)
(***************************************************************************)
\* The factory of a container has started and bound the scope's pipe.
FactoryBinds(c) ==
    /\ state[c] = "starting"
    /\ state' = [state EXCEPT ![c] = "up"]
    /\ factory_pipe' = [factory_pipe EXCEPT ![c[2]] = c]
    /\ Disturb(c[2], {g \in Gateways : restarted[g] /\ Mine(g) = c})
    /\ UNCHANGED <<images, twins, daemons, slow, storlet_pipe, pc, todo, cache_updated, image,
                   scontainer, peer, restarted, why>>

\* A container ends by itself: its factory was idle for too long, or crashed.
ContainerEnds(c) ==
    /\ state[c] # "none"
    /\ ContainerGone(c)
    /\ Disturb(c[2], {})
    /\ UNCHANGED <<images, pc, todo, cache_updated, image, restarted, why>>

\* So does a daemon: idle, cancelled, or crashed.
DaemonEnds(c, x) ==
    /\ x \in daemons[c]
    /\ DaemonGone(c, x)
    /\ Disturb(c[2], {})
    /\ UNCHANGED <<images, twins, state, factory_pipe, pc, todo, cache_updated, image, scontainer,
                   peer, restarted, why>>

\* The factory had given up waiting for a daemon, and now it is there.
DaemonBinds(c, x) ==
    /\ <<c, x>> \in slow
    /\ slow' = slow \ {<<c, x>>}
    /\ storlet_pipe' = [storlet_pipe EXCEPT ![c[2]][x] = c]
    /\ Disturb(c[2], {})
    /\ UNCHANGED <<images, twins, state, daemons, factory_pipe, pc, todo, cache_updated, image,
                   scontainer, peer, restarted, why>>

\* The administrator installs an image for a scope.
ImageInstalled(s) ==
    /\ s \in TenantImages \ images
    /\ images' = images \cup {s}
    /\ UNCHANGED <<twins, state, daemons, slow, factory_pipe, storlet_pipe, pc, todo, cache_updated,
                   image, scontainer, peer, calm, restarted, why>>

----------------------------------------------------------------------------
\* What a factory that serves does about a gateway's request.
Answers(g) == Status(g) \/ StopDaemon(g) \/ StartDaemon(g) \/ PingAnswered(g)

Gateway(g) ==
    \/ Activate(g) \/ Ask(g) \/ Unreachable(g) \/ StartFails(g) \/ StartGivesUp(g) \/ Execute(g)
    \/ GetContainer(g) \/ StopContainer(g) \/ CheckLimit(g) \/ RunContainer(g) \/ RunFails(g)
    \/ EngineError(g) \/ PingAgain(g) \/ WaitTimeout(g)

Next ==
    \/ \E g \in Gateways : Gateway(g) \/ Answers(g)
    \/ \E c \in Containers : FactoryBinds(c) \/ ContainerEnds(c)
    \/ \E c \in Containers, x \in Storlets : DaemonEnds(c, x) \/ DaemonBinds(c, x)
    \/ \E s \in Scopes : ImageInstalled(s)

Spec == Init /\ [][Next]_vars

\* Workers run, factories answer (StorletDaemonFactory, EveryRequestSettled),
\* and the timer of wait, once due, fires the next time the gateway sleeps.
Fairness ==
    \A g \in Gateways :
        /\ WF_vars(pc[g] # "idle" /\ (Gateway(g) \/ Answers(g)))
        /\ SF_vars(WaitTimeout(g))

FairSpec == Spec /\ Fairness

----------------------------------------------------------------------------
Pcs == {"idle", "status", "stop", "start", "execute", "get", "kill", "limit", "run", "ping"}
Reasons == {"none", "gone", "limit", "image", "conflict", "engine"}

FlagsTypeOK ==
    /\ cache_updated \in [Gateways -> BOOLEAN]
    /\ calm \in [Gateways -> BOOLEAN]
    /\ restarted \in [Gateways -> BOOLEAN]

\* Type invariant; in particular a factory pipe leads to a factory of its scope
\* that serves, and a gateway holds on to a container only until it has stopped it.
TypeOK ==
    /\ images \in SUBSET Scopes
    /\ state \in [Containers -> {"none", "starting", "up"}]
    /\ daemons \in [Containers -> SUBSET Storlets]
    /\ slow \in SUBSET (Containers \X Storlets)
    /\ factory_pipe \in [Scopes -> Containers \cup {None}]
    /\ storlet_pipe \in [Scopes -> [Storlets -> Containers \cup {None}]]
    /\ pc \in [Gateways -> Pcs]
    /\ todo \in [Gateways -> Seq(Requests)]
    /\ \A g \in Gateways : pc[g] # "idle" => todo[g] # <<>>
    /\ image \in [Gateways -> {"tenant", "default"}]
    /\ scontainer \in [Gateways -> Containers \cup {None}]
    /\ peer \in [Gateways -> Containers \cup {None, Eof}]
    /\ twins \in SUBSET Scopes
    /\ FlagsTypeOK
    /\ why \in [Gateways -> Reasons]
    /\ \A s \in Scopes : LET c == factory_pipe[s] IN c \in Containers => c[2] = s /\ state[c] = "up"
    /\ \A g \in Gateways : scontainer[g] \in Containers => pc[g] = "kill"

\* max_containers_per_node is exceeded by no more than the other gateways that
\* counted before the last container was started (_restart).
ContainerLimit ==
    max_containers_per_node > 0 =>
        Cardinality(Existing) + Cardinality({g \in Gateways : pc[g] = "run"})
            <= max_containers_per_node + Cardinality(Gateways) - 1

\* Nothing has interfered with g's activation, and no daemon of its storlet is
\* one the factory has given up waiting for.
Undisturbed(g) ==
    /\ pc[g] = "execute" /\ calm[g]
    /\ \A c \in Containers : <<c, Storlet(g)>> \notin slow

\* An activation that nothing interfered with leaves the storlet's pipe leading
\* to a daemon, so that EXECUTE gets through: not only the status that was asked
\* but also a stop, a restart and the wait for the new factory were its own
\* (activate_storlet_daemon).  Excepted is a scope in which two containers
\* have lived together.
ActivationHolds ==
    \A g \in Gateways :
        Undisturbed(g) /\ Scope(g) \notin twins =>
            \E c \in Containers : /\ storlet_pipe[Scope(g)][Storlet(g)] = c
                                  /\ Storlet(g) \in daemons[c]

\* A gateway that restarted its sandbox undisturbed executes in the container
\* it started, and that is the tenant's unless it could not be: its image was
\* missing, the node full, or the engine failed (restart).
RunsInItsSandbox ==
    \A g \in Gateways :
        Undisturbed(g) /\ restarted[g] =>
            /\ storlet_pipe[Scope(g)][Storlet(g)] = Mine(g)
            /\ image[g] = "default" => why[g] \in {"image", "limit", "engine"}

\* Every activation ends, with the storlet executed or with an error, whatever
\* the other gateways and the containers do: wait is bounded, and no image is
\* tried twice.
ActivationsEnd == \A g \in Gateways : pc[g] # "idle" ~> pc[g] = "idle"
============================================================================
