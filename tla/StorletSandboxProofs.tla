----------------------- MODULE StorletSandboxProofs -----------------------
(***************************************************************************)
(* Proofs about StorletSandbox, for every set of gateways and scopes and   *)
(* every limit of containers.                                              *)
(***************************************************************************)
EXTENDS StorletSandbox, FiniteSetTheorems, TLAPS

\* The request a busy gateway serves, and the container it would restart.
LEMMA CurrentRequest ==
    ASSUME TypeOK, NEW g \in Gateways, todo[g] # <<>>
    PROVE  /\ Scope(g) \in Scopes /\ Storlet(g) \in Storlets
           /\ Mine(g) \in Containers
           /\ Tail(todo[g]) \in Seq(Requests)
<1>1. todo[g] \in Seq(Requests) /\ image[g] \in {"tenant", "default"}
  BY DEF TypeOK
<1>2. Head(todo[g]) \in Requests /\ Tail(todo[g]) \in Seq(Requests)
  BY <1>1
<1>3. Scope(g) \in Scopes /\ Storlet(g) \in Storlets
  BY <1>2 DEF Requests, Scope, Storlet
<1> QED BY <1>1, <1>2, <1>3 DEF Mine, Containers

LEMMA ContainerParts ==
    ASSUME NEW c \in Containers
    PROVE  c[2] \in Scopes /\ c # None /\ c # Eof
BY NoneAssumption DEF Containers

----------------------------------------------------------------------------
LEMMA InitTypeOK == Init => TypeOK
<1> SUFFICES ASSUME Init PROVE TypeOK
  OBVIOUS
<1>1. PICK up \in SUBSET Containers : Node(up)
  BY DEF Init
<1>2. FlagsTypeOK
  BY Zenon DEF Init, FlagsTypeOK
<1>3. /\ images \in SUBSET Scopes
      /\ state \in [Containers -> {"none", "starting", "up"}]
      /\ daemons \in [Containers -> SUBSET Storlets]
  BY <1>1 DEF Node
<1>4. \A s \in Scopes : /\ factory_pipe[s] \in up \cup {None}
                       /\ factory_pipe[s] # None => factory_pipe[s][2] = s
  BY <1>1 DEF Node
<1>5. factory_pipe \in [Scopes -> Containers \cup {None}]
  BY <1>1, <1>4 DEF Node
<1>6. \A s \in Scopes : LET c == factory_pipe[s] IN c \in Containers => c[2] = s /\ state[c] = "up"
  BY <1>1, <1>4, NoneAssumption DEF Node
<1>7. storlet_pipe \in [Scopes -> [Storlets -> Containers \cup {None}]]
  BY <1>1, <1>5 DEF Node
<1>8. /\ slow = {} /\ twins = {}
      /\ pc = [g \in Gateways |-> "idle"]
      /\ todo \in [Gateways -> Seq(Requests)]
      /\ image = [g \in Gateways |-> "tenant"]
      /\ scontainer = [g \in Gateways |-> None]
      /\ peer = [g \in Gateways |-> None]
      /\ why = [g \in Gateways |-> "none"]
  BY WorkloadAssumption DEF Init
<1> QED BY <1>2, <1>3, <1>5, <1>6, <1>7, <1>8, NoneAssumption DEF TypeOK, Pcs, Reasons

----------------------------------------------------------------------------
\* The type invariant in three parts: the node, the gateways, and the flags.
NodeOK ==
    /\ images \in SUBSET Scopes
    /\ state \in [Containers -> {"none", "starting", "up"}]
    /\ daemons \in [Containers -> SUBSET Storlets]
    /\ slow \in SUBSET (Containers \X Storlets)
    /\ factory_pipe \in [Scopes -> Containers \cup {None}]
    /\ storlet_pipe \in [Scopes -> [Storlets -> Containers \cup {None}]]
    /\ twins \in SUBSET Scopes
    /\ \A s \in Scopes : LET c == factory_pipe[s] IN c \in Containers => c[2] = s /\ state[c] = "up"

GatewaysOK ==
    /\ pc \in [Gateways -> Pcs]
    /\ todo \in [Gateways -> Seq(Requests)]
    /\ image \in [Gateways -> {"tenant", "default"}]
    /\ scontainer \in [Gateways -> Containers \cup {None}]
    /\ peer \in [Gateways -> Containers \cup {None, Eof}]
    /\ why \in [Gateways -> Reasons]
    /\ \A g \in Gateways : pc[g] # "idle" => todo[g] # <<>>
    /\ \A g \in Gateways : scontainer[g] \in Containers => pc[g] = "kill"

LEMMA TypeParts == TypeOK <=> NodeOK /\ GatewaysOK /\ FlagsTypeOK
BY DEF TypeOK, NodeOK, GatewaysOK

LEMMA ExceptFlag ==
    ASSUME NEW f \in [Gateways -> BOOLEAN], NEW g, NEW b \in BOOLEAN
    PROVE  [f EXCEPT ![g] = b] \in [Gateways -> BOOLEAN]
BY Zenon

\* The flags stay Boolean.
LEMMA NextFlags == TypeOK /\ [Next]_vars => FlagsTypeOK'
<1> SUFFICES ASSUME TypeOK, [Next]_vars PROVE FlagsTypeOK'
  OBVIOUS
<1> USE DEF FlagsTypeOK
<1>0. FlagsTypeOK
  BY DEF TypeOK
<1>1. CASE UNCHANGED vars
  BY <1>0, <1>1 DEF vars, localVars
<1>2. ASSUME NEW s, NEW by, Disturb(s, by) PROVE calm' \in [Gateways -> BOOLEAN]
  BY <1>2, Zenon DEF Disturb
<1>3. ASSUME NEW g \in Gateways, Return(g) PROVE FlagsTypeOK'
  BY <1>0, <1>3, ExceptFlag DEF Return
<1>4. ASSUME NEW g \in Gateways, NEW reason, Refuse(g, reason) PROVE FlagsTypeOK'
  BY <1>0, <1>3, <1>4 DEF Refuse
<1>5. ASSUME NEW g \in Gateways, Gateway(g) \/ Answers(g) PROVE FlagsTypeOK'
  <2>1. CASE Activate(g)
    <3>1. PICK b \in BOOLEAN : cache_updated' = [cache_updated EXCEPT ![g] = b]
      BY <2>1 DEF Activate
    <3> QED BY <1>0, <2>1, <3>1, ExceptFlag DEF Activate
  <2>2. CASE \/ Ask(g) \/ Unreachable(g) \/ GetContainer(g) \/ PingAgain(g)
             \/ Status(g) \/ PingAnswered(g)
    BY <1>0, <2>2 DEF Ask, Unreachable, GetContainer, PingAgain, Status, PingAnswered
  <2>3. CASE StartFails(g) \/ StartGivesUp(g) \/ Execute(g) \/ WaitTimeout(g)
    BY <1>3, <2>3 DEF StartFails, StartGivesUp, Execute, WaitTimeout
  <2>4. CASE StopContainer(g)
    BY <1>0, <1>2, <1>4, <2>4 DEF StopContainer
  <2>5. CASE CheckLimit(g)
    BY <1>0, <1>4, <2>5 DEF CheckLimit, localVars
  <2>6. CASE RunContainer(g)
    BY <1>0, <1>2, <2>6, ExceptFlag DEF RunContainer
  <2>7. CASE RunFails(g) \/ EngineError(g)
    BY <1>4, <2>7 DEF RunFails, EngineError
  <2>8. CASE StopDaemon(g)
    BY <1>0, <1>2, <2>8 DEF StopDaemon
  <2>9. CASE StartDaemon(g)
    BY <1>0, <1>2, <2>9 DEF StartDaemon
  <2> QED
    BY <1>5, <2>1, <2>2, <2>3, <2>4, <2>5, <2>6, <2>7, <2>8, <2>9 DEF Gateway, Answers
<1>6. ASSUME NEW c \in Containers, FactoryBinds(c) \/ ContainerEnds(c) PROVE FlagsTypeOK'
  BY <1>0, <1>2, <1>6 DEF FactoryBinds, ContainerEnds
<1>7. ASSUME NEW c \in Containers, NEW x \in Storlets, DaemonEnds(c, x) \/ DaemonBinds(c, x)
      PROVE  FlagsTypeOK'
  BY <1>0, <1>2, <1>7 DEF DaemonEnds, DaemonBinds
<1>8. ASSUME NEW s \in Scopes, ImageInstalled(s) PROVE FlagsTypeOK'
  BY <1>0, <1>8 DEF ImageInstalled
<1> QED BY <1>1, <1>5, <1>6, <1>7, <1>8 DEF Next

----------------------------------------------------------------------------
\* The end of a daemon, and of a container with all that is in it, leaves the
\* node well typed.
LEMMA DaemonGoneOK ==
    ASSUME NodeOK, NEW c \in Containers, NEW x \in Storlets, DaemonGone(c, x),
           UNCHANGED <<images, state, factory_pipe, twins>>
    PROVE  NodeOK'
BY ContainerParts DEF NodeOK, DaemonGone

LEMMA ContainerGoneOK ==
    ASSUME NodeOK, NEW c \in Containers, ContainerGone(c), images' = images
    PROVE  NodeOK'
<1> USE ContainerParts DEF NodeOK, ContainerGone
<1>1. /\ state' \in [Containers -> {"none", "starting", "up"}]
      /\ daemons' \in [Containers -> SUBSET Storlets]
      /\ slow' \in SUBSET (Containers \X Storlets)
      /\ twins' \in SUBSET Scopes
  OBVIOUS
<1>2. factory_pipe' \in [Scopes -> Containers \cup {None}]
  OBVIOUS
<1>3. storlet_pipe' \in [Scopes -> [Storlets -> Containers \cup {None}]]
  OBVIOUS
<1>4. \A s \in Scopes : factory_pipe'[s] \in Containers =>
                           factory_pipe'[s][2] = s /\ state'[factory_pipe'[s]] = "up"
  <2> SUFFICES ASSUME NEW s \in Scopes, factory_pipe'[s] \in Containers
               PROVE  factory_pipe'[s][2] = s /\ state'[factory_pipe'[s]] = "up"
    OBVIOUS
  <2>1. factory_pipe'[s] = factory_pipe[s]
    BY NoneAssumption
  <2>2. factory_pipe[s] # c
    BY <2>1, NoneAssumption
  <2> QED BY <2>1, <2>2
<1> QED BY <1>1, <1>2, <1>3, <1>4

\* The node stays well typed.
LEMMA NextNode == TypeOK /\ [Next]_vars => NodeOK'
<1> SUFFICES ASSUME TypeOK, [Next]_vars PROVE NodeOK'
  OBVIOUS
<1>0. NodeOK /\ GatewaysOK
  BY TypeParts
<1>1. ASSUME UNCHANGED nodeVars PROVE NodeOK'
  BY <1>0, <1>1 DEF NodeOK, nodeVars
<1>2. ASSUME NEW g \in Gateways, NEW reason, Refuse(g, reason) PROVE NodeOK'
  BY <1>1, <1>2 DEF Refuse, nodeVars
<1>3. ASSUME NEW g \in Gateways, Gateway(g) \/ Answers(g) PROVE NodeOK'
  <2>1. CASE \/ Activate(g) \/ Ask(g) \/ Unreachable(g) \/ StartFails(g) \/ Execute(g)
             \/ GetContainer(g) \/ PingAgain(g) \/ WaitTimeout(g) \/ Status(g)
             \/ PingAnswered(g)
    BY <1>1, <2>1 DEF Activate, Ask, Unreachable, StartFails, Execute, GetContainer,
       PingAgain, WaitTimeout, Status, PingAnswered, nodeVars
  <2>2. CASE CheckLimit(g) \/ RunFails(g) \/ EngineError(g)
    BY <1>1, <1>2, <2>2 DEF CheckLimit, RunFails, EngineError, nodeVars
  <2>3. CASE StopContainer(g)
    <3>1. CASE scontainer[g] = None
      BY <1>2, <2>3, <3>1 DEF StopContainer
    <3>2. CASE scontainer[g] # None
      <4>1. scontainer[g] \in Containers
        BY <1>0, <3>2 DEF GatewaysOK
      <4> QED BY <1>0, <2>3, <3>2, <4>1, ContainerGoneOK DEF StopContainer
    <3> QED BY <3>1, <3>2
  <2>4. CASE RunContainer(g)
    <3>1. pc[g] = "run" /\ todo[g] # <<>>
      BY <1>0, <2>4 DEF RunContainer, GatewaysOK
    <3>2. Mine(g) \in Containers /\ Scope(g) \in Scopes
      BY <3>1, CurrentRequest
    <3> QED BY <1>0, <2>4, <3>2 DEF RunContainer, NodeOK
  <2>5. ASSUME peer[g] \in Containers, pc[g] \in {"stop", "start"}
        PROVE  Scope(g) \in Scopes /\ Storlet(g) \in Storlets
    BY <1>0, <2>5, CurrentRequest DEF GatewaysOK
  <2>6. CASE StopDaemon(g)
    <3>1. peer[g] \in Containers /\ Storlet(g) \in Storlets
      BY <2>5, <2>6 DEF StopDaemon
    <3>2. CASE Storlet(g) \in daemons[peer[g]]
      BY <1>0, <2>6, <3>1, <3>2, DaemonGoneOK DEF StopDaemon
    <3>3. CASE Storlet(g) \notin daemons[peer[g]]
      BY <1>1, <2>6, <3>3 DEF StopDaemon, nodeVars
    <3> QED BY <3>2, <3>3
  <2>7. CASE StartDaemon(g)
    <3>1. /\ peer[g] \in Containers /\ Scope(g) \in Scopes /\ Storlet(g) \in Storlets
          /\ UNCHANGED <<images, state, slow, factory_pipe, twins>>
      BY <2>5, <2>7 DEF StartDaemon
    <3>2. CASE Storlet(g) \in daemons[peer[g]]
      BY <1>1, <2>7, <3>1, <3>2 DEF StartDaemon, nodeVars
    <3>3. CASE Storlet(g) \notin daemons[peer[g]]
      <4>1. /\ daemons' = [daemons EXCEPT ![peer[g]] = @ \cup {Storlet(g)}]
            /\ storlet_pipe' = [storlet_pipe EXCEPT ![Scope(g)][Storlet(g)] = peer[g]]
        BY <2>7, <3>3 DEF StartDaemon
      <4> QED BY <1>0, <3>1, <4>1 DEF NodeOK
    <3> QED BY <3>2, <3>3
  <2>8. CASE StartGivesUp(g)
    BY <1>0, <2>5, <2>8 DEF StartGivesUp, NodeOK
  <2> QED BY <1>3, <2>1, <2>2, <2>3, <2>4, <2>6, <2>7, <2>8 DEF Gateway, Answers
<1>4. ASSUME NEW c \in Containers, FactoryBinds(c) PROVE NodeOK'
  BY <1>0, <1>4, ContainerParts DEF FactoryBinds, NodeOK
<1>5. ASSUME NEW c \in Containers, ContainerEnds(c) PROVE NodeOK'
  BY <1>0, <1>5, ContainerGoneOK DEF ContainerEnds
<1>6. ASSUME NEW c \in Containers, NEW x \in Storlets, DaemonEnds(c, x) PROVE NodeOK'
  BY <1>0, <1>6, DaemonGoneOK DEF DaemonEnds
<1>7. ASSUME NEW c \in Containers, NEW x \in Storlets, DaemonBinds(c, x) PROVE NodeOK'
  BY <1>0, <1>7, ContainerParts DEF DaemonBinds, NodeOK
<1>8. ASSUME NEW s \in Scopes, ImageInstalled(s) PROVE NodeOK'
  BY <1>0, <1>8 DEF ImageInstalled, NodeOK
<1> QED
  BY <1>1, <1>3, <1>4, <1>5, <1>6, <1>7, <1>8 DEF Next, vars

----------------------------------------------------------------------------
\* Leaving invocation_flow, and being refused a container, keep the gateways'
\* part of the state well typed.
LEMMA ReturnOK ==
    ASSUME GatewaysOK, NEW g \in Gateways, todo[g] # <<>>, Return(g)
    PROVE  GatewaysOK'
<1>1. Tail(todo[g]) \in Seq(Requests)
  BY DEF GatewaysOK
<1> QED BY <1>1, NoneAssumption DEF GatewaysOK, Return, Goto, HangUp, Pcs, Reasons

LEMMA RefuseOK ==
    ASSUME GatewaysOK, NEW g \in Gateways, todo[g] # <<>>,
           NEW reason \in Reasons, Refuse(g, reason)
    PROVE  GatewaysOK'
<1>1. CASE image[g] = "tenant"
  <2>1. /\ pc' = [pc EXCEPT ![g] = "get"]
        /\ image' = [image EXCEPT ![g] = "default"]
        /\ scontainer' = [scontainer EXCEPT ![g] = None]
        /\ why' = [why EXCEPT ![g] = reason]
        /\ UNCHANGED <<todo, peer>>
    BY <1>1 DEF Refuse, Goto
  <2> QED BY <2>1, NoneAssumption DEF GatewaysOK, Pcs
<1>2. CASE image[g] # "tenant"
  BY <1>2, ReturnOK DEF Refuse
<1> QED BY <1>1, <1>2

\* The gateways' part of the state stays well typed.
LEMMA NextGateways == TypeOK /\ [Next]_vars => GatewaysOK'
<1> SUFFICES ASSUME TypeOK, [Next]_vars PROVE GatewaysOK'
  OBVIOUS
<1>0. NodeOK /\ GatewaysOK
  BY TypeParts
<1>1. CASE UNCHANGED vars
  BY <1>0, <1>1 DEF GatewaysOK, vars, localVars
<1>2. ASSUME NEW g \in Gateways, Gateway(g) \/ Answers(g) PROVE GatewaysOK'
  <2>0. pc[g] # "idle" => todo[g] # <<>>
    BY <1>0 DEF GatewaysOK
  <2>1. CASE Activate(g)
    BY <1>0, <2>1 DEF Activate, GatewaysOK, Goto, Pcs
  <2>2. CASE Ask(g)
    <3>1. factory_pipe[Scope(g)] \in Containers \cup {None}
      BY <1>0, <2>0, <2>2, CurrentRequest DEF Ask, NodeOK
    <3> QED BY <1>0, <2>2, <3>1 DEF Ask, GatewaysOK
  <2>3. CASE Unreachable(g)
    BY <1>0, <2>3, <2>0 DEF Unreachable, Restart, GatewaysOK, Goto, HangUp, Pcs, Reasons
  <2>4. CASE StartFails(g) \/ StartGivesUp(g) \/ Execute(g) \/ WaitTimeout(g)
    BY <1>0, <2>0, <2>4, ReturnOK DEF StartFails, StartGivesUp, Execute, WaitTimeout
  <2>5. CASE GetContainer(g)
    <3>1. Mine(g) \in Containers
      BY <2>0, <2>5, CurrentRequest DEF GetContainer
    <3> QED BY <1>0, <2>5, <3>1 DEF GetContainer, GatewaysOK, Goto, Pcs
  <2>6. CASE StopContainer(g)
    <3>1. CASE scontainer[g] = None
      BY <1>0, <2>0, <2>6, <3>1, RefuseOK DEF StopContainer, Reasons
    <3>2. CASE scontainer[g] # None
      <4>1. scontainer[g] \in Containers
        BY <1>0, <3>2 DEF GatewaysOK
      <4>2. /\ pc[g] = "kill" /\ pc' = [pc EXCEPT ![g] = "limit"]
            /\ peer' = [h \in Gateways |-> IF peer[h] = scontainer[g] THEN Eof ELSE peer[h]]
            /\ scontainer' = [h \in Gateways |->
                                 IF scontainer[h] = scontainer[g] THEN None ELSE scontainer[h]]
            /\ UNCHANGED <<todo, image, why>>
        BY <2>6, <3>2 DEF StopContainer, ContainerGone, Goto
      <4> QED BY <1>0, <2>0, <4>1, <4>2, NoneAssumption DEF GatewaysOK, Pcs
    <3> QED BY <3>1, <3>2
  <2>7. CASE CheckLimit(g)
    <3>1. CASE Refuse(g, "limit")
      BY <1>0, <2>0, <2>7, <3>1, RefuseOK DEF CheckLimit, Reasons
    <3>2. CASE Goto(g, "run") /\ UNCHANGED <<nodeVars, localVars>>
      BY <1>0, <2>0, <2>7, <3>2 DEF CheckLimit, GatewaysOK, Goto, localVars, Pcs
    <3> QED BY <2>7, <3>1, <3>2 DEF CheckLimit
  <2>8. CASE RunContainer(g)
    BY <1>0, <2>0, <2>8 DEF RunContainer, GatewaysOK, Goto, Pcs
  <2>9. CASE RunFails(g) \/ EngineError(g)
    BY <1>0, <2>0, <2>9, RefuseOK DEF RunFails, EngineError, Reasons
  <2>10. CASE PingAgain(g) \/ PingAnswered(g) \/ Status(g) \/ StartDaemon(g)
    BY <1>0, <2>0, <2>10
    DEF PingAgain, PingAnswered, Status, StartDaemon, GatewaysOK, Goto, HangUp, Pcs
  <2>11. CASE StopDaemon(g)
    BY <1>0, <2>0, <2>11 DEF StopDaemon, Restart, GatewaysOK, Goto, HangUp, Pcs, Reasons
  <2> QED
    BY <1>2, <2>1, <2>2, <2>3, <2>4, <2>5, <2>6, <2>7, <2>8, <2>9, <2>10, <2>11
    DEF Gateway, Answers
<1>3. ASSUME NEW c \in Containers, FactoryBinds(c) \/ ContainerEnds(c) PROVE GatewaysOK'
  BY <1>0, <1>3, NoneAssumption DEF FactoryBinds, ContainerEnds, ContainerGone, GatewaysOK
<1>4. ASSUME NEW c \in Containers, NEW x \in Storlets, DaemonEnds(c, x) \/ DaemonBinds(c, x)
      PROVE  GatewaysOK'
  BY <1>0, <1>4 DEF DaemonEnds, DaemonBinds, GatewaysOK
<1>5. ASSUME NEW s \in Scopes, ImageInstalled(s) PROVE GatewaysOK'
  BY <1>0, <1>5 DEF ImageInstalled, GatewaysOK
<1> QED BY <1>1, <1>2, <1>3, <1>4, <1>5 DEF Next

----------------------------------------------------------------------------
\* The type invariant holds, for every set of gateways and scopes; in particular
\* a factory pipe leads to a factory of its scope that serves.
THEOREM SandboxTypeCorrect == Spec => []TypeOK
<1>1. TypeOK /\ [Next]_vars => TypeOK'
  BY NextFlags, NextNode, NextGateways, TypeParts DEF TypeOK, NodeOK, GatewaysOK
<1> QED BY <1>1, InitTypeOK, PTL DEF Spec

----------------------------------------------------------------------------
(***************************************************************************)
(* The limit of containers.                                                *)
(***************************************************************************)
\* The gateways that have counted the containers and not yet started theirs.
Counted == {g \in Gateways : pc[g] = "run"}

LEMMA FiniteNode ==
    /\ \A E \in SUBSET Containers : IsFiniteSet(E) /\ Cardinality(E) \in Nat
    /\ \A G \in SUBSET Gateways : /\ IsFiniteSet(G) /\ Cardinality(G) \in Nat
                                 /\ Cardinality(G) <= Cardinality(Gateways)
    /\ Cardinality(Gateways) \in Nat \ {0}
<1>1. IsFiniteSet({"tenant", "default"})
  <2>1. {"tenant", "default"} = {"tenant"} \cup {"default"}
    OBVIOUS
  <2>2. IsFiniteSet({"tenant"}) /\ IsFiniteSet({"default"})
    BY FS_Singleton
  <2>3. IsFiniteSet({"tenant"} \cup {"default"})
    BY <2>2, FS_Union
  <2> QED BY <2>1, <2>3
<1>2. IsFiniteSet(Containers)
  BY <1>1, ScopesAssumption, FS_Product DEF Containers
<1>3. \A E \in SUBSET Containers : IsFiniteSet(E) /\ Cardinality(E) \in Nat
  BY <1>2, FS_Subset, FS_CardinalityType
<1>4. \A G \in SUBSET Gateways : /\ IsFiniteSet(G) /\ Cardinality(G) \in Nat
                                /\ Cardinality(G) <= Cardinality(Gateways)
  BY GatewaysAssumption, FS_Subset, FS_CardinalityType
<1>5. Cardinality(Gateways) \in Nat \ {0}
  BY GatewaysAssumption, FS_EmptySet, FS_CardinalityType
<1> QED BY <1>3, <1>4, <1>5

\* ContainerLimit is kept by a step that neither starts a container nor counts.
LEMMA LimitShrinks ==
    ASSUME ContainerLimit, Existing' \subseteq Existing, Counted' \subseteq Counted
    PROVE  ContainerLimit'
<1>1. Existing \in SUBSET Containers /\ Existing' \in SUBSET Containers
  BY DEF Existing
<1>2. Counted \in SUBSET Gateways /\ Counted' \in SUBSET Gateways
  BY DEF Counted
<1>3. Cardinality(Existing') <= Cardinality(Existing)
  BY <1>1, FiniteNode, FS_Subset
<1>4. Cardinality(Counted') <= Cardinality(Counted)
  BY <1>2, FiniteNode, FS_Subset
<1>5. /\ Cardinality(Existing) \in Nat /\ Cardinality(Existing') \in Nat
      /\ Cardinality(Counted) \in Nat /\ Cardinality(Counted') \in Nat
      /\ Cardinality(Gateways) \in Nat
  BY <1>1, <1>2, FiniteNode
<1> QED BY <1>3, <1>4, <1>5, LimitAssumption DEF ContainerLimit, Counted

\* No container is there that was not, and nobody has just counted.
Shrinks == Existing' \subseteq Existing /\ Counted' \subseteq Counted

LEMMA NextLimit == TypeOK /\ ContainerLimit /\ [Next]_vars => ContainerLimit'
<1> SUFFICES ASSUME TypeOK, ContainerLimit, [Next]_vars PROVE ContainerLimit'
  OBVIOUS
<1>0. NodeOK /\ GatewaysOK
  BY TypeParts
<1>1. ASSUME UNCHANGED <<state, pc>> PROVE Shrinks
  BY <1>1 DEF Shrinks, Existing, Counted
<1>2. ASSUME NEW g \in Gateways, NEW label, label # "run", Goto(g, label), state' = state
      PROVE  Shrinks
  BY <1>0, <1>2 DEF Shrinks, Existing, Counted, Goto, GatewaysOK
<1>3. ASSUME NEW c \in Containers, ContainerGone(c) PROVE Existing' \subseteq Existing
  BY <1>0, <1>3 DEF ContainerGone, Existing, NodeOK
<1>4. ASSUME NEW g \in Gateways, NEW reason, Refuse(g, reason) PROVE Shrinks
  BY <1>2, <1>4 DEF Refuse, Return, nodeVars
<1>5. ASSUME NEW g \in Gateways, Gateway(g) \/ Answers(g) PROVE ContainerLimit'
  <2>1. CASE \/ Activate(g) \/ Unreachable(g) \/ StartFails(g) \/ StartGivesUp(g)
             \/ Execute(g) \/ GetContainer(g) \/ WaitTimeout(g) \/ Status(g)
             \/ StopDaemon(g) \/ StartDaemon(g) \/ PingAnswered(g)
    BY <1>2, <2>1, LimitShrinks
    DEF Shrinks, Activate, Unreachable, Restart, StartFails, StartGivesUp, Execute, Return,
        GetContainer, WaitTimeout, Status, StopDaemon, StartDaemon, PingAnswered, nodeVars
  <2>2. CASE Ask(g) \/ PingAgain(g)
    BY <1>1, <2>2, LimitShrinks DEF Shrinks, Ask, PingAgain, nodeVars
  <2>3. CASE StopContainer(g)
    <3>1. CASE scontainer[g] = None
      BY <1>4, <2>3, <3>1, LimitShrinks DEF StopContainer, Shrinks
    <3>2. CASE scontainer[g] # None
      <4>1. Existing' \subseteq Existing
        BY <1>0, <1>3, <2>3, <3>2 DEF StopContainer, GatewaysOK
      <4>2. Counted' \subseteq Counted
        BY <1>0, <2>3, <3>2 DEF StopContainer, Goto, Counted, GatewaysOK
      <4> QED BY <4>1, <4>2, LimitShrinks
    <3> QED BY <3>1, <3>2
  <2>4. CASE RunFails(g) \/ EngineError(g)
    BY <1>4, <2>4, LimitShrinks DEF RunFails, EngineError, Shrinks
  <2>5. CASE CheckLimit(g)
    <3>1. CASE LimitReached
      BY <1>4, <2>5, <3>1, LimitShrinks DEF CheckLimit, Shrinks
    <3>2. CASE ~LimitReached
      <4>1. Existing' = Existing /\ Counted' \in SUBSET Gateways
        BY <2>5, <3>2 DEF CheckLimit, Existing, nodeVars, Counted
      <4>2. Existing \in SUBSET Containers
        BY DEF Existing
      <4>3. /\ Cardinality(Existing) \in Nat /\ Cardinality(Counted') \in Nat
            /\ Cardinality(Counted') <= Cardinality(Gateways)
            /\ Cardinality(Gateways) \in Nat
        BY <4>1, <4>2, FiniteNode
      <4>4. max_containers_per_node > 0 =>
                Cardinality(Existing) + 1 <= max_containers_per_node
        BY <3>2, <4>3, LimitAssumption DEF LimitReached
      <4> QED BY <4>1, <4>3, <4>4, LimitAssumption DEF ContainerLimit, Counted
    <3> QED BY <3>1, <3>2
  <2>6. CASE RunContainer(g)
    <3>1. Mine(g) \in Containers
      BY <1>0, <2>6, CurrentRequest DEF RunContainer, GatewaysOK
    <3>2. Existing' = Existing \cup {Mine(g)}
      BY <1>0, <2>6, <3>1 DEF RunContainer, Existing, NodeOK
    <3>3. Counted' = Counted \ {g} /\ g \in Counted
      BY <1>0, <2>6 DEF RunContainer, Goto, Counted, GatewaysOK
    <3>4. Existing \in SUBSET Containers /\ Counted \in SUBSET Gateways
      BY DEF Existing, Counted
    <3>5. /\ IsFiniteSet(Existing) /\ Cardinality(Existing) \in Nat
          /\ IsFiniteSet(Counted) /\ Cardinality(Counted) \in Nat
          /\ Cardinality(Gateways) \in Nat
      BY <3>4, FiniteNode
    <3>6. /\ Cardinality(Existing') \in Nat
          /\ Cardinality(Existing') <= Cardinality(Existing) + 1
      <4>1. Cardinality(Existing \cup {Mine(g)}) =
               IF Mine(g) \in Existing THEN Cardinality(Existing) ELSE Cardinality(Existing) + 1
        BY <3>5, FS_AddElement
      <4> QED BY <3>2, <3>5, <4>1
    <3>7. Cardinality(Counted') = Cardinality(Counted) - 1
      BY <3>3, <3>5, FS_RemoveElement
    <3> QED BY <3>5, <3>6, <3>7, LimitAssumption DEF ContainerLimit, Counted
  <2> QED BY <1>5, <2>1, <2>2, <2>3, <2>4, <2>5, <2>6 DEF Gateway, Answers
<1>6. ASSUME NEW c \in Containers, FactoryBinds(c) PROVE ContainerLimit'
  <2>1. Existing' \subseteq Existing /\ Counted' \subseteq Counted
    BY <1>0, <1>6 DEF FactoryBinds, Existing, Counted, NodeOK
  <2> QED BY <2>1, LimitShrinks
<1>7. ASSUME NEW c \in Containers, ContainerEnds(c) PROVE ContainerLimit'
  <2>1. Counted' \subseteq Counted
    BY <1>7 DEF ContainerEnds, Counted
  <2> QED BY <1>3, <1>7, <2>1, LimitShrinks DEF ContainerEnds
<1>8. ASSUME NEW c \in Containers, NEW x \in Storlets, DaemonEnds(c, x) \/ DaemonBinds(c, x)
      PROVE  ContainerLimit'
  BY <1>1, <1>8, LimitShrinks DEF DaemonEnds, DaemonBinds, Shrinks
<1>9. ASSUME NEW s \in Scopes, ImageInstalled(s) PROVE ContainerLimit'
  BY <1>1, <1>9, LimitShrinks DEF ImageInstalled, Shrinks
<1>10. CASE UNCHANGED vars
  BY <1>1, <1>10, LimitShrinks DEF vars, nodeVars, Shrinks
<1> QED BY <1>5, <1>6, <1>7, <1>8, <1>9, <1>10 DEF Next

LEMMA InitLimit == Init => ContainerLimit
<1> SUFFICES ASSUME Init PROVE ContainerLimit
  OBVIOUS
<1>1. PICK up \in SUBSET Containers : Node(up)
  BY DEF Init
<1>2. Existing = up
  BY <1>1 DEF Existing, Node
<1>3. {g \in Gateways : pc[g] = "run"} = {}
  BY DEF Init
<1>4. Cardinality(up) \in Nat /\ Cardinality(Gateways) \in Nat \ {0}
  BY FiniteNode
<1>5. max_containers_per_node > 0 => Cardinality(up) <= max_containers_per_node
  BY <1>1 DEF Node
<1>6. Cardinality({g \in Gateways : pc[g] = "run"}) = 0
  BY <1>3, FS_EmptySet
<1> QED BY <1>2, <1>4, <1>5, <1>6, LimitAssumption DEF ContainerLimit

\* max_containers_per_node is exceeded by no more than the number of the other
\* gateways of the node, though each counts first and starts later (_restart).
THEOREM LimitKept == Spec => []ContainerLimit
<1>1. Init => TypeOK /\ ContainerLimit
  BY InitTypeOK, InitLimit
<1>2. TypeOK /\ ContainerLimit /\ TypeOK' /\ [Next]_vars => ContainerLimit'
  BY NextLimit
<1> QED BY <1>1, <1>2, SandboxTypeCorrect, PTL DEF Spec

----------------------------------------------------------------------------
(***************************************************************************)
(* An undisturbed activation holds.                                        *)
(***************************************************************************)
\* What lies behind a scope's pipes.  Unless two containers of a scope have
\* lived together, a daemon that has bound its pipe is where the pipe leads.
NodeInv ==
    /\ \A c \in Containers : state[c] = "none" => daemons[c] = {}
    /\ \A c, d \in Containers :
           state[c] # "none" /\ state[d] # "none" /\ c[2] = d[2] /\ c[2] \notin twins => c = d
    /\ \A c \in Containers, x \in Storlets :
           /\ <<c, x>> \in slow => x \in daemons[c]
           /\ x \in daemons[c] /\ <<c, x>> \notin slow /\ c[2] \notin twins =>
                  storlet_pipe[c[2]][x] = c

\* A gateway asks, and stops, containers of its own scope only.
PeerInv ==
    \A g \in Gateways :
        /\ peer[g] \in Containers =>
               pc[g] # "idle" /\ peer[g][2] = Scope(g) /\ state[peer[g]] = "up"
        /\ scontainer[g] \in Containers => scontainer[g][2] = Scope(g)

\* A gateway about to execute, undisturbed, has seen or started a daemon.
CalmInv ==
    \A g \in Gateways :
        calm[g] /\ pc[g] = "execute" =>
            \E c \in Containers : c[2] = Scope(g) /\ Storlet(g) \in daemons[c]


LEMMA DaemonGoneInv ==
    ASSUME NodeOK, NodeInv, NEW c \in Containers, NEW x \in Storlets, DaemonGone(c, x),
           UNCHANGED <<state, twins>>
    PROVE  NodeInv'
<1>1. \A d \in Containers : daemons'[d] = IF d = c THEN daemons[c] \ {x} ELSE daemons[d]
  BY DEF DaemonGone, NodeOK
<1>2. ASSUME NEW d \in Containers, NEW y \in Storlets
      PROVE  storlet_pipe'[d[2]][y] =
                 IF d[2] = c[2] /\ y = x /\ storlet_pipe[c[2]][x] = c THEN None
                                                            ELSE storlet_pipe[d[2]][y]
  BY ContainerParts DEF DaemonGone, NodeOK
<1>3. slow' = slow \ {<<c, x>>}
  BY DEF DaemonGone
<1>4. ASSUME NEW d \in Containers, NEW y \in Storlets
      PROVE  <<d, y>> \in slow' => y \in daemons'[d]
  BY <1>1, <1>3 DEF NodeInv
<1>5. ASSUME NEW d \in Containers, NEW y \in Storlets,
             y \in daemons'[d], <<d, y>> \notin slow', d[2] \notin twins
      PROVE  storlet_pipe'[d[2]][y] = d
  <2>1. y \in daemons[d] /\ (d # c \/ y # x) /\ <<d, y>> \notin slow
    BY <1>1, <1>3, <1>5
  <2>2. storlet_pipe[d[2]][y] = d
    BY <1>5, <2>1 DEF NodeInv
  <2> QED BY <1>2, <2>1, <2>2
<1> QED BY <1>1, <1>4, <1>5 DEF NodeInv

LEMMA ContainerGoneInv ==
    ASSUME NodeOK, NodeInv, NEW c \in Containers, ContainerGone(c)
    PROVE  NodeInv'
<1>1. /\ \A d \in Containers : daemons'[d] = IF d = c THEN {} ELSE daemons[d]
      /\ \A d \in Containers : state'[d] = IF d = c THEN "none" ELSE state[d]
      /\ slow' = slow \ ({c} \X Storlets)
  BY DEF ContainerGone, NodeOK
<1>2. ASSUME NEW d \in Containers, d # c, state[d] # "none", d[2] \notin twins'
      PROVE  d[2] \notin twins
  BY <1>2 DEF ContainerGone, Existing
<1>3. ASSUME NEW d \in Containers, NEW y \in Storlets, storlet_pipe[d[2]][y] # c
      PROVE  storlet_pipe'[d[2]][y] = storlet_pipe[d[2]][y]
  BY <1>3, ContainerParts DEF ContainerGone, NodeOK
<1>4. \A d \in Containers : state'[d] = "none" => daemons'[d] = {}
  BY <1>1 DEF NodeInv
<1>5. \A d, e \in Containers :
          state'[d] # "none" /\ state'[e] # "none" /\ d[2] = e[2] /\ d[2] \notin twins' => d = e
  BY <1>1, <1>2 DEF NodeInv
<1>6. ASSUME NEW d \in Containers, NEW y \in Storlets
      PROVE  <<d, y>> \in slow' => y \in daemons'[d]
  BY <1>1 DEF NodeInv
<1>7. ASSUME NEW d \in Containers, NEW y \in Storlets,
             y \in daemons'[d], <<d, y>> \notin slow', d[2] \notin twins'
      PROVE  storlet_pipe'[d[2]][y] = d
  <2>1. d # c /\ y \in daemons[d] /\ <<d, y>> \notin slow /\ state[d] # "none"
    BY <1>1, <1>7 DEF NodeInv
  <2>2. storlet_pipe[d[2]][y] = d
    BY <1>2, <1>7, <2>1 DEF NodeInv
  <2> QED BY <1>3, <2>1, <2>2
<1> QED BY <1>4, <1>5, <1>6, <1>7 DEF NodeInv

\* A daemon of container c, alone in its scope unless that has twins, binds.
LEMMA BindsInv ==
    ASSUME NodeOK, NodeInv, NEW c \in Containers, NEW x \in Storlets, state[c] # "none",
           daemons' = [daemons EXCEPT ![c] = @ \cup {x}],
           slow' = slow \ {<<c, x>>},
           storlet_pipe' = [storlet_pipe EXCEPT ![c[2]][x] = c],
           UNCHANGED <<state, twins>>
    PROVE  NodeInv'
<1>1. \A d \in Containers : daemons'[d] = IF d = c THEN daemons[c] \cup {x} ELSE daemons[d]
  BY DEF NodeOK
<1>2. ASSUME NEW d \in Containers, NEW y \in Storlets
      PROVE  storlet_pipe'[d[2]][y] = IF d[2] = c[2] /\ y = x THEN c ELSE storlet_pipe[d[2]][y]
  BY ContainerParts DEF NodeOK
<1>3. ASSUME NEW d \in Containers, NEW y \in Storlets,
             y \in daemons'[d], <<d, y>> \notin slow', d[2] \notin twins
      PROVE  storlet_pipe'[d[2]][y] = d
  <2>1. CASE d = c /\ y = x
    BY <1>2, <2>1
  <2>2. CASE ~(d = c /\ y = x)
    <3>1. y \in daemons[d] /\ <<d, y>> \notin slow /\ state[d] # "none"
      BY <1>1, <1>3, <2>2 DEF NodeInv
    <3>2. storlet_pipe[d[2]][y] = d /\ (d[2] = c[2] => d = c)
      BY <1>3, <3>1 DEF NodeInv
    <3> QED BY <1>2, <2>2, <3>2
  <2> QED BY <2>1, <2>2
<1> QED BY <1>1, <1>3 DEF NodeInv

LEMMA NextNodeInv == TypeOK /\ NodeInv /\ PeerInv /\ [Next]_vars => NodeInv'
<1> SUFFICES ASSUME TypeOK, NodeInv, PeerInv, [Next]_vars PROVE NodeInv'
  OBVIOUS
<1>0. NodeOK /\ GatewaysOK
  BY TypeParts
<1>1. ASSUME UNCHANGED <<state, daemons, slow, storlet_pipe, twins>> PROVE NodeInv'
  BY <1>1 DEF NodeInv
<1>2. ASSUME NEW g \in Gateways, NEW reason, Refuse(g, reason) PROVE NodeInv'
  BY <1>1, <1>2 DEF Refuse, nodeVars
<1>3. ASSUME NEW g \in Gateways, Gateway(g) \/ Answers(g) PROVE NodeInv'
  <2>1. CASE \/ Activate(g) \/ Ask(g) \/ Unreachable(g) \/ StartFails(g) \/ Execute(g)
             \/ GetContainer(g) \/ PingAgain(g) \/ WaitTimeout(g) \/ Status(g)
             \/ PingAnswered(g)
    BY <1>1, <2>1 DEF Activate, Ask, Unreachable, StartFails, Execute, GetContainer,
       PingAgain, WaitTimeout, Status, PingAnswered, nodeVars
  <2>2. CASE CheckLimit(g) \/ RunFails(g) \/ EngineError(g)
    BY <1>1, <1>2, <2>2 DEF CheckLimit, RunFails, EngineError, nodeVars
  <2>3. CASE StopContainer(g)
    <3>1. CASE scontainer[g] = None
      BY <1>2, <2>3, <3>1 DEF StopContainer
    <3>2. CASE scontainer[g] # None
      <4>1. scontainer[g] \in Containers
        BY <1>0, <3>2 DEF GatewaysOK
      <4> QED BY <1>0, <2>3, <3>2, <4>1, ContainerGoneInv DEF StopContainer
    <3> QED BY <3>1, <3>2
  <2>4. CASE RunContainer(g)
    <3>1. Mine(g) \in Containers /\ Mine(g)[2] = Scope(g)
      BY <1>0, <2>4, CurrentRequest DEF RunContainer, GatewaysOK, Mine
    <3>2. /\ state[Mine(g)] = "none"
          /\ \A d \in Containers : state'[d] = IF d = Mine(g) THEN "starting" ELSE state[d]
          /\ UNCHANGED <<daemons, slow, storlet_pipe>>
          /\ twins \subseteq twins'
      BY <1>0, <2>4, <3>1 DEF RunContainer, NodeOK
    <3>3. ASSUME NEW d \in Containers, state[d] # "none", d[2] = Scope(g)
          PROVE  d[2] \in twins'
      BY <2>4, <3>3 DEF RunContainer, Existing
    <3> QED BY <3>1, <3>2, <3>3 DEF NodeInv
  <2>5. ASSUME peer[g] \in Containers, pc[g] \in {"stop", "start"}
        PROVE  /\ Storlet(g) \in Storlets
               /\ peer[g][2] = Scope(g) /\ state[peer[g]] = "up"
    BY <1>0, <2>5, CurrentRequest DEF GatewaysOK, PeerInv
  <2>6. CASE StopDaemon(g)
    <3>1. peer[g] \in Containers /\ Storlet(g) \in Storlets
      BY <2>5, <2>6 DEF StopDaemon
    <3>2. CASE Storlet(g) \in daemons[peer[g]]
      BY <1>0, <2>6, <3>1, <3>2, DaemonGoneInv DEF StopDaemon
    <3>3. CASE Storlet(g) \notin daemons[peer[g]]
      BY <1>1, <2>6, <3>3 DEF StopDaemon
    <3> QED BY <3>2, <3>3
  <2>7. CASE StartDaemon(g)
    <3>1. /\ peer[g] \in Containers /\ Storlet(g) \in Storlets
          /\ peer[g][2] = Scope(g) /\ state[peer[g]] # "none"
          /\ UNCHANGED <<state, slow, twins>>
      BY <2>5, <2>7 DEF StartDaemon
    <3>2. CASE Storlet(g) \in daemons[peer[g]]
      BY <1>1, <2>7, <3>1, <3>2 DEF StartDaemon
    <3>3. CASE Storlet(g) \notin daemons[peer[g]]
      <4>1. /\ daemons' = [daemons EXCEPT ![peer[g]] = @ \cup {Storlet(g)}]
            /\ storlet_pipe' = [storlet_pipe EXCEPT ![Scope(g)][Storlet(g)] = peer[g]]
        BY <2>7, <3>3 DEF StartDaemon
      <4>2. slow' = slow \ {<<peer[g], Storlet(g)>>}
        BY <3>1, <3>3 DEF NodeInv
      <4> QED BY <1>0, <3>1, <4>1, <4>2, BindsInv
    <3> QED BY <3>2, <3>3
  <2>8. CASE StartGivesUp(g)
    <3>1. /\ peer[g] \in Containers /\ Storlet(g) \in Storlets /\ state[peer[g]] # "none"
          /\ UNCHANGED <<state, twins, storlet_pipe>>
          /\ slow' = slow \cup {<<peer[g], Storlet(g)>>}
      BY <2>5, <2>8 DEF StartGivesUp
    <3>2. \A d \in Containers : daemons'[d] = IF d = peer[g] THEN daemons[d] \cup {Storlet(g)}
                                                          ELSE daemons[d]
      BY <1>0, <2>8 DEF StartGivesUp, NodeOK
    <3>3. ASSUME NEW d \in Containers, NEW y \in Storlets
          PROVE  /\ <<d, y>> \in slow' => y \in daemons'[d]
                 /\ y \in daemons'[d] /\ <<d, y>> \notin slow' =>
                        y \in daemons[d] /\ <<d, y>> \notin slow
      <4>1. CASE d = peer[g] /\ y = Storlet(g)
        BY <3>1, <3>2, <4>1
      <4>2. CASE ~(d = peer[g] /\ y = Storlet(g))
        <5>1. <<d, y>> \in slow' <=> <<d, y>> \in slow
          BY <3>1, <4>2
        <5>2. y \in daemons'[d] <=> y \in daemons[d]
          BY <3>2, <4>2
        <5> QED BY <5>1, <5>2 DEF NodeInv
      <4> QED BY <4>1, <4>2
    <3>4. \A d \in Containers : state'[d] = "none" => daemons'[d] = {}
      BY <3>1, <3>2 DEF NodeInv
    <3> QED BY <3>1, <3>3, <3>4 DEF NodeInv
  <2> QED BY <1>3, <2>1, <2>2, <2>3, <2>4, <2>6, <2>7, <2>8 DEF Gateway, Answers
<1>4. ASSUME NEW c \in Containers, FactoryBinds(c) PROVE NodeInv'
  <2>1. /\ UNCHANGED <<daemons, slow, storlet_pipe, twins>>
        /\ \A d \in Containers : state'[d] = "none" <=> state[d] = "none"
    BY <1>0, <1>4 DEF FactoryBinds, NodeOK
  <2> QED BY <2>1 DEF NodeInv
<1>5. ASSUME NEW c \in Containers, ContainerEnds(c) PROVE NodeInv'
  BY <1>0, <1>5, ContainerGoneInv DEF ContainerEnds
<1>6. ASSUME NEW c \in Containers, NEW x \in Storlets, DaemonEnds(c, x) PROVE NodeInv'
  BY <1>0, <1>6, DaemonGoneInv DEF DaemonEnds
<1>7. ASSUME NEW c \in Containers, NEW x \in Storlets, DaemonBinds(c, x) PROVE NodeInv'
  <2>1. x \in daemons[c] /\ state[c] # "none"
    BY <1>7 DEF DaemonBinds, NodeInv
  <2>2. daemons' = [daemons EXCEPT ![c] = @ \cup {x}]
    BY <1>0, <1>7, <2>1 DEF DaemonBinds, NodeOK
  <2> QED BY <1>0, <1>7, <2>1, <2>2, BindsInv DEF DaemonBinds
<1>8. ASSUME NEW s \in Scopes, ImageInstalled(s) PROVE NodeInv'
  BY <1>1, <1>8 DEF ImageInstalled
<1>9. CASE UNCHANGED vars
  BY <1>1, <1>9 DEF vars, nodeVars
<1> QED BY <1>3, <1>4, <1>5, <1>6, <1>7, <1>8, <1>9 DEF Next

----------------------------------------------------------------------------
\* One gateway's part of PeerInv.
PeerOK(h) ==
    /\ peer[h] \in Containers =>
           pc[h] # "idle" /\ peer[h][2] = Scope(h) /\ state[peer[h]] = "up"
    /\ scontainer[h] \in Containers => scontainer[h][2] = Scope(h)

\* What others do to a gateway's peer: it lives on, or is gone for good.
LEMMA PeerKept ==
    ASSUME PeerInv, NEW h \in Gateways, pc'[h] = pc[h], todo'[h] = todo[h],
           peer'[h] = peer[h] \/ peer'[h] \notin Containers,
           scontainer'[h] = scontainer[h] \/ scontainer'[h] \notin Containers,
           peer'[h] \in Containers /\ state[peer[h]] = "up" => state'[peer[h]] = "up"
    PROVE  PeerOK(h)'
BY DEF PeerInv, PeerOK, Scope

LEMMA NextPeerInv == TypeOK /\ PeerInv /\ [Next]_vars => PeerInv'
<1> SUFFICES ASSUME TypeOK, PeerInv, [Next]_vars PROVE PeerInv'
  OBVIOUS
<1> SUFFICES ASSUME NEW h \in Gateways PROVE PeerOK(h)'
  BY DEF PeerInv, PeerOK
<1>0. NodeOK /\ GatewaysOK
  BY TypeParts
<1>1. CASE UNCHANGED vars
  BY <1>1, PeerKept DEF vars, nodeVars, localVars
<1>2. ASSUME NEW c \in Containers, ContainerGone(c), pc' = pc \/ pc'[h] # "idle",
             todo' = todo
      PROVE  PeerOK(h)'
  <2>1. /\ peer'[h] = (IF peer[h] = c THEN Eof ELSE peer[h])
        /\ scontainer'[h] = (IF scontainer[h] = c THEN None ELSE scontainer[h])
    BY <1>2 DEF ContainerGone
  <2>2. \A d \in Containers : d # c => state'[d] = state[d]
    BY <1>0, <1>2 DEF ContainerGone, NodeOK
  <2> QED BY <1>2, <2>1, <2>2, NoneAssumption DEF PeerInv, PeerOK, Scope
<1>3. ASSUME NEW c \in Containers, FactoryBinds(c) \/ ContainerEnds(c) PROVE PeerOK(h)'
  <2>1. CASE FactoryBinds(c)
    <3>1. \A d \in Containers : state[d] = "up" => state'[d] = "up"
      BY <1>0, <2>1 DEF FactoryBinds, NodeOK
    <3> QED BY <2>1, <3>1, PeerKept DEF FactoryBinds
  <2>2. CASE ContainerEnds(c)
    BY <1>2, <2>2 DEF ContainerEnds
  <2> QED BY <1>3, <2>1, <2>2
<1>4. ASSUME NEW c \in Containers, NEW x \in Storlets, DaemonEnds(c, x) \/ DaemonBinds(c, x)
      PROVE  PeerOK(h)'
  BY <1>4, PeerKept DEF DaemonEnds, DaemonBinds
<1>5. ASSUME NEW s \in Scopes, ImageInstalled(s) PROVE PeerOK(h)'
  BY <1>5, PeerKept DEF ImageInstalled
<1>6. ASSUME NEW g \in Gateways, Gateway(g) \/ Answers(g) PROVE PeerOK(h)'
  <2>1. CASE StopContainer(g) /\ scontainer[g] # None
    <3>1. /\ scontainer[g] \in Containers /\ ContainerGone(scontainer[g])
          /\ Goto(g, "limit") /\ todo' = todo
      BY <1>0, <2>1 DEF StopContainer, GatewaysOK
    <3>2. h # g => PeerOK(h)'
      <4> SUFFICES ASSUME h # g PROVE PeerOK(h)'
        OBVIOUS
      <4>1. /\ peer'[h] = (IF peer[h] = scontainer[g] THEN Eof ELSE peer[h])
            /\ scontainer'[h] = (IF scontainer[h] = scontainer[g] THEN None ELSE scontainer[h])
            /\ pc'[h] = pc[h]
        BY <1>0, <3>1 DEF ContainerGone, Goto, GatewaysOK
      <4>2. \A d \in Containers : d # scontainer[g] => state'[d] = state[d]
        BY <1>0, <3>1 DEF ContainerGone, NodeOK
      <4> QED BY <3>1, <4>1, <4>2, NoneAssumption, PeerKept
    <3>3. h = g => PeerOK(h)'
      <4>1. pc'[g] # "idle"
        BY <1>0, <3>1 DEF Goto, GatewaysOK
      <4> QED BY <1>2, <3>1, <4>1
    <3> QED BY <3>2, <3>3
  <2>2. CASE RunContainer(g)
    <3>1. /\ pc'[g] # "idle" /\ (h # g => pc'[h] = pc[h])
          /\ UNCHANGED <<peer, scontainer, todo>>
      BY <1>0, <2>2 DEF RunContainer, Goto, GatewaysOK
    <3>2. \A d \in Containers : state[d] = "up" => state'[d] = "up"
      BY <1>0, <2>2 DEF RunContainer, NodeOK
    <3> QED BY <3>1, <3>2 DEF PeerInv, PeerOK, Scope
  <2>3. ASSUME state' = state, h # g,
               pc'[h] = pc[h], todo'[h] = todo[h], peer'[h] = peer[h],
               scontainer'[h] = scontainer[h]
        PROVE  PeerOK(h)'
    BY <2>3, PeerKept
  <2>4. ASSUME Return(g), state' = state PROVE PeerOK(h)'
    <3>1. h = g => peer'[h] = None /\ scontainer'[h] = None
      BY <1>0, <2>4 DEF Return, HangUp, GatewaysOK
    <3>2. h # g => /\ pc'[h] = pc[h] /\ todo'[h] = todo[h]
                   /\ peer'[h] = peer[h] /\ scontainer'[h] = scontainer[h]
      BY <1>0, <2>4 DEF Return, HangUp, Goto, GatewaysOK
    <3> QED BY <2>3, <2>4, <3>1, <3>2, NoneAssumption DEF PeerOK
  <2>5. ASSUME NEW reason, Refuse(g, reason), pc[g] # "idle" PROVE PeerOK(h)'
    <3>1. CASE image[g] = "tenant"
      BY <1>0, <2>5, <3>1, NoneAssumption
      DEF Refuse, Goto, GatewaysOK, nodeVars, PeerInv, PeerOK, Scope
    <3>2. CASE image[g] # "tenant"
      BY <2>4, <2>5, <3>2 DEF Refuse, nodeVars
    <3> QED BY <3>1, <3>2
  <2>6. CASE StartFails(g) \/ StartGivesUp(g) \/ Execute(g) \/ WaitTimeout(g)
    BY <2>4, <2>6 DEF StartFails, StartGivesUp, Execute, WaitTimeout, nodeVars
  <2>7. CASE RunFails(g) \/ EngineError(g) \/ (StopContainer(g) /\ scontainer[g] = None)
    BY <2>5, <2>7 DEF RunFails, EngineError, StopContainer
  <2>8. CASE Activate(g)
    BY <1>0, <2>8 DEF Activate, Goto, GatewaysOK, nodeVars, PeerInv, PeerOK, Scope
  <2>9. CASE Ask(g)
    <3>1. Scope(g) \in Scopes
      BY <1>0, <2>9, CurrentRequest DEF Ask, GatewaysOK
    <3>2. LET c == factory_pipe[Scope(g)] IN c \in Containers => c[2] = Scope(g) /\ state[c] = "up"
      BY <1>0, <3>1 DEF NodeOK
    <3> QED
      BY <1>0, <2>9, <3>2, NoneAssumption
      DEF Ask, GatewaysOK, nodeVars, PeerInv, PeerOK, Scope
  <2>10. CASE \/ Unreachable(g) \/ Status(g) \/ StopDaemon(g) \/ StartDaemon(g)
              \/ PingAnswered(g) \/ PingAgain(g)
    <3>1. /\ peer' = [peer EXCEPT ![g] = None]
          /\ UNCHANGED <<scontainer, todo, state>>
          /\ h # g => pc'[h] = pc[h]
      BY <1>0, <2>10 DEF Unreachable, Status, StopDaemon, StartDaemon, PingAnswered, PingAgain,
         Restart, HangUp, Goto, GatewaysOK, nodeVars
    <3> QED BY <1>0, <3>1, NoneAssumption DEF GatewaysOK, PeerInv, PeerOK, Scope
  <2>11. CASE GetContainer(g)
    <3>1. Mine(g)[2] = Scope(g) /\ Mine(g) \in Containers
      BY <1>0, <2>11, CurrentRequest DEF GetContainer, GatewaysOK, Mine
    <3>2. /\ UNCHANGED <<peer, todo, state>>
          /\ pc'[g] # "idle" /\ (h # g => pc'[h] = pc[h])
          /\ h # g => scontainer'[h] = scontainer[h]
          /\ scontainer'[g] = scontainer[g] \/ scontainer'[g] = Mine(g)
      BY <1>0, <2>11 DEF GetContainer, Goto, GatewaysOK, nodeVars
    <3> QED BY <3>1, <3>2 DEF PeerInv, PeerOK, Scope
  <2>12. CASE CheckLimit(g)
    <3>1. CASE LimitReached
      BY <2>5, <2>12, <3>1 DEF CheckLimit
    <3>2. CASE ~LimitReached
      BY <1>0, <2>12, <3>2
      DEF CheckLimit, Goto, GatewaysOK, nodeVars, localVars, PeerInv, PeerOK, Scope
    <3> QED BY <3>1, <3>2
  <2> QED
    BY <1>6, <2>1, <2>2, <2>6, <2>7, <2>8, <2>9, <2>10, <2>11, <2>12 DEF Gateway, Answers
<1> QED BY <1>1, <1>3, <1>4, <1>5, <1>6 DEF Next

----------------------------------------------------------------------------
\* Who is calm after a disturbance was calm before it, and not concerned.
LEMMA DisturbCalm ==
    ASSUME NEW s, NEW by, Disturb(s, by), NEW h \in Gateways, calm'[h]
    PROVE  calm[h] /\ (Scope(h) # s \/ h \in by)
BY Zenon DEF Disturb

\* One gateway's part of CalmInv.
CalmOK(h) ==
    calm[h] /\ pc[h] = "execute" =>
        \E c \in Containers : c[2] = Scope(h) /\ Storlet(h) \in daemons[c]

\* CalmInv survives, for a gateway at execute, what leaves its scope's daemons.
LEMMA CalmKept ==
    ASSUME CalmInv, NEW h \in Gateways, pc[h] = "execute", todo'[h] = todo[h],
           calm'[h] => calm[h],
           calm'[h] => \A c \in Containers :
               c[2] = Scope(h) /\ Storlet(h) \in daemons[c] => Storlet(h) \in daemons'[c]
    PROVE  CalmOK(h)'
<1>1. Scope(h)' = Scope(h) /\ Storlet(h)' = Storlet(h)
  BY DEF Scope, Storlet
<1> QED BY <1>1 DEF CalmInv, CalmOK

LEMMA NextCalmInv == TypeOK /\ PeerInv /\ CalmInv /\ [Next]_vars => CalmInv'
<1> SUFFICES ASSUME TypeOK, PeerInv, CalmInv, [Next]_vars PROVE CalmInv'
  OBVIOUS
<1> SUFFICES ASSUME NEW h \in Gateways, pc'[h] = "execute" PROVE CalmOK(h)'
  BY DEF CalmInv, CalmOK
<1>0. NodeOK /\ GatewaysOK
  BY TypeParts
<1>1. ASSUME pc'[h] = pc[h], todo'[h] = todo[h], calm'[h] = calm[h], daemons' = daemons
      PROVE  CalmOK(h)'
  BY <1>1, CalmKept
<1>2. ASSUME NEW c \in Containers, NEW by, ContainerGone(c), Disturb(c[2], by), h \notin by,
             pc'[h] = pc[h], todo' = todo
      PROVE  CalmOK(h)'
  <2>1. \A d \in Containers : d # c => daemons'[d] = daemons[d]
    BY <1>0, <1>2 DEF ContainerGone, NodeOK
  <2>2. calm'[h] => calm[h] /\ Scope(h) # c[2]
    BY <1>2, DisturbCalm
  <2> QED BY <1>2, <2>1, <2>2, CalmKept
<1>3. ASSUME NEW c \in Containers, NEW x \in Storlets, NEW by, DaemonGone(c, x),
             Disturb(c[2], by), h \notin by, pc'[h] = pc[h], todo' = todo
      PROVE  CalmOK(h)'
  <2>1. \A d \in Containers : d # c => daemons'[d] = daemons[d]
    BY <1>0, <1>3 DEF DaemonGone, NodeOK
  <2>2. calm'[h] => calm[h] /\ Scope(h) # c[2]
    BY <1>3, DisturbCalm
  <2> QED BY <1>3, <2>1, <2>2, CalmKept
<1>4. ASSUME NEW c \in Containers, FactoryBinds(c) \/ ContainerEnds(c) PROVE CalmOK(h)'
  <2>1. CASE FactoryBinds(c)
    BY <2>1, DisturbCalm, CalmKept DEF FactoryBinds
  <2>2. CASE ContainerEnds(c)
    BY <1>2, <2>2 DEF ContainerEnds
  <2> QED BY <1>4, <2>1, <2>2
<1>5. ASSUME NEW c \in Containers, NEW x \in Storlets, DaemonEnds(c, x) \/ DaemonBinds(c, x)
      PROVE  CalmOK(h)'
  <2>1. CASE DaemonEnds(c, x)
    BY <1>3, <2>1 DEF DaemonEnds
  <2>2. CASE DaemonBinds(c, x)
    BY <2>2, DisturbCalm, CalmKept DEF DaemonBinds
  <2> QED BY <1>5, <2>1, <2>2
<1>6. ASSUME NEW s \in Scopes, ImageInstalled(s) PROVE CalmOK(h)'
  BY <1>1, <1>6 DEF ImageInstalled
<1>7. CASE UNCHANGED vars
  BY <1>1, <1>7 DEF vars, nodeVars, localVars
<1>8. ASSUME NEW g \in Gateways, Gateway(g) \/ Answers(g) PROVE CalmOK(h)'
  <2>0. ASSUME NEW label, Goto(g, label), label # "execute"
        PROVE  h # g /\ pc'[h] = pc[h]
    BY <1>0, <2>0 DEF Goto, GatewaysOK
  <2>1. ASSUME Return(g) PROVE h # g /\ pc'[h] = pc[h] /\ todo'[h] = todo[h] /\ calm'[h] = calm[h]
    <3>1. h # g /\ pc'[h] = pc[h]
      BY <2>0, <2>1 DEF Return
    <3>2. todo'[h] = todo[h]
      BY <1>0, <2>1, <3>1 DEF Return, GatewaysOK
    <3>3. calm \in [Gateways -> BOOLEAN] /\ calm' = [calm EXCEPT ![g] = FALSE]
      BY <2>1 DEF Return, TypeOK, FlagsTypeOK
    <3>4. calm'[h] = calm[h]
      BY <3>1, <3>3, Zenon
    <3> QED BY <3>1, <3>2, <3>4
  <2>2. ASSUME NEW reason, Refuse(g, reason) PROVE CalmOK(h)'
    <3>1. CASE image[g] = "tenant"
      BY <1>1, <2>0, <2>2, <3>1 DEF Refuse, nodeVars
    <3>2. CASE image[g] # "tenant"
      BY <1>1, <2>1, <2>2, <3>2 DEF Refuse, nodeVars
    <3> QED BY <3>1, <3>2
  <2>3. CASE Activate(g)
    <3>1. h # g /\ pc'[h] = pc[h]
      BY <2>0, <2>3 DEF Activate
    <3>2. calm \in [Gateways -> BOOLEAN] /\ calm' = [calm EXCEPT ![g] = TRUE]
      BY <2>3 DEF Activate, TypeOK, FlagsTypeOK
    <3>3. calm'[h] = calm[h]
      BY <3>1, <3>2, Zenon
    <3> QED BY <1>1, <2>3, <3>1, <3>3 DEF Activate, nodeVars
  <2>4. CASE Ask(g) \/ PingAgain(g)
    BY <1>1, <2>4 DEF Ask, PingAgain, nodeVars
  <2>5. CASE Unreachable(g) \/ GetContainer(g) \/ PingAnswered(g)
    BY <1>1, <2>0, <2>5 DEF Unreachable, Restart, GetContainer, PingAnswered, nodeVars
  <2>6. CASE StartFails(g) \/ Execute(g) \/ WaitTimeout(g)
    BY <1>1, <2>1, <2>6 DEF StartFails, Execute, WaitTimeout, nodeVars
  <2>7. CASE StartGivesUp(g)
    <3>1. \A d \in Containers : daemons[d] \subseteq daemons'[d]
      BY <1>0, <2>7 DEF StartGivesUp, NodeOK
    <3> QED BY <2>1, <2>7, <3>1, CalmKept DEF StartGivesUp
  <2>8. CASE RunFails(g) \/ EngineError(g) \/ (StopContainer(g) /\ scontainer[g] = None)
    BY <2>2, <2>8 DEF RunFails, EngineError, StopContainer
  <2>9. CASE StopContainer(g) /\ scontainer[g] # None
    <3>1. scontainer[g] \in Containers /\ scontainer[g][2] = Scope(g)
      BY <1>0, <2>9 DEF GatewaysOK, PeerInv
    <3> QED BY <1>2, <2>0, <2>9, <3>1 DEF StopContainer
  <2>10. CASE CheckLimit(g)
    <3>1. CASE LimitReached
      BY <2>2, <2>10, <3>1 DEF CheckLimit
    <3>2. CASE ~LimitReached
      BY <1>1, <2>0, <2>10, <3>2 DEF CheckLimit, nodeVars, localVars
    <3> QED BY <3>1, <3>2
  <2>11. CASE RunContainer(g)
    <3>1. h # g /\ pc'[h] = pc[h]
      BY <2>0, <2>11 DEF RunContainer
    <3> QED BY <2>11, <3>1, DisturbCalm, CalmKept DEF RunContainer
  <2>12. ASSUME peer[g] \in Containers, pc[g] \in {"status", "stop", "start"}
         PROVE  Storlet(g) \in Storlets /\ peer[g][2] = Scope(g)
    BY <1>0, <2>12, CurrentRequest DEF GatewaysOK, PeerInv
  <2>13. CASE Status(g)
    <3>1. CASE h = g
      <4>1. Storlet(g) \in daemons[peer[g]]
        BY <1>0, <2>13, <3>1 DEF Status, Goto, GatewaysOK
      <4>2. UNCHANGED <<todo, daemons>>
        BY <2>13 DEF Status, nodeVars
      <4> QED BY <2>12, <2>13, <3>1, <4>1, <4>2 DEF Status, CalmOK, Scope, Storlet
    <3>2. CASE h # g
      BY <1>0, <1>1, <2>13, <3>2 DEF Status, Goto, GatewaysOK, nodeVars
    <3> QED BY <3>1, <3>2
  <2>14. CASE StopDaemon(g)
    <3>1. peer[g] \in Containers /\ Storlet(g) \in Storlets /\ peer[g][2] = Scope(g)
      BY <2>12, <2>14 DEF StopDaemon
    <3>2. h # g /\ pc'[h] = pc[h] /\ todo' = todo
      BY <2>0, <2>14 DEF StopDaemon, Restart
    <3>3. CASE Storlet(g) \in daemons[peer[g]]
      BY <1>3, <2>14, <3>1, <3>2, <3>3 DEF StopDaemon
    <3>4. CASE Storlet(g) \notin daemons[peer[g]]
      BY <1>1, <2>14, <3>2, <3>4 DEF StopDaemon
    <3> QED BY <3>3, <3>4
  <2>15. CASE StartDaemon(g)
    <3>1. /\ peer[g] \in Containers /\ Storlet(g) \in Storlets /\ peer[g][2] = Scope(g)
          /\ todo' = todo
      BY <2>12, <2>15 DEF StartDaemon
    <3>2. /\ \A d \in Containers : daemons[d] \subseteq daemons'[d]
          /\ Storlet(g) \in daemons'[peer[g]]
      BY <1>0, <2>15, <3>1 DEF StartDaemon, NodeOK
    <3>3. CASE h = g
      BY <3>1, <3>2, <3>3 DEF CalmOK, Scope, Storlet
    <3>4. CASE h # g
      <4>1. pc[h] = "execute"
        BY <1>0, <2>15, <3>4 DEF StartDaemon, Goto, GatewaysOK
      <4>2. calm'[h] => calm[h]
        BY <2>15, DisturbCalm DEF StartDaemon
      <4> QED BY <3>1, <3>2, <4>1, <4>2, CalmKept
    <3> QED BY <3>3, <3>4
  <2> QED
    BY <1>8, <2>3, <2>4, <2>5, <2>6, <2>7, <2>8, <2>9, <2>10, <2>11, <2>13, <2>14, <2>15
    DEF Gateway, Answers
<1> QED BY <1>4, <1>5, <1>6, <1>7, <1>8 DEF Next

LEMMA InitPipes == Init => NodeInv /\ PeerInv /\ CalmInv
<1> SUFFICES ASSUME Init PROVE NodeInv /\ PeerInv /\ CalmInv
  OBVIOUS
<1>1. PICK up \in SUBSET Containers : Node(up)
  BY DEF Init
<1>2. PeerInv /\ CalmInv
  BY NoneAssumption DEF Init, PeerInv, CalmInv
<1>3. \A c \in Containers : /\ state[c] = "none" <=> c \notin up
                           /\ c \notin up => daemons[c] = {}
  BY <1>1 DEF Node
<1>4. ASSUME NEW c \in up PROVE factory_pipe[c[2]] = c
  <2>1. c[2] \in Scopes
    BY ContainerParts
  <2>2. factory_pipe[c[2]] = CHOOSE d \in up : d[2] = c[2]
    BY <1>1, <1>4, <2>1 DEF Node
  <2> QED BY <1>1, <1>4, <2>2 DEF Node
<1>5. ASSUME NEW c \in Containers, NEW x \in Storlets, x \in daemons[c]
      PROVE  storlet_pipe[c[2]][x] = c
  BY <1>1, <1>3, <1>4, <1>5, ContainerParts DEF Node
<1>6. slow = {}
  BY DEF Init
<1> QED BY <1>1, <1>2, <1>3, <1>5, <1>6 DEF NodeInv, Node

PipeInv == NodeInv /\ PeerInv /\ CalmInv

\* What is known of the pipes and of who waits for whom, at any time.
THEOREM PipesKnown == Spec => []PipeInv
<1>1. Init => PipeInv
  BY InitPipes DEF PipeInv
<1>2. TypeOK /\ PipeInv /\ [Next]_vars => PipeInv'
  BY NextNodeInv, NextPeerInv, NextCalmInv DEF PipeInv
<1> QED BY <1>1, <1>2, SandboxTypeCorrect, PTL DEF Spec

\* An activation nothing interfered with leaves the storlet's pipe leading to a
\* daemon (activate_storlet_daemon), for every number of workers and scopes.
THEOREM UndisturbedHolds == Spec => []ActivationHolds
<1>1. ASSUME TypeOK, PipeInv PROVE ActivationHolds
  <2> SUFFICES ASSUME NEW g \in Gateways, Undisturbed(g), Scope(g) \notin twins
               PROVE  \E c \in Containers : /\ storlet_pipe[Scope(g)][Storlet(g)] = c
                                            /\ Storlet(g) \in daemons[c]
    BY DEF ActivationHolds
  <2>1. Storlet(g) \in Storlets
    BY <1>1, CurrentRequest DEF Undisturbed, TypeOK
  <2>2. PICK c \in Containers : c[2] = Scope(g) /\ Storlet(g) \in daemons[c]
    BY <1>1 DEF PipeInv, CalmInv, Undisturbed
  <2>3. storlet_pipe[Scope(g)][Storlet(g)] = c
    <3>1. <<c, Storlet(g)>> \notin slow
      BY <2>2 DEF Undisturbed
    <3>2. c[2] \notin twins
      BY <2>2
    <3>3. storlet_pipe[c[2]][Storlet(g)] = c
      BY <1>1, <2>1, <2>2, <3>1, <3>2 DEF PipeInv, NodeInv
    <3> QED BY <2>2, <3>3
  <2> QED BY <2>2, <2>3
<1> QED BY <1>1, SandboxTypeCorrect, PipesKnown, PTL

----------------------------------------------------------------------------
(***************************************************************************)
(* A gateway that restarts its sandbox undisturbed runs in it.             *)
(***************************************************************************)
\* Asking: what an undisturbed gateway was told is still so.
AskInv(g) ==
    /\ pc[g] \in {"status", "stop"} /\ peer[g] # None =>
           peer[g] = (IF factory_pipe[Scope(g)] = None THEN Eof ELSE factory_pipe[Scope(g)])
    /\ pc[g] = "stop" => /\ factory_pipe[Scope(g)] \in Containers
                         /\ Storlet(g) \in daemons[factory_pipe[Scope(g)]]

\* Restarting: nobody answers in the scope, and the name is the gateway's own.
RestartInv(g) ==
    /\ pc[g] \in {"get", "kill", "limit", "run"} => factory_pipe[Scope(g)] = None
    /\ pc[g] = "kill" => scontainer[g] = Mine(g)
    /\ pc[g] \in {"limit", "run"} => state[Mine(g)] = "none"
    /\ image[g] = "default" => why[g] \in {"image", "limit", "engine"}

\* The daemon of g's storlet in g's container is behind its pipe, if it is there.
Bound(g) ==
    Storlet(g) \in daemons[Mine(g)] /\ <<Mine(g), Storlet(g)>> \notin slow =>
        storlet_pipe[Scope(g)][Storlet(g)] = Mine(g)

\* Restarted: the pipes lead to the container the gateway has started.
RestartedInv(g) ==
    /\ state[Mine(g)] # "none"
    /\ factory_pipe[Scope(g)] \in {None, Mine(g)}
    /\ peer[g] \in {None, Eof, Mine(g)}
    /\ pc[g] \in {"start", "execute"} \/ peer[g] = Mine(g) => factory_pipe[Scope(g)] = Mine(g)
    /\ Bound(g)
    /\ pc[g] = "execute" => Storlet(g) \in daemons[Mine(g)]

\* A gateway waits for an answer only where it has asked, starts a container
\* only on its way through restart, and leaves nothing behind.
LocalInv(g) ==
    /\ pc[g] \notin {"status", "stop", "start", "ping"} => peer[g] = None
    /\ restarted[g] => pc[g] \in {"ping", "start", "execute"}
    /\ pc[g] = "idle" => image[g] = "tenant"

OwnOK(g) ==
    /\ LocalInv(g)
    /\ calm[g] => pc[g] # "idle" /\ AskInv(g) /\ RestartInv(g)
    /\ calm[g] /\ restarted[g] => RestartedInv(g)

OwnInv == \A g \in Gateways : OwnOK(g)

LEMMA InitOwn == Init => OwnInv
BY DEF Init, OwnInv, OwnOK, LocalInv

\* What steps of others may change without OwnOK being lost.
LEMMA OwnKept ==
    ASSUME TypeOK, NEW h \in Gateways, OwnOK(h),
           pc'[h] = pc[h], todo'[h] = todo[h], image'[h] = image[h],
           restarted'[h] = restarted[h], why'[h] = why[h],
           peer'[h] = peer[h] \/ peer[h] # None,
           calm'[h] => /\ calm[h] /\ peer'[h] = peer[h] /\ scontainer'[h] = scontainer[h]
                       /\ factory_pipe'[Scope(h)] = factory_pipe[Scope(h)]
                       /\ state'[Mine(h)] = "none" <=> state[Mine(h)] = "none"
                       /\ \A c \in Containers : c[2] = Scope(h) => daemons[c] \subseteq daemons'[c],
           calm'[h] /\ restarted[h] => Bound(h)'
    PROVE  OwnOK(h)'
<1>1. LocalInv(h)'
  BY DEF OwnOK, LocalInv
<1>2. Scope(h)' = Scope(h) /\ Storlet(h)' = Storlet(h) /\ Mine(h)' = Mine(h)
  BY DEF Scope, Storlet, Mine
<1>3. ASSUME calm'[h] PROVE pc'[h] # "idle" /\ AskInv(h)' /\ RestartInv(h)'
  <2>1. calm[h] /\ pc[h] # "idle" /\ AskInv(h) /\ RestartInv(h)
    BY <1>3 DEF OwnOK
  <2>2. Scope(h) \in Scopes
    BY <2>1, CurrentRequest DEF TypeOK
  <2>3. factory_pipe[Scope(h)] \in Containers => factory_pipe[Scope(h)][2] = Scope(h)
    BY <2>2 DEF TypeOK
  <2>4. AskInv(h)'
    BY <1>2, <1>3, <2>1, <2>3 DEF AskInv
  <2>5. RestartInv(h)'
    BY <1>2, <1>3, <2>1 DEF RestartInv
  <2> QED BY <2>1, <2>4, <2>5
<1>4. ASSUME calm'[h], restarted'[h] PROVE RestartedInv(h)'
  <2>1. calm[h] /\ restarted[h] /\ pc[h] # "idle" /\ RestartedInv(h)
    BY <1>4 DEF OwnOK
  <2>2. Mine(h) \in Containers /\ Mine(h)[2] = Scope(h)
    BY <2>1, CurrentRequest DEF TypeOK, Mine
  <2> QED BY <1>2, <1>4, <2>1, <2>2 DEF RestartedInv
<1> QED BY <1>1, <1>3, <1>4 DEF OwnOK

\* The end of an activation.
LEMMA OwnReturn ==
    ASSUME TypeOK, NEW g \in Gateways, Return(g)
    PROVE  OwnOK(g)'
<1>1. pc'[g] = "idle" /\ peer'[g] = None /\ image'[g] = "tenant"
  BY DEF Return, Goto, HangUp, TypeOK
<1>2. ~calm'[g] /\ ~restarted'[g]
  BY Zenon DEF Return, TypeOK, FlagsTypeOK
<1> QED BY <1>1, <1>2 DEF OwnOK, LocalInv

\* A gateway's own way through asking and restarting.
LEMMA OwnRefuse ==
    ASSUME TypeOK, NEW g \in Gateways, OwnOK(g), NEW reason, Refuse(g, reason),
           pc[g] \in {"get", "kill", "limit", "run"},
           calm[g] => reason \in {"image", "limit", "engine"}
    PROVE  OwnOK(g)'
<1>1. CASE image[g] = "tenant"
  <2>1. /\ pc'[g] = "get" /\ image'[g] = "default" /\ why'[g] = reason
        /\ UNCHANGED <<nodeVars, todo, peer, calm, restarted>>
    BY <1>1 DEF Refuse, Goto, TypeOK
  <2>2. ~restarted[g] /\ peer[g] = None
    BY DEF OwnOK, LocalInv
  <2>3. calm[g] => factory_pipe[Scope(g)] = None
    BY DEF OwnOK, RestartInv
  <2> QED BY <2>1, <2>2, <2>3 DEF OwnOK, LocalInv, AskInv, RestartInv, Scope, nodeVars
<1>2. CASE image[g] # "tenant"
  BY <1>2, OwnReturn DEF Refuse
<1> QED BY <1>1, <1>2

LEMMA OwnAsk ==
    ASSUME TypeOK, NEW g \in Gateways, OwnOK(g), Ask(g)
    PROVE  OwnOK(g)'
<1>1. /\ peer'[g] = (IF factory_pipe[Scope(g)] = None THEN Eof ELSE factory_pipe[Scope(g)])
      /\ pc[g] \in {"status", "stop", "start", "ping"}
      /\ UNCHANGED <<nodeVars, pc, todo, image, scontainer, calm, restarted, why>>
  BY DEF Ask, TypeOK
<1>2. Scope(g)' = Scope(g) /\ Storlet(g)' = Storlet(g) /\ Mine(g)' = Mine(g)
  BY <1>1 DEF Scope, Storlet, Mine
<1>3. LocalInv(g)'
  BY <1>1 DEF OwnOK, LocalInv
<1>4. calm[g] => AskInv(g)' /\ RestartInv(g)'
  BY <1>1, <1>2 DEF OwnOK, AskInv, RestartInv, nodeVars
<1>5. ASSUME calm[g], restarted[g] PROVE RestartedInv(g)'
  <2>1. RestartedInv(g)
    BY <1>5 DEF OwnOK
  <2>2. Mine(g) # Eof /\ Mine(g) # None
    BY <1>1, CurrentRequest, NoneAssumption DEF TypeOK
  <2>3. Bound(g)'
    BY <1>1, <1>2, <2>1 DEF RestartedInv, Bound, nodeVars
  <2> QED BY <1>1, <1>2, <2>1, <2>2, <2>3 DEF RestartedInv, nodeVars
<1> QED BY <1>1, <1>3, <1>4, <1>5 DEF OwnOK

LEMMA OwnStatus ==
    ASSUME TypeOK, NEW g \in Gateways, OwnOK(g), Status(g) \/ Unreachable(g)
    PROVE  OwnOK(g)'
<1>1. /\ UNCHANGED <<nodeVars, todo, calm, restarted>> /\ peer'[g] = None
      /\ pc[g] \in {"status", "stop"}
  BY DEF Status, Unreachable, HangUp, TypeOK
<1>2. ~restarted[g]
  BY <1>1 DEF OwnOK, LocalInv
<1>3. Scope(g)' = Scope(g) /\ Storlet(g)' = Storlet(g)
  BY <1>1 DEF Scope, Storlet
<1>4. CASE Status(g)
  <2>1. /\ pc'[g] = (IF Storlet(g) \notin daemons[peer[g]] THEN "start"
                     ELSE IF cache_updated[g] THEN "stop" ELSE "execute")
        /\ UNCHANGED <<image, why>> /\ peer[g] \in Containers /\ pc[g] = "status"
    BY <1>4 DEF Status, Goto, TypeOK
  <2>2. calm[g] => peer[g] = factory_pipe[Scope(g)]
    BY <2>1, NoneAssumption DEF OwnOK, AskInv
  <2>3. calm[g] /\ image[g] = "default" => why[g] \in {"image", "limit", "engine"}
    BY DEF OwnOK, RestartInv
  <2>4. pc'[g] \in {"start", "stop", "execute"}
    BY <2>1
  <2>5. calm[g] => AskInv(g)'
    BY <1>1, <1>3, <2>1, <2>2, <2>4 DEF AskInv, nodeVars
  <2>6. calm[g] => RestartInv(g)'
    BY <1>1, <2>1, <2>3, <2>4 DEF RestartInv
  <2> QED BY <1>1, <1>2, <2>4, <2>5, <2>6 DEF OwnOK, LocalInv
<1>5. CASE Unreachable(g)
  <2>1. /\ pc'[g] = "get" /\ image'[g] = "tenant" /\ peer[g] = Eof
    BY <1>5 DEF Unreachable, Restart, Goto, TypeOK
  <2>2. calm[g] => factory_pipe[Scope(g)] = None
    <3>1. calm[g] /\ factory_pipe[Scope(g)] # None => factory_pipe[Scope(g)] = Eof
      BY <1>1, <2>1, NoneAssumption DEF OwnOK, AskInv
    <3>2. Scope(g) \in Scopes
      BY <1>1, CurrentRequest DEF TypeOK
    <3> QED BY <3>1, <3>2, NoneAssumption DEF TypeOK
  <2> QED BY <1>1, <1>2, <1>3, <2>1, <2>2
    DEF OwnOK, LocalInv, AskInv, RestartInv, nodeVars
<1> QED BY <1>4, <1>5

LEMMA OwnStopDaemon ==
    ASSUME TypeOK, NEW g \in Gateways, OwnOK(g), StopDaemon(g)
    PROVE  OwnOK(g)'
<1>1. /\ UNCHANGED <<todo, restarted>> /\ peer'[g] = None
      /\ pc[g] = "stop" /\ peer[g] \in Containers
  BY DEF StopDaemon, HangUp, TypeOK
<1>2. ~restarted[g]
  BY <1>1 DEF OwnOK, LocalInv
<1>3. CASE Storlet(g) \in daemons[peer[g]]
  <2>1. pc'[g] = "start" /\ UNCHANGED <<image, why>>
    BY <1>3 DEF StopDaemon, Goto, TypeOK
  <2>2. calm'[g] => calm[g]
    BY <1>3, DisturbCalm DEF StopDaemon
  <2> QED BY <1>1, <1>2, <2>1, <2>2 DEF OwnOK, LocalInv, AskInv, RestartInv
<1>4. CASE Storlet(g) \notin daemons[peer[g]]
  <2>1. pc'[g] = "get" /\ calm' = calm
    BY <1>4 DEF StopDaemon, Restart, Goto, TypeOK
  <2>2. calm[g] => peer[g] = factory_pipe[Scope(g)] /\ Storlet(g) \in daemons[peer[g]]
    BY <1>1, NoneAssumption DEF OwnOK, AskInv
  <2> QED BY <1>1, <1>2, <1>4, <2>1, <2>2 DEF OwnOK, LocalInv
<1> QED BY <1>3, <1>4

LEMMA OwnStartDaemon ==
    ASSUME TypeOK, NEW g \in Gateways, OwnOK(g), StartDaemon(g)
    PROVE  OwnOK(g)'
<1>1. /\ UNCHANGED <<state, slow, factory_pipe, todo, image, restarted, why>>
      /\ pc'[g] = "execute" /\ peer'[g] = None
      /\ pc[g] = "start" /\ peer[g] \in Containers
  BY DEF StartDaemon, Goto, HangUp, TypeOK
<1>2. calm'[g] => calm[g]
  BY DisturbCalm DEF StartDaemon
<1>3. Scope(g) \in Scopes /\ Storlet(g) \in Storlets /\ Mine(g) \in Containers
  BY <1>1, CurrentRequest DEF TypeOK
<1>4. Scope(g)' = Scope(g) /\ Storlet(g)' = Storlet(g) /\ Mine(g)' = Mine(g)
  BY <1>1 DEF Scope, Storlet, Mine
<1>5. ASSUME calm'[g], restarted[g] PROVE RestartedInv(g)'
  <2>1. RestartedInv(g)
    BY <1>2, <1>5 DEF OwnOK
  <2>2. peer[g] = Mine(g) /\ factory_pipe[Scope(g)] = Mine(g)
    BY <1>1, <2>1, NoneAssumption DEF RestartedInv
  <2>3. Storlet(g) \in daemons'[Mine(g)]
    BY <1>3, <2>2 DEF StartDaemon, TypeOK
  <2>4. Bound(g)'
    <3>1. CASE Storlet(g) \in daemons[Mine(g)]
      BY <1>1, <1>4, <2>1, <2>2, <3>1 DEF StartDaemon, RestartedInv, Bound
    <3>2. CASE Storlet(g) \notin daemons[Mine(g)]
      <4>1. storlet_pipe'[Scope(g)][Storlet(g)] = Mine(g)
        BY <1>3, <2>2, <3>2 DEF StartDaemon, TypeOK
      <4> QED BY <1>4, <4>1 DEF Bound
    <3> QED BY <3>1, <3>2
  <2> QED BY <1>1, <1>4, <2>1, <2>2, <2>3, <2>4 DEF RestartedInv
<1>6. calm'[g] => AskInv(g)' /\ RestartInv(g)'
  BY <1>1, <1>2 DEF OwnOK, AskInv, RestartInv
<1> QED BY <1>1, <1>5, <1>6 DEF OwnOK, LocalInv

LEMMA OwnGetContainer ==
    ASSUME TypeOK, NEW g \in Gateways, OwnOK(g), GetContainer(g)
    PROVE  OwnOK(g)'
<1>1. /\ UNCHANGED <<nodeVars, todo, image, peer, calm, restarted, why>> /\ pc[g] = "get"
      /\ \/ pc'[g] = "limit" /\ state[Mine(g)] = "none"
         \/ pc'[g] = "kill" /\ scontainer'[g] = Mine(g)
  BY DEF GetContainer, Goto, TypeOK
<1>2. ~restarted[g] /\ peer[g] = None
  BY <1>1 DEF OwnOK, LocalInv
<1>3. Scope(g)' = Scope(g) /\ Mine(g)' = Mine(g)
  BY <1>1 DEF Scope, Mine
<1>4. calm[g] => RestartInv(g)'
  BY <1>1, <1>3 DEF OwnOK, RestartInv, nodeVars
<1> QED BY <1>1, <1>2, <1>4 DEF OwnOK, LocalInv, AskInv

LEMMA OwnStopContainer ==
    ASSUME TypeOK, NEW g \in Gateways, OwnOK(g), StopContainer(g)
    PROVE  OwnOK(g)'
<1>1. pc[g] = "kill"
  BY DEF StopContainer
<1>2. Mine(g) \in Containers /\ Mine(g)[2] = Scope(g) /\ Scope(g) \in Scopes
  BY <1>1, CurrentRequest DEF TypeOK, Mine
<1>3. calm[g] => scontainer[g] = Mine(g) /\ factory_pipe[Scope(g)] = None
  BY <1>1 DEF OwnOK, RestartInv
<1>4. CASE scontainer[g] = None
  <2>1. ~calm[g]
    BY <1>2, <1>3, <1>4, NoneAssumption
  <2>2. Refuse(g, "gone")
    BY <1>4 DEF StopContainer
  <2> QED BY <1>1, <2>1, <2>2, OwnRefuse
<1>5. CASE scontainer[g] # None
  <2>1. /\ ContainerGone(scontainer[g]) /\ UNCHANGED <<todo, image, restarted, why>>
        /\ pc'[g] = "limit"
    BY <1>5 DEF StopContainer, Goto, TypeOK
  <2>2. calm'[g] => calm[g]
    BY <1>5, DisturbCalm DEF StopContainer
  <2>3. ~restarted[g] /\ peer[g] = None
    BY <1>1 DEF OwnOK, LocalInv
  <2>4. scontainer[g] \in Containers
    BY <1>5 DEF TypeOK
  <2>5. peer'[g] = None
    BY <2>1, <2>3, <2>4, NoneAssumption DEF ContainerGone
  <2>6. Scope(g)' = Scope(g) /\ Mine(g)' = Mine(g)
    BY <2>1 DEF Scope, Mine
  <2>7. calm'[g] => RestartInv(g)'
    <3> SUFFICES ASSUME calm'[g] PROVE RestartInv(g)'
      OBVIOUS
    <3>1. state'[Mine(g)] = "none" /\ factory_pipe'[Scope(g)] = None
      BY <1>2, <1>3, <2>1, <2>2 DEF ContainerGone, TypeOK
    <3> QED BY <2>1, <2>2, <2>6, <3>1 DEF OwnOK, RestartInv
  <2> QED BY <2>1, <2>2, <2>3, <2>5, <2>7 DEF OwnOK, LocalInv, AskInv
<1> QED BY <1>4, <1>5

LEMMA OwnCheckLimit ==
    ASSUME TypeOK, NEW g \in Gateways, OwnOK(g),
           CheckLimit(g) \/ RunFails(g) \/ EngineError(g)
    PROVE  OwnOK(g)'
<1>1. CASE CheckLimit(g) /\ ~LimitReached
  <2>1. UNCHANGED <<nodeVars, localVars>> /\ pc[g] = "limit" /\ pc'[g] = "run"
    BY <1>1 DEF CheckLimit, Goto, TypeOK
  <2>2. ~restarted[g] /\ peer[g] = None
    BY <2>1 DEF OwnOK, LocalInv
  <2> QED
    BY <2>1, <2>2 DEF OwnOK, LocalInv, AskInv, RestartInv, Scope, Mine, nodeVars, localVars
<1>2. CASE CheckLimit(g) /\ LimitReached
  BY <1>2, OwnRefuse DEF CheckLimit
<1>3. CASE RunFails(g)
  BY <1>3, OwnRefuse DEF RunFails, OwnOK, RestartInv
<1>4. CASE EngineError(g)
  BY <1>4, OwnRefuse DEF EngineError
<1> QED BY <1>1, <1>2, <1>3, <1>4

LEMMA OwnRunContainer ==
    ASSUME TypeOK, NodeInv, NEW g \in Gateways, OwnOK(g), RunContainer(g)
    PROVE  OwnOK(g)'
<1>1. /\ UNCHANGED <<daemons, slow, factory_pipe, storlet_pipe, todo, image, scontainer, peer, why>>
      /\ pc[g] = "run" /\ pc'[g] = "ping" /\ state[Mine(g)] = "none"
  BY DEF RunContainer, Goto, TypeOK
<1>2. Mine(g) \in Containers
  BY <1>1, CurrentRequest DEF TypeOK
<1>3. state'[Mine(g)] = "starting"
  BY <1>2 DEF RunContainer, TypeOK
<1>4. calm'[g] => calm[g]
  BY DisturbCalm DEF RunContainer
<1>5. peer[g] = None /\ daemons[Mine(g)] = {}
  BY <1>1, <1>2 DEF OwnOK, LocalInv, NodeInv
<1>6. Scope(g)' = Scope(g) /\ Storlet(g)' = Storlet(g) /\ Mine(g)' = Mine(g)
  BY <1>1 DEF Scope, Storlet, Mine
<1>7. calm'[g] => AskInv(g)' /\ RestartInv(g)'
  BY <1>1, <1>4 DEF OwnOK, AskInv, RestartInv
<1>8. calm'[g] => RestartedInv(g)'
  BY <1>1, <1>2, <1>3, <1>4, <1>5, <1>6, NoneAssumption DEF OwnOK, RestartInv, RestartedInv, Bound
<1> QED BY <1>1, <1>5, <1>7, <1>8 DEF OwnOK, LocalInv

LEMMA OwnPing ==
    ASSUME TypeOK, NEW g \in Gateways, OwnOK(g), PingAnswered(g) \/ PingAgain(g)
    PROVE  OwnOK(g)'
<1>1. /\ UNCHANGED <<nodeVars, todo, image, scontainer, calm, restarted, why>>
      /\ peer'[g] = None /\ pc[g] = "ping"
      /\ \/ pc'[g] = "ping"
         \/ pc'[g] = "start" /\ peer[g] \in Containers
  BY DEF PingAnswered, PingAgain, Goto, HangUp, TypeOK
<1>2. Scope(g)' = Scope(g) /\ Storlet(g)' = Storlet(g) /\ Mine(g)' = Mine(g)
  BY <1>1 DEF Scope, Storlet, Mine
<1>3. calm[g] => AskInv(g)' /\ RestartInv(g)'
  BY <1>1 DEF OwnOK, AskInv, RestartInv
<1>4. ASSUME calm[g], restarted[g] PROVE RestartedInv(g)'
  <2>1. RestartedInv(g) /\ Mine(g) \in Containers
    BY <1>1, <1>4, CurrentRequest DEF OwnOK, TypeOK
  <2>2. Bound(g)'
    BY <1>1, <1>2, <2>1 DEF RestartedInv, Bound, nodeVars
  <2> QED BY <1>1, <1>2, <2>1, <2>2, NoneAssumption DEF RestartedInv, nodeVars
<1> QED BY <1>1, <1>3, <1>4 DEF OwnOK, LocalInv

LEMMA OwnActivate ==
    ASSUME TypeOK, NEW g \in Gateways, OwnOK(g), Activate(g)
    PROVE  OwnOK(g)'
<1>1. /\ UNCHANGED <<image, peer, restarted>> /\ pc[g] = "idle" /\ pc'[g] = "status"
  BY DEF Activate, Goto, TypeOK
<1>2. ~restarted[g] /\ peer[g] = None /\ image[g] = "tenant"
  BY <1>1 DEF OwnOK, LocalInv
<1> QED BY <1>1, <1>2 DEF OwnOK, LocalInv, AskInv, RestartInv

\* A step that leaves a gateway, its calm and the node alone.
LEMMA OwnSame ==
    ASSUME TypeOK, NEW h \in Gateways, OwnOK(h),
           pc'[h] = pc[h], todo'[h] = todo[h], image'[h] = image[h], peer'[h] = peer[h],
           scontainer'[h] = scontainer[h], restarted'[h] = restarted[h], why'[h] = why[h],
           calm'[h] = calm[h], UNCHANGED <<state, daemons, slow, factory_pipe, storlet_pipe>>
    PROVE  OwnOK(h)'
BY DEF OwnOK, LocalInv, AskInv, RestartInv, RestartedInv, Bound, Scope, Storlet, Mine

\* A step in the scope of container a: it takes away h's calm if that is h's
\* scope, and else does nothing to h's containers and pipes.
Away(h, a) ==
    /\ pc'[h] = pc[h] /\ todo'[h] = todo[h] /\ image'[h] = image[h]
    /\ restarted'[h] = restarted[h] /\ why'[h] = why[h]
    /\ peer'[h] = peer[h] \/ (peer[h] \in Containers /\ peer[h][2] = a[2])
    /\ scontainer'[h] = scontainer[h] \/ (scontainer[h] \in Containers /\ scontainer[h][2] = a[2])
    /\ calm'[h] => calm[h] /\ Scope(h) # a[2]
    /\ \A c \in Containers : c[2] # a[2] =>
           /\ state'[c] = state[c] /\ daemons'[c] = daemons[c]
           /\ \A x \in Storlets : <<c, x>> \in slow' <=> <<c, x>> \in slow
    /\ \A t \in Scopes : t # a[2] =>
           factory_pipe'[t] = factory_pipe[t] /\ storlet_pipe'[t] = storlet_pipe[t]

LEMMA OwnAway ==
    ASSUME TypeOK, PeerInv, NEW h \in Gateways, OwnOK(h), NEW a \in Containers, Away(h, a)
    PROVE  OwnOK(h)'
<1> USE DEF Away
<1>1. ASSUME calm'[h]
      PROVE  /\ calm[h] /\ peer'[h] = peer[h] /\ scontainer'[h] = scontainer[h]
             /\ factory_pipe'[Scope(h)] = factory_pipe[Scope(h)]
             /\ state'[Mine(h)] = "none" <=> state[Mine(h)] = "none"
             /\ \A c \in Containers : c[2] = Scope(h) => daemons[c] \subseteq daemons'[c]
             /\ restarted[h] => Bound(h)'
  <2>1. calm[h] /\ Scope(h) # a[2] /\ pc[h] # "idle"
    BY <1>1 DEF OwnOK
  <2>2. Scope(h) \in Scopes /\ Storlet(h) \in Storlets
        /\ Mine(h) \in Containers /\ Mine(h)[2] = Scope(h)
    BY <2>1, CurrentRequest DEF TypeOK, Mine
  <2>3. peer'[h] = peer[h] /\ scontainer'[h] = scontainer[h]
    BY <2>1 DEF PeerInv
  <2>4. Scope(h)' = Scope(h) /\ Storlet(h)' = Storlet(h) /\ Mine(h)' = Mine(h)
    BY DEF Scope, Storlet, Mine
  <2>5. restarted[h] => Bound(h)'
    BY <2>1, <2>2, <2>4 DEF OwnOK, RestartedInv, Bound
  <2> QED BY <2>1, <2>2, <2>3, <2>5
<1> QED BY <1>1, OwnKept, NoneAssumption

\* The container c has ended.
LEMMA OwnContainerGone ==
    ASSUME TypeOK, PeerInv, NEW h \in Gateways, OwnOK(h),
           NEW c \in Containers, ContainerGone(c), NEW by, Disturb(c[2], by), h \notin by,
           pc'[h] = pc[h], UNCHANGED <<todo, image, restarted, why>>
    PROVE  OwnOK(h)'
<1>1. calm'[h] => calm[h] /\ Scope(h) # c[2]
  BY DisturbCalm
<1>2. /\ peer'[h] = peer[h] \/ peer[h] = c
      /\ scontainer'[h] = scontainer[h] \/ scontainer[h] = c
  BY DEF ContainerGone
<1>3. ASSUME NEW d \in Containers, d[2] # c[2]
      PROVE  /\ state'[d] = state[d] /\ daemons'[d] = daemons[d]
             /\ \A x \in Storlets : <<d, x>> \in slow' <=> <<d, x>> \in slow
  BY <1>3 DEF ContainerGone, TypeOK
<1>4. ASSUME NEW t \in Scopes, t # c[2]
      PROVE  factory_pipe'[t] = factory_pipe[t] /\ storlet_pipe'[t] = storlet_pipe[t]
  BY <1>4 DEF ContainerGone, TypeOK
<1>5. Away(h, c)
  BY <1>1, <1>2, <1>3, <1>4 DEF Away
<1> QED BY <1>5, OwnAway

\* So has the daemon of storlet x in container c.
LEMMA OwnDaemonGone ==
    ASSUME TypeOK, PeerInv, NEW h \in Gateways, OwnOK(h), NEW c \in Containers,
           NEW x \in Storlets, DaemonGone(c, x), NEW by, Disturb(c[2], by), h \notin by,
           pc'[h] = pc[h], peer'[h] = peer[h],
           UNCHANGED <<state, factory_pipe, todo, image, scontainer, restarted, why>>
    PROVE  OwnOK(h)'
<1>1. calm'[h] => calm[h] /\ Scope(h) # c[2]
  BY DisturbCalm
<1>2. ASSUME NEW d \in Containers, d[2] # c[2]
      PROVE  /\ daemons'[d] = daemons[d]
             /\ \A y \in Storlets : <<d, y>> \in slow' <=> <<d, y>> \in slow
  BY <1>2 DEF DaemonGone, TypeOK
<1>3. ASSUME NEW t \in Scopes, t # c[2] PROVE storlet_pipe'[t] = storlet_pipe[t]
  BY <1>3 DEF DaemonGone, TypeOK
<1>5. Away(h, c)
  BY <1>1, <1>2, <1>3 DEF Away
<1> QED BY <1>5, OwnAway

\* What the node does by itself.
LEMMA OwnNode ==
    ASSUME TypeOK, PeerInv, NEW h \in Gateways, OwnOK(h), NEW c \in Containers,
           \/ FactoryBinds(c) \/ ContainerEnds(c)
           \/ \E x \in Storlets : DaemonEnds(c, x) \/ DaemonBinds(c, x)
    PROVE  OwnOK(h)'
<1>1. CASE ContainerEnds(c)
  BY <1>1, OwnContainerGone DEF ContainerEnds
<1>2. ASSUME NEW x \in Storlets, DaemonEnds(c, x) PROVE OwnOK(h)'
  BY <1>2, OwnDaemonGone DEF DaemonEnds
<1>3. ASSUME NEW x \in Storlets, DaemonBinds(c, x) PROVE OwnOK(h)'
  <2>1. calm'[h] => calm[h] /\ Scope(h) # c[2]
    BY <1>3, DisturbCalm DEF DaemonBinds
  <2>2. ASSUME NEW d \in Containers, d[2] # c[2]
        PROVE  \A y \in Storlets : <<d, y>> \in slow' <=> <<d, y>> \in slow
    BY <1>3, <2>2 DEF DaemonBinds
  <2>3. ASSUME NEW t \in Scopes, t # c[2] PROVE storlet_pipe'[t] = storlet_pipe[t]
    BY <1>3, <2>3 DEF DaemonBinds, TypeOK
  <2>4. Away(h, c)
    BY <1>3, <2>1, <2>2, <2>3 DEF DaemonBinds, Away
  <2> QED BY <2>4, OwnAway
<1>4. CASE FactoryBinds(c)
  <2>1. /\ UNCHANGED <<daemons, slow, storlet_pipe, pc, todo, image, scontainer, peer, restarted, why>>
        /\ \A d \in Containers : state'[d] = IF d = c THEN "up" ELSE state[d]
        /\ \A t \in Scopes : factory_pipe'[t] = IF t = c[2] THEN c ELSE factory_pipe[t]
    BY <1>4 DEF FactoryBinds, TypeOK
  <2>2. calm'[h] => calm[h] /\ (Scope(h) # c[2] \/ (restarted[h] /\ Mine(h) = c))
    BY <1>4, DisturbCalm DEF FactoryBinds
  <2>3. CASE calm'[h] /\ restarted[h] /\ Mine(h) = c
    <3>1. RestartedInv(h) /\ pc[h] \in {"ping", "start", "execute"} /\ RestartInv(h)
      BY <2>2, <2>3 DEF OwnOK, LocalInv
    <3>2. Scope(h)' = Scope(h) /\ Storlet(h)' = Storlet(h) /\ Mine(h)' = Mine(h)
      BY <2>1 DEF Scope, Storlet, Mine
    <3>3. c[2] = Scope(h) /\ c[2] \in Scopes
      BY <2>3, ContainerParts DEF Mine
    <3>4. RestartedInv(h)'
      BY <2>1, <2>3, <3>1, <3>2, <3>3 DEF RestartedInv, Bound
    <3>5. AskInv(h)' /\ RestartInv(h)'
      BY <2>1, <3>1 DEF AskInv, RestartInv
    <3> QED BY <2>1, <3>1, <3>4, <3>5 DEF OwnOK, LocalInv
  <2>4. CASE ~(calm'[h] /\ restarted[h] /\ Mine(h) = c)
    <3>1. calm'[h] => calm[h] /\ Scope(h) # c[2]
      BY <2>2, <2>4
    <3>2. Away(h, c)
      BY <2>1, <3>1 DEF Away
    <3> QED BY <3>2, OwnAway
  <2> QED BY <2>3, <2>4
<1> QED BY <1>1, <1>2, <1>3, <1>4

\* What another gateway does, with nothing but its own variables.
LEMMA OwnBeside ==
    ASSUME TypeOK, NEW h \in Gateways, OwnOK(h), NEW g \in Gateways, h # g,
           \/ Activate(g) \/ Ask(g) \/ Status(g) \/ Unreachable(g) \/ PingAnswered(g) \/ PingAgain(g)
           \/ GetContainer(g) \/ (CheckLimit(g) /\ ~LimitReached)
           \/ (StopDaemon(g) /\ Storlet(g) \notin daemons[peer[g]])
           \/ (StartDaemon(g) /\ Storlet(g) \in daemons[peer[g]])
    PROVE  OwnOK(h)'
<1>1. calm'[h] = calm[h]
  <2>1. CASE Activate(g)
    BY <2>1, Zenon DEF Activate, TypeOK, FlagsTypeOK
  <2>2. CASE calm' = calm
    BY <2>2
  <2> QED
    BY <2>1, <2>2 DEF Ask, Status, Unreachable, PingAnswered, PingAgain, GetContainer, CheckLimit,
       StopDaemon, StartDaemon, localVars
<1>2. UNCHANGED <<state, daemons, slow, factory_pipe, storlet_pipe>>
  BY DEF Activate, Ask, Status, Unreachable, PingAnswered, PingAgain, GetContainer, CheckLimit,
     StopDaemon, StartDaemon, nodeVars
<1>3. /\ pc'[h] = pc[h] /\ todo'[h] = todo[h] /\ image'[h] = image[h] /\ peer'[h] = peer[h]
      /\ scontainer'[h] = scontainer[h] /\ restarted'[h] = restarted[h] /\ why'[h] = why[h]
  BY DEF Activate, Ask, Status, Unreachable, PingAnswered, PingAgain, GetContainer, CheckLimit,
     StopDaemon, StartDaemon, Restart, Goto, HangUp, localVars, TypeOK
<1> QED BY <1>1, <1>2, <1>3, OwnSame

\* Another gateway's return, or refusal, does not touch h.
LEMMA ReturnBeside ==
    ASSUME TypeOK, NEW h \in Gateways, NEW g \in Gateways, h # g,
           Return(g) \/ \E reason \in Reasons : Refuse(g, reason)
    PROVE  /\ pc'[h] = pc[h] /\ todo'[h] = todo[h] /\ image'[h] = image[h] /\ peer'[h] = peer[h]
           /\ scontainer'[h] = scontainer[h] /\ restarted'[h] = restarted[h] /\ why'[h] = why[h]
           /\ calm'[h] = calm[h]
<1>1. CASE Return(g)
  <2>1. restarted'[h] = restarted[h] /\ calm'[h] = calm[h]
    <3>1. /\ restarted \in [Gateways -> BOOLEAN] /\ restarted' = [restarted EXCEPT ![g] = FALSE]
          /\ calm \in [Gateways -> BOOLEAN] /\ calm' = [calm EXCEPT ![g] = FALSE]
      BY <1>1 DEF Return, TypeOK, FlagsTypeOK
    <3> QED BY <3>1, Zenon
  <2> QED BY <1>1, <2>1 DEF Return, Goto, HangUp, TypeOK
<1>2. ASSUME NEW reason \in Reasons, Refuse(g, reason), image[g] = "tenant"
      PROVE  /\ pc'[h] = pc[h] /\ image'[h] = image[h] /\ scontainer'[h] = scontainer[h]
             /\ why'[h] = why[h] /\ UNCHANGED <<todo, peer, calm, restarted>>
  BY <1>2 DEF Refuse, Goto, TypeOK
<1>3. ASSUME NEW reason \in Reasons, Refuse(g, reason), image[g] # "tenant" PROVE Return(g)
  BY <1>3 DEF Refuse
<1> QED BY <1>1, <1>2, <1>3

\* A daemon that another gateway starts, or has started slowly.
LEMMA OwnStartedBeside ==
    ASSUME TypeOK, NodeInv, PeerInv, NEW h \in Gateways, OwnOK(h), NEW g \in Gateways, h # g,
           \/ StartGivesUp(g)
           \/ StartDaemon(g) /\ Storlet(g) \notin daemons[peer[g]]
    PROVE  OwnOK(h)'
<1>0. /\ pc[g] = "start" /\ peer[g] \in Containers /\ Storlet(g) \notin daemons[peer[g]]
      /\ daemons' = [daemons EXCEPT ![peer[g]] = @ \cup {Storlet(g)}]
      /\ UNCHANGED <<state, factory_pipe>>
  BY DEF StartGivesUp, StartDaemon
<1>1. /\ pc'[h] = pc[h] /\ todo'[h] = todo[h] /\ image'[h] = image[h] /\ peer'[h] = peer[h]
      /\ scontainer'[h] = scontainer[h] /\ restarted'[h] = restarted[h] /\ why'[h] = why[h]
  <2>1. CASE StartGivesUp(g)
    BY <2>1, ReturnBeside DEF StartGivesUp
  <2>2. CASE StartDaemon(g)
    BY <2>2 DEF StartDaemon, Goto, HangUp, TypeOK
  <2> QED BY <2>1, <2>2
<1>2. Scope(g) \in Scopes /\ Storlet(g) \in Storlets /\ peer[g][2] = Scope(g)
  BY <1>0, CurrentRequest DEF TypeOK, PeerInv
<1>3. \A d \in Containers : daemons'[d] = IF d = peer[g] THEN daemons[d] \cup {Storlet(g)}
                                                         ELSE daemons[d]
  BY <1>0 DEF TypeOK
<1>4. calm'[h] => calm[h]
  <2>1. CASE StartGivesUp(g)
    BY <2>1, ReturnBeside DEF StartGivesUp
  <2>2. CASE StartDaemon(g)
    BY <2>2, DisturbCalm DEF StartDaemon
  <2> QED BY <2>1, <2>2
<1>5. ASSUME calm'[h], restarted[h] PROVE Bound(h)'
  <2>1. calm[h] /\ Bound(h) /\ pc[h] # "idle"
    BY <1>4, <1>5 DEF OwnOK, RestartedInv
  <2>2. /\ Scope(h) \in Scopes /\ Storlet(h) \in Storlets
        /\ Mine(h) \in Containers /\ Mine(h)[2] = Scope(h)
    BY <2>1, CurrentRequest DEF TypeOK, Mine
  <2>3. Scope(h)' = Scope(h) /\ Storlet(h)' = Storlet(h) /\ Mine(h)' = Mine(h)
    BY <1>1 DEF Scope, Storlet, Mine
  <2>4. CASE StartGivesUp(g)
    <3>1. storlet_pipe' = storlet_pipe /\ slow' = slow \cup {<<peer[g], Storlet(g)>>}
      BY <2>4 DEF StartGivesUp
    <3>2. CASE Mine(h) = peer[g] /\ Storlet(h) = Storlet(g)
      BY <2>3, <3>1, <3>2 DEF Bound
    <3>3. CASE ~(Mine(h) = peer[g] /\ Storlet(h) = Storlet(g))
      <4>1. Storlet(h) \in daemons'[Mine(h)] => Storlet(h) \in daemons[Mine(h)]
        BY <1>3, <2>2, <3>3
      <4> QED BY <2>1, <2>3, <3>1, <4>1 DEF Bound
    <3> QED BY <3>2, <3>3
  <2>5. CASE StartDaemon(g)
    <3>1. /\ storlet_pipe' = [storlet_pipe EXCEPT ![Scope(g)][Storlet(g)] = peer[g]]
          /\ slow' = slow
          /\ Disturb(Scope(g), IF storlet_pipe[Scope(g)][Storlet(g)] = None THEN Gateways ELSE {g})
      BY <1>0, <2>5 DEF StartDaemon
    <3>2. CASE Scope(h) = Scope(g) /\ Storlet(h) = Storlet(g)
      <4>1. storlet_pipe[Scope(g)][Storlet(g)] = None
        BY <1>5, <3>1, <3>2, DisturbCalm
      <4>2. <<Mine(h), Storlet(h)>> \notin slow => Storlet(h) \notin daemons[Mine(h)]
        BY <2>1, <2>2, <3>2, <4>1, NoneAssumption DEF Bound
      <4>3. storlet_pipe'[Scope(h)][Storlet(h)] = peer[g]
        BY <1>2, <3>1, <3>2 DEF TypeOK
      <4> QED BY <1>3, <2>2, <2>3, <3>1, <4>2, <4>3 DEF Bound
    <3>3. CASE ~(Scope(h) = Scope(g) /\ Storlet(h) = Storlet(g))
      <4>1. storlet_pipe'[Scope(h)][Storlet(h)] = storlet_pipe[Scope(h)][Storlet(h)]
        BY <1>2, <2>2, <3>1, <3>3 DEF TypeOK
      <4>2. Storlet(h) \in daemons'[Mine(h)] => Storlet(h) \in daemons[Mine(h)]
        BY <1>2, <1>3, <2>2, <3>3
      <4> QED BY <2>1, <2>3, <3>1, <4>1, <4>2 DEF Bound
    <3> QED BY <3>2, <3>3
  <2> QED BY <2>4, <2>5
<1>6. \A c \in Containers : daemons[c] \subseteq daemons'[c]
  BY <1>3
<1> QED BY <1>0, <1>1, <1>4, <1>5, <1>6, OwnKept

LEMMA NextOwn == TypeOK /\ NodeInv /\ PeerInv /\ OwnInv /\ [Next]_vars => OwnInv'
<1> SUFFICES ASSUME TypeOK, NodeInv, PeerInv, OwnInv, [Next]_vars, NEW h \in Gateways
             PROVE  OwnOK(h)'
  BY DEF OwnInv
<1>0. OwnOK(h)
  BY DEF OwnInv
<1>1. CASE UNCHANGED vars
  BY <1>0, <1>1, OwnSame DEF vars, nodeVars, localVars
<1>2. ASSUME NEW s \in Scopes, ImageInstalled(s) PROVE OwnOK(h)'
  BY <1>0, <1>2, OwnSame DEF ImageInstalled
<1>3. ASSUME NEW c \in Containers,
             \/ FactoryBinds(c) \/ ContainerEnds(c)
             \/ \E x \in Storlets : DaemonEnds(c, x) \/ DaemonBinds(c, x)
      PROVE  OwnOK(h)'
  BY <1>0, <1>3, OwnNode
<1>4. ASSUME Gateway(h) \/ Answers(h) PROVE OwnOK(h)'
  <2>1. CASE StartFails(h) \/ StartGivesUp(h) \/ Execute(h) \/ WaitTimeout(h)
    BY <2>1, OwnReturn DEF StartFails, StartGivesUp, Execute, WaitTimeout
  <2> QED
    BY <1>0, <1>4, <2>1, OwnActivate, OwnAsk, OwnStatus, OwnStopDaemon, OwnStartDaemon,
       OwnGetContainer, OwnStopContainer, OwnCheckLimit, OwnRunContainer, OwnPing
    DEF Gateway, Answers
<1>5. ASSUME NEW g \in Gateways, g # h, Gateway(g) \/ Answers(g) PROVE OwnOK(h)'
  <2>1. CASE StartFails(g) \/ Execute(g) \/ WaitTimeout(g)
    BY <1>0, <1>5, <2>1, ReturnBeside, OwnSame DEF StartFails, Execute, WaitTimeout, nodeVars
  <2>2. ASSUME NEW reason \in Reasons, Refuse(g, reason) PROVE OwnOK(h)'
    <3>1. UNCHANGED nodeVars
      BY <2>2 DEF Refuse
    <3> QED BY <1>0, <1>5, <2>2, <3>1, ReturnBeside, OwnSame DEF nodeVars
  <2>3. CASE \/ RunFails(g) \/ EngineError(g) \/ (CheckLimit(g) /\ LimitReached)
             \/ (StopContainer(g) /\ scontainer[g] = None)
    BY <2>2, <2>3 DEF RunFails, EngineError, CheckLimit, StopContainer, Reasons
  <2>4. CASE StopContainer(g) /\ scontainer[g] # None
    <3>1. scontainer[g] \in Containers /\ scontainer[g][2] = Scope(g)
      BY <2>4 DEF TypeOK, PeerInv
    <3>2. pc'[h] = pc[h]
      BY <1>5, <2>4 DEF StopContainer, Goto, TypeOK
    <3> QED BY <1>0, <1>5, <2>4, <3>1, <3>2, OwnContainerGone DEF StopContainer
  <2>5. CASE StopDaemon(g) /\ Storlet(g) \in daemons[peer[g]]
    <3>1. peer[g] \in Containers /\ Storlet(g) \in Storlets /\ peer[g][2] = Scope(g)
      BY <2>5, CurrentRequest DEF StopDaemon, TypeOK, PeerInv
    <3>2. pc'[h] = pc[h] /\ peer'[h] = peer[h]
      BY <1>5, <2>5 DEF StopDaemon, Goto, HangUp, TypeOK
    <3> QED BY <1>0, <1>5, <2>5, <3>1, <3>2, OwnDaemonGone DEF StopDaemon
  <2>6. CASE RunContainer(g)
    <3>1. Mine(g) \in Containers /\ Mine(g)[2] = Scope(g)
      BY <2>6, CurrentRequest DEF RunContainer, TypeOK, Mine
    <3>2. calm'[h] => calm[h] /\ Scope(h) # Mine(g)[2]
      BY <1>5, <2>6, <3>1, DisturbCalm DEF RunContainer
    <3>3. restarted'[h] = restarted[h]
      BY <1>5, <2>6, Zenon DEF RunContainer, TypeOK, FlagsTypeOK
    <3>4. pc'[h] = pc[h] /\ \A d \in Containers : d[2] # Mine(g)[2] => state'[d] = state[d]
      BY <1>5, <2>6, <3>1 DEF RunContainer, Goto, TypeOK
    <3>5. Away(h, Mine(g))
      BY <2>6, <3>2, <3>3, <3>4 DEF RunContainer, Away
    <3> QED BY <1>0, <3>1, <3>5, OwnAway
  <2> QED
    BY <1>0, <1>5, <2>1, <2>3, <2>4, <2>5, <2>6, OwnBeside, OwnStartedBeside DEF Gateway, Answers
<1> QED BY <1>1, <1>2, <1>3, <1>4, <1>5 DEF Next

\* A gateway that restarted its sandbox undisturbed executes in the container it
\* started, the tenant's unless that was refused (restart), whatever the other
\* workers do and however many containers, scopes and workers there are.
THEOREM OwnSandbox == Spec => []RunsInItsSandbox
<1>1. Init => OwnInv
  BY InitOwn
<1>2. TypeOK /\ PipeInv /\ OwnInv /\ [Next]_vars => OwnInv'
  BY NextOwn DEF PipeInv
<1>3. ASSUME TypeOK, OwnInv PROVE RunsInItsSandbox
  <2> SUFFICES ASSUME NEW g \in Gateways, Undisturbed(g), restarted[g]
               PROVE  /\ storlet_pipe[Scope(g)][Storlet(g)] = Mine(g)
                      /\ image[g] = "default" => why[g] \in {"image", "limit", "engine"}
    BY DEF RunsInItsSandbox
  <2>1. RestartInv(g) /\ RestartedInv(g) /\ pc[g] = "execute"
    BY <1>3 DEF OwnInv, OwnOK, Undisturbed
  <2>2. Mine(g) \in Containers
    BY <1>3, <2>1, CurrentRequest DEF TypeOK
  <2> QED BY <2>1, <2>2 DEF RestartInv, RestartedInv, Bound, Undisturbed
<1> QED BY <1>1, <1>2, <1>3, SandboxTypeCorrect, PipesKnown, PTL DEF Spec
============================================================================
