---------------------- MODULE StorletDaemonRefinement ----------------------
(***************************************************************************)
(* The proof that the storlet daemon implements TaskPool, for every pool   *)
(* size, set of requests and set of pids.                                  *)
(***************************************************************************)
EXTENDS StorletDaemonProofs

\* What the mapping needs beyond IInv: a pid works for an execution, no two
\* pids ever worked for the same one, and while the daemon lives the client of
\* every child it forked has been told the task id.
WorkInv ==
    /\ cur \in Requests => cur \in Tasks
    /\ \A p \in Pids : proc[p] # "none" => work[p] \in Tasks
    /\ \A p, q \in Pids : work[p] = work[q] => p = q \/ work[p] = NoRequest
    /\ pc \notin Ended => \A p \in Pids : work[p] # NoRequest => reply[work[p]] = "ok"

\* Only the fork of execute gives work to a pid or answers an EXECUTE with
\* success.
LEMMA OnlyForkBegins ==
    ASSUME TypeInv, QueueInv, [Next]_vars, ~Fork
    PROVE  /\ work' = work
           /\ \A t \in Tasks : reply'[t] = "ok" <=> reply[t] = "ok"
<1>0. \A q \in Requests : reply[q] = "ok" => reply'[q] = "ok"
  BY NextQueue
<1>1. work' = work
  BY DEF Next, Server, Signals, WaitChild, OsWait, ForkFails, Exit, Execute, Cancel, Halt,
     SigTerm, ChildExit, ChildDies, ClientSend, taskVars, vars
<1>2. ASSUME NEW t \in Tasks, reply'[t] = "ok" PROVE reply[t] = "ok"
  <2> USE <1>2 DEF TypeInv, TypeOK, ServerTypeOK, Tasks
  <2>1. CASE UNCHANGED reply
    BY <2>1
  <2>2. CASE ForkFails
    BY <2>2 DEF ForkFails, Respond, DieWith
  <2>3. ASSUME NEW r \in Requests,
               Cancel(r) \/ Halt(r) \/ Ping(r) \/ Unsupported(r, Handlers) \/ ReceiveGarbled(r)
        PROVE  reply[t] = "ok"
    <3>1. r # t
      BY <2>3 DEF Cancel, Halt, Ping, Unsupported, ReceiveGarbled, Handlers
    <3>2. reply'[t] = reply[t] \/ reply'[t] = "eof"
      BY <2>3, <3>1 DEF Cancel, Halt, Ping, Unsupported, ReceiveGarbled, Respond, DieWith
    <3> QED BY <3>2
  <2>4. CASE SigTerm
    BY <2>4 DEF SigTerm, DieWith
  <2>5. ASSUME NEW r \in Requests, ClientSend(r) \/ ClientGone(r) PROVE reply[t] = "ok"
    BY <2>5 DEF ClientSend, Send, ClientGone
  <2>6. CASE QueueDropped(SocketHeld)
    BY <2>6 DEF QueueDropped
  <2>7. CASE UNCHANGED vars
    BY <2>7 DEF vars, serverVars
  <2>8. CASE Server
    BY <2>1, <2>2, <2>3, <2>8
    DEF Server, WaitChild, OsWait, Exit, Create, ListenTimeout, Execute
  <2>9. CASE Signals
    BY <2>1, <2>4, <2>9 DEF Signals, SigHup, ListenFails
  <2>10. ASSUME NEW p \in Pids, ChildExit(p) \/ ChildDies(p) PROVE reply[t] = "ok"
    BY <2>1, <2>10 DEF ChildExit, ChildDies, serverVars
  <2> QED BY <2>5, <2>6, <2>7, <2>8, <2>9, <2>10 DEF Next
<1> QED BY <1>0, <1>1, <1>2 DEF Tasks

\* A child that is there was there before, unless it was just forked; an ended
\* daemon stays so; and a handler only ever suspends an EXECUTE.
LEMMA OnlyForkRevives ==
    ASSUME TypeInv, [Next]_vars, ~Fork
    PROVE  /\ \A p \in Pids : proc'[p] # "none" => proc[p] # "none"
           /\ pc \in Ended => pc' \in Ended
           /\ cur' \in {cur, NoRequest} \/ cur' \in Tasks
<1> USE DEF TypeInv, TypeOK
<1>1. CASE WaitChild \/ OsWait \/ ForkFails \/ Exit
  BY <1>1 DEF WaitChild, _cleanup_pids, OsWait, ForkFails, Exit, Respond, DieWith, taskVars, Ended
<1>2. CASE (Create \/ ListenTimeout \/ SigHup \/ ListenFails) /\ UNCHANGED taskVars
  BY <1>2 DEF Create, ListenTimeout, SigHup, ListenFails, taskVars, Ended
<1>3. ASSUME NEW r \in Requests, Execute(r) \/ Cancel(r) \/ Halt(r)
      PROVE  /\ \A p \in Pids : proc'[p] # "none" => proc[p] # "none"
             /\ pc \notin Ended
             /\ cur' \in {cur, NoRequest} \/ cur' \in Tasks
  BY <1>3 DEF Execute, Cancel, Halt, Receive, Respond, DieWith, taskVars, Ended, Tasks
<1>4. ASSUME NEW r \in Requests, UNCHANGED taskVars,
             Ping(r) \/ Unsupported(r, Handlers) \/ ReceiveGarbled(r)
      PROVE  UNCHANGED proc /\ pc \notin Ended /\ cur' \in {cur, NoRequest}
  BY <1>4 DEF Ping, Unsupported, ReceiveGarbled, Receive, Respond, DieWith, taskVars, Ended
<1>5. CASE SigTerm
  BY <1>5 DEF SigTerm, DieWith, Ended
<1>6. ASSUME NEW p \in Pids, ChildExit(p) \/ ChildDies(p)
      PROVE  UNCHANGED <<pc, cur>> /\ \A q \in Pids : proc'[q] # "none" => proc[q] # "none"
  BY <1>6 DEF ChildExit, ChildDies, serverVars
<1>7. ASSUME NEW r \in Requests, ClientSend(r) \/ (ClientGone(r) /\ UNCHANGED taskVars)
      PROVE  UNCHANGED <<pc, cur, proc>>
  BY <1>7 DEF ClientSend, Send, ClientGone, taskVars
<1>8. CASE QueueDropped(SocketHeld) /\ UNCHANGED taskVars
  BY <1>8 DEF QueueDropped, taskVars
<1>9. CASE UNCHANGED vars
  BY <1>9 DEF vars, serverVars, taskVars
<1> QED
  BY <1>1, <1>2, <1>3, <1>4, <1>5, <1>6, <1>7, <1>8, <1>9 DEF Next, Server, Signals

\* The fork itself: a free pid gets the execution in hand, which nobody worked
\* for before.
LEMMA ForkBegins ==
    ASSUME IInv, WorkInv, Fork
    PROVE  /\ pc = "execute" /\ cur \in Tasks /\ cur \notin Begun
           /\ \E p \in Pids : /\ proc[p] = "none"
                              /\ proc' = [proc EXCEPT ![p] = "running"]
                              /\ work' = [work EXCEPT ![p] = cur]
           /\ \A r \in Requests : r # cur => reply'[r] = reply[r]
           /\ pc' \notin Ended => reply'[cur] = "ok"
           /\ cur' = NoRequest
<1> USE DEF IInv, TypeInv, TypeOK, ServerTypeOK
<1>1. pc = "execute" /\ cur \in Tasks /\ cur \in Requests
  BY DEF Fork, CurInv, WorkInv
<1>2. reply[cur] \in {"sent", "gone"}
  BY <1>1 DEF QueueInv
<1>3. cur \notin Begun
  BY <1>1, <1>2, RequestsAssumption DEF Begun, WorkInv, Ended
<1>4. /\ \A r \in Requests : r # cur => reply'[r] = reply[r]
      /\ pc' \notin Ended => reply'[cur] = "ok"
      /\ cur' = NoRequest
  BY <1>1 DEF Fork, Respond, DieWith, Ended
<1> QED BY <1>1, <1>3, <1>4 DEF Fork

\* The refinement's invariant is kept by every step.
LEMMA NextWork == ASSUME IInv, WorkInv, [Next]_vars PROVE WorkInv'
<1>1. CASE Fork
  <2>1. PICK p \in Pids : /\ proc[p] = "none"
                          /\ proc' = [proc EXCEPT ![p] = "running"]
                          /\ work' = [work EXCEPT ![p] = cur]
    BY <1>1, ForkBegins
  <2>2. /\ pc = "execute" /\ cur \in Tasks /\ cur \notin Begun /\ cur' = NoRequest
        /\ \A r \in Requests : r # cur => reply'[r] = reply[r]
        /\ pc' \notin Ended => reply'[cur] = "ok"
    BY <1>1, ForkBegins
  <2>3. \A q \in Pids : work[q] # cur
    BY <2>2 DEF Begun
  <2>4. \A q \in Pids : work'[q] = IF q = p THEN cur ELSE work[q]
    BY <2>1 DEF IInv, TypeInv, TypeOK
  <2>5. \A q \in Pids : proc'[q] # "none" => work'[q] \in Tasks
    BY <2>1, <2>2, <2>4 DEF WorkInv, IInv, TypeInv, TypeOK
  <2>6. \A a, b \in Pids : work'[a] = work'[b] => a = b \/ work'[a] = NoRequest
    BY <2>3, <2>4 DEF WorkInv
  <2>7. pc' \notin Ended => \A q \in Pids : work'[q] # NoRequest => reply'[work'[q]] = "ok"
    BY <2>2, <2>3, <2>4 DEF WorkInv, IInv, TypeInv, TypeOK, Ended
  <2> QED BY <2>2, <2>5, <2>6, <2>7, RequestsAssumption DEF WorkInv
<1>2. CASE ~Fork
  <2>1. work' = work /\ \A q \in Requests : reply[q] = "ok" => reply'[q] = "ok"
    BY <1>2, OnlyForkBegins, NextQueue DEF IInv
  <2>2. /\ \A p \in Pids : proc'[p] # "none" => proc[p] # "none"
        /\ pc \in Ended => pc' \in Ended
        /\ cur' \in {cur, NoRequest} \/ cur' \in Tasks
    BY <1>2, OnlyForkRevives DEF IInv
  <2> QED BY <2>1, <2>2, RequestsAssumption DEF WorkInv, IInv, TypeInv, TypeOK, Tasks
<1> QED BY <1>1, <1>2

----------------------------------------------------------------------------
\* The three sets of the mapping depend on the processes, on their work and on
\* the answers alone.
LEMMA SameTasks ==
    ASSUME work' = work, \A t \in Tasks : reply'[t] = "ok" <=> reply[t] = "ok"
    PROVE  Begun' = Begun
BY DEF Begun, Tasks

LEMMA SameProcesses ==
    ASSUME NEW state, work' = work,
           \A p \in Pids : proc'[p] = state <=> proc[p] = state
    PROVE  In(state)' = In(state)
BY DEF In, Tasks

\* While the daemon lives its running tasks are entries of its map.
LEMMA RunningTracked ==
    ASSUME IInv, pc \notin Ended
    PROVE  In("running") \subseteq Tracked
BY DEF In, IInv, TaskInv, AllTracked, EntriesAreOwn

\* A step that strikes, ends or forks nothing is a Close or a stutter.
LEMMA QuietPool ==
    ASSUME work' = work, \A t \in Tasks : reply'[t] = "ok" <=> reply[t] = "ok",
           \A p \in Pids : proc'[p] = "running" <=> proc[p] = "running",
           \A p \in Pids : proc'[p] = "killed" <=> proc[p] = "killed",
           Open' => Open
    PROVE  [Pool!Next]_(Pool!vars)
<1>1. Begun' = Begun /\ In("running")' = In("running") /\ In("killed")' = In("killed")
  BY SameTasks, SameProcesses
<1>2. Open \in BOOLEAN /\ Open' \in BOOLEAN
  BY DEF Open
<1>3. Pool!Close \/ Open' = Open
  BY <1>1, <1>2, Zenon DEF Pool!Close
<1> QED BY <1>1, <1>3, Zenon DEF Pool!Next, Pool!vars

\* execute begins its task: the pool has room, and the task is new.
LEMMA ForkIsBegin == ASSUME IInv, WorkInv, Fork PROVE Pool!Begin(cur)
<1>1. PICK p \in Pids : /\ proc[p] = "none"
                        /\ proc' = [proc EXCEPT ![p] = "running"]
                        /\ work' = [work EXCEPT ![p] = cur]
  BY ForkBegins
<1>2. /\ pc = "execute" /\ cur \in Tasks /\ cur \notin Begun
      /\ \A r \in Requests : r # cur => reply'[r] = reply[r]
  BY ForkBegins
<1>3. Open
  BY <1>2 DEF Open, Ended
<1>4. /\ \A q \in Pids : work'[q] = IF q = p THEN cur ELSE work[q]
      /\ \A q \in Pids : proc'[q] = IF q = p THEN "running" ELSE proc[q]
  BY <1>1 DEF IInv, TypeInv, TypeOK
<1>5. Cardinality(In("running")) < pool_size
  <2>1. In("running") \subseteq Tracked
    BY <1>2, RunningTracked DEF Ended
  <2>2. /\ Cardinality(In("running")) <= Cardinality(Tracked)
        /\ Cardinality(In("running")) \in Nat
    BY <2>1, TrackedFinite, FS_Subset, FS_CardinalityType
  <2> QED BY <2>2, TrackedFinite, PoolAssumption DEF Fork, PoolHasRoom
<1>6. In("running")' = In("running") \cup {cur}
  BY <1>1, <1>2, <1>4 DEF In, Tasks
<1>7. In("killed")' = In("killed")
  BY <1>1, <1>2, <1>4 DEF In, Tasks
<1>8. work[p] \in Tasks => reply[work[p]] = "ok" /\ work[p] # cur
  BY <1>2, RequestsAssumption DEF WorkInv, Ended, Tasks, Begun
<1>9. Begun' = Begun \cup {cur}
  BY <1>2, <1>4, <1>8 DEF Begun, Tasks
<1>10. Open' \in BOOLEAN
  BY DEF Open
<1> QED BY <1>2, <1>3, <1>5, <1>6, <1>7, <1>9, <1>10, Zenon DEF Pool!Begin, Pool!Cardinality, Cardinality

\* The end of a child is the end of its task.
LEMMA ChildEnds ==
    ASSUME IInv, WorkInv, NEW p \in Pids, ChildExit(p) \/ ChildDies(p)
    PROVE  \E t \in Tasks : Pool!Finish(t) \/ Pool!Gone(t)
<1> DEFINE t == work[p]
<1>1. t \in Tasks /\ t # NoRequest
  BY RequestsAssumption DEF ChildExit, ChildDies, WorkInv, Tasks
<1>2. \A q \in Pids : q # p => work[q] # t
  BY <1>1 DEF WorkInv
<1>3. /\ work' = work /\ reply' = reply /\ pc' = pc /\ cur' = cur
      /\ proc' = [proc EXCEPT ![p] = AfterEnd]
  BY DEF ChildExit, ChildDies, serverVars
<1>4. \A q \in Pids : proc'[q] = IF q = p THEN AfterEnd ELSE proc[q]
  BY <1>3 DEF IInv, TypeInv, TypeOK
<1>5. AfterEnd \notin {"running", "killed"}
  BY DEF AfterEnd
<1>6. Begun' = Begun /\ Open' = Open
  BY <1>3, SameTasks DEF Open
<1>7. CASE ChildExit(p)
  <2>1. proc[p] = "running"
    BY <1>7 DEF ChildExit
  <2>2. t \in In("running") /\ In("running")' = In("running") \ {t}
    BY <1>1, <1>2, <1>3, <1>4, <1>5, <2>1 DEF In, Tasks
  <2>3. In("killed")' = In("killed")
    BY <1>3, <1>4, <1>5, <2>1, SameProcesses
  <2>4. Pool!Finish(t)
    BY <1>6, <2>2, <2>3, Zenon DEF Pool!Finish
  <2> QED BY <1>1, <2>4
<1>8. CASE ChildDies(p)
  <2>1. proc[p] = "killed"
    BY <1>8 DEF ChildDies
  <2>2. t \in In("killed") /\ In("killed")' = In("killed") \ {t}
    BY <1>1, <1>2, <1>3, <1>4, <1>5, <2>1 DEF In, Tasks
  <2>3. In("running")' = In("running")
    BY <1>3, <1>4, <1>5, <2>1, SameProcesses
  <2>4. Pool!Gone(t)
    BY <1>6, <2>2, <2>3, Zenon DEF Pool!Gone
  <2> QED BY <1>1, <2>4
<1> QED BY <1>7, <1>8

\* cancel strikes the task it names, or nothing, and closes the pool.
LEMMA CancelIsCancel ==
    ASSUME IInv, WorkInv, NEW c \in Requests, Cancel(c), [Next]_vars, ~Fork
    PROVE  [Pool!Next]_(Pool!vars)
<1> DEFINE p == task_id_to_pid[Target[c]]
<1>1. Open /\ ~Open'
  BY DEF Cancel, Receive, Respond, DieWith, Open, Ended
<1>2. work' = work /\ \A t \in Tasks : reply'[t] = "ok" <=> reply[t] = "ok"
  BY OnlyForkBegins DEF IInv
<1>3. CASE p \in Pids /\ proc[p] = "running"
  <2>1. \A q \in Pids : proc'[q] = IF q = p THEN "killed" ELSE proc[q]
    BY <1>3, PidsAssumption DEF Cancel, IInv, TypeInv, TypeOK
  <2>2. work[p] \in Tasks /\ work[p] # NoRequest
    BY <1>3, RequestsAssumption DEF WorkInv, Tasks
  <2>3. \A q \in Pids : q # p => work[q] # work[p]
    BY <1>3, <2>2 DEF WorkInv
  <2>4. /\ work[p] \in In("running")
        /\ In("running")' = In("running") \ {work[p]}
    BY <1>2, <1>3, <2>1, <2>2, <2>3 DEF In, Tasks
  <2>5. In("killed")' = In("killed") \cup {work[p]}
    BY <1>2, <1>3, <2>1, <2>2, <2>3 DEF In, Tasks
  <2>6. Begun' = Begun
    BY <1>2, SameTasks
  <2>7. Open' = FALSE
    BY <1>1 DEF Open
  <2>8. Pool!Cancel(work[p])
    BY <1>1, <2>4, <2>5, <2>6, <2>7, Zenon DEF Pool!Cancel
  <2> QED BY <2>2, <2>8, Zenon DEF Pool!Next
<1>4. CASE ~(p \in Pids /\ proc[p] = "running")
  <2>1. Target[c] \in Requests
    BY TargetAssumption DEF Cancel
  <2>2. proc' = proc
    <3>1. CASE p = NoPid \/ proc[p] = "none"
      BY <3>1 DEF Cancel
    <3>2. CASE ~(p = NoPid \/ proc[p] = "none")
      <4>1. p \in Pids /\ proc' = [proc EXCEPT ![p] = IF @ = "running" THEN "killed" ELSE @]
        BY <2>1, <3>2 DEF Cancel, IInv, TypeInv, TypeOK
      <4> QED BY <1>4, <4>1 DEF IInv, TypeInv, TypeOK
    <3> QED BY <3>1, <3>2
  <2> QED BY <1>1, <1>2, <2>2, QuietPool
<1> QED BY <1>3, <1>4

\* SIGTERM strikes every running task.
LEMMA SigTermIsKill ==
    ASSUME IInv, WorkInv, SigTerm, [Next]_vars, ~Fork
    PROVE  Pool!Kill
<1>1. work' = work /\ Begun' = Begun
  BY OnlyForkBegins, SameTasks DEF IInv
<1>2. \A p \in Pids : proc'[p] = IF proc[p] = "running" THEN "killed" ELSE proc[p]
  BY DEF SigTerm
<1>3. In("running")' = {}
  BY <1>2 DEF In
<1>4. In("killed")' = In("killed") \cup In("running")
  BY <1>1, <1>2 DEF In, Tasks
<1>5. Open' = FALSE
  BY DEF SigTerm, DieWith, Open, Ended
<1> QED BY <1>1, <1>3, <1>4, <1>5, Zenon DEF Pool!Kill

\* Every step of the daemon is a step of the pool or leaves it as it is.
LEMMA StepSimulation ==
    ASSUME IInv, WorkInv, [Next]_vars
    PROVE  [Pool!Next]_(Pool!vars)
<1>1. CASE Fork
  <2>1. cur \in Tasks
    BY <1>1, ForkBegins
  <2> QED BY <1>1, <2>1, ForkIsBegin, Zenon DEF Pool!Next
<1>2. ASSUME NEW p \in Pids, ChildExit(p) \/ ChildDies(p) PROVE [Pool!Next]_(Pool!vars)
  BY <1>2, ChildEnds, Zenon DEF Pool!Next
<1>3. CASE SigTerm /\ ~Fork
  BY <1>3, SigTermIsKill, Zenon DEF Pool!Next
<1>4. ASSUME NEW c \in Requests, Cancel(c), ~Fork PROVE [Pool!Next]_(Pool!vars)
  BY <1>4, CancelIsCancel
<1>5. ASSUME ~Fork,
             \A p \in Pids : proc'[p] = "running" <=> proc[p] = "running",
             \A p \in Pids : proc'[p] = "killed" <=> proc[p] = "killed",
             Open' => Open
      PROVE  [Pool!Next]_(Pool!vars)
  <2>1. work' = work /\ \A t \in Tasks : reply'[t] = "ok" <=> reply[t] = "ok"
    BY <1>5, OnlyForkBegins DEF IInv
  <2> QED BY <1>5, <2>1, QuietPool
<1>6. CASE WaitChild
  <2>1. Open' = Open
    BY <1>6, RequestsAssumption DEF WaitChild, Open, Ended, IInv, TypeInv, CurInv
  <2>2. \A p \in Pids : proc'[p] = proc[p] \/ (proc[p] \in {"zombie", "none"} /\ proc'[p] = "none")
    BY <1>6 DEF WaitChild, _cleanup_pids, Terminated, IInv, TypeInv, TypeOK
  <2> QED BY <1>5, <2>1, <2>2, <1>1
<1>7. CASE OsWait
  <2>1. Open' = Open
    BY <1>7 DEF OsWait, Open, Ended
  <2>2. \A p \in Pids : proc'[p] = proc[p] \/ (proc[p] = "zombie" /\ proc'[p] = "none")
    BY <1>7 DEF OsWait, IInv, TypeInv, TypeOK
  <2> QED BY <1>5, <2>1, <2>2, <1>1
<1>8. CASE ForkFails \/ Exit
  <2>1. proc' = proc /\ (Open' => Open)
    BY <1>8 DEF ForkFails, Exit, Respond, DieWith, LoopTop, Open, Ended, taskVars
  <2> QED BY <1>5, <2>1, <1>1
<1>9. CASE (Create \/ ListenTimeout \/ SigHup \/ ListenFails) /\ UNCHANGED taskVars
  <2>1. proc' = proc /\ (Open' => Open)
    BY <1>9 DEF Create, ListenTimeout, SigHup, ListenFails, LoopTop, Open, Ended, taskVars
  <2> QED BY <1>5, <2>1, <1>1
<1>10. ASSUME NEW r \in Requests, UNCHANGED taskVars,
              Execute(r) \/ Halt(r) \/ Ping(r) \/ Unsupported(r, Handlers) \/ ReceiveGarbled(r)
       PROVE  [Pool!Next]_(Pool!vars)
  <2>1. proc' = proc /\ Open
    BY <1>10 DEF Execute, Halt, Ping, Unsupported, ReceiveGarbled, Receive, Open, Ended, taskVars
  <2> QED BY <1>5, <2>1, <1>1
<1>11. ASSUME UNCHANGED <<pc, cur, proc>> PROVE [Pool!Next]_(Pool!vars)
  <2>1. Open' = Open
    BY <1>11 DEF Open
  <2> QED BY <1>5, <1>11, <2>1, <1>1
<1>12. ASSUME NEW r \in Requests, ClientSend(r) \/ (ClientGone(r) /\ UNCHANGED taskVars)
       PROVE  UNCHANGED <<pc, cur, proc>>
  BY <1>12 DEF ClientSend, Send, ClientGone, taskVars
<1>13. CASE QueueDropped(SocketHeld) /\ UNCHANGED taskVars
  BY <1>11, <1>13 DEF QueueDropped, taskVars
<1>14. CASE UNCHANGED vars
  BY <1>11, <1>14 DEF vars, serverVars, taskVars
<1>15. CASE Server
  BY <1>1, <1>4, <1>6, <1>7, <1>8, <1>9, <1>10, <1>15 DEF Server, Execute, Halt
<1>16. CASE Signals
  BY <1>1, <1>3, <1>9, <1>16 DEF Signals
<1> QED BY <1>2, <1>11, <1>12, <1>13, <1>14, <1>15, <1>16 DEF Next

\* The daemon implements the task pool: to the gateways, its processes, pids
\* and message queue are invisible.
THEOREM DaemonIsTaskPool == Spec => ImplementsTaskPool
<1>1. Init => WorkInv /\ Pool!Init
  <2> SUFFICES ASSUME Init PROVE WorkInv /\ Pool!Init
    OBVIOUS
  <2>1. /\ \A p \in Pids : proc[p] = "none" /\ work[p] = NoRequest
        /\ \A r \in Requests : reply[r] = "unsent"
        /\ pc = "create" /\ cur = NoRequest
    BY DEF Init, ServerInit
  <2>2. Begun = {} /\ In("running") = {} /\ In("killed") = {} /\ Open = TRUE
    BY <2>1, RequestsAssumption DEF Begun, In, Open, Ended, Tasks
  <2>3. WorkInv
    BY <2>1, RequestsAssumption DEF WorkInv
  <2> QED BY <2>2, <2>3, Zenon DEF Pool!Init
<1>2. IInv /\ WorkInv /\ [Next]_vars => WorkInv'
  BY NextWork
<1>3. IInv /\ WorkInv /\ [Next]_vars => [Pool!Next]_(Pool!vars)
  BY StepSimulation
<1> QED BY <1>1, <1>2, <1>3, Invariance, PTL DEF Spec, ImplementsTaskPool, Pool!Spec
============================================================================
