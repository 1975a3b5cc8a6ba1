------------------------ MODULE StorletDaemonProofs ------------------------
(***************************************************************************)
(* Proofs about StorletDaemon, for every pool size, set of requests and    *)
(* set of pids.                                                            *)
(***************************************************************************)
EXTENDS StorletDaemon, FiniteSetTheorems, TLAPS

\* What the type invariant rests on: the idle counter of a listening server is
\* below its limit, and a handler is suspended (cur) only while execute waits
\* for room in the pool.
CurInv ==
    /\ pc = "create" => loop_cnt = 0
    /\ pc = "listen" => loop_cnt < IdleLimit
    /\ pc = "execute" => cur \in Requests
    /\ cur \in Requests => loop_cnt = 0
    /\ pc \notin {"execute", "oswait"} => cur = NoRequest

TypeInv == TypeOK /\ CurInv

----------------------------------------------------------------------------
\* Initial states of the daemon are well typed.
LEMMA InitTypeInv == Init => TypeInv
<1> SUFFICES ASSUME Init PROVE TypeInv
  OBVIOUS
<1>1. FlagsTypeOK
  BY DEF Init, ServerInit, FlagsTypeOK
<1>2. /\ task_id_to_pid \in [Requests -> Pids \cup {NoPid}]
      /\ proc \in [Pids -> ProcStates]
      /\ work \in [Pids -> Requests \cup {NoRequest}]
  BY DEF Init, ProcStates
<1>3. ServerTypeOK({"execute", "oswait"}) /\ CurInv
  BY <1>1, IdleLimitAssumption DEF Init, ServerInit, ServerTypeOK, CurInv, Replies, Ended
<1> QED
  BY <1>2, <1>3 DEF TypeInv, TypeOK

\* self.running and the ownership of the socket stay Boolean.
LEMMA NextFlags == FlagsTypeOK /\ [Next]_vars => FlagsTypeOK'
<1> SUFFICES ASSUME FlagsTypeOK, [Next]_vars PROVE FlagsTypeOK'
  OBVIOUS
<1>1. running' = running \/ running' = FALSE
  BY DEF Next, Server, Signals, WaitChild, OsWait, Fork, ForkFails, Exit, Create,
     ListenTimeout, Execute, Cancel, Halt, Ping, Unsupported, ReceiveGarbled, SigTerm,
     SigHup, ListenFails, ChildExit, ChildDies, ClientSend, Send, ClientGone,
     QueueDropped, serverVars, vars
<1>2. bound' = bound \/ bound' = FALSE \/ bound' = TRUE
  BY DEF Next, Server, Signals, WaitChild, OsWait, Fork, ForkFails, Exit, Create,
     ListenTimeout, Execute, Cancel, Halt, Ping, Unsupported, ReceiveGarbled, SigTerm,
     SigHup, ListenFails, ChildExit, ChildDies, ClientSend, Send, ClientGone,
     QueueDropped, Respond, DieWith, serverVars, vars
<1> QED
  BY <1>1, <1>2 DEF FlagsTypeOK

\* The main loop's own steps keep the state well typed.
LEMMA LoopTypeInv ==
    ASSUME TypeInv, FlagsTypeOK',
           Create \/ ListenTimeout \/ ListenFails \/ SigHup,
           UNCHANGED taskVars
    PROVE  TypeInv'
<1> USE IdleLimitAssumption, RequestsAssumption
    DEF TypeInv, TypeOK, ServerTypeOK, CurInv, Ended, taskVars
<1>1. CASE Create
  <2>1. /\ pc' = "listen" \/ pc' = "exited"
        /\ pc = "create"
        /\ status' = status \/ status' = "failure"
        /\ UNCHANGED <<running, loop_cnt, inbox, cur, reply>>
    BY <1>1, Zenon DEF Create
  <2> QED BY <2>1
<1>2. CASE ListenTimeout
  BY <1>2 DEF ListenTimeout, LoopTop
<1>3. CASE ListenFails
  BY <1>3 DEF ListenFails
<1>4. CASE SigHup
  BY <1>4 DEF SigHup
<1> QED BY <1>1, <1>2, <1>3, <1>4

\* Taking a datagram off the socket and answering it keeps the server's part
\* of the state well typed.
LEMMA RespondTypeInv ==
    ASSUME TypeInv, FlagsTypeOK', NEW r \in Requests, NEW answer \in Replies,
           NEW iterable \in BOOLEAN,
           Receive(r), Respond(r, answer, iterable)
    PROVE  ServerTypeOK({"execute", "oswait"})' /\ CurInv'
BY RequestsAssumption, IdleLimitAssumption
DEF TypeInv, TypeOK, ServerTypeOK, CurInv, Replies, Ended, LoopTop,
    Receive, Respond, DieWith

\* Every step keeps the state well typed.
LEMMA NextTypeInv == TypeInv /\ [Next]_vars => TypeInv'
<1> SUFFICES ASSUME TypeInv, [Next]_vars PROVE TypeInv'
  OBVIOUS
<1>0. FlagsTypeOK'
  BY NextFlags DEF TypeInv, TypeOK, ServerTypeOK
<1> USE <1>0, RequestsAssumption, IdleLimitAssumption, PidsAssumption DEF TypeInv, TypeOK
<1>1. CASE WaitChild
  BY <1>1 DEF WaitChild, _cleanup_pids, ServerTypeOK, CurInv, Ended, ProcStates
<1>2. CASE OsWait
  BY <1>2 DEF OsWait, _remove_pid, ServerTypeOK, CurInv, Ended, ProcStates
<1>3. CASE Fork
  BY <1>3 DEF Fork, Respond, DieWith, LoopTop, ServerTypeOK, CurInv, Ended, ProcStates, Replies
<1>4. CASE ForkFails
  BY <1>4 DEF ForkFails, Respond, DieWith, LoopTop, ServerTypeOK, CurInv, Ended, taskVars, Replies
<1>5. CASE Exit
  BY <1>5 DEF Exit, ServerTypeOK, CurInv, Ended, taskVars
<1>6. CASE (Create \/ ListenTimeout \/ SigHup \/ ListenFails) /\ UNCHANGED taskVars
  BY <1>6, LoopTypeInv
<1>7. ASSUME NEW r \in Requests, Execute(r) PROVE TypeInv'
  BY <1>7 DEF Execute, Receive, ServerTypeOK, CurInv, Ended, taskVars
<1>8. ASSUME NEW r \in Requests, Cancel(r) PROVE TypeInv'
  <2>1. PICK a \in {"ok", "fail"} : Respond(r, a, FALSE)
    BY <1>8 DEF Cancel
  <2>2. Receive(r) /\ running' = running
    BY <1>8 DEF Cancel
  <2>3. ServerTypeOK({"execute", "oswait"})' /\ CurInv'
    BY <2>1, <2>2, RespondTypeInv DEF Replies
  <2>4. /\ task_id_to_pid' \in [Requests -> Pids \cup {NoPid}]
        /\ proc' \in [Pids -> ProcStates]
        /\ work' = work
    BY <1>8 DEF Cancel, _remove_pid, ProcStates
  <2> QED BY <2>3, <2>4
<1>9. ASSUME NEW r \in Requests, Halt(r) PROVE TypeInv'
  BY <1>9, RespondTypeInv DEF Halt, taskVars, Replies
<1>10. ASSUME NEW r \in Requests, UNCHANGED taskVars,
              Ping(r) \/ Unsupported(r, Handlers)
       PROVE  TypeInv'
  BY <1>10, RespondTypeInv DEF Ping, Unsupported, taskVars, Replies
<1>11. ASSUME NEW r \in Requests, ReceiveGarbled(r), UNCHANGED taskVars PROVE TypeInv'
  BY <1>11 DEF ReceiveGarbled, Receive, DieWith, ServerTypeOK, CurInv, Ended, taskVars, Replies
<1>12. CASE SigTerm
  BY <1>12 DEF SigTerm, DieWith, ServerTypeOK, CurInv, Ended, ProcStates, Replies
<1>13. ASSUME NEW p \in Pids, ChildExit(p) \/ ChildDies(p) PROVE TypeInv'
  BY <1>13 DEF ChildExit, ChildDies, AfterEnd, ServerTypeOK, CurInv, serverVars, ProcStates
<1>14. ASSUME NEW r \in Requests, ClientSend(r) PROVE TypeInv'
  <2>1. inbox' = Append(inbox, r) \/ inbox' = inbox
    BY <1>14 DEF ClientSend, Send
  <2>2. inbox' \in Seq(Requests)
    BY <2>1 DEF ServerTypeOK
  <2>3. reply' \in [Requests -> Replies]
    BY <1>14 DEF ClientSend, Send, ServerTypeOK, Replies
  <2> QED BY <1>14, <2>2, <2>3 DEF ClientSend, Send, ServerTypeOK, CurInv, taskVars
<1>15. ASSUME NEW r \in Requests, ClientGone(r), UNCHANGED taskVars PROVE TypeInv'
  BY <1>15 DEF ClientGone, ServerTypeOK, CurInv, taskVars, Replies
<1>16. CASE QueueDropped(SocketHeld) /\ UNCHANGED taskVars
  BY <1>16 DEF QueueDropped, ServerTypeOK, CurInv, taskVars, Replies
<1>17. CASE UNCHANGED vars
  BY <1>17 DEF vars, serverVars, taskVars, ServerTypeOK, CurInv
<1> QED
  BY <1>1, <1>2, <1>3, <1>4, <1>5, <1>6, <1>7, <1>8, <1>9, <1>10, <1>11, <1>12,
     <1>13, <1>14, <1>15, <1>16, <1>17
  DEF Next, Server, Signals

\* The daemon's state stays well typed through every interleaving.
THEOREM TypeCorrect == Spec => []TypeOK
<1>1. TypeInv => TypeOK
  BY DEF TypeInv
<1> QED
  BY InitTypeInv, NextTypeInv, <1>1, PTL DEF Spec

----------------------------------------------------------------------------
(***************************************************************************)
(* The requests in the server's hands: each is queued once or suspended in *)
(* execute, never both, and none of them has been answered.                *)
(***************************************************************************)
Distinct(s) == \A i, j \in DOMAIN s : s[i] = s[j] => i = j

QueueInv ==
    /\ Distinct(inbox)
    /\ cur \notin Queued
    /\ \A r \in Requests : r \in Queued \/ r = cur => reply[r] \in {"sent", "gone"}
    /\ NoClientForgotten

\* The elements of a duplicate-free sequence after its head has been taken.
LEMMA TailElements ==
    ASSUME NEW S, NEW s \in Seq(S), s # <<>>, Distinct(s)
    PROVE  /\ {Tail(s)[i] : i \in DOMAIN Tail(s)} = {s[i] : i \in DOMAIN s} \ {Head(s)}
           /\ Distinct(Tail(s))
<1> DEFINE t == Tail(s)
<1>1. /\ t \in Seq(S) /\ DOMAIN t = 1 .. Len(t) /\ Len(t) = Len(s) - 1
      /\ DOMAIN s = 1 .. Len(s) /\ Len(s) \in Nat \ {0} /\ Head(s) = s[1]
  OBVIOUS
<1>2. \A i \in 1 .. Len(t) : t[i] = s[i + 1]
  OBVIOUS
<1> HIDE DEF t
<1>3. \A i \in DOMAIN t : t[i] \in {s[j] : j \in DOMAIN s} \ {Head(s)}
  BY <1>1, <1>2 DEF Distinct
<1>4. \A j \in DOMAIN s : s[j] # Head(s) => \E i \in DOMAIN t : t[i] = s[j]
  <2> SUFFICES ASSUME NEW j \in DOMAIN s, s[j] # Head(s) PROVE \E i \in DOMAIN t : t[i] = s[j]
    OBVIOUS
  <2>1. j - 1 \in 1 .. Len(t) /\ t[j - 1] = s[j]
    BY <1>1, <1>2
  <2> QED BY <2>1, <1>1
<1>5. Distinct(t)
  BY <1>1, <1>2 DEF Distinct
<1> QED BY <1>3, <1>4, <1>5 DEF t

\* The elements of a duplicate-free sequence after a new one has been queued.
LEMMA AppendElements ==
    ASSUME NEW S, NEW s \in Seq(S), NEW e \in S, Distinct(s), e \notin {s[i] : i \in DOMAIN s}
    PROVE  /\ {Append(s, e)[i] : i \in DOMAIN Append(s, e)} = {s[i] : i \in DOMAIN s} \cup {e}
           /\ Distinct(Append(s, e))
<1> DEFINE t == Append(s, e)
<1>1. /\ t \in Seq(S) /\ DOMAIN t = 1 .. Len(t) /\ Len(t) = Len(s) + 1
      /\ DOMAIN s = 1 .. Len(s) /\ Len(s) \in Nat
  OBVIOUS
<1>2. (\A i \in 1 .. Len(s) : t[i] = s[i]) /\ t[Len(s) + 1] = e
  OBVIOUS
<1> HIDE DEF t
<1>3. \A i \in DOMAIN t : t[i] \in {s[j] : j \in DOMAIN s} \cup {e}
  BY <1>1, <1>2
<1>4. \A x \in {s[j] : j \in DOMAIN s} \cup {e} : \E i \in DOMAIN t : t[i] = x
  BY <1>1, <1>2
<1>5. Distinct(t)
  BY <1>1, <1>2 DEF Distinct
<1> QED BY <1>3, <1>4, <1>5 DEF t

\* What is queued are requests.
LEMMA QueuedAreRequests == ASSUME TypeInv PROVE Queued \subseteq Requests
BY DEF TypeInv, TypeOK, ServerTypeOK, Queued

\* Taking the next datagram removes just that request from the queue.
LEMMA ReceiveQueue ==
    ASSUME TypeInv, QueueInv, NEW r \in Requests, Receive(r)
    PROVE  r \in Queued /\ Queued' = Queued \ {r} /\ Distinct(inbox')
<1>1. inbox \in Seq(Requests) /\ inbox # <<>> /\ Distinct(inbox)
  BY DEF TypeInv, TypeOK, ServerTypeOK, QueueInv, Receive
<1>2. r = Head(inbox) /\ inbox' = Tail(inbox)
  BY DEF Receive
<1>3. r \in Queued
  BY <1>1, <1>2 DEF Queued
<1> QED BY <1>1, <1>2, <1>3, TailElements DEF Queued

\* Answering the request in hand, or dying over it, forgets no other client.
LEMMA RespondQueue ==
    ASSUME TypeInv, QueueInv, NEW r \in Requests, NEW answer \in {"ok", "fail"},
           NEW iterable \in BOOLEAN, Respond(r, answer, iterable) \/ DieWith({r}),
           Queued' = Queued \ {r}, Distinct(inbox'), r \in Queued \/ r = cur,
           r \in Queued => cur = NoRequest
    PROVE  QueueInv' /\ \A q \in Requests : reply[q] \notin {"sent", "gone"} => reply'[q] = reply[q]
<1>1. \A q \in Requests : q # r => reply'[q] = reply[q]
  BY DEF Respond, DieWith, TypeInv, TypeOK, ServerTypeOK
<1>2. cur' = NoRequest
  BY DEF Respond, DieWith
<1>3. reply'[r] # "sent"
  BY DEF Respond, DieWith, TypeInv, TypeOK, ServerTypeOK
<1>4. \A q \in Requests : reply'[q] = "sent" => q \in Queued'
  BY <1>1, <1>3, RequestsAssumption DEF QueueInv, NoClientForgotten
<1>5. cur' \notin Queued'
  BY <1>2, QueuedAreRequests, RequestsAssumption
<1>6. \A q \in Requests : q \in Queued' \/ q = cur' => reply'[q] \in {"sent", "gone"}
  BY <1>1, <1>2, RequestsAssumption DEF QueueInv
<1>7. NoClientForgotten'
  BY <1>4 DEF NoClientForgotten
<1>8. reply[r] \in {"sent", "gone"}
  BY DEF QueueInv
<1> QED
  BY <1>1, <1>5, <1>6, <1>7, <1>8 DEF QueueInv

\* A step that queues, takes up and answers nothing keeps the queue in order,
\* unless it ends the server with a request in hand.
LEMMA QuietQueue ==
    ASSUME QueueInv, UNCHANGED <<inbox, cur, reply>>,
           pc' \in Ended => pc \in Ended \/ cur = NoRequest
    PROVE  QueueInv'
BY RequestsAssumption DEF QueueInv, Queued, Distinct, NoClientForgotten

\* Every step keeps the queue in order and leaves the answers already read as
\* they are.
LEMMA NextQueue ==
    ASSUME TypeInv, QueueInv, [Next]_vars
    PROVE  /\ QueueInv'
           /\ \A q \in Requests : reply[q] \notin {"unsent", "sent", "gone"} => reply'[q] = reply[q]
<1> DEFINE Final == \A q \in Requests : reply[q] \notin {"unsent", "sent", "gone"} => reply'[q] = reply[q]
<1> USE RequestsAssumption
<1>1. CASE WaitChild
  BY <1>1, QuietQueue DEF WaitChild, Ended
<1>2. CASE OsWait
  BY <1>2, QuietQueue DEF OsWait, Ended
<1>3. CASE Fork \/ ForkFails
  <2>1. pc = "execute" /\ cur \in Requests /\ cur \notin Queued
    BY <1>3 DEF Fork, ForkFails, TypeInv, CurInv, QueueInv
  <2>2. Queued' = Queued \ {cur} /\ Distinct(inbox')
    BY <1>3, <2>1 DEF Fork, ForkFails, Queued, QueueInv, Distinct
  <2>3. PICK a \in {"ok", "fail"} : Respond(cur, a, TRUE)
    BY <1>3 DEF Fork, ForkFails
  <2> QED BY <2>1, <2>2, <2>3, RespondQueue
<1>4. CASE Exit
  BY <1>4, QuietQueue DEF Exit, TypeInv, CurInv
<1>5. CASE Create \/ ListenTimeout \/ ListenFails \/ SigHup
  <2>1. cur = NoRequest \/ (pc' = pc)
    BY <1>5 DEF Create, ListenTimeout, ListenFails, SigHup, TypeInv, CurInv
  <2>2. UNCHANGED <<inbox, cur, reply>>
    BY <1>5 DEF Create, ListenTimeout, ListenFails, SigHup
  <2> QED BY <2>1, <2>2, QuietQueue
<1>6. ASSUME NEW r \in Requests, Execute(r) PROVE QueueInv' /\ Final
  <2>1. r \in Queued /\ Queued' = Queued \ {r} /\ Distinct(inbox')
    BY <1>6, ReceiveQueue DEF Execute
  <2>2. cur' = r /\ reply' = reply /\ pc' = "execute" /\ cur = NoRequest
    BY <1>6 DEF Execute, Receive, TypeInv, CurInv
  <2> QED BY <2>1, <2>2 DEF QueueInv, NoClientForgotten, Ended
<1>7. ASSUME NEW r \in Requests,
             Cancel(r) \/ Halt(r) \/ Ping(r) \/ Unsupported(r, Handlers) \/ ReceiveGarbled(r)
      PROVE  QueueInv' /\ Final
  <2>1. Receive(r)
    BY <1>7 DEF Cancel, Halt, Ping, Unsupported, ReceiveGarbled
  <2>2. cur = NoRequest
    BY <2>1 DEF Receive, TypeInv, CurInv
  <2>3. \E a \in {"ok", "fail"}, it \in BOOLEAN : Respond(r, a, it) \/ DieWith({r})
    BY <1>7 DEF Cancel, Halt, Ping, Unsupported, ReceiveGarbled
  <2>4. r \in Queued /\ Queued' = Queued \ {r} /\ Distinct(inbox')
    BY <2>1, ReceiveQueue
  <2> QED BY <2>2, <2>3, <2>4, RespondQueue
<1>8. CASE SigTerm
  <2>1. /\ inbox' = inbox /\ cur' = NoRequest
        /\ \A q \in Requests : reply'[q] = IF q = cur /\ reply[q] = "sent" THEN "eof" ELSE reply[q]
    BY <1>8 DEF SigTerm, DieWith
  <2>2. Queued' = Queued /\ Distinct(inbox') /\ NoRequest \notin Queued
    BY <2>1, QueuedAreRequests DEF Queued, QueueInv
  <2> QED BY <2>1, <2>2 DEF QueueInv, NoClientForgotten
<1>9. ASSUME NEW p \in Pids, ChildExit(p) \/ ChildDies(p) PROVE QueueInv' /\ Final
  BY <1>9, QuietQueue DEF ChildExit, ChildDies, serverVars
<1>10. ASSUME NEW r \in Requests, ClientSend(r) PROVE QueueInv' /\ Final
  <2>1. reply[r] = "unsent" /\ r \notin Queued /\ r # cur
    BY <1>10 DEF ClientSend, Send, QueueInv
  <2>2. UNCHANGED <<pc, cur>> /\ inbox \in Seq(Requests) /\ reply \in [Requests -> Replies]
    BY <1>10 DEF ClientSend, Send, TypeInv, TypeOK, ServerTypeOK
  <2>3. CASE inbox' = Append(inbox, r) /\ reply' = [reply EXCEPT ![r] = "sent"]
    <3>1. Queued' = Queued \cup {r} /\ Distinct(inbox')
      BY <2>1, <2>2, <2>3, AppendElements DEF Queued, QueueInv
    <3> QED BY <2>1, <2>2, <2>3, <3>1 DEF QueueInv, NoClientForgotten
  <2>4. CASE inbox' = inbox /\ reply' = [reply EXCEPT ![r] = "refused"]
    BY <2>1, <2>2, <2>4 DEF QueueInv, NoClientForgotten, Queued
  <2> QED BY <1>10, <2>3, <2>4 DEF ClientSend, Send
<1>11. ASSUME NEW r \in Requests, ClientGone(r) PROVE QueueInv' /\ Final
  BY <1>11 DEF ClientGone, QueueInv, NoClientForgotten, Queued, TypeInv, TypeOK, ServerTypeOK
<1>12. CASE QueueDropped(SocketHeld)
  <2>1. Queued' = {} /\ Distinct(inbox')
    BY <1>12 DEF QueueDropped, Queued, Distinct
  <2>2. UNCHANGED <<pc, cur>>
    BY <1>12 DEF QueueDropped
  <2>3. \A q \in Requests : reply'[q] = IF q \in Queued /\ reply[q] = "sent" THEN "eof" ELSE reply[q]
    BY <1>12 DEF QueueDropped
  <2> QED BY <2>1, <2>2, <2>3 DEF QueueInv, NoClientForgotten
<1>13. CASE UNCHANGED vars
  BY <1>13, QuietQueue DEF vars, serverVars
<1> QED
  BY <1>1, <1>2, <1>3, <1>4, <1>5, <1>6, <1>7, <1>8, <1>9, <1>10, <1>11, <1>12, <1>13
  DEF Next, Server, Signals

\* A client that waits for an answer is queued or being served, whatever else
\* happens to the daemon.
THEOREM ClientsRemembered == Spec => []NoClientForgotten
<1>1. Init => QueueInv
  BY RequestsAssumption DEF Init, ServerInit, QueueInv, Queued, Distinct, NoClientForgotten
<1>2. TypeInv /\ QueueInv /\ [Next]_vars => QueueInv'
  BY NextQueue
<1>3. QueueInv => NoClientForgotten
  BY DEF QueueInv
<1> QED
  BY <1>1, <1>2, <1>3, InitTypeInv, NextTypeInv, PTL DEF Spec

----------------------------------------------------------------------------
(***************************************************************************)
(* The process table against task_id_to_pid.  A task in the map has been   *)
(* answered "ok", so the request in hand is never in the map and Fork adds *)
(* one entry to it, never replaces one.                                    *)
(***************************************************************************)
AllTracked == \A p \in Pids : proc[p] = "running" => \E t \in Tracked : task_id_to_pid[t] = p

NoneOutside == pc \in {"create", "exited"} => \A p \in Pids : proc[p] # "running"

TaskInv ==
    /\ pc \notin Ended => \A t \in Tracked : reply[t] = "ok"
    /\ EntriesAreOwn
    /\ AllTracked
    /\ Cardinality(Tracked) <= pool_size
    /\ NoneOutside

\* The map is finite, so its size can be reasoned about.
LEMMA TrackedFinite ==
    IsFiniteSet(Tracked) /\ Cardinality(Tracked) \in Nat
BY RequestsAssumption, FS_Subset, FS_CardinalityType DEF Tracked

\* Dropping entries from the map cannot exceed the pool.
LEMMA FewerTracked ==
    ASSUME Tracked' \subseteq Tracked, Cardinality(Tracked) <= pool_size
    PROVE  Cardinality(Tracked') <= pool_size
<1>1. IsFiniteSet(Tracked') /\ Cardinality(Tracked') <= Cardinality(Tracked)
  BY TrackedFinite, FS_Subset
<1>2. Cardinality(Tracked') \in Nat
  BY <1>1, FS_CardinalityType
<1> QED BY <1>1, <1>2, TrackedFinite, PoolAssumption

\* A step that leaves map and processes alone keeps them consistent.
LEMMA QuietTasks ==
    ASSUME TaskInv, UNCHANGED <<task_id_to_pid, proc, work>>,
           pc \in Ended => pc' \in Ended,
           pc' \in {"create", "exited"} => pc \in {"create", "exited"} \/ Tracked = {},
           \A q \in Requests : reply[q] = "ok" => reply'[q] = "ok"
    PROVE  TaskInv'
<1>1. Tracked' = Tracked
  BY DEF Tracked
<1>2. EntriesAreOwn' /\ AllTracked' /\ Cardinality(Tracked') <= pool_size
  BY <1>1 DEF TaskInv, EntriesAreOwn, AllTracked
<1>3. NoneOutside'
  BY DEF TaskInv, AllTracked, NoneOutside
<1>4. pc' \notin Ended => \A t \in Tracked' : reply'[t] = "ok"
  BY <1>1 DEF TaskInv, Tracked
<1> QED BY <1>2, <1>3, <1>4 DEF TaskInv

\* The steps that touch the map or a process, one by one.
LEMMA WaitChildTasks == ASSUME TypeInv, TaskInv, WaitChild PROVE TaskInv'
<1>1. /\ pc \notin Ended /\ pc' \notin Ended /\ reply' = reply /\ work' = work
      /\ task_id_to_pid' = [t \in Requests |-> IF t \in Terminated THEN NoPid ELSE task_id_to_pid[t]]
      /\ proc' = [p \in Pids |-> IF p \in {task_id_to_pid[t] : t \in Terminated} THEN "none" ELSE proc[p]]
  BY DEF WaitChild, _cleanup_pids, Ended
<1>2. Tracked' = Tracked \ Terminated
  BY <1>1 DEF Tracked, Terminated
<1>3. \A t \in Tracked : work[task_id_to_pid[t]] = t /\ proc[task_id_to_pid[t]] # "none" /\ task_id_to_pid[t] \in Pids
  BY <1>1 DEF TaskInv, EntriesAreOwn, TypeInv, TypeOK, Tracked
<1>4. \A t \in Tracked' : proc'[task_id_to_pid'[t]] # "none" /\ work'[task_id_to_pid'[t]] = t
  BY <1>1, <1>2, <1>3 DEF Tracked, Terminated
<1>5. AllTracked'
  <2> SUFFICES ASSUME NEW p \in Pids, proc'[p] = "running"
               PROVE  \E t \in Tracked' : task_id_to_pid'[t] = p
    BY DEF AllTracked
  <2>1. proc[p] = "running"
    BY <1>1
  <2>2. PICK t \in Tracked : task_id_to_pid[t] = p
    BY <2>1 DEF TaskInv, AllTracked
  <2>3. t \notin Terminated
    BY <2>1, <2>2 DEF Terminated
  <2> QED BY <2>2, <2>3, <1>1, <1>2 DEF Tracked
<1>6. Cardinality(Tracked') <= pool_size
  BY <1>2, FewerTracked DEF TaskInv
<1>7. \A t \in Tracked' : reply'[t] = "ok"
  BY <1>1, <1>2 DEF TaskInv
<1>8. NoneOutside'
  BY DEF WaitChild, NoneOutside
<1> QED BY <1>4, <1>5, <1>6, <1>7, <1>8 DEF TaskInv, EntriesAreOwn

\* _remove_pid drops just the entry of the process it is given.
LEMMA RemovePid ==
    ASSUME TypeInv, EntriesAreOwn, pc \notin Ended, NEW p \in Pids
    PROVE  LET m == _remove_pid(task_id_to_pid, p)
           IN  /\ m \in [Requests -> Pids \cup {NoPid}]
               /\ \A t \in Requests : m[t] = IF task_id_to_pid[t] = p THEN NoPid ELSE task_id_to_pid[t]
<1> DEFINE entries == {t \in Requests : task_id_to_pid[t] = p}
<1>1. \A t \in entries : work[p] = t
  BY PidsAssumption DEF EntriesAreOwn, Tracked
<1>2. CASE entries = {}
  BY <1>2 DEF _remove_pid, TypeInv, TypeOK
<1>3. CASE entries # {}
  <2>1. PICK u : u \in entries
    BY <1>3
  <2>2. entries = {u} /\ (CHOOSE t \in entries : TRUE) = u
    BY <1>1, <2>1
  <2>3. _remove_pid(task_id_to_pid, p) = [task_id_to_pid EXCEPT ![u] = NoPid]
    BY <1>3, <2>2 DEF _remove_pid
  <2> QED BY <2>2, <2>3 DEF TypeInv, TypeOK
<1> QED BY <1>2, <1>3

\* Dropping the entry of a process that is not running any more.
LEMMA DropTasks ==
    ASSUME TypeInv, TaskInv, pc \notin Ended, NEW p \in Pids,
           task_id_to_pid' = _remove_pid(task_id_to_pid, p),
           \A q \in Pids \ {p} : proc'[q] = proc[q],
           proc'[p] # "running", work' = work,
           pc' \notin {"create", "exited"},
           \A q \in Requests : reply[q] = "ok" => reply'[q] = "ok"
    PROVE  TaskInv'
<1>1. \A t \in Requests : task_id_to_pid'[t] = IF task_id_to_pid[t] = p THEN NoPid ELSE task_id_to_pid[t]
  BY RemovePid DEF TaskInv
<1>2. Tracked' \subseteq Tracked /\ \A t \in Tracked' : task_id_to_pid'[t] = task_id_to_pid[t] /\ task_id_to_pid[t] # p
  BY <1>1, PidsAssumption DEF Tracked
<1>3. \A t \in Tracked' : task_id_to_pid[t] \in Pids \ {p}
  BY <1>2 DEF Tracked, TypeInv, TypeOK
<1>4. EntriesAreOwn'
  BY <1>2, <1>3 DEF TaskInv, EntriesAreOwn
<1>5. AllTracked'
  <2> SUFFICES ASSUME NEW q \in Pids, proc'[q] = "running"
               PROVE  \E t \in Tracked' : task_id_to_pid'[t] = q
    BY DEF AllTracked
  <2>1. q # p /\ proc[q] = "running"
    OBVIOUS
  <2>2. PICK t \in Tracked : task_id_to_pid[t] = q
    BY <2>1 DEF TaskInv, AllTracked
  <2> QED BY <2>1, <2>2, <1>1 DEF Tracked
<1>6. Cardinality(Tracked') <= pool_size
  BY <1>2, FewerTracked DEF TaskInv
<1>7. \A t \in Tracked' : reply'[t] = "ok"
  BY <1>2 DEF TaskInv, Tracked
<1> QED BY <1>4, <1>5, <1>6, <1>7 DEF TaskInv, NoneOutside

\* os.wait(): a zombie is reaped and its entry dropped; the ECHILD branch is
\* taken with nothing to lose.
LEMMA OsWaitTasks == ASSUME TypeInv, TaskInv, OsWait PROVE TaskInv'
<1>1. pc \notin Ended /\ pc' \notin Ended /\ reply' = reply /\ work' = work
  BY DEF OsWait, Ended
<1>2. CASE Children = {}
  <2>1. task_id_to_pid' = [t \in Requests |-> NoPid] /\ proc' = proc
    BY <1>2 DEF OsWait
  <2>2. Tracked' = {}
    BY <2>1 DEF Tracked
  <2>3. \A p \in Pids : proc'[p] # "running"
    BY <1>2, <2>1 DEF Children
  <2>4. Cardinality(Tracked') <= pool_size
    BY <2>2, FS_EmptySet, PoolAssumption
  <2> QED BY <1>1, <2>2, <2>3, <2>4 DEF TaskInv, EntriesAreOwn, AllTracked, NoneOutside
<1>3. CASE Children # {}
  <2>1. PICK p \in Pids : /\ proc[p] = "zombie"
                          /\ proc' = [proc EXCEPT ![p] = "none"]
                          /\ task_id_to_pid' = _remove_pid(task_id_to_pid, p)
    BY <1>3 DEF OsWait
  <2>2. pc' \notin {"create", "exited"}
    BY DEF OsWait
  <2> QED BY <1>1, <2>1, <2>2, DropTasks DEF TypeInv, TypeOK
<1> QED BY <1>2, <1>3

\* os.fork(): one more entry, for a task that had none and a pid nobody holds.
LEMMA ForkTasks == ASSUME TypeInv, QueueInv, TaskInv, Fork PROVE TaskInv'
<1>1. pc = "execute" /\ pc \notin Ended /\ cur \in Requests /\ pc' \notin {"create", "exited"}
  BY DEF Fork, Respond, DieWith, LoopTop, TypeInv, CurInv, Ended
<1>2. PICK p \in Pids : /\ proc[p] = "none"
                        /\ proc' = [proc EXCEPT ![p] = "running"]
                        /\ work' = [work EXCEPT ![p] = cur]
                        /\ task_id_to_pid' = [task_id_to_pid EXCEPT ![cur] = p]
  BY DEF Fork
<1>3. cur \notin Tracked
  BY <1>1 DEF TaskInv, QueueInv, Tracked
<1>4. Tracked' = Tracked \cup {cur}
  BY <1>1, <1>2, PidsAssumption DEF Tracked, TypeInv, TypeOK
<1>5. Cardinality(Tracked') <= pool_size
  <2>1. Cardinality(Tracked') = Cardinality(Tracked) + 1
    BY <1>3, <1>4, TrackedFinite, FS_AddElement
  <2>2. Cardinality(Tracked) < pool_size
    BY DEF Fork, PoolHasRoom
  <2> QED BY <2>1, <2>2, TrackedFinite, PoolAssumption
<1>6. \A t \in Tracked : /\ task_id_to_pid[t] \in Pids \ {p} /\ proc[task_id_to_pid[t]] # "none"
                         /\ work[task_id_to_pid[t]] = t /\ reply[t] = "ok" /\ t # cur
  BY <1>1, <1>2, <1>3 DEF TaskInv, EntriesAreOwn, Tracked, TypeInv, TypeOK
<1>7. EntriesAreOwn'
  <2>1. \A t \in Tracked : task_id_to_pid'[t] = task_id_to_pid[t]
    BY <1>2, <1>6 DEF TypeInv, TypeOK, Tracked
  <2>2. \A t \in Tracked : proc'[task_id_to_pid'[t]] # "none" /\ work'[task_id_to_pid'[t]] = t
    BY <1>2, <1>6, <2>1 DEF TypeInv, TypeOK
  <2>3. proc'[task_id_to_pid'[cur]] # "none" /\ work'[task_id_to_pid'[cur]] = cur
    BY <1>1, <1>2 DEF TypeInv, TypeOK
  <2> QED BY <1>4, <2>2, <2>3 DEF EntriesAreOwn
<1>8. AllTracked'
  <2> SUFFICES ASSUME NEW q \in Pids, proc'[q] = "running"
               PROVE  \E t \in Tracked' : task_id_to_pid'[t] = q
    BY DEF AllTracked
  <2>1. CASE q = p
    BY <2>1, <1>1, <1>2, <1>4 DEF TypeInv, TypeOK
  <2>2. CASE q # p
    <3>1. PICK t \in Tracked : task_id_to_pid[t] = q
      BY <1>2, <2>2 DEF TaskInv, AllTracked, TypeInv, TypeOK
    <3> QED BY <3>1, <1>2, <1>4, <1>6 DEF TypeInv, TypeOK
  <2> QED BY <2>1, <2>2
<1>9. pc' \notin Ended => \A t \in Tracked' : reply'[t] = "ok"
  <2> SUFFICES ASSUME pc' \notin Ended PROVE \A t \in Tracked' : reply'[t] = "ok"
    OBVIOUS
  <2>1. reply' = [reply EXCEPT ![cur] = "ok"]
    BY DEF Fork, Respond, DieWith, Ended
  <2> QED BY <2>1, <1>1, <1>4, <1>6 DEF TypeInv, TypeOK, ServerTypeOK, Tracked
<1> QED BY <1>1, <1>5, <1>7, <1>8, <1>9 DEF TaskInv, NoneOutside

\* cancel: the named process stops running and leaves the map.
LEMMA CancelTasks ==
    ASSUME TypeInv, QueueInv, TaskInv, NEW c \in Requests, Cancel(c),
           \A q \in Requests : reply[q] = "ok" => reply'[q] = "ok"
    PROVE  TaskInv'
<1> DEFINE p == task_id_to_pid[Target[c]]
<1>1. pc = "listen" /\ pc \notin Ended /\ pc' \notin {"create", "exited"} /\ work' = work
  BY DEF Cancel, Receive, Respond, DieWith, LoopTop, Ended
<1>2. CASE p = NoPid \/ proc[p] = "none"
  BY <1>1, <1>2, QuietTasks DEF Cancel, Ended
<1>3. CASE ~(p = NoPid \/ proc[p] = "none")
  <2>1. Target[c] \in Requests
    BY TargetAssumption DEF Cancel
  <2>2. p \in Pids
    BY <1>3, <2>1 DEF TypeInv, TypeOK
  <2>3. /\ proc' = [proc EXCEPT ![p] = IF @ = "running" THEN "killed" ELSE @]
        /\ task_id_to_pid' = _remove_pid(task_id_to_pid, p)
    BY <1>3 DEF Cancel
  <2>4. proc'[p] # "running" /\ \A q \in Pids \ {p} : proc'[q] = proc[q]
    BY <2>2, <2>3 DEF TypeInv, TypeOK
  <2> QED BY <1>1, <2>2, <2>3, <2>4, DropTasks
<1> QED BY <1>2, <1>3

\* A step that ends processes only, and leaves them to be reaped while the
\* daemon lives.
LEMMA ProcTasks ==
    ASSUME TypeInv, TaskInv, UNCHANGED <<task_id_to_pid, work>>,
           \A q \in Pids : proc'[q] = "running" => proc[q] = "running",
           \A q \in Pids : pc' \notin Ended /\ proc[q] # "none" => proc'[q] # "none",
           pc \in Ended => pc' \in Ended,
           pc' \in {"create", "exited"} => pc \in {"create", "exited"},
           reply' = reply \/ pc' \in Ended
    PROVE  TaskInv'
<1>1. Tracked' = Tracked
  BY DEF Tracked
<1>2. AllTracked' /\ Cardinality(Tracked') <= pool_size /\ NoneOutside'
  BY <1>1 DEF TaskInv, AllTracked, NoneOutside
<1>3. EntriesAreOwn'
  BY <1>1 DEF TaskInv, EntriesAreOwn, Tracked, TypeInv, TypeOK
<1> QED BY <1>1, <1>2, <1>3 DEF TaskInv

\* Every step keeps map and process table consistent.
LEMMA NextTasks ==
    ASSUME TypeInv, QueueInv, TaskInv, [Next]_vars
    PROVE  TaskInv'
<1>0. \A q \in Requests : reply[q] = "ok" => reply'[q] = "ok"
  BY NextQueue
<1>1. CASE WaitChild
  BY <1>1, WaitChildTasks
<1>2. CASE OsWait
  BY <1>2, OsWaitTasks
<1>3. CASE Fork
  BY <1>3, ForkTasks
<1>4. CASE ForkFails
  BY <1>0, <1>4, QuietTasks DEF ForkFails, Respond, DieWith, LoopTop, Ended, taskVars
<1>5. CASE Exit
  BY <1>0, <1>5, QuietTasks DEF Exit, Ended, taskVars
<1>6. CASE (Create \/ ListenTimeout \/ ListenFails \/ SigHup) /\ UNCHANGED taskVars
  <2>1. /\ pc \notin Ended \/ pc' = pc
        /\ pc' \in {"create", "exited"} => pc = "create" \/ pc' = pc
    BY <1>6 DEF Create, ListenTimeout, ListenFails, SigHup, Ended, LoopTop
  <2> QED BY <1>0, <1>6, <2>1, QuietTasks DEF taskVars
<1>7. ASSUME NEW r \in Requests, Execute(r) PROVE TaskInv'
  BY <1>0, <1>7, QuietTasks DEF Execute, Receive, taskVars, Ended
<1>8. ASSUME NEW r \in Requests, Cancel(r) PROVE TaskInv'
  BY <1>0, <1>8, CancelTasks
<1>9. ASSUME NEW r \in Requests, UNCHANGED taskVars,
             Halt(r) \/ Ping(r) \/ Unsupported(r, Handlers) \/ ReceiveGarbled(r)
      PROVE  TaskInv'
  BY <1>0, <1>9, QuietTasks
  DEF Halt, Ping, Unsupported, ReceiveGarbled, Receive, Respond, DieWith, LoopTop, Ended, taskVars
<1>10. CASE SigTerm
  BY <1>10, ProcTasks DEF SigTerm, DieWith, Ended, TypeInv, TypeOK
<1>11. ASSUME NEW p \in Pids, ChildExit(p) \/ ChildDies(p) PROVE TaskInv'
  <2>1. UNCHANGED <<serverVars, task_id_to_pid, work>> /\ proc' = [proc EXCEPT ![p] = AfterEnd]
    BY <1>11 DEF ChildExit, ChildDies
  <2> QED BY <2>1, ProcTasks DEF AfterEnd, serverVars, TypeInv, TypeOK
<1>12. ASSUME NEW r \in Requests, ClientSend(r) \/ (ClientGone(r) /\ UNCHANGED taskVars) PROVE TaskInv'
  BY <1>0, <1>12, QuietTasks DEF ClientSend, Send, ClientGone, taskVars
<1>13. CASE QueueDropped(SocketHeld) /\ UNCHANGED taskVars
  BY <1>0, <1>13, QuietTasks DEF QueueDropped, taskVars
<1>14. CASE UNCHANGED vars
  BY <1>0, <1>14, QuietTasks DEF vars, serverVars, taskVars
<1> QED
  BY <1>1, <1>2, <1>3, <1>4, <1>5, <1>6, <1>7, <1>8, <1>9, <1>10, <1>11, <1>12, <1>13, <1>14
  DEF Next, Server, Signals, Halt

\* Initially there is no process and no entry.
LEMMA InitInv == Init => QueueInv /\ TaskInv
<1> SUFFICES ASSUME Init PROVE QueueInv /\ TaskInv
  OBVIOUS
<1>1. QueueInv
  BY RequestsAssumption DEF Init, ServerInit, QueueInv, Queued, Distinct, NoClientForgotten
<1>2. Tracked = {}
  BY DEF Init, Tracked
<1>3. \A p \in Pids : proc[p] # "running"
  BY DEF Init
<1>4. Cardinality(Tracked) <= pool_size
  BY <1>2, FS_EmptySet, PoolAssumption
<1> QED BY <1>1, <1>2, <1>3, <1>4 DEF TaskInv, EntriesAreOwn, AllTracked, NoneOutside

\* The inductive invariant of the daemon.
IInv == TypeInv /\ QueueInv /\ TaskInv

\* The inductive invariant holds in every reachable state.
LEMMA Invariance == Spec => []IInv
<1>1. Init => IInv
  BY InitTypeInv, InitInv DEF IInv
<1>2. IInv /\ [Next]_vars => IInv'
  BY NextTypeInv, NextQueue, NextTasks DEF IInv
<1> QED BY <1>1, <1>2, PTL DEF Spec

\* An entry of task_id_to_pid always names an unreaped child of the daemon,
\* forked for that task: no pid is ever reused under it.
THEOREM EntriesOwn == Spec => []EntriesAreOwn
<1>1. IInv => EntriesAreOwn
  BY DEF IInv, TaskInv
<1> QED BY <1>1, Invariance, PTL

\* While the daemon lives every running storlet is in its map.
THEOREM StorletsTracked == Spec => []NoStorletForgotten
<1>1. IInv => NoStorletForgotten
  BY DEF IInv, TaskInv, AllTracked, NoStorletForgotten
<1> QED BY <1>1, Invariance, PTL

\* The daemon's process never returns from main_loop with a storlet running.
THEOREM GracefulExit == Spec => []ExitLeavesNoStorlet
<1>1. IInv => ExitLeavesNoStorlet
  BY DEF IInv, TaskInv, NoneOutside, ExitLeavesNoStorlet
<1> QED BY <1>1, Invariance, PTL

\* Never more than pool_size storlets run, for any pool size: the running
\* processes are among the pids in the map, and the map has at most pool_size
\* entries.
THEOREM PoolBounded == Spec => []PoolBound
<1>1. IInv => PoolBound
  <2> SUFFICES ASSUME IInv PROVE PoolBound
    OBVIOUS
  <2> DEFINE Run == {p \in Pids : proc[p] = "running"}
             Img == {task_id_to_pid[t] : t \in Tracked}
             f == [t \in Tracked |-> task_id_to_pid[t]]
  <2>1. Run \subseteq Img
    BY DEF IInv, TaskInv, AllTracked
  <2>2. IsFiniteSet(Img) /\ Cardinality(Img) <= Cardinality(Tracked)
    <3>1. f \in Surjection(Tracked, Img)
      BY DEF Surjection
    <3> QED BY <3>1, TrackedFinite, FS_Surjection
  <2>3. IsFiniteSet(Run) /\ Cardinality(Run) <= Cardinality(Img)
    BY <2>1, <2>2, FS_Subset
  <2>4. Cardinality(Img) \in Nat /\ Cardinality(Run) \in Nat
    BY <2>2, <2>3, FS_CardinalityType
  <2>5. Cardinality(Tracked) <= pool_size
    BY DEF IInv, TaskInv
  <2> QED BY <2>2, <2>3, <2>4, <2>5, TrackedFinite, PoolAssumption DEF PoolBound
<1> QED BY <1>1, Invariance, PTL

\* What a client has read never changes: no request is answered twice.
THEOREM AnswersFinal == Spec => AnsweredOnce
<1>1. IInv /\ [Next]_vars =>
        [\A r \in Requests :
            reply[r] \in {"ok", "fail", "eof", "refused"} => reply'[r] = reply[r]]_vars
  BY NextQueue DEF IInv
<1> QED BY <1>1, Invariance, PTL DEF Spec, AnsweredOnce

\* SIGKILL reaches a running storlet only through a CANCEL of its own task or
\* the daemon's SIGTERM, even when its pid was another task's before.
THEOREM CancelHitsItsTask == Spec => KilledOnlyByItsCancel
<1> DEFINE Struck(p) == proc[p] = "running" /\ proc'[p] = "killed"
           Cause(p) == \/ pc' = "dead" /\ inbox' = inbox
                       \/ /\ inbox # <<>>
                          /\ Command[Head(inbox)] = "CANCEL"
                          /\ work[p] = Target[Head(inbox)]
<1>1. ASSUME IInv, [Next]_vars, NEW p \in Pids, Struck(p) PROVE Cause(p)
  <2> USE <1>1 DEF IInv, TypeInv, TypeOK
  <2>1. proc' # proc
    OBVIOUS
  <2>2. CASE WaitChild \/ OsWait \/ Fork \/ ForkFails \/ Exit
    BY <2>2 DEF WaitChild, _cleanup_pids, OsWait, Fork, ForkFails, Exit, taskVars
  <2>3. ASSUME NEW r \in Requests, Cancel(r) PROVE Cause(p)
    <3> DEFINE t == Target[r]
    <3>1. /\ inbox # <<>> /\ r = Head(inbox) /\ Command[r] = "CANCEL" /\ t \in Requests
          /\ pc \notin Ended
      BY <2>3, TargetAssumption DEF Cancel, Receive, Ended
    <3>2. task_id_to_pid[t] = p
      BY <2>3, <3>1 DEF Cancel
    <3>3. work[p] = t
      BY <3>1, <3>2, PidsAssumption DEF TaskInv, EntriesAreOwn, Tracked
    <3> QED BY <3>1, <3>3
  <2>4. CASE SigTerm
    BY <2>4 DEF SigTerm, DieWith
  <2>5. ASSUME NEW q \in Pids, ChildExit(q) \/ ChildDies(q) PROVE Cause(p)
    BY <2>5 DEF ChildExit, ChildDies, AfterEnd
  <2> QED
    BY <2>1, <2>2, <2>3, <2>4, <2>5
    DEF Next, Server, Signals, Execute, Halt, ClientSend, taskVars, vars
<1>2. IInv /\ [Next]_vars => [\A p \in Pids : Struck(p) => Cause(p)]_vars
  BY <1>1
<1> QED BY <1>2, Invariance, PTL DEF Spec, KilledOnlyByItsCancel
============================================================================
