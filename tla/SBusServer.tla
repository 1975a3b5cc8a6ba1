---------------------------- MODULE SBusServer ----------------------------
(***************************************************************************)
(* The part common to the two servers that run inside a sandbox, the       *)
(* storlet daemon and the daemon factory: the SBus datagram socket, the    *)
(* main loop, the dispatching of one command at a time, the response       *)
(* written to the client's service pipe, and the ways the loop ends        *)
(* (storlets/agent/common/server.py, storlets/sbus/, src/c/sbus/sbus.c).   *)
(*                                                                         *)
(* A server module EXTENDS this one, adds the state of its own handlers    *)
(* and completes the actions below with UNCHANGED of that state.           *)
(*                                                                         *)
(* A request is one datagram together with the pipe on which its client    *)
(* waits for the answer: `reply' is what that client has seen so far.      *)
(***************************************************************************)
EXTENDS Naturals, Sequences, FiniteSets

CONSTANTS
    Requests,   \* the datagrams clients may send during the server's life
    NoRequest,  \* no request: the server is between two commands
    Command,    \* Command[r]: the SBUS_CMD_ of r, or "GARBLED"
    Impatient,  \* the requests whose clients may leave before the answer
    IdleLimit   \* listen_timeout / loop_timeout, 300 s / 0.5 s in the code

ASSUME RequestsAssumption == IsFiniteSet(Requests) /\ NoRequest \notin Requests
ASSUME IdleLimitAssumption == IdleLimit \in Nat \ {0}

VARIABLES
    pc,        \* where the server process is
    running,   \* self.running, cleared by SIGHUP
    loop_cnt,  \* consecutive listens that timed out
    status,    \* the exit status main_loop() will return
    bound,     \* the server process holds the bound SBus socket
    inbox,     \* datagrams queued in the socket
    cur,       \* the request a handler is working on across several steps
    reply      \* what the client of each request has seen

serverVars == <<pc, running, loop_cnt, status, bound, inbox, cur, reply>>

\* "unsent": not issued yet; "sent": waiting for the answer; "ok"/"fail": the
\* CommandResponse; "eof": the pipe was closed unanswered; "refused": sendmsg
\* failed; "gone": the client closed its end of the pipe before the answer.
Replies == {"unsent", "sent", "ok", "fail", "eof", "refused", "gone"}

\* "exited": main_loop() returned; "dead": killed, or left by an exception.
Ended == {"exited", "dead"}

Queued == {inbox[i] : i \in DOMAIN inbox}

----------------------------------------------------------------------------
\* SBusServer.__init__ and the start of main_loop, before sbus.create.
ServerInit ==
    /\ pc = "create"
    /\ running = TRUE
    /\ loop_cnt = 0
    /\ status = "success"
    /\ bound = FALSE
    /\ inbox = <<>>
    /\ cur = NoRequest
    /\ reply = [r \in Requests |-> "unsent"]

\* sbus.create: unlink, bind, chmod.  A failure returns EXIT_FAILURE at once,
\* without _terminate.
Create ==
    /\ pc = "create"
    /\ \/ pc' = "listen" /\ bound' = TRUE /\ status' = status
       \/ pc' = "exited" /\ bound' = FALSE /\ status' = "failure"
    /\ UNCHANGED <<running, loop_cnt, inbox, cur, reply>>

\* Back at the `while self.running' test.
LoopTop == IF running THEN "listen" ELSE "terminate"

\* Bug: one listen too many before an idle server leaves.
ListenTimeoutLate ==
    /\ pc = "listen"
    /\ inbox = <<>>
    /\ loop_cnt' = loop_cnt + 1
    /\ pc' = IF loop_cnt' > IdleLimit THEN "terminate" ELSE LoopTop
    /\ UNCHANGED <<running, status, bound, inbox, cur, reply>>

\* Bug: the idle rounds are not counted.
ListenTimeoutUncounted ==
    /\ pc = "listen"
    /\ inbox = <<>>
    /\ pc' = LoopTop
    /\ UNCHANGED <<running, loop_cnt, status, bound, inbox, cur, reply>>

\* select() timed out with nothing queued: count it, leave when idle for too long.
ListenTimeout ==
    /\ pc = "listen"
    /\ inbox = <<>>
    /\ loop_cnt' = loop_cnt + 1
    /\ pc' = IF loop_cnt' >= IdleLimit THEN "terminate" ELSE LoopTop
    /\ UNCHANGED <<running, status, bound, inbox, cur, reply>>

\* select() or recvmsg() failed: leave the loop with EXIT_FAILURE.  recvmsg
\* fails only after select() announced a datagram, and sbus_recv_msg then
\* closes the socket.
ListenFails ==
    /\ pc = "listen"
    /\ pc' = "terminate"
    /\ status' = "failure"
    /\ \/ bound' = bound /\ loop_cnt' = loop_cnt
       \/ inbox # <<>> /\ bound' = FALSE /\ loop_cnt' = 0
    /\ UNCHANGED <<running, inbox, cur, reply>>

\* Bug: the datagram is looked at and left in the socket.
ReceivePeek(r) ==
    /\ pc = "listen"
    /\ inbox # <<>>
    /\ r = Head(inbox)
    /\ inbox' = inbox
    /\ loop_cnt' = 0

\* The next datagram is r and the loop takes it off the socket.
Receive(r) ==
    /\ pc = "listen"
    /\ inbox # <<>>
    /\ r = Head(inbox)
    /\ inbox' = Tail(inbox)
    /\ loop_cnt' = 0

\* The process ends without _terminate: the kernel closes its descriptors, so
\* the clients of the requests in S read end-of-file.
DieWith(S) ==
    /\ pc' = "dead"
    /\ status' = "failure"
    /\ bound' = FALSE
    /\ cur' = NoRequest
    /\ reply' = [q \in Requests |->
                    IF q \in S /\ reply[q] = "sent" THEN "eof" ELSE reply[q]]

\* The tail of dispatch_command: write the response on r's pipe and close it,
\* then go round the loop or leave it.  The text sits in the buffer of the
\* file object until the `with' block closes it, outside the try of _respond:
\* when the client is gone the BrokenPipeError leaves main_loop.
Respond(r, answer, iterable) ==
    IF reply[r] = "gone"
      THEN DieWith({r})
      ELSE /\ reply' = [reply EXCEPT ![r] = answer]
           /\ pc' = IF iterable THEN LoopTop ELSE "terminate"
           /\ cur' = NoRequest
           /\ UNCHANGED <<status, bound>>

\* A datagram that sbus.receive cannot decode (truncated at MAX_MSG_LENGTH,
\* wrong descriptor types): ValueError leaves main_loop.
ReceiveGarbled(r) ==
    /\ Receive(r)
    /\ Command[r] = "GARBLED"
    /\ DieWith({r})
    /\ UNCHANGED running

\* The ping handler.
Ping(r) ==
    /\ Receive(r)
    /\ Command[r] = "PING"
    /\ Respond(r, "ok", TRUE)
    /\ UNCHANGED running

\* Bug: the ValueError of get_handler is logged and nothing is answered.
UnsupportedSilent(r, handlers) ==
    /\ Receive(r)
    /\ Command[r] \notin handlers \cup {"GARBLED"}
    /\ pc' = LoopTop
    /\ UNCHANGED <<running, status, bound, cur, reply>>

\* get_handler raises ValueError: answered as a failure, the loop goes on.
Unsupported(r, handlers) ==
    /\ Receive(r)
    /\ Command[r] \notin handlers \cup {"GARBLED"}
    /\ Respond(r, "fail", TRUE)
    /\ UNCHANGED running

\* SIGHUP, _graceful_shutdown.  It interrupts the select() of a listening
\* server (rc < 0), unless it arrives just before the call.
SigHup ==
    /\ pc \notin Ended \cup {"create"}
    /\ running
    /\ running' = FALSE
    /\ \/ UNCHANGED <<pc, status>>
       \/ pc = "listen" /\ pc' = "terminate" /\ status' = "failure"
    /\ UNCHANGED <<loop_cnt, bound, inbox, cur, reply>>

----------------------------------------------------------------------------
(***************************************************************************)
(* Clients (SBusClient._request): each request is sent once.  `held' says  *)
(* whether some process still holds the server's socket.                   *)
(***************************************************************************)
Send(r, held) ==
    /\ reply[r] = "unsent"
    /\ IF held
         THEN inbox' = Append(inbox, r) /\ reply' = [reply EXCEPT ![r] = "sent"]
         ELSE inbox' = inbox /\ reply' = [reply EXCEPT ![r] = "refused"]
    /\ UNCHANGED <<pc, running, loop_cnt, status, bound, cur>>

\* The client stops waiting (its StorletTimeout fires in os.read, or its
\* process ends) and its end of the pipe is closed.
ClientGone(r) ==
    /\ r \in Impatient
    /\ reply[r] = "sent"
    /\ reply' = [reply EXCEPT ![r] = "gone"]
    /\ UNCHANGED <<pc, running, loop_cnt, status, bound, inbox, cur>>

\* The last holder of the socket is gone: the kernel discards the datagrams
\* still queued and with them the last write end of each client's pipe.
QueueDropped(held) ==
    /\ ~held
    /\ inbox # <<>>
    /\ inbox' = <<>>
    /\ reply' = [r \in Requests |->
                    IF r \in Queued /\ reply[r] = "sent" THEN "eof" ELSE reply[r]]
    /\ UNCHANGED <<pc, running, loop_cnt, status, bound, cur>>

----------------------------------------------------------------------------
FlagsTypeOK == running \in BOOLEAN /\ bound \in BOOLEAN

\* handlerPcs: where a handler of the server may be suspended.
ServerTypeOK(handlerPcs) ==
    /\ FlagsTypeOK
    /\ pc \in {"create", "listen", "terminate"} \cup handlerPcs \cup Ended
    /\ loop_cnt \in 0 .. IdleLimit
    /\ status \in {"success", "failure"}
    /\ inbox \in Seq(Requests)
    /\ cur \in Requests \cup {NoRequest}
    /\ reply \in [Requests -> Replies]

\* A client that waits for an answer is never forgotten: its request is in the
\* socket's queue or in the hands of a handler of a live server
\* (dispatch_command answers on every path).
NoClientForgotten ==
    \A r \in Requests :
        reply[r] = "sent" => r \in Queued \/ (r = cur /\ pc \notin Ended)

\* Every client gets an answer or an end-of-file (or has left), provided
\* storlets return: no order of requests, signals and ends of children leaves
\* a client waiting for ever.
EveryRequestSettled ==
    \A r \in Requests : reply[r] = "sent" ~> reply[r] # "sent"
============================================================================
