------------------------- MODULE StorletInvocation -------------------------
(***************************************************************************)
(* The invocations one worker process of Swift has under way               *)
(* (StorletInvocationProtocol, FileDescriptorIterator) against one daemon. *)
(* Each has a green thread that sends EXECUTE, waits for metadata and      *)
(* data, and hands the data to the client, and a second one that writes    *)
(* the request's body to the storlet.                                      *)
(*                                                                         *)
(* eventlet.monkey_patch() makes select and writes through os.fdopen give  *)
(* way to other green threads; os.read of the (blocking) service pipe does *)
(* not: while a worker waits for the answer to EXECUTE or CANCEL none of   *)
(* its green threads runs and no timeout fires.  When it runs on, the      *)
(* timers that are due fire before descriptors are polled: a timeout may   *)
(* strike although what it waits for has come.                             *)
(*                                                                         *)
(* All invocations share the worker's descriptor numbers, and the kernel   *)
(* always hands out the lowest free one.                                   *)
(***************************************************************************)
EXTENDS Naturals, Sequences, FiniteSets

CONSTANTS
    Invocations,
    HasFd,       \* those whose input is handed over as a descriptor
    pool_size,   \* of the daemon
    Chunks,      \* bound: chunks of the body, and of the storlet's output
    Capacity,    \* bound: chunks a pipe holds
    MaxFd,       \* bound: descriptors the worker can have for this
    NoFd,
    Failing,     \* bound: those whose pipes may not open or whose storlet may crash
    Stops        \* whether the daemon may be halted or killed, or end idle

ASSUME InvocationsAssumption == HasFd \subseteq Invocations
ASSUME PipesAssumption ==
    Chunks \in Nat /\ Capacity \in Nat \ {0} /\ MaxFd \in Nat

VARIABLES
    pc,       \* the main green thread of each invocation
    writer,   \* its writing green thread
    num,      \* num[i][e]: the attribute that holds the number of end e
    table,    \* the worker's descriptor table: which end a number leads to
    robbed,   \* history: those that had a descriptor closed by another one
    sent,     \* chunks of the body written
    got,      \* chunks of output the client has been given
    result,   \* how the invocation looked to the client
    chan,     \* chan[i][e]: what there is to read at the read end e
    storlet,  \* the storlet process
    crashed,  \* the storlet ended before its time
    daemon    \* its main loop runs, it waits for its children, or it is gone

gatewayVars == <<pc, writer, num, table, robbed, sent, got, result>>
vars == <<gatewayVars, chan, storlet, crashed, daemon>>

\* What _invoke opens, in this order: the log file and the three pipes.
PipeEnds(i) ==
    IF i \in HasFd THEN <<"log", "out_r", "out_w", "md_r", "md_w">>
                   ELSE <<"log", "in_r", "in_w", "out_r", "out_w", "md_r", "md_w">>

Ends == {"log", "in_r", "in_w", "out_r", "out_w", "md_r", "md_w"}
ReadEnds == {"in_r", "out_r", "md_r"}
WriteEnd == [in_r |-> "in_w", out_r |-> "out_w", md_r |-> "md_w"]
RemoteEnds == {"log", "in_r", "out_w", "md_w"}

Free == <<>>
Numbers == 1 .. MaxFd
ASSUME NoFdAssumption == NoFd \notin Numbers

\* What an end is open in: the worker, or the storlet's process (before the
\* fork: the datagram with EXECUTE).
Here(i, e) == \E n \in Numbers : table[n] = <<i, e>>
Running(i) == storlet[i] \in {"metadata", "read", "write"}
Holds(i, e) ==
    \/ Here(i, e)
    \/ e \in {"in_r", "out_w"} /\ (storlet[i] = "queued" \/ Running(i))
    \/ e = "md_w" /\ storlet[i] \in {"queued", "metadata"}

\* What the number an invocation remembers for e leads to by now.
Leads(i, e) == IF num[i][e] = NoFd THEN Free ELSE table[num[i][e]]

\* Some green thread blocks the whole process.
Blocked == \E i \in Invocations : pc[i] \in {"answer", "cancel"}

Init ==
    /\ pc = [i \in Invocations |-> "start"]
    /\ writer = [i \in Invocations |-> "none"]
    /\ num = [i \in Invocations |-> [e \in Ends |-> NoFd]]
    /\ table = [n \in Numbers |-> Free]
    /\ robbed = {}
    /\ sent = [i \in Invocations |-> 0]
    /\ got = [i \in Invocations |-> 0]
    /\ result = [i \in Invocations |-> "none"]
    /\ chan = [i \in Invocations |->
                  [e \in ReadEnds |-> IF e = "in_r" /\ i \in HasFd THEN Chunks ELSE 0]]
    /\ storlet = [i \in Invocations |-> "none"]
    /\ crashed = {}
    /\ daemon = "up"

----------------------------------------------------------------------------
\* The descriptors of `ends' are opened, and of these those of `stay' kept.
Open(i, ends, stay) ==
    LET rank(n) == 1 + Cardinality({m \in 1 .. (n - 1) : table[m] = Free})
        given(e) == {n \in Numbers : table[n] = Free /\ rank(n) \in DOMAIN ends /\ ends[rank(n)] = e}
    IN  /\ \A j \in DOMAIN ends : given(ends[j]) # {}
        /\ num' = [num EXCEPT ![i] = [e \in Ends |->
                      IF given(e) = {} THEN NoFd ELSE CHOOSE n \in given(e) : TRUE]]
        /\ table' = [n \in Numbers |->
                        IF \E e \in stay : n \in given(e)
                          THEN <<i, CHOOSE e \in stay : n \in given(e)>> ELSE table[n]]

\* os.close of the numbers remembered for the ends of S, whatever they lead to.
CloseFds(i, S) ==
    LET closed == {num[i][e] : e \in S}
    IN  /\ table' = [n \in Numbers |-> IF n \in closed THEN Free ELSE table[n]]
        /\ robbed' = robbed \cup {j \in Invocations \ {i} :
                         \E n \in closed \cap Numbers, e \in Ends : table[n] = <<j, e>>}

\* Bug: the output pipe stays open when an invocation fails.
FailOpen(i, S) ==
    /\ CloseFds(i, S \cup {"md_r"})
    /\ pc' = [pc EXCEPT ![i] = "over"]
    /\ result' = [result EXCEPT ![i] = "error"]
    /\ UNCHANGED <<writer, num, sent, got, crashed>>

\* The exception handler of communicate, with the ends S closed on the way to
\* it: it closes data_read_fd and metadata_read_fd, open or not.
Fail(i, S) ==
    /\ CloseFds(i, S \cup {"out_r", "md_r"})
    /\ pc' = [pc EXCEPT ![i] = "over"]
    /\ result' = [result EXCEPT ![i] = "error"]
    /\ UNCHANGED <<writer, num, sent, got, crashed>>

----------------------------------------------------------------------------
\* _invoke up to the answer: open the pipes and send them with EXECUTE.
Invoke(i) ==
    /\ pc[i] = "start" /\ ~Blocked
    /\ Open(i, PipeEnds(i), Ends)
    /\ pc' = [pc EXCEPT ![i] = "answer"]
    /\ storlet' = [storlet EXCEPT ![i] = "queued"]
    /\ UNCHANGED <<writer, robbed, sent, got, result, chan, crashed, daemon>>

\* The log file or, after n descriptors, a pipe cannot be opened.  The handler
\* closes data_read_fd if there is one and fails on the next attribute, which
\* is None.
InvokeFails(i) ==
    /\ i \in Failing /\ pc[i] = "start" /\ ~Blocked
    /\ \E n \in {m \in 0 .. Len(PipeEnds(i)) - 1 : m = 0 \/ m % 2 = 1} :
           Open(i, SubSeq(PipeEnds(i), 1, n), Ends \ {"log", "out_r"})
    /\ pc' = [pc EXCEPT ![i] = "over"]
    /\ result' = [result EXCEPT ![i] = "error"]
    /\ UNCHANGED <<writer, robbed, sent, got, chan, storlet, crashed, daemon>>

\* Bug: has_fd is not looked at.
AnswerNoTest(i) ==
    /\ pc[i] = "answer" /\ storlet[i] \notin {"none", "queued"}
    /\ CloseFds(i, RemoteEnds)
    /\ pc' = [pc EXCEPT ![i] = "writable"]
    /\ UNCHANGED <<writer, num, sent, got, result, chan, storlet, crashed, daemon>>

\* The answer comes with a task id: close the storlet's ends here.
Answer(i) ==
    /\ pc[i] = "answer" /\ storlet[i] \notin {"none", "queued"}
    /\ CloseFds(i, RemoteEnds)
    /\ pc' = [pc EXCEPT ![i] = IF i \in HasFd THEN "metadata" ELSE "writable"]
    /\ UNCHANGED <<writer, num, sent, got, result, chan, storlet, crashed, daemon>>

\* The children of a daemon hold its socket too, read or not.
SocketOpen == daemon # "gone" \/ \E j \in Invocations : Running(j)

Room == Cardinality({j \in Invocations : Running(j)}) < pool_size

\* The daemon cannot be reached: EXECUTE is not taken, or thrown away unread.
Refused(i) ==
    /\ pc[i] = "answer" /\ storlet[i] = "queued" /\ ~SocketOpen
    /\ Fail(i, RemoteEnds)
    /\ storlet' = [storlet EXCEPT ![i] = "none"]
    /\ UNCHANGED <<chan, daemon>>

\* The daemon cannot fork, or is killed before it answers.
AnswerFails(i) ==
    /\ pc[i] = "answer"
    /\ daemon = "gone" \/ (storlet[i] = "queued" /\ daemon = "up" /\ Room)
    /\ Fail(i, RemoteEnds)
    /\ storlet' = [storlet EXCEPT ![i] = IF @ = "queued" THEN "none" ELSE @]
    /\ UNCHANGED <<chan, daemon>>

\* select finds something to read at the end e of j, or that nothing will come.
Readable(j, e) == chan[j][e] > 0 \/ ~Holds(j, WriteEnd[e])

\* The input pipe can be written to: start the writing thread.
Writable(i) ==
    /\ pc[i] = "writable" /\ ~Blocked
    /\ \E j \in Invocations :
           /\ Leads(i, "in_w") = <<j, "in_w">>
           /\ chan[j]["in_r"] < Capacity \/ ~Holds(j, "in_r")
    /\ pc' = [pc EXCEPT ![i] = "metadata"]
    /\ writer' = [writer EXCEPT ![i] = "run"]
    /\ UNCHANGED <<num, table, robbed, sent, got, result, chan, storlet, crashed, daemon>>

\* _read_metadata: read and close.
Metadata(i) ==
    /\ pc[i] = "metadata" /\ ~Blocked
    /\ \E j \in Invocations, e \in ReadEnds :
           /\ Leads(i, "md_r") = <<j, e>> /\ chan[j][e] > 0
           /\ chan' = [chan EXCEPT ![j][e] = @ - 1]
    /\ CloseFds(i, {"md_r"})
    /\ pc' = [pc EXCEPT ![i] = "data"]
    /\ UNCHANGED <<writer, num, sent, got, result, storlet, crashed, daemon>>

\* What it reads is no metadata, nothing at all for one: the decoder raises.
NoMetadata(i) ==
    /\ pc[i] = "metadata" /\ ~Blocked
    /\ \E j \in Invocations, e \in ReadEnds :
           /\ Leads(i, "md_r") = <<j, e>> /\ Readable(j, e)
           /\ chan[j][e] = 0 \/ e # "md_r"
           /\ chan' = [chan EXCEPT ![j][e] = IF @ > 0 THEN @ - 1 ELSE 0]
    /\ Fail(i, {})
    /\ UNCHANGED <<storlet, daemon>>

\* The output can be read: communicate returns.
Data(i) ==
    /\ pc[i] = "data" /\ ~Blocked
    /\ \E j \in Invocations, e \in ReadEnds : Leads(i, "out_r") = <<j, e>> /\ Readable(j, e)
    /\ pc' = [pc EXCEPT ![i] = "reading"]
    /\ UNCHANGED <<writer, num, table, robbed, sent, got, result, chan, storlet, crashed, daemon>>

\* The end communicate waits for.
Awaited(i) == [writable |-> "in_w", metadata |-> "md_r", data |-> "out_r"][pc[i]]
Waits(i) == pc[i] \in {"writable", "metadata", "data"}

\* select on a number that is closed raises.
WaitFails(i) ==
    /\ Waits(i) /\ ~Blocked
    /\ Leads(i, Awaited(i)) = Free
    /\ Fail(i, {})
    /\ UNCHANGED <<chan, storlet, daemon>>

\* Bug: select without a time limit.
TimeoutNever(i) == FALSE /\ UNCHANGED vars

\* StorletTimeout while communicate waits to read: it cancels the task.
Timeout(i) ==
    /\ pc[i] \in {"metadata", "data"} /\ ~Blocked
    /\ pc' = [pc EXCEPT ![i] = "cancel"]
    /\ UNCHANGED <<writer, num, table, robbed, sent, got, result, chan, storlet, crashed, daemon>>

\* StorletTimeout while communicate waits to write: nothing is cancelled.
WriteTimeout(i) ==
    /\ pc[i] = "writable" /\ ~Blocked
    /\ Fail(i, {})
    /\ UNCHANGED <<chan, storlet, daemon>>

\* _cancel has its answer from the daemon: the task is killed, if there still is
\* one.  Whatever the answer, the daemon leaves its main loop.
Cancelled(i) ==
    /\ pc[i] = "cancel" /\ daemon = "up"
    /\ storlet' = [storlet EXCEPT ![i] = "ended"]
    /\ daemon' = "leaving"
    /\ Fail(i, {})
    /\ UNCHANGED chan

\* CANCEL is not taken, or thrown away unread with the daemon's socket.
CancelRefused(i) ==
    /\ pc[i] = "cancel" /\ ~SocketOpen
    /\ Fail(i, {})
    /\ UNCHANGED <<chan, storlet, daemon>>

\* There is no descriptor left for the answer, or the daemon is killed with
\* CANCEL in hand.
CancelFails(i) ==
    /\ pc[i] = "cancel"
    /\ Fail(i, {})
    /\ UNCHANGED <<chan, storlet, daemon>>

----------------------------------------------------------------------------
\* The iterator is closed, by its user or by __del__.
Close(i, how) ==
    /\ CloseFds(i, {"out_r"})
    /\ pc' = [pc EXCEPT ![i] = "over"]
    /\ result' = [result EXCEPT ![i] = how]

\* FileDescriptorIterator.next: a chunk.
NextChunk(i) ==
    /\ pc[i] = "reading" /\ ~Blocked
    /\ \E j \in Invocations, e \in ReadEnds :
           /\ Leads(i, "out_r") = <<j, e>> /\ chan[j][e] > 0
           /\ chan' = [chan EXCEPT ![j][e] = @ - 1]
    /\ got' = [got EXCEPT ![i] = @ + 1]
    /\ UNCHANGED <<pc, writer, num, table, robbed, sent, result, storlet, crashed, daemon>>

\* Bug: the other end's close is taken for the end of the data.
NextHangUp(i) ==
    /\ pc[i] = "reading" /\ ~Blocked
    /\ \E j \in Invocations, e \in ReadEnds :
           Leads(i, "out_r") = <<j, e>> /\ ~Holds(j, WriteEnd[e])
    /\ Close(i, "complete")
    /\ UNCHANGED <<writer, num, sent, got, chan, storlet, crashed, daemon>>

\* The end of the data.
NextStops(i) ==
    /\ pc[i] = "reading" /\ ~Blocked
    /\ \E j \in Invocations, e \in ReadEnds :
           Leads(i, "out_r") = <<j, e>> /\ Readable(j, e) /\ chan[j][e] = 0
    /\ Close(i, "complete")
    /\ UNCHANGED <<writer, num, sent, got, chan, storlet, crashed, daemon>>

\* select times out (the iteration ends as if the data had) or raises, or the
\* client goes.
NextEnds(i) ==
    /\ pc[i] = "reading" /\ ~Blocked
    /\ Close(i, "cut")
    /\ UNCHANGED <<writer, num, sent, got, chan, storlet, crashed, daemon>>

----------------------------------------------------------------------------
\* _write_input_data writes a chunk of the body.
WriteChunk(i) ==
    /\ writer[i] = "run" /\ ~Blocked /\ sent[i] < Chunks
    /\ \E j \in Invocations :
           /\ Leads(i, "in_w") = <<j, "in_w">>
           /\ Holds(j, "in_r") /\ chan[j]["in_r"] < Capacity
           /\ chan' = [chan EXCEPT ![j]["in_r"] = @ + 1]
    /\ sent' = [sent EXCEPT ![i] = @ + 1]
    /\ UNCHANGED <<pc, writer, num, table, robbed, got, result, storlet, crashed, daemon>>

\* Bug: the input pipe is not closed.
WriteEndsOpen(i) ==
    /\ writer[i] = "run" /\ ~Blocked
    /\ writer' = [writer EXCEPT ![i] = "done"]
    /\ UNCHANGED <<pc, num, table, robbed, sent, got, result, chan, storlet, crashed, daemon>>

\* It closes the input pipe: at the end of the body, on a broken pipe or closed
\* number, when a write times out, or when the body cannot be read on.
WriteEnds(i) ==
    /\ writer[i] = "run" /\ ~Blocked
    /\ writer' = [writer EXCEPT ![i] = "done"]
    /\ CloseFds(i, {"in_w"})
    /\ UNCHANGED <<pc, num, sent, got, result, chan, storlet, crashed, daemon>>

\* What is left in the writer's buffer goes out before that, without a time
\* limit: the pipe must have room, or break.
Flushes(i) ==
    \/ Leads(i, "in_w") # <<i, "in_w">>
    \/ chan[i]["in_r"] < Capacity \/ ~Holds(i, "in_r")

----------------------------------------------------------------------------
\* The daemon's execute: it waits for room in the pool, and forks.
DaemonForks(i) ==
    /\ storlet[i] = "queued" /\ daemon = "up" /\ Room
    /\ storlet' = [storlet EXCEPT ![i] = "metadata"]
    /\ UNCHANGED <<gatewayVars, chan, crashed, daemon>>

\* Its children have ended: _terminate returns.
DaemonEnds ==
    /\ daemon = "leaving" /\ \A i \in Invocations : ~Running(i)
    /\ daemon' = "gone"
    /\ UNCHANGED <<gatewayVars, chan, storlet, crashed>>

\* The daemon is killed; or it is halted or has been idle for long, and then
\* finishes the command it is at.
DaemonStops ==
    /\ Stops
    /\ \/ daemon # "gone" /\ daemon' = "gone"
       \/ /\ daemon = "up" /\ \A i \in Invocations : storlet[i] # "queued"
          /\ daemon' = "leaving"
    /\ UNCHANGED <<gatewayVars, chan, storlet, crashed>>

\* The storlet sets its metadata, then copies its input to its output; a pipe
\* without reader ends it.
StorletStep(i) ==
    /\ \/ /\ storlet[i] = "metadata"
          /\ chan' = [chan EXCEPT ![i]["md_r"] = 1]
          /\ storlet' = [storlet EXCEPT ![i] = IF Here(i, "md_r") THEN "read" ELSE "ended"]
       \/ /\ storlet[i] = "read" /\ chan[i]["in_r"] > 0
          /\ chan' = [chan EXCEPT ![i]["in_r"] = @ - 1]
          /\ storlet' = [storlet EXCEPT ![i] = "write"]
       \/ /\ storlet[i] = "read" /\ chan[i]["in_r"] = 0 /\ ~Here(i, "in_w")
          /\ chan' = chan
          /\ storlet' = [storlet EXCEPT ![i] = "ended"]
       \/ /\ storlet[i] = "write" /\ Here(i, "out_r") /\ chan[i]["out_r"] < Capacity
          /\ chan' = [chan EXCEPT ![i]["out_r"] = @ + 1]
          /\ storlet' = [storlet EXCEPT ![i] = "read"]
       \/ /\ storlet[i] = "write" /\ ~Here(i, "out_r")
          /\ chan' = chan
          /\ storlet' = [storlet EXCEPT ![i] = "ended"]
    /\ UNCHANGED <<gatewayVars, crashed, daemon>>

\* The storlet ends early, by an exception or a signal.
StorletCrashes(i) ==
    /\ i \in Failing /\ Running(i)
    /\ storlet' = [storlet EXCEPT ![i] = "ended"]
    /\ crashed' = crashed \cup {i}
    /\ UNCHANGED <<gatewayVars, chan, daemon>>

----------------------------------------------------------------------------
communicate(i) ==
    \/ Invoke(i) \/ Answer(i) \/ Refused(i)
    \/ Writable(i) \/ Metadata(i) \/ NoMetadata(i) \/ Data(i)
    \/ WaitFails(i) \/ Timeout(i) \/ WriteTimeout(i)
    \/ Cancelled(i) \/ CancelRefused(i)

communicate_fails(i) == InvokeFails(i) \/ AnswerFails(i) \/ CancelFails(i)

data_iter(i) == NextChunk(i) \/ NextStops(i) \/ NextEnds(i)
_write_input_data(i) == WriteChunk(i) \/ WriteEnds(i)

Next ==
    \/ \E i \in Invocations :
          \/ communicate(i) \/ communicate_fails(i)
          \/ data_iter(i) \/ _write_input_data(i)
          \/ DaemonForks(i) \/ StorletStep(i) \/ StorletCrashes(i)
    \/ DaemonEnds \/ DaemonStops

Spec == Init /\ [][Next]_vars

\* Every green thread runs on unless it is stuck in a flush, clients read or go
\* away, and the daemon serves its socket while it is in its main loop; storlets
\* may hang.
HungSpec ==
    /\ Spec
    /\ \A i \in Invocations : /\ WF_vars(communicate(i) \/ data_iter(i))
                              /\ WF_vars(WriteChunk(i) \/ (Flushes(i) /\ WriteEnds(i)))
    /\ WF_vars(DaemonEnds \/ \E i \in Invocations : DaemonForks(i))

\* Storlets do not hang either.
FairSpec == HungSpec /\ \A i \in Invocations : WF_vars(StorletStep(i))

----------------------------------------------------------------------------
\* Type invariant.  A descriptor that is open is one its invocation knows by its
\* number, and an invocation writes, or waits to, only where it has opened an
\* input pipe (communicate looks at has_fd).
TypeOK ==
    /\ pc \in [Invocations -> {"start", "answer", "writable", "metadata", "data",
                               "reading", "cancel", "over"}]
    /\ writer \in [Invocations -> {"none", "run", "done"}]
    /\ num \in [Invocations -> [Ends -> Numbers \cup {NoFd}]]
    /\ table \in [Numbers -> {Free} \cup (Invocations \X Ends)]
    /\ robbed \subseteq Invocations
    /\ sent \in [Invocations -> 0 .. Chunks]
    /\ got \in [Invocations -> Nat]
    /\ result \in [Invocations -> {"none", "error", "cut", "complete"}]
    /\ chan \in [Invocations -> [ReadEnds -> Nat]]
    /\ storlet \in [Invocations -> {"none", "queued", "metadata", "read", "write", "ended"}]
    /\ crashed \subseteq Invocations
    /\ daemon \in {"up", "leaving", "gone"}
    /\ \A n \in Numbers, i \in Invocations, e \in Ends : table[n] = <<i, e>> => num[i][e] = n
    /\ \A i \in Invocations : pc[i] = "writable" \/ writer[i] # "none" => num[i]["in_w"] # NoFd

\* When an invocation whose pipes could be opened is over its descriptors are
\* closed, on every path; the write end of the input pipe is excepted if it
\* never had a writing thread or that is still at work
\* (_close_remote_side_descriptors, _close_local_side_descriptors).
DescriptorsClosed ==
    \A i \in Invocations : pc[i] = "over" /\ num[i]["md_r"] # NoFd =>
        \A e \in Ends : Here(i, e) => e = "in_w" /\ writer[i] # "done"

\* A storlet that can neither go on nor will ever be told to end, so that it
\* holds its place in the daemon's pool for ever.
Stranded(i) ==
    /\ pc[i] = "over" /\ writer[i] # "run"
    /\ \/ storlet[i] = "read" /\ chan[i]["in_r"] = 0 /\ Here(i, "in_w")
       \/ storlet[i] = "write" /\ Here(i, "out_r") /\ chan[i]["out_r"] >= Capacity

\* When an invocation is over, its body written or given up, its storlet is not
\* left blocked on one of its pipes: input ends, output breaks.  The one
\* exception: it waits for a body that nobody began to write
\* (communicate, _write_input_data).
NoStorletStranded ==
    \A i \in Invocations : Stranded(i) =>
        storlet[i] = "read" /\ i \notin HasFd /\ writer[i] = "none" /\ sent[i] = 0

\* If the storlet was given the whole body and did not crash, a response that
\* ended with the end of the data is the whole output, as long as no invocation
\* of the worker has had a descriptor closed by another (FileDescriptorIterator).
NothingLost ==
    robbed = {} =>
        \A i \in Invocations :
            result[i] = "complete" /\ i \notin crashed /\ (i \in HasFd \/ sent[i] = Chunks) =>
                got[i] = Chunks

\* The worker waits for an answer while a storlet runs, and may keep the daemon.
HeldUp == Blocked /\ \E j \in Invocations : Running(j)

\* communicate returns or raises, in spite of storlets that hang: every wait for
\* them has its timeout.  The one exception: the worker waits for ever for the
\* answer of a daemon that waits for a storlet (communicate, _cancel).
InvocationsEnd ==
    []<>~HeldUp =>
        \A i \in Invocations : pc[i] = "answer" ~> pc[i] \in {"reading", "over"}

\* While no storlet has been left blocked every request to the daemon is answered
\* (communicate, and the writing thread it starts against the deadlock it
\* describes).
RequestsAnswered ==
    [](\A i \in Invocations : ~Stranded(i)) =>
        \A i \in Invocations : pc[i] \in {"answer", "cancel"} ~> pc[i] \notin {"answer", "cancel"}
============================================================================
