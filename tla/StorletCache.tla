--------------------------- MODULE StorletCache ---------------------------
(***************************************************************************)
(* The way of a storlet from Swift to the daemon that runs it              *)
(* (StorletGatewayContainer.invocation_flow): each invocation compares the *)
(* node's cached file with the object's headers, downloads it if need be,  *)
(* copies it into the directory the sandbox mounts, and restarts the       *)
(* daemon if something was copied.  Invocations of several workers share   *)
(* the files and the daemon.                                               *)
(*                                                                         *)
(* A file is the sequence of its blocks, each tagged with the version of   *)
(* the object it came from, so that a half-written or mixed file is not    *)
(* mistaken for a whole one.                                               *)
(***************************************************************************)
EXTENDS Naturals, Sequences

CONSTANTS
    Workers,        \* green threads and processes that serve requests
    Rounds,         \* bound: invocations of each worker
    Objects,        \* the storlet file followed by its dependencies
    Versions,       \* bound: Versions[o], uploads of object o
    Size,           \* Size[o][v]: blocks of version v of object o
    Breaking,       \* the objects whose downloads may break off
    UploadsRace,    \* whether somebody may upload while a worker downloads
    EngineFails,    \* whether the container engine may fail to stop a sandbox
    NoFile,
    NoDaemon

Files == {Objects[i] : i \in DOMAIN Objects}
storlet == Objects[1]

ASSUME RoundsAssumption == Rounds \in Nat
ASSUME ObjectsAssumption == Objects # <<>> /\ Objects \in Seq(Files)
ASSUME StorletAssumption == \A i \in DOMAIN Objects : Objects[i] = storlet => i = 1
ASSUME VersionsAssumption == Versions \in [Files -> Nat \ {0}]
ASSUME BreakingAssumption == Breaking \subseteq Files
ASSUME SizeAssumption == \A o \in Files : Size[o] \in [1 .. Versions[o] -> Nat \ {0}]
ASSUME NoFileAssumption == NoFile \notin [blocks: Seq(Nat), mtime: Nat]

VARIABLES
    clock,   \* time of the last upload or write
    swift,   \* swift[o]: the X-Timestamps of the versions uploaded so far
    cache,   \* the node's cached copy of each object
    box,     \* the copy in the storlet's directory of the sandbox
    loaded,  \* the files the running daemon was started from
    pc, left, k, seen, got, off, upd,  \* the invocation of each worker
    served   \* the version each worker's last answer should and did come from

sharedVars == <<clock, swift, cache, box, loaded>>
workerVars == <<left, k, seen, got, off, upd, served>>
vars == <<sharedVars, pc, workerVars>>

File(blocks, time) == [blocks |-> blocks, mtime |-> time]
Goto(w, label) == pc' = [pc EXCEPT ![w] = label]

Init ==
    /\ clock = 0
    /\ swift = [o \in Files |-> <<0>>]
    /\ cache = [o \in Files |-> NoFile]
    /\ box = [o \in Files |-> NoFile]
    /\ loaded = NoDaemon
    /\ pc = [w \in Workers |-> "idle"]
    /\ left = [w \in Workers |-> Rounds]
    /\ k = [w \in Workers |-> 1]
    /\ seen = [w \in Workers |-> 0]
    /\ got = [w \in Workers |-> 0]
    /\ off = [w \in Workers |-> 0]
    /\ upd = [w \in Workers |-> FALSE]
    /\ served = [w \in Workers |-> <<>>]

----------------------------------------------------------------------------
\* Somebody uploads a new version of o.
Upload(o) ==
    /\ Len(swift[o]) < Versions[o]
    /\ UploadsRace \/ \A w \in Workers : pc[w] \notin {"bring", "get", "write"}
    /\ clock' = clock + 1
    /\ swift' = [swift EXCEPT ![o] = Append(@, clock')]
    /\ UNCHANGED <<cache, box, loaded, pc, workerVars>>

\* A request is authorised: storlet_content_length and storlet_x_timestamp are
\* those of the storlet's current version.
Invoke(w) ==
    /\ pc[w] = "idle" /\ left[w] > 0
    /\ Goto(w, "bring")
    /\ left' = [left EXCEPT ![w] = @ - 1]
    /\ seen' = [seen EXCEPT ![w] = Len(swift[storlet])]
    /\ k' = [k EXCEPT ![w] = 1]
    /\ upd' = [upd EXCEPT ![w] = FALSE]
    /\ UNCHANGED <<sharedVars, got, off, served>>

\* Bug: a file that is there is taken for up to date.
CacheMissing(o, version) == cache[o] = NoFile

\* The test for update_cache: dependencies are only tested for existence.
CacheOutdated(o, version) ==
    \/ cache[o] = NoFile
    \/ /\ o = storlet
       /\ \/ Len(cache[o].blocks) # Size[o][version]
          \/ cache[o].mtime < swift[o][version]

\* bring_from_cache up to the decision to download.
Bring(w) ==
    /\ pc[w] = "bring"
    /\ Goto(w, IF CacheOutdated(Objects[k[w]], seen[w]) THEN "get" ELSE "compare")
    /\ UNCHANGED <<sharedVars, workerVars>>

\* get_func returns the current version, and the cached file is opened (and
\* emptied) for writing.
Get(w) ==
    LET o == Objects[k[w]]
    IN  /\ pc[w] = "get"
        /\ Goto(w, "write")
        /\ clock' = clock + 1
        /\ cache' = [cache EXCEPT ![o] = File(<<>>, clock')]
        /\ got' = [got EXCEPT ![w] = Len(swift[o])]
        /\ off' = [off EXCEPT ![w] = 0]
        /\ UNCHANGED <<swift, box, loaded, left, k, seen, upd, served>>

\* b after it was written to at index i; a gap left by a truncation reads as
\* zeros, which are of no version.
Overwrite(b, i, version) ==
    [j \in 1 .. IF i > Len(b) THEN i ELSE Len(b) |->
        IF j = i THEN version ELSE IF j <= Len(b) THEN b[j] ELSE 0]

\* The next block of the download, or its end.
Write(w) ==
    LET o == Objects[k[w]]
        done == off[w] = Size[o][got[w]]
    IN  /\ pc[w] = "write"
        /\ IF done
             THEN Goto(w, "compare") /\ UNCHANGED <<clock, cache, off>>
             ELSE /\ clock' = clock + 1
                  /\ off' = [off EXCEPT ![w] = @ + 1]
                  /\ cache' = [cache EXCEPT ![o] =
                                  File(Overwrite(@.blocks, off'[w], got[w]), clock')]
                  /\ pc' = pc
        /\ UNCHANGED <<swift, box, loaded, left, k, seen, got, upd, served>>

\* Bug: a download that breaks off after its start is taken for complete.
BreakOffIgnored(w) ==
    /\ pc[w] \in {"get", "write"} /\ Objects[k[w]] \in Breaking
    /\ Goto(w, IF pc[w] = "write" THEN "compare" ELSE "idle")
    /\ UNCHANGED <<sharedVars, workerVars>>

\* The download breaks off: the exception ends the invocation.
BreakOff(w) ==
    /\ pc[w] \in {"get", "write"} /\ Objects[k[w]] \in Breaking
    /\ Goto(w, "idle")
    /\ UNCHANGED <<sharedVars, workerVars>>

\* The test for update_container.
BoxOutdated(o) ==
    \/ box[o] = NoFile
    \/ Len(cache[o].blocks) # Len(box[o].blocks)
    \/ cache[o].mtime < box[o].mtime

\* Bug: one object too many.
NextObjectPast(w) ==
    IF k[w] <= Len(Objects) THEN Goto(w, "bring") /\ k' = [k EXCEPT ![w] = @ + 1]
                            ELSE Goto(w, "status") /\ k' = k

\* On to the next object, or to activate_storlet_daemon.
NextObject(w) ==
    IF k[w] < Len(Objects) THEN Goto(w, "bring") /\ k' = [k EXCEPT ![w] = @ + 1]
                           ELSE Goto(w, "status") /\ k' = k

\* The second half of bring_from_cache; the copying of copy2 comes in two
\* parts, the data and then the times.
Compare(w) ==
    LET o == Objects[k[w]]
    IN  /\ pc[w] = "compare"
        /\ IF BoxOutdated(o)
             THEN /\ clock' = clock + 1
                  /\ box' = [box EXCEPT ![o] = File(cache[o].blocks, clock')]
                  /\ upd' = [upd EXCEPT ![w] = TRUE]
                  /\ Goto(w, "copystat")
                  /\ k' = k
             ELSE NextObject(w) /\ UNCHANGED <<clock, box, upd>>
        /\ UNCHANGED <<swift, cache, loaded, left, seen, got, off, served>>

CopyStat(w) ==
    LET o == Objects[k[w]]
    IN  /\ pc[w] = "copystat"
        /\ box' = [box EXCEPT ![o].mtime = cache[o].mtime]
        /\ NextObject(w)
        /\ UNCHANGED <<clock, swift, cache, loaded, left, seen, got, off, upd, served>>

----------------------------------------------------------------------------
\* Bug: a running daemon is kept whatever was copied.
KeepDaemon(w) ==
    /\ pc[w] = "status"
    /\ Goto(w, IF loaded = NoDaemon THEN "start" ELSE "execute")
    /\ UNCHANGED <<sharedVars, workerVars>>

\* activate_storlet_daemon: is the daemon running, must it be stopped?  A
\* factory that cannot be reached is restarted, and no daemon runs then.
Status(w) ==
    /\ pc[w] = "status"
    /\ Goto(w, IF loaded = NoDaemon THEN "start" ELSE IF upd[w] THEN "stop" ELSE "execute")
    /\ UNCHANGED <<sharedVars, workerVars>>

\* stop_storlet_daemon; when that fails the sandbox is restarted.
Stop(w) ==
    /\ pc[w] = "stop"
    /\ loaded' = NoDaemon
    /\ Goto(w, "start")
    /\ UNCHANGED <<clock, swift, cache, box, workerVars>>

\* A daemon that was started meanwhile is left alone.
Started == IF loaded = NoDaemon THEN [o \in Files |-> box[o].blocks] ELSE loaded

\* start_storlet_daemon.
Start(w) ==
    /\ pc[w] = "start"
    /\ loaded' = Started
    /\ Goto(w, "execute")
    /\ UNCHANGED <<clock, swift, cache, box, workerVars>>

\* The exception of start_storlet_daemon, with or without a daemon started, or
\* of restart ends the invocation; a restart that fails before the sandbox is
\* stopped leaves the daemon running.
ActivateFails(w) ==
    /\ pc[w] = "start" \/ (EngineFails /\ pc[w] \in {"status", "stop"})
    /\ loaded' \in IF pc[w] = "start" THEN {loaded, Started} ELSE {loaded}
    /\ Goto(w, "idle")
    /\ UNCHANGED <<clock, swift, cache, box, workerVars>>

\* communicate: the daemon executes the storlet it has loaded.
Execute(w) ==
    /\ pc[w] = "execute"
    /\ Goto(w, "idle")
    /\ served' = [served EXCEPT ![w] = IF loaded = NoDaemon THEN <<>>
                                       ELSE <<seen[w], loaded>>]
    /\ UNCHANGED <<sharedVars, left, k, seen, got, off, upd>>

\* The daemon leaves: idle, cancelled, crashed, or its sandbox is gone.
DaemonEnds ==
    /\ loaded # NoDaemon
    /\ loaded' = NoDaemon
    /\ UNCHANGED <<clock, swift, cache, box, pc, workerVars>>

Next ==
    \/ \E o \in Files : Upload(o)
    \/ \E w \in Workers :
        \/ Invoke(w) \/ Bring(w) \/ Get(w) \/ Write(w) \/ BreakOff(w)
        \/ Compare(w) \/ CopyStat(w)
        \/ Status(w) \/ Stop(w) \/ Start(w) \/ ActivateFails(w) \/ Execute(w)
    \/ DaemonEnds

Spec == Init /\ [][Next]_vars

----------------------------------------------------------------------------
Pcs == {"idle", "bring", "get", "write", "compare", "copystat",
        "status", "stop", "start", "execute"}

Copies == [blocks: Seq(Nat), mtime: 0 .. clock] \cup {NoFile}
Code == [Files -> Seq(Nat)]

\* Type invariant; in particular no mtime lies in the future.
TypeOK ==
    /\ clock \in Nat
    /\ swift \in [Files -> Seq(0 .. clock)]
    /\ cache \in [Files -> Copies] /\ box \in [Files -> Copies]
    /\ pc \in [Workers -> Pcs]
    /\ left \in [Workers -> 0 .. Rounds]
    /\ k \in [Workers -> DOMAIN Objects]
    /\ seen \in [Workers -> Nat] /\ got \in [Workers -> Nat] /\ off \in [Workers -> Nat]
    /\ upd \in [Workers -> BOOLEAN]
    /\ loaded \in Code \cup {NoDaemon}
    /\ served \in [Workers -> (Nat \X Code) \cup {<<>>}]
    /\ \A w \in Workers :
        /\ pc[w] # "idle" => seen[w] \in DOMAIN swift[storlet]
        /\ pc[w] = "write" => /\ got[w] \in DOMAIN swift[Objects[k[w]]]
                              /\ off[w] \in 0 .. Size[Objects[k[w]]][got[w]]
        /\ pc[w] \in {"write", "compare", "copystat"} => cache[Objects[k[w]]] # NoFile

\* The blocks of version v of o, all of them and nothing else.
Whole(o, v) == [i \in 1 .. Size[o][v] |-> v]

\* The code a daemon runs is, file by file, a version somebody uploaded: never
\* a part of one or a mixture of two (bring_from_cache).
CodeIsWhole ==
    loaded # NoDaemon =>
        \A o \in Files : \E v \in DOMAIN swift[o] : loaded[o] = Whole(o, v)

\* The answer to a request comes from the version of the storlet that was
\* current when the request was authorised, or from a later one.
Fresh ==
    \A w \in Workers :
        served[w] # <<>> =>
            \E v \in served[w][1] .. Versions[storlet] : served[w][2][storlet] = Whole(storlet, v)

\* Whenever no invocation is under way the daemon, if there is one, runs what
\* lies in its directory: no copy goes unnoticed, whoever made it
\* (update_container, activate_storlet_daemon).
DaemonRunsBox ==
    (\A w \in Workers : pc[w] = "idle") /\ loaded # NoDaemon =>
        \A o \in Files : loaded[o] = box[o].blocks
============================================================================
