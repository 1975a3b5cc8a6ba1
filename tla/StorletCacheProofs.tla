------------------------ MODULE StorletCacheProofs ------------------------
(***************************************************************************)
(* Proofs about the way of a storlet from Swift to the daemon, for any     *)
(* number of objects, versions, sizes and invocations, and where stated    *)
(* for any number of workers.                                              *)
(***************************************************************************)
EXTENDS StorletCache, TLAPS

\* Only the download of the storlet, the first of the objects, may break off.
OnlyStorletBreaks == Breaking \subseteq {storlet}

\* One invocation at a time, and nobody uploads during a download.
OneAtATime == (\E w : Workers = {w}) /\ ~UploadsRace

\* All versions of the storlet differ in size.
SizesDiffer ==
    \A u, v \in 1 .. Versions[storlet] : Size[storlet][u] = Size[storlet][v] => u = v

Activating == {"status", "stop", "start", "execute"}

\* The worker has copied the object i, or found it copied.
Past(w, i) == pc[w] # "idle" /\ (i < k[w] \/ pc[w] \in Activating)

\* What an invocation has seen to.
WorkerOK(w) ==
    /\ pc[w] = "copystat" => box[Objects[k[w]]] # NoFile
    /\ \A i \in DOMAIN Objects : Past(w, i) => box[Objects[i]] # NoFile

SwiftOK == \A o \in Files : Len(swift[o]) \in 1 .. Versions[o]

\* The inductive invariant behind the type invariant.
IInv == TypeOK /\ SwiftOK /\ \A w \in Workers : WorkerOK(w)

\* Every file in the sandbox is cached, and a daemon has all its files in the
\* sandbox: no file is ever taken away.
Stocked ==
    /\ \A o \in Files : box[o] # NoFile => cache[o] # NoFile
    /\ loaded # NoDaemon => \A o \in Files : box[o] # NoFile

\* The worker is going to stop the daemon, if there is one.  An invocation that
\* downloads may still break off, and is not counted.
WillStop(w) == upd[w] /\ pc[w] \in {"bring", "compare", "copystat", "status", "stop"}

\* The inductive invariant behind DaemonRunsBox: where the daemon differs from
\* its directory, somebody is on the way to stop it.
StopInv ==
    /\ \A w \in Workers :
        pc[w] \in {"bring", "get", "write", "compare"} /\ k[w] = 1 => ~upd[w]
    /\ loaded # NoDaemon =>
        \A o \in Files : loaded[o] = box[o].blocks \/ \E w \in Workers : WillStop(w)

----------------------------------------------------------------------------
\* One worker.

\* The storlet and the dependencies whose downloads do not break off.
Sound == {o \in Files : o \in Breaking => o = storlet}

\* The first n blocks of version v.
Part(v, n) == [i \in 1 .. n |-> v]
IsWhole(o, b) == \E v \in DOMAIN swift[o] : b = Whole(o, v)

latest(o) == Len(swift[o])

\* The storlet's cached file is a part of a version, and of the current one
\* unless its time shows that it is older.
CachedStorlet ==
    cache[storlet] # NoFile =>
        \E v \in DOMAIN swift[storlet] :
            /\ \E n \in 0 .. Size[storlet][v] : cache[storlet].blocks = Part(v, n)
            /\ v = latest(storlet) \/ cache[storlet].mtime < swift[storlet][latest(storlet)]

\* The other cached files, those in the sandbox and those of the daemon, as far
\* as they are sound.
WholeInv(w) ==
    /\ CachedStorlet
    /\ \A o \in Sound \ {storlet} :
        cache[o] = NoFile \/ IsWhole(o, cache[o].blocks) \/ (pc[w] = "write" /\ o = Objects[k[w]])
    /\ \A o \in Sound : box[o] # NoFile => IsWhole(o, box[o].blocks)
    /\ loaded # NoDaemon => \A o \in Sound : IsWhole(o, loaded[o])
    /\ pc[w] \in {"bring", "get", "write"} /\ k[w] = 1 => seen[w] = latest(storlet)
    /\ pc[w] = "write" => /\ got[w] = latest(Objects[k[w]])
                          /\ cache[Objects[k[w]]].blocks = Part(got[w], off[w])
    /\ pc[w] \in {"compare", "copystat"} /\ Objects[k[w]] \in Sound =>
        IsWhole(Objects[k[w]], cache[Objects[k[w]]].blocks)

\* The version a request is to be served from is the one in the sandbox.
FreshInv(w) ==
    /\ pc[w] \in {"compare", "copystat"} /\ k[w] = 1 =>
        cache[storlet].blocks = Whole(storlet, seen[w])
    /\ (pc[w] = "copystat" /\ k[w] = 1) \/ Past(w, 1) =>
        box[storlet].blocks = Whole(storlet, seen[w])

----------------------------------------------------------------------------
\* Facts about the constants and the operators.

LEMMA ObjectFacts ==
    /\ 1 \in DOMAIN Objects /\ storlet \in Files
    /\ DOMAIN Objects = 1 .. Len(Objects) /\ Len(Objects) \in Nat
    /\ \A i \in DOMAIN Objects : Objects[i] \in Files
<1>1. Objects \in Seq(Files) /\ Objects # <<>>
  BY ObjectsAssumption
<1>2. DOMAIN Objects = 1 .. Len(Objects) /\ Len(Objects) \in Nat /\ Len(Objects) # 0
  BY <1>1
<1> QED BY <1>2 DEF Files, storlet

LEMMA OtherThanStorlet ==
    ASSUME NEW i \in DOMAIN Objects
    PROVE  Objects[i] = storlet <=> i = 1
BY StorletAssumption DEF storlet

LEMMA SizeFacts ==
    ASSUME NEW o \in Files, NEW v \in 1 .. Versions[o]
    PROVE  Size[o][v] \in Nat \ {0}
BY SizeAssumption, VersionsAssumption

\* Copies made earlier are still copies.
LEMMA CopiesGrow ==
    ASSUME clock \in Nat, clock' \in Nat, clock <= clock'
    PROVE  Copies \subseteq Copies' /\ Seq(0 .. clock) \subseteq Seq(0 .. clock')
<1>1. 0 .. clock \subseteq 0 .. clock'
  OBVIOUS
<1>2. Seq(0 .. clock) \subseteq Seq(0 .. clock')
  BY <1>1
<1>3. Copies \subseteq Copies'
  BY <1>1 DEF Copies
<1> QED BY <1>2, <1>3

LEMMA CopyFacts ==
    ASSUME clock \in Nat, NEW f \in Copies, f # NoFile
    PROVE  /\ f.blocks \in Seq(Nat) /\ f.mtime \in 0 .. clock
           /\ f = [blocks |-> f.blocks, mtime |-> f.mtime]
BY DEF Copies

LEMMA FileFacts ==
    ASSUME clock' \in Nat, NEW b \in Seq(Nat), NEW t \in 0 .. clock'
    PROVE  /\ File(b, t) \in Copies' /\ File(b, t) # NoFile
           /\ File(b, t).blocks = b /\ File(b, t).mtime = t
<1>1. File(b, t) \in [blocks: Seq(Nat), mtime: Nat]
  BY DEF File
<1>2. File(b, t) # NoFile
  BY <1>1, NoFileAssumption
<1>3. File(b, t) \in Copies'
  BY DEF File, Copies
<1> QED BY <1>2, <1>3 DEF File

LEMMA OverwriteTyped ==
    ASSUME NEW b \in Seq(Nat), NEW i \in Nat, NEW v \in Nat
    PROVE  Overwrite(b, i, v) \in Seq(Nat)
<1> DEFINE m == IF i > Len(b) THEN i ELSE Len(b)
<1>1. m \in Nat
  OBVIOUS
<1>2. Overwrite(b, i, v) \in [1 .. m -> Nat]
  BY DEF Overwrite
<1> HIDE DEF m
<1> QED BY <1>1, <1>2

\* The next block of a download, appended to the ones before.
LEMMA OverwritePart ==
    ASSUME NEW n \in Nat, NEW v \in Nat
    PROVE  Overwrite(Part(v, n), n + 1, v) = Part(v, n + 1)
<1>1. Part(v, n) \in Seq(Nat) /\ Len(Part(v, n)) = n
  BY DEF Part
<1>2. Overwrite(Part(v, n), n + 1, v) =
        [j \in 1 .. n + 1 |-> IF j = n + 1 THEN v ELSE IF j <= n THEN Part(v, n)[j] ELSE 0]
  BY <1>1 DEF Overwrite
<1>3. \A j \in 1 .. n + 1 :
        (IF j = n + 1 THEN v ELSE IF j <= n THEN Part(v, n)[j] ELSE 0) = v
  BY DEF Part
<1> QED BY <1>2, <1>3 DEF Part

LEMMA PartFacts ==
    ASSUME NEW n \in Nat, NEW v \in Nat
    PROVE  Part(v, n) \in Seq(Nat) /\ Len(Part(v, n)) = n /\ (n > 0 => Part(v, n)[1] = v)
BY DEF Part

----------------------------------------------------------------------------
\* The type invariant.

\* What it says of each variable, and of each worker.
SharedTyped ==
    /\ clock \in Nat
    /\ swift \in [Files -> Seq(0 .. clock)]
    /\ cache \in [Files -> Copies] /\ box \in [Files -> Copies]
    /\ loaded \in Code \cup {NoDaemon}

LocalTyped ==
    /\ pc \in [Workers -> Pcs]
    /\ left \in [Workers -> 0 .. Rounds]
    /\ k \in [Workers -> DOMAIN Objects]
    /\ seen \in [Workers -> Nat] /\ got \in [Workers -> Nat] /\ off \in [Workers -> Nat]
    /\ served \in [Workers -> (Nat \X Code) \cup {<<>>}]

UpdTyped == upd \in [Workers -> BOOLEAN]

WorkerTyped(w) ==
    /\ pc[w] # "idle" => seen[w] \in DOMAIN swift[storlet]
    /\ pc[w] = "write" => /\ got[w] \in DOMAIN swift[Objects[k[w]]]
                          /\ off[w] \in 0 .. Size[Objects[k[w]]][got[w]]
    /\ pc[w] \in {"write", "compare", "copystat"} => cache[Objects[k[w]]] # NoFile

LEMMA TypeParts ==
    TypeOK <=> SharedTyped /\ LocalTyped /\ UpdTyped /\ \A w \in Workers : WorkerTyped(w)
BY DEF TypeOK, SharedTyped, LocalTyped, UpdTyped, WorkerTyped

\* The shared state only grows: versions and files are added and replaced.
Grows ==
    /\ \A o \in Files : DOMAIN swift[o] \subseteq DOMAIN swift'[o]
    /\ \A o \in Files : cache[o] # NoFile => cache'[o] # NoFile
    /\ \A o \in Files : box[o] # NoFile => box'[o] # NoFile

\* A worker does nothing.
Rests(w) ==
    /\ pc'[w] = pc[w] /\ k'[w] = k[w] /\ seen'[w] = seen[w] /\ got'[w] = got[w]
    /\ off'[w] = off[w] /\ upd'[w] = upd[w] /\ served'[w] = served[w]

LEMMA RestsOK ==
    ASSUME LocalTyped, Grows, NEW w \in Workers, WorkerTyped(w), WorkerOK(w), Rests(w)
    PROVE  WorkerTyped(w)' /\ WorkerOK(w)'
<1>1. storlet \in Files /\ Objects[k[w]] \in Files /\ \A i \in DOMAIN Objects : Objects[i] \in Files
  BY ObjectFacts DEF LocalTyped
<1>2. WorkerTyped(w)'
  BY <1>1 DEF Rests, Grows, WorkerTyped
<1>3. WorkerOK(w)'
  BY <1>1 DEF Rests, Grows, WorkerOK, Past
<1> QED BY <1>2, <1>3

\* What is to be shown for a step of worker w.
LEMMA StepParts ==
    ASSUME IInv, NEW w \in Workers, SharedTyped', LocalTyped', UpdTyped', SwiftOK', Grows,
           WorkerTyped(w)', WorkerOK(w)', \A v \in Workers \ {w} : Rests(v)
    PROVE  IInv'
<1>1. \A v \in Workers \ {w} : WorkerTyped(v)' /\ WorkerOK(v)'
  BY RestsOK, TypeParts DEF IInv
<1>2. \A v \in Workers : WorkerTyped(v)' /\ WorkerOK(v)'
  BY <1>1
<1>3. TypeOK'
  BY <1>2 DEF TypeOK, SharedTyped, LocalTyped, UpdTyped, WorkerTyped
<1> QED BY <1>2, <1>3 DEF IInv

----------------------------------------------------------------------------
\* The actions keep the invariant behind the type invariant.

LEMMA SameShared ==
    ASSUME IInv, clock' = clock, swift' = swift, cache' = cache, box' = box
    PROVE  Grows /\ SwiftOK' /\ (loaded' \in Code \cup {NoDaemon} => SharedTyped')
<1>1. SharedTyped
  BY TypeParts DEF IInv
<1> QED BY <1>1 DEF IInv, Grows, SwiftOK, SharedTyped, Copies

LEMMA InvokeOK ==
    ASSUME IInv, NEW w \in Workers, Invoke(w)
    PROVE  IInv'
<1>1. LocalTyped /\ UpdTyped /\ SharedTyped /\ SwiftOK
  BY TypeParts DEF IInv
<1>2. SharedTyped' /\ SwiftOK' /\ Grows
  BY <1>1, SameShared DEF Invoke, sharedVars, SharedTyped
<1>3. Len(swift[storlet]) \in DOMAIN swift[storlet] /\ Len(swift[storlet]) \in Nat
  BY <1>1, ObjectFacts, VersionsAssumption DEF SharedTyped, SwiftOK
<1>4. LocalTyped'
  <2>1. left' \in [Workers -> 0 .. Rounds]
    <3>1. left[w] - 1 \in 0 .. Rounds
      BY <1>1, RoundsAssumption DEF Invoke, LocalTyped
    <3> QED BY <1>1, <3>1 DEF Invoke, LocalTyped
  <2>2. pc' \in [Workers -> Pcs]
    BY <1>1 DEF Invoke, Goto, LocalTyped, Pcs
  <2>3. k' \in [Workers -> DOMAIN Objects]
    BY <1>1, ObjectFacts DEF Invoke, LocalTyped
  <2>4. seen' \in [Workers -> Nat]
    BY <1>1, <1>3 DEF Invoke, LocalTyped
  <2> QED BY <1>1, <2>1, <2>2, <2>3, <2>4 DEF Invoke, LocalTyped
<1>5. UpdTyped'
  <2>1. upd \in [Workers -> BOOLEAN] /\ upd' = [upd EXCEPT ![w] = FALSE]
    BY <1>1 DEF UpdTyped, Invoke
  <2> QED BY <2>1, Zenon DEF UpdTyped
<1>6. pc'[w] = "bring" /\ seen'[w] = Len(swift[storlet]) /\ k'[w] = 1 /\ swift' = swift
  BY <1>1 DEF Invoke, Goto, LocalTyped, sharedVars
<1>7. WorkerTyped(w)'
  BY <1>3, <1>6 DEF WorkerTyped
<1>8. WorkerOK(w)'
  BY <1>6, ObjectFacts DEF WorkerOK, Past, Activating
<1>9. \A v \in Workers \ {w} : Rests(v)
  BY <1>1 DEF Invoke, Goto, Rests, LocalTyped, UpdTyped
<1> QED BY <1>2, <1>4, <1>5, <1>7, <1>8, <1>9, StepParts

\* The steps that only go on, to a label that promises no more than was found.
LEMMA GoOnOK ==
    ASSUME IInv, NEW w \in Workers, NEW l \in Pcs, Goto(w, l),
           UNCHANGED <<clock, swift, cache, box, workerVars>>,
           loaded' \in Code \cup {NoDaemon}, pc[w] # "idle",
           l \notin {"write", "copystat"}, l = "compare" => cache[Objects[k[w]]] # NoFile,
           l \in Activating => pc[w] \in Activating
    PROVE  IInv'
<1>1. LocalTyped /\ UpdTyped /\ SharedTyped /\ SwiftOK /\ WorkerTyped(w) /\ WorkerOK(w)
  BY TypeParts DEF IInv
<1>2. SharedTyped' /\ SwiftOK' /\ Grows
  BY <1>1, SameShared
<1>3. LocalTyped' /\ UpdTyped'
  BY <1>1 DEF Goto, LocalTyped, UpdTyped, workerVars
<1>4. pc'[w] = l
  BY <1>1 DEF Goto, LocalTyped
<1>5. WorkerTyped(w)'
  BY <1>1, <1>4 DEF WorkerTyped, workerVars
<1>6. WorkerOK(w)'
  BY <1>1, <1>4 DEF WorkerOK, workerVars, Past, Activating
<1>7. \A v \in Workers \ {w} : Rests(v)
  BY <1>1 DEF Goto, Rests, LocalTyped, workerVars
<1> QED BY <1>2, <1>3, <1>5, <1>6, <1>7, StepParts

LEMMA BringOK ==
    ASSUME IInv, NEW w \in Workers, Bring(w)
    PROVE  IInv'
<1>1. LocalTyped /\ SharedTyped
  BY TypeParts DEF IInv
<1>2. Objects[k[w]] \in Files
  BY <1>1, ObjectFacts DEF LocalTyped
<1>3. PICK l \in {"get", "compare"} :
        Goto(w, l) /\ (l = "compare" => cache[Objects[k[w]]] # NoFile)
  BY DEF Bring, CacheOutdated
<1>4. /\ UNCHANGED <<clock, swift, cache, box, workerVars>> /\ loaded' \in Code \cup {NoDaemon}
      /\ pc[w] # "idle"
  BY <1>1 DEF Bring, sharedVars, SharedTyped
<1> QED BY <1>3, <1>4, GoOnOK DEF Pcs, Activating

LEMMA BreakOffOK ==
    ASSUME IInv, NEW w \in Workers, BreakOff(w)
    PROVE  IInv'
<1>1. SharedTyped
  BY TypeParts DEF IInv
<1> QED BY <1>1, GoOnOK DEF BreakOff, sharedVars, SharedTyped, Pcs, Activating

LEMMA StatusOK ==
    ASSUME IInv, NEW w \in Workers, Status(w)
    PROVE  IInv'
<1>1. SharedTyped
  BY TypeParts DEF IInv
<1>2. PICK l \in {"start", "stop", "execute"} : Goto(w, l)
  BY DEF Status
<1> QED BY <1>1, <1>2, GoOnOK DEF Status, sharedVars, SharedTyped, Pcs, Activating

LEMMA StopOK ==
    ASSUME IInv, NEW w \in Workers, Stop(w)
    PROVE  IInv'
BY GoOnOK DEF Stop, Pcs, Activating

\* A worker that starts the daemon has seen to all files.
LEMMA StartedTyped ==
    ASSUME IInv, NEW w \in Workers, pc[w] = "start"
    PROVE  Started \in Code \cup {NoDaemon}
<1>1. SharedTyped /\ WorkerOK(w)
  BY TypeParts DEF IInv
<1>2. \A o \in Files : box[o] # NoFile
  BY <1>1 DEF WorkerOK, Past, Activating, Files
<1>3. \A o \in Files : box[o].blocks \in Seq(Nat)
  BY <1>1, <1>2, CopyFacts DEF SharedTyped
<1>4. [o \in Files |-> box[o].blocks] \in Code
  BY <1>3 DEF Code
<1> QED BY <1>1, <1>4 DEF Started, SharedTyped

LEMMA StartOK ==
    ASSUME IInv, NEW w \in Workers, Start(w)
    PROVE  IInv'
<1>1. loaded' \in Code \cup {NoDaemon}
  BY StartedTyped DEF Start
<1> QED BY <1>1, GoOnOK DEF Start, Pcs, Activating

LEMMA ActivateFailsOK ==
    ASSUME IInv, NEW w \in Workers, ActivateFails(w)
    PROVE  IInv'
<1>1. loaded' \in Code \cup {NoDaemon}
  BY StartedTyped, TypeParts DEF ActivateFails, IInv, SharedTyped
<1>2. pc[w] # "idle" /\ Goto(w, "idle") /\ UNCHANGED <<clock, swift, cache, box, workerVars>>
  BY DEF ActivateFails
<1> QED BY <1>1, <1>2, GoOnOK DEF Pcs, Activating

LEMMA ExecuteOK ==
    ASSUME IInv, NEW w \in Workers, Execute(w)
    PROVE  IInv'
<1>1. LocalTyped /\ UpdTyped /\ SharedTyped /\ SwiftOK
  BY TypeParts DEF IInv
<1>2. SharedTyped' /\ SwiftOK' /\ Grows
  BY <1>1, SameShared DEF Execute, sharedVars, SharedTyped
<1>3. LocalTyped' /\ UpdTyped'
  <2>1. (IF loaded = NoDaemon THEN <<>> ELSE <<seen[w], loaded>>) \in (Nat \X Code) \cup {<<>>}
    BY <1>1 DEF SharedTyped, LocalTyped
  <2>2. served' \in [Workers -> (Nat \X Code) \cup {<<>>}]
    BY <1>1, <2>1 DEF Execute, LocalTyped
  <2> QED BY <1>1, <2>2 DEF Execute, Goto, LocalTyped, UpdTyped, Pcs
<1>4. pc'[w] = "idle"
  BY <1>1 DEF Execute, Goto, LocalTyped
<1>5. WorkerTyped(w)' /\ WorkerOK(w)'
  BY <1>4 DEF WorkerTyped, WorkerOK, Past
<1>6. \A v \in Workers \ {w} : Rests(v)
  BY <1>1 DEF Execute, Goto, Rests, LocalTyped
<1> QED BY <1>2, <1>3, <1>5, <1>6, StepParts

LEMMA UploadOK ==
    ASSUME IInv, NEW o \in Files, Upload(o)
    PROVE  IInv'
<1>1. LocalTyped /\ UpdTyped /\ SharedTyped /\ SwiftOK /\ \A w \in Workers : WorkerTyped(w) /\ WorkerOK(w)
  BY TypeParts DEF IInv
<1>2. /\ clock' = clock + 1 /\ clock \in Nat /\ clock' \in Nat
      /\ swift' = [swift EXCEPT ![o] = Append(@, clock')]
      /\ UNCHANGED <<cache, box, loaded, pc, workerVars>>
  BY <1>1 DEF Upload, SharedTyped
<1>3. Copies \subseteq Copies' /\ Seq(0 .. clock) \subseteq Seq(0 .. clock')
  BY <1>2, CopiesGrow
<1>4. Append(swift[o], clock') \in Seq(0 .. clock')
  <2>1. swift[o] \in Seq(0 .. clock') /\ clock' \in 0 .. clock'
    BY <1>1, <1>2, <1>3 DEF SharedTyped
  <2> QED BY <2>1
<1>5. SharedTyped'
  BY <1>1, <1>2, <1>3, <1>4 DEF SharedTyped
<1>6. \A p \in Files : /\ p = o => swift'[p] = Append(swift[p], clock')
                       /\ p # o => swift'[p] = swift[p]
                       /\ swift[p] \in Seq(0 .. clock)
  BY <1>1, <1>2 DEF SharedTyped
<1>7. Grows
  BY <1>2, <1>6 DEF Grows
<1>8. SwiftOK'
  <2>1. Len(swift[o]) < Versions[o] /\ \A p \in Files : Versions[p] \in Nat
    BY VersionsAssumption DEF Upload
  <2> QED BY <1>1, <1>6, <2>1 DEF SwiftOK
<1>9. LocalTyped' /\ UpdTyped' /\ \A w \in Workers : Rests(w)
  BY <1>1, <1>2 DEF LocalTyped, UpdTyped, Rests, workerVars
<1>10. \A w \in Workers : WorkerTyped(w)' /\ WorkerOK(w)'
  BY <1>1, <1>7, <1>9, RestsOK
<1>11. TypeOK'
  BY <1>5, <1>9, <1>10 DEF TypeOK, SharedTyped, LocalTyped, UpdTyped, WorkerTyped
<1> QED BY <1>8, <1>10, <1>11 DEF IInv

LEMMA DaemonEndsOK ==
    ASSUME IInv, DaemonEnds
    PROVE  IInv'
<1>1. LocalTyped /\ UpdTyped /\ SharedTyped /\ SwiftOK /\ \A w \in Workers : WorkerTyped(w) /\ WorkerOK(w)
  BY TypeParts DEF IInv
<1>2. SharedTyped' /\ SwiftOK' /\ Grows
  BY SameShared DEF DaemonEnds
<1>3. LocalTyped' /\ UpdTyped' /\ \A w \in Workers : Rests(w)
  BY <1>1 DEF DaemonEnds, LocalTyped, UpdTyped, Rests, workerVars
<1>4. \A w \in Workers : WorkerTyped(w)' /\ WorkerOK(w)'
  BY <1>1, <1>2, <1>3, RestsOK
<1>5. TypeOK'
  BY <1>2, <1>3, <1>4 DEF TypeOK, SharedTyped, LocalTyped, UpdTyped, WorkerTyped
<1> QED BY <1>2, <1>4, <1>5 DEF IInv

LEMMA GetOK ==
    ASSUME IInv, NEW w \in Workers, Get(w)
    PROVE  IInv'
<1> DEFINE o == Objects[k[w]]
<1>1. LocalTyped /\ UpdTyped /\ SharedTyped /\ SwiftOK /\ WorkerTyped(w) /\ WorkerOK(w)
  BY TypeParts DEF IInv
<1>2. o \in Files /\ k[w] \in DOMAIN Objects
  BY <1>1, ObjectFacts DEF LocalTyped
<1>3. /\ pc[w] = "get" /\ clock' = clock + 1 /\ clock' \in Nat /\ clock \in Nat
      /\ cache' = [cache EXCEPT ![o] = File(<<>>, clock')]
      /\ got' = [got EXCEPT ![w] = Len(swift[o])]
      /\ off' = [off EXCEPT ![w] = 0]
      /\ UNCHANGED <<swift, box, loaded, left, k, seen, upd, served>>
  BY <1>1 DEF Get, SharedTyped
<1>4. Copies \subseteq Copies' /\ Seq(0 .. clock) \subseteq Seq(0 .. clock')
  BY <1>3, CopiesGrow
<1>5. File(<<>>, clock') \in Copies' /\ File(<<>>, clock') # NoFile
  <2>1. clock' \in 0 .. clock' /\ <<>> \in Seq(Nat)
    BY <1>3
  <2> QED BY <1>3, <2>1, FileFacts
<1>6. SharedTyped'
  <2>1. cache' \in [Files -> Copies']
    BY <1>1, <1>3, <1>4, <1>5 DEF SharedTyped
  <2> QED BY <1>1, <1>3, <1>4, <2>1 DEF SharedTyped
<1>7. Grows /\ cache'[o] # NoFile
  BY <1>1, <1>2, <1>3, <1>5 DEF Grows, SharedTyped
<1>8. SwiftOK'
  BY <1>1, <1>3 DEF SwiftOK
<1>9. Len(swift[o]) \in Nat /\ Len(swift[o]) \in DOMAIN swift[o] /\ Len(swift[o]) \in 1 .. Versions[o]
  BY <1>1, <1>2, VersionsAssumption DEF SharedTyped, SwiftOK
<1>10. LocalTyped'
  <2>1. pc' \in [Workers -> Pcs]
    BY <1>1 DEF Get, Goto, LocalTyped, Pcs
  <2>2. got' \in [Workers -> Nat] /\ off' \in [Workers -> Nat]
    BY <1>1, <1>3, <1>9 DEF LocalTyped
  <2> QED BY <1>1, <1>3, <2>1, <2>2 DEF LocalTyped
<1>11. UpdTyped'
  BY <1>1, <1>3 DEF UpdTyped
<1>12. pc'[w] = "write" /\ got'[w] = Len(swift[o]) /\ off'[w] = 0
  BY <1>1, <1>3 DEF Get, Goto, LocalTyped
<1>13. WorkerTyped(w)'
  <2>1. 0 \in 0 .. Size[o][Len(swift[o])]
    BY <1>2, <1>9, SizeFacts
  <2> QED BY <1>1, <1>3, <1>7, <1>9, <1>12, <2>1 DEF WorkerTyped
<1>14. WorkerOK(w)'
  BY <1>1, <1>3, <1>12 DEF WorkerOK, Past, Activating
<1>15. \A v \in Workers \ {w} : Rests(v)
  BY <1>1, <1>3 DEF Get, Goto, Rests, LocalTyped
<1> QED BY <1>6, <1>7, <1>8, <1>10, <1>11, <1>13, <1>14, <1>15, StepParts

LEMMA WriteOK ==
    ASSUME IInv, NEW w \in Workers, Write(w)
    PROVE  IInv'
<1> DEFINE o == Objects[k[w]]
<1>1. LocalTyped /\ UpdTyped /\ SharedTyped /\ SwiftOK /\ WorkerTyped(w) /\ WorkerOK(w)
  BY TypeParts DEF IInv
<1>2. o \in Files /\ pc[w] = "write" /\ UNCHANGED <<swift, box, loaded, left, k, seen, got, upd, served>>
  BY <1>1, ObjectFacts DEF LocalTyped, Write
<1>3. CASE off[w] = Size[o][got[w]]
  <2>1. Goto(w, "compare") /\ UNCHANGED <<clock, swift, cache, box, workerVars>> /\ loaded' = loaded
    BY <1>3 DEF Write, workerVars
  <2> QED BY <1>1, <1>2, <2>1, GoOnOK DEF WorkerTyped, Pcs, Activating, SharedTyped
<1>4. CASE off[w] # Size[o][got[w]]
  <2> DEFINE f == File(Overwrite(cache[o].blocks, off[w] + 1, got[w]), clock')
  <2>1. /\ clock' = clock + 1 /\ clock \in Nat /\ clock' \in Nat
        /\ off' = [off EXCEPT ![w] = @ + 1] /\ pc' = pc
    BY <1>1, <1>4 DEF Write, SharedTyped
  <2>2. off[w] \in Nat /\ got[w] \in Nat /\ off'[w] = off[w] + 1
    BY <1>1, <2>1 DEF LocalTyped
  <2>3. cache' = [cache EXCEPT ![o] = f]
    BY <1>4, <2>2 DEF Write
  <2>4. cache[o].blocks \in Seq(Nat)
    BY <1>1, <1>2, CopyFacts DEF WorkerTyped, SharedTyped
  <2>5. f \in Copies' /\ f # NoFile
    <3>1. Overwrite(cache[o].blocks, off[w] + 1, got[w]) \in Seq(Nat)
      <4>1. off[w] + 1 \in Nat
        BY <2>2
      <4> QED BY <2>2, <2>4, <4>1, OverwriteTyped
    <3>2. clock' \in 0 .. clock'
      BY <2>1
    <3> QED BY <2>1, <3>1, <3>2, FileFacts
  <2> HIDE DEF f
  <2>6. Copies \subseteq Copies' /\ Seq(0 .. clock) \subseteq Seq(0 .. clock')
    BY <2>1, CopiesGrow
  <2>7. SharedTyped'
    <3>1. cache' \in [Files -> Copies']
      BY <1>1, <2>3, <2>5, <2>6 DEF SharedTyped
    <3> QED BY <1>1, <1>2, <2>1, <2>6, <3>1 DEF SharedTyped
  <2>8. Grows /\ cache'[o] # NoFile
    BY <1>1, <1>2, <2>3, <2>5 DEF Grows, SharedTyped
  <2>9. SwiftOK' /\ UpdTyped'
    BY <1>1, <1>2 DEF SwiftOK, UpdTyped
  <2>10. LocalTyped'
    <3>1. off' \in [Workers -> Nat]
      BY <1>1, <2>1, <2>2 DEF LocalTyped
    <3> QED BY <1>1, <1>2, <2>1, <3>1 DEF LocalTyped
  <2>11. WorkerTyped(w)'
    <3>1. got[w] \in DOMAIN swift[o] /\ off[w] \in 0 .. Size[o][got[w]]
      BY <1>1, <1>2 DEF WorkerTyped
    <3>2. got[w] \in 1 .. Versions[o]
      BY <1>1, <1>2, <3>1, VersionsAssumption DEF SharedTyped, SwiftOK
    <3>3. off[w] + 1 \in 0 .. Size[o][got[w]]
      BY <1>2, <1>4, <3>1, <3>2, SizeFacts
    <3> QED BY <1>1, <1>2, <2>1, <2>2, <2>8, <3>1, <3>3 DEF WorkerTyped
  <2>12. WorkerOK(w)'
    BY <1>1, <1>2, <2>1 DEF WorkerOK, Past, Activating
  <2>13. \A v \in Workers \ {w} : Rests(v)
    BY <1>1, <1>2, <2>1 DEF Rests, LocalTyped
  <2> QED BY <2>7, <2>8, <2>9, <2>10, <2>11, <2>12, <2>13, StepParts
<1> QED BY <1>3, <1>4

\* On to the next object: both ways have seen to the object at hand.
LEMMA NextObjectOK ==
    ASSUME LocalTyped, NEW w \in Workers, NextObject(w), WorkerOK(w), WorkerTyped(w),
           pc[w] # "idle", box'[Objects[k[w]]] # NoFile, Grows, seen'[w] = seen[w]
    PROVE  /\ pc' \in [Workers -> Pcs] /\ k' \in [Workers -> DOMAIN Objects]
           /\ WorkerTyped(w)' /\ WorkerOK(w)'
           /\ \A v \in Workers \ {w} : pc'[v] = pc[v] /\ k'[v] = k[v]
<1>1. /\ k[w] \in DOMAIN Objects /\ DOMAIN Objects = 1 .. Len(Objects) /\ Len(Objects) \in Nat
      /\ \A i \in DOMAIN Objects : Objects[i] \in Files
      /\ storlet \in Files
  BY ObjectFacts DEF LocalTyped
<1>2. CASE k[w] < Len(Objects)
  <2>1. /\ pc' = [pc EXCEPT ![w] = "bring"] /\ k' = [k EXCEPT ![w] = @ + 1]
        /\ k[w] + 1 \in DOMAIN Objects
    BY <1>1, <1>2 DEF NextObject, Goto
  <2>2. pc' \in [Workers -> Pcs] /\ k' \in [Workers -> DOMAIN Objects]
    BY <2>1 DEF LocalTyped, Pcs
  <2>3. pc'[w] = "bring" /\ k'[w] = k[w] + 1
    BY <2>1 DEF LocalTyped
  <2>4. WorkerTyped(w)'
    BY <1>1, <2>3 DEF WorkerTyped, Grows
  <2>5. WorkerOK(w)'
    <3> SUFFICES ASSUME NEW i \in DOMAIN Objects, i < k[w] + 1 PROVE box'[Objects[i]] # NoFile
      BY <2>3 DEF WorkerOK, Past, Activating
    <3>1. i < k[w] \/ i = k[w]
      BY <1>1
    <3>2. CASE i < k[w]
      BY <1>1, <3>2 DEF WorkerOK, Past, Grows
    <3> QED BY <3>1, <3>2
  <2> QED BY <2>1, <2>2, <2>4, <2>5 DEF LocalTyped
<1>3. CASE ~(k[w] < Len(Objects))
  <2>1. /\ pc' = [pc EXCEPT ![w] = "status"] /\ k' = k /\ k[w] = Len(Objects)
    BY <1>1, <1>3 DEF NextObject, Goto
  <2>2. pc' \in [Workers -> Pcs] /\ k' \in [Workers -> DOMAIN Objects]
    BY <2>1 DEF LocalTyped, Pcs
  <2>3. pc'[w] = "status"
    BY <2>1 DEF LocalTyped
  <2>4. WorkerTyped(w)'
    BY <1>1, <2>3 DEF WorkerTyped, Grows
  <2>5. WorkerOK(w)'
    <3> SUFFICES ASSUME NEW i \in DOMAIN Objects PROVE box'[Objects[i]] # NoFile
      BY <2>3 DEF WorkerOK, Past, Activating
    <3>1. i < k[w] \/ i = k[w]
      BY <1>1, <2>1
    <3>2. CASE i < k[w]
      BY <1>1, <3>2 DEF WorkerOK, Past, Grows
    <3> QED BY <3>1, <3>2
  <2> QED BY <2>1, <2>2, <2>4, <2>5 DEF LocalTyped
<1> QED BY <1>2, <1>3

LEMMA CompareOK ==
    ASSUME IInv, NEW w \in Workers, Compare(w)
    PROVE  IInv'
<1> DEFINE o == Objects[k[w]]
<1>1. LocalTyped /\ UpdTyped /\ SharedTyped /\ SwiftOK /\ WorkerTyped(w) /\ WorkerOK(w)
  BY TypeParts DEF IInv
<1>2. /\ o \in Files /\ pc[w] = "compare" /\ cache[o] # NoFile
      /\ UNCHANGED <<swift, cache, loaded, left, seen, got, off, served>>
  BY <1>1, ObjectFacts DEF LocalTyped, Compare, WorkerTyped
<1>3. CASE BoxOutdated(o)
  <2> DEFINE f == File(cache[o].blocks, clock')
  <2>1. /\ clock' = clock + 1 /\ clock \in Nat /\ clock' \in Nat /\ clock' \in 0 .. clock'
        /\ box' = [box EXCEPT ![o] = f] /\ upd' = [upd EXCEPT ![w] = TRUE]
        /\ pc' = [pc EXCEPT ![w] = "copystat"] /\ k' = k
    BY <1>1, <1>3 DEF Compare, SharedTyped, Goto
  <2>2. cache[o].blocks \in Seq(Nat)
    BY <1>1, <1>2, CopyFacts DEF SharedTyped
  <2>3. f \in Copies' /\ f # NoFile
    BY <2>1, <2>2, FileFacts
  <2> HIDE DEF f
  <2>4. Copies \subseteq Copies' /\ Seq(0 .. clock) \subseteq Seq(0 .. clock')
    BY <2>1, CopiesGrow
  <2>5. SharedTyped'
    <3>1. box' \in [Files -> Copies']
      BY <1>1, <2>1, <2>3, <2>4 DEF SharedTyped
    <3> QED BY <1>1, <1>2, <2>1, <2>4, <3>1 DEF SharedTyped
  <2>6. Grows /\ box'[o] # NoFile
    BY <1>1, <1>2, <2>1, <2>3 DEF Grows, SharedTyped
  <2>7. SwiftOK'
    BY <1>1, <1>2 DEF SwiftOK
  <2>8. UpdTyped'
    <3>1. upd \in [Workers -> BOOLEAN] /\ upd' = [upd EXCEPT ![w] = TRUE]
      BY <1>1, <2>1 DEF UpdTyped
    <3> QED BY <3>1, Zenon DEF UpdTyped
  <2>9. LocalTyped' /\ pc'[w] = "copystat"
    BY <1>1, <1>2, <2>1 DEF LocalTyped, Pcs
  <2>10. WorkerTyped(w)'
    BY <1>1, <1>2, <2>1, <2>9 DEF WorkerTyped
  <2>11. WorkerOK(w)'
    BY <1>1, <1>2, <2>1, <2>6, <2>9, ObjectFacts DEF WorkerOK, Past, Activating, Grows
  <2>12. \A v \in Workers \ {w} : Rests(v)
    BY <1>1, <1>2, <2>1 DEF Rests, LocalTyped, UpdTyped
  <2> QED BY <2>5, <2>6, <2>7, <2>8, <2>9, <2>10, <2>11, <2>12, StepParts
<1>4. CASE ~BoxOutdated(o)
  <2>1. NextObject(w) /\ UNCHANGED <<clock, swift, cache, box, loaded, left, seen, got, off, upd, served>>
    BY <1>2, <1>4 DEF Compare
  <2>2. SharedTyped' /\ SwiftOK' /\ Grows /\ UpdTyped'
    BY <1>1, <2>1, SameShared DEF SharedTyped, UpdTyped
  <2>3. box'[o] # NoFile
    BY <1>4, <2>1 DEF BoxOutdated
  <2>4. /\ pc' \in [Workers -> Pcs] /\ k' \in [Workers -> DOMAIN Objects]
        /\ WorkerTyped(w)' /\ WorkerOK(w)'
        /\ \A v \in Workers \ {w} : pc'[v] = pc[v] /\ k'[v] = k[v]
    BY <1>1, <1>2, <2>1, <2>2, <2>3, NextObjectOK
  <2>5. LocalTyped' /\ \A v \in Workers \ {w} : Rests(v)
    BY <1>1, <2>1, <2>4 DEF LocalTyped, Rests
  <2> QED BY <2>2, <2>4, <2>5, StepParts
<1> QED BY <1>3, <1>4

\* The times are copied, the data stays.
LEMMA CopyStatFacts ==
    ASSUME IInv, NEW w \in Workers, CopyStat(w)
    PROVE  /\ box' \in [Files -> Copies]
           /\ \A o \in Files : (box[o] # NoFile <=> box'[o] # NoFile) /\ box'[o].blocks = box[o].blocks
<1> DEFINE o == Objects[k[w]]
           f == [box[o] EXCEPT !.mtime = cache[o].mtime]
<1>1. LocalTyped /\ SharedTyped /\ WorkerTyped(w) /\ WorkerOK(w)
  BY TypeParts DEF IInv
<1>2. o \in Files /\ cache[o] # NoFile /\ box[o] # NoFile
  BY <1>1, ObjectFacts DEF LocalTyped, CopyStat, WorkerTyped, WorkerOK
<1>3. /\ box[o].blocks \in Seq(Nat) /\ cache[o].mtime \in 0 .. clock
      /\ box[o] = [blocks |-> box[o].blocks, mtime |-> box[o].mtime]
  BY <1>1, <1>2, CopyFacts DEF SharedTyped
<1>4. f = [blocks |-> box[o].blocks, mtime |-> cache[o].mtime]
  BY <1>3
<1>5. f \in Copies /\ f.blocks = box[o].blocks
  BY <1>3, <1>4 DEF Copies
<1>6. f # NoFile
  <2>1. f \in [blocks: Seq(Nat), mtime: Nat]
    BY <1>3, <1>4
  <2> QED BY <2>1, NoFileAssumption
<1>7. box' = [box EXCEPT ![o] = f]
  BY DEF CopyStat
<1> HIDE DEF f
<1> QED BY <1>1, <1>2, <1>5, <1>6, <1>7 DEF SharedTyped

LEMMA CopyStatOK ==
    ASSUME IInv, NEW w \in Workers, CopyStat(w)
    PROVE  IInv'
<1> DEFINE o == Objects[k[w]]
<1>1. LocalTyped /\ UpdTyped /\ SharedTyped /\ SwiftOK /\ WorkerTyped(w) /\ WorkerOK(w)
  BY TypeParts DEF IInv
<1>2. /\ o \in Files /\ box[o] # NoFile /\ NextObject(w) /\ pc[w] = "copystat"
      /\ UNCHANGED <<clock, swift, cache, loaded, left, seen, got, off, upd, served>>
  BY <1>1, ObjectFacts DEF LocalTyped, CopyStat, WorkerOK
<1>3. box' \in [Files -> Copies] /\ \A p \in Files : box[p] # NoFile => box'[p] # NoFile
  BY CopyStatFacts
<1>4. SharedTyped'
  BY <1>1, <1>2, <1>3 DEF SharedTyped, Copies
<1>5. Grows
  BY <1>2, <1>3 DEF Grows
<1>6. SwiftOK' /\ UpdTyped'
  BY <1>1, <1>2 DEF SwiftOK, UpdTyped
<1>7. /\ pc' \in [Workers -> Pcs] /\ k' \in [Workers -> DOMAIN Objects]
      /\ WorkerTyped(w)' /\ WorkerOK(w)'
      /\ \A v \in Workers \ {w} : pc'[v] = pc[v] /\ k'[v] = k[v]
  BY <1>1, <1>2, <1>3, <1>5, NextObjectOK
<1>8. LocalTyped' /\ \A v \in Workers \ {w} : Rests(v)
  BY <1>1, <1>2, <1>7 DEF LocalTyped, Rests
<1> QED BY <1>4, <1>5, <1>6, <1>7, <1>8, StepParts

LEMMA InitOK == Init => IInv
<1> SUFFICES ASSUME Init PROVE IInv
  OBVIOUS
<1>1. SharedTyped
  BY DEF Init, SharedTyped, Copies
<1>2. LocalTyped
  BY ObjectFacts, RoundsAssumption DEF Init, LocalTyped, Pcs
<1>3. UpdTyped
  BY DEF Init, UpdTyped
<1>4. SwiftOK
  BY VersionsAssumption DEF Init, SwiftOK
<1>5. \A w \in Workers : WorkerTyped(w) /\ WorkerOK(w)
  BY DEF Init, WorkerTyped, WorkerOK, Past
<1> QED BY <1>1, <1>2, <1>3, <1>4, <1>5, TypeParts DEF IInv

LEMMA NextOK == IInv /\ [Next]_vars => IInv'
<1> SUFFICES ASSUME IInv, [Next]_vars PROVE IInv'
  OBVIOUS
<1>1. CASE UNCHANGED vars
  BY <1>1 DEF IInv, TypeOK, SwiftOK, WorkerOK, Past, Copies, vars, sharedVars, workerVars
<1> QED BY <1>1, UploadOK, InvokeOK, BringOK, GetOK, WriteOK, BreakOffOK, CompareOK, CopyStatOK,
           StatusOK, StopOK, StartOK, ActivateFailsOK, ExecuteOK, DaemonEndsOK DEF Next

LEMMA InvariantHolds == Spec => []IInv
BY InitOK, NextOK, PTL DEF Spec

\* Type correctness of the files, the daemon and the invocations, for any number
\* of workers and with uploads, broken downloads and failures at any moment: no
\* file carries a time of the future, none is compared or copied that is not
\* there, and a daemon is started only when all its files are there
\* (bring_from_cache, activate_storlet_daemon).
THEOREM CacheTypeCorrect == Spec => []TypeOK
<1>1. IInv => TypeOK
  BY DEF IInv
<1> QED BY <1>1, InvariantHolds, PTL

----------------------------------------------------------------------------
\* The daemon runs what lies in its directory.

\* No cached file is taken away.
LEMMA CacheStays ==
    ASSUME IInv, [Next]_vars
    PROVE  \A o \in Files : cache[o] # NoFile => cache'[o] # NoFile
<1>1. SharedTyped /\ LocalTyped /\ \A w \in Workers : WorkerTyped(w)'
  <2>1. IInv'
    BY NextOK
  <2>2. \A w \in Workers : WorkerTyped(w)'
    BY <2>1 DEF IInv, TypeOK, WorkerTyped
  <2> QED BY <2>2, TypeParts DEF IInv
<1>2. ASSUME NEW w \in Workers, NEW f, cache' = [cache EXCEPT ![Objects[k[w]]] = f],
             k' = k, pc'[w] = "write"
      PROVE  \A o \in Files : cache[o] # NoFile => cache'[o] # NoFile
  <2>1. cache'[Objects[k[w]]] # NoFile
    BY <1>1, <1>2 DEF WorkerTyped
  <2> QED BY <1>1, <1>2, <2>1 DEF SharedTyped
<1>3. ASSUME NEW w \in Workers, Get(w)
      PROVE  \A o \in Files : cache[o] # NoFile => cache'[o] # NoFile
  <2>1. pc'[w] = "write"
    BY <1>1, <1>3 DEF Get, Goto, LocalTyped
  <2> QED BY <1>2, <1>3, <2>1 DEF Get
<1>4. ASSUME NEW w \in Workers, Write(w)
      PROVE  \A o \in Files : cache[o] # NoFile => cache'[o] # NoFile
  <2>1. CASE cache' = cache
    BY <2>1
  <2>2. CASE cache' # cache
    BY <1>2, <1>4, <2>2 DEF Write
  <2> QED BY <2>1, <2>2
<1>5. cache' = cache \/ \E w \in Workers : Get(w) \/ Write(w)
  BY DEF Next, Upload, Invoke, Bring, BreakOff, Compare, CopyStat, Status, Stop, Start,
         ActivateFails, Execute, DaemonEnds, vars, sharedVars
<1> QED BY <1>3, <1>4, <1>5

\* A copy is made of a cached file, and none is taken away.
BoxGrows ==
    \A o \in Files : /\ box[o] # NoFile => box'[o] # NoFile
                     /\ box'[o] # NoFile => box[o] # NoFile \/ cache[o] # NoFile

LEMMA BoxStays ==
    ASSUME IInv, [Next]_vars
    PROVE  BoxGrows
<1>1. SharedTyped /\ LocalTyped /\ \A w \in Workers : WorkerTyped(w) /\ WorkerOK(w)'
  BY NextOK, TypeParts DEF IInv
<1>2. ASSUME NEW w \in Workers, Compare(w), box' # box PROVE BoxGrows
  <2> DEFINE f == File(cache[Objects[k[w]]].blocks, clock')
  <2>1. /\ box' = [box EXCEPT ![Objects[k[w]]] = f] /\ k' = k
        /\ pc[w] = "compare" /\ pc' = [pc EXCEPT ![w] = "copystat"]
    BY <1>2 DEF Compare, Goto
  <2> HIDE DEF f
  <2>2. pc'[w] = "copystat"
    BY <1>1, <2>1 DEF LocalTyped
  <2>3. cache[Objects[k[w]]] # NoFile /\ box'[Objects[k[w]]] # NoFile
    BY <1>1, <2>1, <2>2 DEF WorkerTyped, WorkerOK
  <2> QED BY <1>1, <2>1, <2>3 DEF SharedTyped, BoxGrows
<1>3. ASSUME NEW w \in Workers, CopyStat(w) PROVE BoxGrows
  BY <1>3, CopyStatFacts DEF BoxGrows
<1>4. box' = box \/ \E w \in Workers : Compare(w) \/ CopyStat(w)
  BY DEF Next, Upload, Invoke, Bring, Get, Write, BreakOff, Status, Stop, Start,
         ActivateFails, Execute, DaemonEnds, vars, sharedVars
<1>5. ASSUME box' = box PROVE BoxGrows
  BY <1>5 DEF BoxGrows
<1> QED BY <1>2, <1>3, <1>4, <1>5

\* Whoever starts the daemon has seen to all files.
LEMMA StockedStep == IInv /\ Stocked /\ [Next]_vars => Stocked'
<1> SUFFICES ASSUME IInv, Stocked, [Next]_vars PROVE Stocked'
  OBVIOUS
<1>1. /\ \A o \in Files : box'[o] # NoFile => cache'[o] # NoFile
      /\ \A o \in Files : box[o] # NoFile => box'[o] # NoFile
  BY BoxStays, CacheStays DEF Stocked, BoxGrows
<1>2. \/ loaded' \in {loaded, NoDaemon}
      \/ \E w \in Workers : pc[w] = "start"
  BY DEF Next, Upload, Invoke, Bring, Get, Write, BreakOff, Compare, CopyStat, Status, Stop, Start,
         ActivateFails, Execute, DaemonEnds, vars, sharedVars
<1>3. CASE loaded' \in {loaded, NoDaemon}
  BY <1>1, <1>3 DEF Stocked
<1>4. CASE \E w \in Workers : pc[w] = "start"
  <2>1. \A o \in Files : box[o] # NoFile
    BY <1>4 DEF IInv, WorkerOK, Past, Activating, Files
  <2> QED BY <1>1, <2>1 DEF Stocked
<1> QED BY <1>2, <1>3, <1>4

LEMMA StockedHolds == Spec => []Stocked
<1>1. Init => Stocked
  BY DEF Init, Stocked
<1> QED BY <1>1, StockedStep, InvariantHolds, PTL DEF Spec

\* The parts of StopInv.
NothingCopied(w) == pc[w] \in {"bring", "get", "write", "compare"} /\ k[w] = 1 => ~upd[w]
Noticed == \E w \in Workers : WillStop(w)
Agrees == \A o \in Files : loaded[o] = box[o].blocks

LEMMA StopParts ==
    StopInv <=> /\ \A w \in Workers : NothingCopied(w)
                /\ loaded # NoDaemon => Agrees \/ Noticed
BY DEF StopInv, NothingCopied, Noticed, Agrees

\* The daemon and the data of its directory stay: whoever was going to stop it
\* still is.
LEMMA StillNoticed ==
    ASSUME StopInv, loaded' \in {loaded, NoDaemon}, \A o \in Files : box'[o].blocks = box[o].blocks,
           \A w \in Workers : WillStop(w) => WillStop(w)' \/ loaded' = NoDaemon,
           \A w \in Workers : NothingCopied(w)'
    PROVE  StopInv'
<1>1. loaded' # NoDaemon => loaded' = loaded /\ (Agrees \/ Noticed)
  BY StopParts
<1>2. loaded' # NoDaemon => Agrees' \/ Noticed'
  BY <1>1 DEF Agrees, Noticed
<1> QED BY <1>2 DEF StopInv, NothingCopied, Noticed, Agrees

\* The steps that leave the files of the sandbox alone.
LEMMA GoOnStops ==
    ASSUME StopInv, IInv, NEW w \in Workers, NEW l \in Pcs, Goto(w, l),
           upd' = upd, k' = k, box' = box, loaded' \in {loaded, NoDaemon},
           l \in {"bring", "get", "write", "compare"} => pc[w] \in {"bring", "get", "write", "compare"},
           WillStop(w) =>
             \/ l \in {"bring", "compare", "copystat", "status", "stop"}
             \/ loaded' = NoDaemon
    PROVE  StopInv'
<1>1. LocalTyped
  BY TypeParts DEF IInv
<1>2. pc'[w] = l /\ \A v \in Workers \ {w} : pc'[v] = pc[v]
  BY <1>1 DEF Goto, LocalTyped
<1>3. \A v \in Workers : WillStop(v) => WillStop(v)' \/ loaded' = NoDaemon
  BY <1>2 DEF WillStop
<1>4. \A v \in Workers : NothingCopied(v)'
  BY <1>2, StopParts DEF NothingCopied
<1> QED BY <1>3, <1>4, StillNoticed

\* A daemon that is started is started from the directory.
LEMMA StartedStops ==
    ASSUME StopInv, IInv, NEW w \in Workers, pc[w] = "start", NEW l \in {"execute", "idle"}, Goto(w, l),
           upd' = upd, k' = k, box' = box, loaded' \in {loaded, Started}
    PROVE  StopInv'
<1>1. CASE loaded' = loaded
  BY <1>1, GoOnStops DEF WillStop, Pcs
<1>2. CASE loaded' = Started /\ loaded' # loaded
  <2>1. loaded' = [o \in Files |-> box[o].blocks]
    BY <1>2 DEF Started
  <2>2. Agrees'
    BY <2>1 DEF Agrees
  <2>3. LocalTyped
    BY TypeParts DEF IInv
  <2>4. pc'[w] = l /\ \A v \in Workers \ {w} : pc'[v] = pc[v]
    BY <2>3 DEF Goto, LocalTyped
  <2>5. \A v \in Workers : NothingCopied(v)'
    BY <2>4, StopParts DEF NothingCopied
  <2> QED BY <2>2, <2>5 DEF StopInv, NothingCopied, Agrees
<1> QED BY <1>1, <1>2

\* On to the next object.
LEMMA NextObjectStops ==
    ASSUME LocalTyped, UpdTyped, NEW w \in Workers, NextObject(w), upd' = upd,
           pc[w] \in {"compare", "copystat"}
    PROVE  /\ WillStop(w) => WillStop(w)'
           /\ NothingCopied(w)'
           /\ \A v \in Workers \ {w} :
                (WillStop(v) <=> WillStop(v)') /\ (NothingCopied(v) => NothingCopied(v)')
<1>1. k[w] \in Nat /\ k[w] # 0
  BY ObjectFacts DEF LocalTyped
<1>2. \/ pc'[w] = "bring" /\ k'[w] = k[w] + 1
      \/ pc'[w] = "status"
  BY DEF NextObject, Goto, LocalTyped
<1>3. \A v \in Workers \ {w} : pc'[v] = pc[v] /\ k'[v] = k[v]
  BY DEF NextObject, Goto, LocalTyped
<1> QED BY <1>1, <1>2, <1>3 DEF WillStop, NothingCopied

LEMMA CompareStops ==
    ASSUME StopInv, IInv, NEW w \in Workers, Compare(w)
    PROVE  StopInv'
<1> DEFINE o == Objects[k[w]]
<1>1. LocalTyped /\ UpdTyped
  BY TypeParts DEF IInv
<1>2. CASE BoxOutdated(o)
  <2>1. /\ upd' = [upd EXCEPT ![w] = TRUE] /\ pc' = [pc EXCEPT ![w] = "copystat"] /\ k' = k
    BY <1>2 DEF Compare, Goto
  <2>2. upd'[w] = TRUE /\ pc'[w] = "copystat" /\ \A v \in Workers \ {w} : pc'[v] = pc[v] /\ upd'[v] = upd[v]
    BY <1>1, <2>1 DEF LocalTyped, UpdTyped
  <2>3. WillStop(w)'
    BY <2>2 DEF WillStop
  <2>4. \A v \in Workers : NothingCopied(v)'
    BY <2>1, <2>2, StopParts DEF NothingCopied
  <2> QED BY <2>3, <2>4 DEF StopInv, NothingCopied
<1>3. CASE ~BoxOutdated(o)
  <2>1. NextObject(w) /\ UNCHANGED <<box, upd, loaded>> /\ pc[w] = "compare"
    BY <1>3 DEF Compare
  <2> QED BY <1>1, <2>1, NextObjectStops, StillNoticed, StopParts
<1> QED BY <1>2, <1>3

LEMMA CopyStatStops ==
    ASSUME StopInv, IInv, NEW w \in Workers, CopyStat(w)
    PROVE  StopInv'
<1>1. LocalTyped /\ UpdTyped
  BY TypeParts DEF IInv
<1>2. NextObject(w) /\ UNCHANGED <<upd, loaded>> /\ pc[w] = "copystat"
  BY DEF CopyStat
<1>3. \A o \in Files : box'[o].blocks = box[o].blocks
  BY CopyStatFacts
<1> QED BY <1>1, <1>2, <1>3, NextObjectStops, StillNoticed, StopParts

LEMMA InvokeStops ==
    ASSUME StopInv, IInv, NEW w \in Workers, Invoke(w)
    PROVE  StopInv'
<1>1. LocalTyped /\ UpdTyped
  BY TypeParts DEF IInv
<1>2. /\ pc' = [pc EXCEPT ![w] = "bring"] /\ upd' = [upd EXCEPT ![w] = FALSE]
      /\ k' = [k EXCEPT ![w] = 1] /\ box' = box /\ loaded' = loaded /\ pc[w] = "idle"
  BY DEF Invoke, Goto, sharedVars
<1>3. /\ upd'[w] = FALSE
      /\ \A v \in Workers \ {w} : pc'[v] = pc[v] /\ upd'[v] = upd[v] /\ k'[v] = k[v]
  BY <1>1, <1>2 DEF LocalTyped, UpdTyped
<1>4. \A v \in Workers : NothingCopied(v)'
  BY <1>3, StopParts DEF NothingCopied
<1>5. \A v \in Workers : WillStop(v) => WillStop(v)'
  BY <1>2, <1>3 DEF WillStop
<1> QED BY <1>2, <1>4, <1>5, StillNoticed

\* While a daemon runs nobody who has copied a file goes on to a download: the
\* storlet comes first, and the dependencies are there.
LEMMA BringStops ==
    ASSUME StopInv, IInv, Stocked, NEW w \in Workers, Bring(w)
    PROVE  StopInv'
<1> DEFINE o == Objects[k[w]]
<1>1. o \in Files /\ k[w] \in DOMAIN Objects
  BY TypeParts, ObjectFacts DEF IInv, LocalTyped
<1>2. /\ pc[w] = "bring" /\ loaded' = loaded
      /\ UNCHANGED <<upd, k, box>>
  BY DEF Bring, sharedVars, workerVars
<1>3. CASE ~CacheOutdated(o, seen[w])
  BY <1>2, <1>3, GoOnStops DEF Bring, Pcs
<1>4. CASE CacheOutdated(o, seen[w])
  <2>1. WillStop(w) => k[w] # 1
    BY <1>2, StopParts DEF NothingCopied, WillStop
  <2>2. k[w] # 1 => cache[o] = NoFile
    BY <1>1, <1>4, OtherThanStorlet DEF CacheOutdated
  <2>3. WillStop(w) => loaded = NoDaemon
    BY <1>1, <2>1, <2>2 DEF Stocked
  <2> QED BY <1>2, <1>4, <2>3, GoOnStops DEF Bring, Pcs
<1> QED BY <1>3, <1>4

LEMMA StopStep ==
    ASSUME ~EngineFails, IInv, Stocked, StopInv, [Next]_vars
    PROVE  StopInv'
<1>1. ASSUME NEW w \in Workers, Bring(w) PROVE StopInv'
  BY <1>1, BringStops
<1>2. ASSUME NEW w \in Workers, Get(w) PROVE StopInv'
  BY <1>2, GoOnStops DEF Get, Pcs, WillStop
<1>3. ASSUME NEW w \in Workers, Write(w) PROVE StopInv'
  <2>1. CASE Goto(w, "compare")
    BY <1>3, <2>1, GoOnStops DEF Write, Pcs
  <2>2. CASE pc' = pc
    BY <1>3, <2>2, StillNoticed, StopParts DEF Write, WillStop, NothingCopied
  <2> QED BY <1>3, <2>1, <2>2 DEF Write
<1>4. ASSUME NEW w \in Workers, BreakOff(w) PROVE StopInv'
  BY <1>4, GoOnStops DEF BreakOff, sharedVars, workerVars, Pcs, WillStop
<1>5. ASSUME NEW w \in Workers, Status(w) PROVE StopInv'
  <2>1. CASE loaded = NoDaemon
    BY <1>5, <2>1, GoOnStops DEF Status, sharedVars, workerVars, Pcs
  <2>2. CASE loaded # NoDaemon /\ upd[w]
    BY <1>5, <2>2, GoOnStops DEF Status, sharedVars, workerVars, Pcs
  <2>3. CASE loaded # NoDaemon /\ ~upd[w]
    BY <1>5, <2>3, GoOnStops DEF Status, sharedVars, workerVars, Pcs, WillStop
  <2> QED BY <2>1, <2>2, <2>3
<1>6. ASSUME NEW w \in Workers, Stop(w) PROVE StopInv'
  BY <1>6, GoOnStops DEF Stop, workerVars, Pcs
<1>7. ASSUME NEW w \in Workers, Start(w) PROVE StopInv'
  BY <1>7, StartedStops DEF Start, workerVars
<1>8. ASSUME NEW w \in Workers, ActivateFails(w) PROVE StopInv'
  BY <1>8, StartedStops DEF ActivateFails, workerVars
<1>9. ASSUME NEW w \in Workers, Execute(w) PROVE StopInv'
  BY <1>9, GoOnStops DEF Execute, sharedVars, Pcs, WillStop
<1>10. ASSUME NEW o \in Files, Upload(o) PROVE StopInv'
  BY <1>10, StillNoticed, StopParts DEF Upload, workerVars, WillStop, NothingCopied
<1>11. ASSUME DaemonEnds PROVE StopInv'
  BY <1>11, StillNoticed, StopParts DEF DaemonEnds, workerVars, WillStop, NothingCopied
<1>12. CASE UNCHANGED vars
  BY <1>12, StillNoticed, StopParts DEF vars, sharedVars, workerVars, WillStop, NothingCopied
<1> QED BY <1>1, <1>2, <1>3, <1>4, <1>5, <1>6, <1>7, <1>8, <1>9, <1>10, <1>11, <1>12,
           InvokeStops, CompareStops, CopyStatStops DEF Next

LEMMA StopHolds ==
    ASSUME ~EngineFails
    PROVE  Spec => []StopInv
<1>1. Init => StopInv
  BY DEF Init, StopInv
<1>2. IInv /\ Stocked /\ StopInv /\ [Next]_vars => StopInv'
  BY StopStep
<1> QED BY <1>1, <1>2, InvariantHolds, StockedHolds, PTL DEF Spec

\* No copy goes unnoticed: whenever no invocation is under way the daemon, if
\* there is one, runs what lies in its directory.  This holds for any number of
\* workers that copy, start and stop at the same time and whatever downloads
\* break off, if the engine stops a sandbox when told to (update_container in
\* bring_from_cache, activate_storlet_daemon).
THEOREM DaemonRunsBoxHolds ==
    ASSUME ~EngineFails
    PROVE  Spec => []DaemonRunsBox
<1>1. StopInv => DaemonRunsBox
  BY DEF StopInv, DaemonRunsBox, WillStop
<1> QED BY <1>1, StopHolds, PTL

----------------------------------------------------------------------------
\* The code of the daemon is whole.

\* The parts of WholeInv.
Dependencies(w) ==
    \A o \in Sound \ {storlet} :
        cache[o] = NoFile \/ IsWhole(o, cache[o].blocks) \/ (pc[w] = "write" /\ o = Objects[k[w]])
BoxWhole == \A o \in Sound : box[o] # NoFile => IsWhole(o, box[o].blocks)
LoadedWhole == loaded # NoDaemon => \A o \in Sound : IsWhole(o, loaded[o])
SeesLatest(w) == pc[w] \in {"bring", "get", "write"} /\ k[w] = 1 => seen[w] = latest(storlet)
Downloads(w) ==
    pc[w] = "write" => /\ got[w] = latest(Objects[k[w]])
                       /\ cache[Objects[k[w]]].blocks = Part(got[w], off[w])
Compares(w) ==
    pc[w] \in {"compare", "copystat"} /\ Objects[k[w]] \in Sound =>
        IsWhole(Objects[k[w]], cache[Objects[k[w]]].blocks)

LEMMA SoundFacts ==
    Sound \subseteq Files /\ storlet \in Sound /\ (OnlyStorletBreaks => Sound = Files)
BY ObjectFacts DEF Sound, OnlyStorletBreaks

LEMMA WholeParts ==
    ASSUME NEW w
    PROVE  WholeInv(w) <=>
             /\ CachedStorlet /\ Dependencies(w) /\ BoxWhole /\ LoadedWhole
             /\ SeesLatest(w) /\ Downloads(w) /\ Compares(w)
BY DEF WholeInv, Dependencies, BoxWhole, LoadedWhole, SeesLatest, Downloads, Compares

\* What was whole stays whole when further versions are uploaded.
LEMMA WholeStays ==
    ASSUME Grows, NEW o \in Files, NEW b, IsWhole(o, b)
    PROVE  \E v \in DOMAIN swift'[o] : b = Whole(o, v)
BY DEF IsWhole, Grows

LEMMA ElementFacts ==
    ASSUME NEW S, NEW s \in Seq(S), NEW i \in 1 .. Len(s)
    PROVE  s[i] \in S
OBVIOUS

LEMMA LatestFacts ==
    ASSUME IInv, NEW o \in Files
    PROVE  /\ latest(o) \in Nat /\ latest(o) \in DOMAIN swift[o] /\ latest(o) \in 1 .. Versions[o]
           /\ DOMAIN swift[o] = 1 .. latest(o) /\ DOMAIN swift[o] \subseteq 1 .. Versions[o]
           /\ Versions[o] \in Nat
           /\ \A v \in DOMAIN swift[o] : v \in Nat /\ swift[o][v] \in 0 .. clock /\ Size[o][v] \in Nat \ {0}
<1>1. swift[o] \in Seq(0 .. clock) /\ Len(swift[o]) \in 1 .. Versions[o] /\ Versions[o] \in Nat
  BY TypeParts, VersionsAssumption DEF IInv, SharedTyped, SwiftOK
<1>2. DOMAIN swift[o] = 1 .. Len(swift[o]) /\ Len(swift[o]) \in Nat
  BY <1>1
<1>3. \A v \in DOMAIN swift[o] : v \in 1 .. Versions[o]
  BY <1>1, <1>2
<1>4. \A v \in DOMAIN swift[o] : Size[o][v] \in Nat \ {0}
  BY <1>3, SizeFacts
<1>5. \A v \in DOMAIN swift[o] : swift[o][v] \in 0 .. clock
  BY <1>1, <1>2, ElementFacts
<1>6. latest(o) = Len(swift[o])
  BY DEF latest
<1>7. latest(o) \in DOMAIN swift[o] /\ \A v \in DOMAIN swift[o] : v \in Nat
  BY <1>1, <1>2, <1>6
<1> QED BY <1>1, <1>2, <1>3, <1>4, <1>5, <1>6, <1>7

\* A download that is complete.
LEMMA WholePart ==
    ASSUME NEW o, NEW v
    PROVE  Whole(o, v) = Part(v, Size[o][v])
BY DEF Whole, Part

\* A step that leaves the versions and the files alone.
LEMMA GoOnWhole ==
    ASSUME IInv, NEW w \in Workers, WholeInv(w), NEW l \in Pcs, Goto(w, l),
           swift' = swift, cache' = cache, box' = box, k' = k, seen' = seen, got' = got, off' = off,
           LoadedWhole', l \in {"bring", "get"} => pc[w] \in {"bring", "get"}, l # "write",
           pc[w] = "write" => k[w] = 1 \/ l = "compare" \/ Objects[k[w]] \notin Sound,
           l \in {"compare", "copystat"} /\ Objects[k[w]] \in Sound =>
             IsWhole(Objects[k[w]], cache[Objects[k[w]]].blocks)
    PROVE  WholeInv(w)'
<1>1. pc'[w] = l
  BY TypeParts DEF IInv, LocalTyped, Goto
<1>2. /\ CachedStorlet /\ Dependencies(w) /\ BoxWhole
      /\ SeesLatest(w) /\ Downloads(w) /\ Compares(w)
  BY WholeParts
<1>3. CachedStorlet' /\ BoxWhole'
  BY <1>2 DEF CachedStorlet, BoxWhole, IsWhole, latest
<1>4. Dependencies(w)'
  <2>1. Objects[1] = storlet
    BY DEF storlet
  <2> QED BY <1>1, <1>2, <2>1 DEF Dependencies, IsWhole
<1>5. SeesLatest(w)' /\ Downloads(w)' /\ Compares(w)'
  BY <1>1, <1>2 DEF SeesLatest, Downloads, Compares, IsWhole, latest
<1> QED BY <1>3, <1>4, <1>5 DEF WholeInv, Dependencies, BoxWhole, LoadedWhole, SeesLatest, Downloads, Compares

\* The storlet is not downloaded when the cached file is the version asked for.
LEMMA UpToDate ==
    ASSUME IInv, NEW w \in Workers, WholeInv(w), pc[w] = "bring", k[w] = 1,
           ~CacheOutdated(storlet, seen[w])
    PROVE  cache[storlet].blocks = Whole(storlet, seen[w])
<1>1. CachedStorlet /\ SeesLatest(w) /\ storlet \in Files
  BY WholeParts, ObjectFacts
<1>2. /\ cache[storlet] # NoFile /\ Len(cache[storlet].blocks) = Size[storlet][seen[w]]
      /\ ~(cache[storlet].mtime < swift[storlet][seen[w]])
  BY DEF CacheOutdated
<1>3. seen[w] = latest(storlet)
  BY <1>1 DEF SeesLatest
<1>4. PICK v \in DOMAIN swift[storlet] :
        /\ \E n \in 0 .. Size[storlet][v] : cache[storlet].blocks = Part(v, n)
        /\ v = latest(storlet) \/ cache[storlet].mtime < swift[storlet][latest(storlet)]
  BY <1>1, <1>2 DEF CachedStorlet
<1>5. v = seen[w]
  BY <1>2, <1>3, <1>4
<1>6. v \in Nat /\ Size[storlet][v] \in Nat
  BY <1>1, LatestFacts
<1>7. PICK n \in 0 .. Size[storlet][v] : cache[storlet].blocks = Part(v, n)
  BY <1>4
<1>8. n \in Nat /\ Len(Part(v, n)) = n
  BY <1>6, PartFacts
<1>9. n = Size[storlet][v]
  BY <1>2, <1>5, <1>7, <1>8
<1> QED BY <1>5, <1>7, <1>9, WholePart

LEMMA BringWhole ==
    ASSUME IInv, NEW w \in Workers, WholeInv(w), Bring(w)
    PROVE  WholeInv(w)'
<1> DEFINE o == Objects[k[w]]
<1>1. LocalTyped /\ SharedTyped /\ o \in Files /\ k[w] \in DOMAIN Objects
  BY TypeParts, ObjectFacts DEF IInv, LocalTyped
<1>2. /\ CachedStorlet /\ Dependencies(w) /\ LoadedWhole /\ SeesLatest(w)
  BY WholeParts
<1>3. LoadedWhole'
  BY <1>2 DEF Bring, sharedVars, LoadedWhole, IsWhole
<1>4. CASE CacheOutdated(o, seen[w])
  BY <1>3, <1>4, GoOnWhole DEF Bring, sharedVars, workerVars, Pcs
<1>5. CASE ~CacheOutdated(o, seen[w])
  <2>1. o \in Sound => IsWhole(o, cache[o].blocks)
    <3>1. CASE k[w] = 1
      <4>1. o = storlet /\ cache[storlet].blocks = Whole(storlet, seen[w])
        BY <1>5, <3>1, UpToDate DEF storlet, Bring
      <4>2. seen[w] \in DOMAIN swift[storlet]
        BY TypeParts DEF IInv, WorkerTyped, Bring
      <4> QED BY <4>1, <4>2 DEF IsWhole
    <3>2. CASE k[w] # 1
      BY <1>1, <1>2, <1>5, <3>2, OtherThanStorlet DEF Dependencies, Bring, CacheOutdated
    <3> QED BY <3>1, <3>2
  <2> QED BY <1>3, <1>5, <2>1, GoOnWhole DEF Bring, sharedVars, workerVars, Pcs
<1> QED BY <1>4, <1>5

LEMMA GetWhole ==
    ASSUME IInv, NEW w \in Workers, WholeInv(w), Get(w)
    PROVE  WholeInv(w)'
<1> DEFINE o == Objects[k[w]]
           f == File(<<>>, clock')
<1>1. LocalTyped /\ SharedTyped /\ o \in Files /\ k[w] \in DOMAIN Objects
  BY TypeParts, ObjectFacts DEF IInv, LocalTyped
<1>2. /\ CachedStorlet /\ Dependencies(w) /\ BoxWhole /\ LoadedWhole /\ SeesLatest(w)
  BY WholeParts
<1>3. /\ clock' = clock + 1 /\ cache' = [cache EXCEPT ![o] = f] /\ pc[w] = "get"
      /\ pc' = [pc EXCEPT ![w] = "write"] /\ got' = [got EXCEPT ![w] = Len(swift[o])]
      /\ off' = [off EXCEPT ![w] = 0] /\ UNCHANGED <<swift, box, loaded, k, seen>>
  BY DEF Get, Goto
<1>4. f.blocks = <<>>
  BY DEF File
<1> HIDE DEF f
<1>5. cache'[o] = f /\ \A p \in Files \ {o} : cache'[p] = cache[p]
  BY <1>1, <1>3 DEF SharedTyped
<1>6. pc'[w] = "write" /\ got'[w] = latest(o) /\ off'[w] = 0 /\ k'[w] = k[w]
  BY <1>1, <1>3 DEF LocalTyped, latest
<1>7. f.blocks = Part(latest(o), 0)
  BY <1>4 DEF Part
<1>8. CachedStorlet'
  <2>1. CASE o = storlet
    <3>1. latest(storlet) \in DOMAIN swift[storlet] /\ Size[storlet][latest(storlet)] \in Nat
      BY <1>1, <2>1, LatestFacts
    <3>2. 0 \in 0 .. Size[storlet][latest(storlet)]
      BY <3>1
    <3>3. latest(storlet)' = latest(storlet)
      BY <1>3 DEF latest
    <3> QED BY <1>3, <1>5, <1>7, <2>1, <3>1, <3>2, <3>3 DEF CachedStorlet
  <2>2. CASE o # storlet
    <3>1. cache'[storlet] = cache[storlet]
      BY <1>5, <2>2, ObjectFacts
    <3> QED BY <1>2, <1>3, <3>1 DEF CachedStorlet, latest
  <2> QED BY <2>1, <2>2
<1>9. Dependencies(w)'
  BY <1>2, <1>3, <1>5, <1>6 DEF Dependencies, IsWhole
<1>10. BoxWhole' /\ LoadedWhole'
  BY <1>2, <1>3 DEF BoxWhole, LoadedWhole, IsWhole
<1>11. SeesLatest(w)' /\ Compares(w)'
  BY <1>2, <1>3, <1>6 DEF SeesLatest, Compares, latest
<1>12. Downloads(w)'
  BY <1>3, <1>5, <1>6, <1>7 DEF Downloads, latest
<1> QED BY <1>8, <1>9, <1>10, <1>11, <1>12
      DEF WholeInv, Dependencies, BoxWhole, LoadedWhole, SeesLatest, Downloads, Compares

LEMMA WriteWhole ==
    ASSUME IInv, NEW w \in Workers, WholeInv(w), Write(w)
    PROVE  WholeInv(w)'
<1> DEFINE o == Objects[k[w]]
<1>1. LocalTyped /\ SharedTyped /\ WorkerTyped(w) /\ o \in Files /\ k[w] \in DOMAIN Objects
  BY TypeParts, ObjectFacts DEF IInv, LocalTyped
<1>2. /\ CachedStorlet /\ Dependencies(w) /\ BoxWhole /\ LoadedWhole
      /\ SeesLatest(w) /\ Downloads(w) /\ pc[w] = "write"
  BY WholeParts DEF Write
<1>3. /\ UNCHANGED <<swift, box, loaded, k, seen, got>>
      /\ got[w] = latest(o) /\ cache[o].blocks = Part(got[w], off[w])
      /\ got[w] \in DOMAIN swift[o] /\ off[w] \in 0 .. Size[o][got[w]]
  BY <1>1, <1>2 DEF Write, Downloads, WorkerTyped
<1>4. got[w] \in Nat /\ Size[o][got[w]] \in Nat
  BY <1>1, <1>3, LatestFacts
<1>5. LoadedWhole'
  BY <1>2, <1>3 DEF LoadedWhole, IsWhole
<1>6. CASE off[w] = Size[o][got[w]]
  <2>1. Goto(w, "compare") /\ cache' = cache /\ off' = off
    BY <1>6 DEF Write
  <2>2. IsWhole(o, cache[o].blocks)
    BY <1>3, <1>6, WholePart DEF IsWhole
  <2> QED BY <1>3, <1>5, <2>1, <2>2, GoOnWhole DEF Pcs
<1>7. CASE off[w] # Size[o][got[w]]
  <2> DEFINE f == File(Overwrite(cache[o].blocks, off'[w], got[w]), clock')
  <2>1. off' = [off EXCEPT ![w] = @ + 1] /\ cache' = [cache EXCEPT ![o] = f] /\ pc' = pc
    BY <1>7 DEF Write
  <2>2. off'[w] = off[w] + 1 /\ off[w] \in Nat
    BY <1>1, <2>1 DEF LocalTyped
  <2>3. f.blocks = Part(got[w], off[w] + 1)
    BY <1>3, <1>4, <2>2, OverwritePart DEF File
  <2> HIDE DEF f
  <2>4. cache'[o] = f /\ \A p \in Files \ {o} : cache'[p] = cache[p]
    BY <1>1, <2>1 DEF SharedTyped
  <2>5. off[w] + 1 \in 0 .. Size[o][got[w]]
    BY <1>3, <1>4, <1>7
  <2>6. CachedStorlet'
    <3>1. CASE o = storlet
      BY <1>3, <2>3, <2>4, <2>5, <3>1 DEF CachedStorlet, latest
    <3>2. CASE o # storlet
      <4>1. cache'[storlet] = cache[storlet]
        BY <2>4, <3>2, ObjectFacts
      <4> QED BY <1>2, <1>3, <4>1 DEF CachedStorlet, latest
    <3> QED BY <3>1, <3>2
  <2>7. Dependencies(w)'
    BY <1>2, <1>3, <2>1, <2>4 DEF Dependencies, IsWhole
  <2>8. BoxWhole'
    BY <1>2, <1>3 DEF BoxWhole, IsWhole
  <2>9. SeesLatest(w)' /\ Compares(w)'
    BY <1>2, <1>3, <2>1 DEF SeesLatest, Compares, latest
  <2>10. Downloads(w)'
    BY <1>3, <2>2, <2>3, <2>4 DEF Downloads, latest
  <2> QED BY <1>5, <2>6, <2>7, <2>8, <2>9, <2>10
        DEF WholeInv, Dependencies, BoxWhole, LoadedWhole, SeesLatest, Downloads, Compares
<1> QED BY <1>6, <1>7

\* On to the next object: nothing but the files of the sandbox was changed.
LEMMA NextObjectWhole ==
    ASSUME IInv, NEW w \in Workers, WholeInv(w), NextObject(w), pc[w] \in {"compare", "copystat"},
           swift' = swift, cache' = cache, loaded' = loaded, BoxWhole'
    PROVE  WholeInv(w)'
<1>1. LocalTyped /\ CachedStorlet /\ Dependencies(w) /\ LoadedWhole
  BY TypeParts, WholeParts DEF IInv
<1>2. k[w] \in Nat /\ k[w] # 0
  BY <1>1, ObjectFacts DEF LocalTyped
<1>3. \/ pc'[w] = "bring" /\ k'[w] = k[w] + 1
      \/ pc'[w] = "status"
  BY <1>1 DEF NextObject, Goto, LocalTyped
<1>4. CachedStorlet' /\ LoadedWhole'
  BY <1>1 DEF CachedStorlet, LoadedWhole, IsWhole, latest
<1>5. Dependencies(w)'
  BY <1>1 DEF Dependencies, IsWhole
<1>6. SeesLatest(w)' /\ Downloads(w)' /\ Compares(w)'
  BY <1>2, <1>3 DEF SeesLatest, Downloads, Compares
<1> QED BY <1>4, <1>5, <1>6 DEF WholeInv, Dependencies, BoxWhole, LoadedWhole, SeesLatest, Downloads, Compares

LEMMA CompareWhole ==
    ASSUME IInv, NEW w \in Workers, WholeInv(w), Compare(w)
    PROVE  WholeInv(w)'
<1> DEFINE o == Objects[k[w]]
<1>1. LocalTyped /\ SharedTyped /\ o \in Files
  BY TypeParts, ObjectFacts DEF IInv, LocalTyped
<1>2. /\ CachedStorlet /\ Dependencies(w) /\ BoxWhole /\ LoadedWhole
      /\ (o \in Sound => IsWhole(o, cache[o].blocks)) /\ pc[w] = "compare"
      /\ UNCHANGED <<swift, cache, loaded, seen, got, off>>
  BY WholeParts DEF Compare, Compares
<1>3. CASE BoxOutdated(o)
  <2> DEFINE f == File(cache[o].blocks, clock')
  <2>1. box' = [box EXCEPT ![o] = f] /\ Goto(w, "copystat") /\ k' = k
    BY <1>3 DEF Compare
  <2>2. f.blocks = cache[o].blocks
    BY DEF File
  <2> HIDE DEF f
  <2>3. box'[o] = f /\ \A p \in Files \ {o} : box'[p] = box[p]
    BY <1>1, <2>1 DEF SharedTyped
  <2>4. BoxWhole'
    BY <1>2, <2>2, <2>3, SoundFacts DEF BoxWhole, IsWhole
  <2>5. pc'[w] = "copystat"
    BY <1>1, <2>1 DEF Goto, LocalTyped
  <2>6. CachedStorlet' /\ Dependencies(w)' /\ LoadedWhole'
    BY <1>2 DEF CachedStorlet, Dependencies, LoadedWhole, IsWhole, latest
  <2>7. SeesLatest(w)' /\ Downloads(w)' /\ Compares(w)'
    BY <1>2, <2>1, <2>5 DEF SeesLatest, Downloads, Compares, IsWhole
  <2> QED BY <2>4, <2>6, <2>7
        DEF WholeInv, Dependencies, BoxWhole, LoadedWhole, SeesLatest, Downloads, Compares
<1>4. CASE ~BoxOutdated(o)
  <2>1. NextObject(w) /\ box' = box
    BY <1>4 DEF Compare
  <2>2. BoxWhole'
    BY <1>2, <2>1 DEF BoxWhole, IsWhole
  <2> QED BY <1>2, <2>1, <2>2, NextObjectWhole
<1> QED BY <1>3, <1>4

LEMMA CopyStatWhole ==
    ASSUME IInv, NEW w \in Workers, WholeInv(w), CopyStat(w)
    PROVE  WholeInv(w)'
<1>1. BoxWhole /\ NextObject(w) /\ pc[w] = "copystat" /\ UNCHANGED <<swift, cache, loaded>>
  BY WholeParts DEF CopyStat
<1>2. \A o \in Files : (box[o] # NoFile <=> box'[o] # NoFile) /\ box'[o].blocks = box[o].blocks
  BY CopyStatFacts
<1>3. BoxWhole'
  BY <1>1, <1>2, SoundFacts DEF BoxWhole, IsWhole
<1> QED BY <1>1, <1>3, NextObjectWhole

\* A daemon is started from whole files.
LEMMA StartedWhole ==
    ASSUME IInv, NEW w \in Workers, WholeInv(w), pc[w] = "start", loaded' \in {loaded, Started},
           swift' = swift
    PROVE  LoadedWhole'
<1>1. BoxWhole /\ LoadedWhole /\ WorkerOK(w)
  BY WholeParts DEF IInv
<1>2. \A o \in Files : box[o] # NoFile
  BY <1>1 DEF WorkerOK, Past, Activating, Files
<1>3. CASE loaded' = loaded
  BY <1>1, <1>3 DEF LoadedWhole, IsWhole
<1>4. CASE loaded' = [o \in Files |-> box[o].blocks]
  BY <1>1, <1>2, <1>4, SoundFacts DEF LoadedWhole, BoxWhole, IsWhole
<1> QED BY <1>3, <1>4 DEF Started

LEMMA UploadWhole ==
    ASSUME ~UploadsRace, IInv, NEW w \in Workers, WholeInv(w), NEW o \in Files, Upload(o)
    PROVE  WholeInv(w)'
<1>1. LocalTyped /\ SharedTyped /\ storlet \in Files
  BY TypeParts, ObjectFacts DEF IInv
<1>2. /\ CachedStorlet /\ Dependencies(w) /\ BoxWhole /\ LoadedWhole /\ Compares(w)
      /\ pc[w] \notin {"bring", "get", "write"}
      /\ clock' = clock + 1 /\ swift' = [swift EXCEPT ![o] = Append(@, clock')]
      /\ UNCHANGED <<cache, box, loaded, pc, k>>
  BY WholeParts DEF Upload, workerVars
<1>3. \A p \in Files \ {o} : swift'[p] = swift[p]
  BY <1>1, <1>2 DEF SharedTyped
<1>4. /\ Len(swift'[o]) = Len(swift[o]) + 1 /\ swift'[o][Len(swift[o]) + 1] = clock + 1
      /\ \A v \in DOMAIN swift[o] : v \in DOMAIN swift'[o]
  <2>1. swift[o] \in Seq(0 .. clock) /\ clock \in Nat
    BY <1>1 DEF SharedTyped
  <2>2. swift'[o] = Append(swift[o], clock + 1)
    BY <1>1, <1>2 DEF SharedTyped
  <2> QED BY <2>1, <2>2
<1>5. \A p \in Files : DOMAIN swift[p] \subseteq DOMAIN swift'[p]
  BY <1>3, <1>4
<1>6. CachedStorlet'
  <2>1. CASE o = storlet
    <3> SUFFICES ASSUME cache[storlet] # NoFile
                 PROVE  CachedStorlet'
      BY <1>2 DEF CachedStorlet
    <3>1. PICK v \in DOMAIN swift[storlet] :
            \E n \in 0 .. Size[storlet][v] : cache[storlet].blocks = Part(v, n)
      BY <1>2 DEF CachedStorlet
    <3>2. cache[storlet].mtime \in 0 .. clock /\ clock \in Nat
      BY <1>1, CopyFacts DEF SharedTyped
    <3>3. swift'[storlet][latest(storlet)'] = clock + 1
      BY <1>4, <2>1 DEF latest
    <3>4. cache[storlet].mtime < clock + 1
      BY <3>2
    <3> QED BY <1>2, <1>5, <1>1, <3>1, <3>3, <3>4 DEF CachedStorlet
  <2>2. CASE o # storlet
    BY <1>1, <1>2, <1>3, <2>2 DEF CachedStorlet, latest
  <2> QED BY <2>1, <2>2
<1>7. Dependencies(w)' /\ BoxWhole' /\ LoadedWhole'
  BY <1>2, <1>5 DEF Dependencies, BoxWhole, LoadedWhole, IsWhole
<1>8. Objects[k[w]] \in Files
  BY <1>1, ObjectFacts DEF LocalTyped
<1>9. SeesLatest(w)' /\ Downloads(w)' /\ Compares(w)'
  BY <1>2, <1>5, <1>8 DEF SeesLatest, Downloads, Compares, IsWhole
<1> QED BY <1>6, <1>7, <1>9
      DEF WholeInv, Dependencies, BoxWhole, LoadedWhole, SeesLatest, Downloads, Compares

LEMMA InvokeWhole ==
    ASSUME IInv, NEW w \in Workers, WholeInv(w), Invoke(w)
    PROVE  WholeInv(w)'
<1>1. LocalTyped /\ CachedStorlet /\ Dependencies(w) /\ BoxWhole /\ LoadedWhole
  BY TypeParts, WholeParts DEF IInv
<1>2. /\ pc[w] = "idle" /\ UNCHANGED <<swift, cache, box, loaded>>
      /\ pc'[w] = "bring" /\ seen'[w] = Len(swift[storlet])
  BY <1>1 DEF Invoke, Goto, LocalTyped, sharedVars
<1>3. CachedStorlet' /\ Dependencies(w)' /\ BoxWhole' /\ LoadedWhole'
  BY <1>1, <1>2 DEF CachedStorlet, Dependencies, BoxWhole, LoadedWhole, IsWhole, latest
<1>4. SeesLatest(w)' /\ Downloads(w)' /\ Compares(w)'
  BY <1>2 DEF SeesLatest, Downloads, Compares, latest
<1> QED BY <1>3, <1>4 DEF WholeInv, Dependencies, BoxWhole, LoadedWhole, SeesLatest, Downloads, Compares

\* A step that changes nothing but the daemon.
LEMMA SameWhole ==
    ASSUME NEW w \in Workers, WholeInv(w), LoadedWhole',
           UNCHANGED <<swift, cache, box, pc, k, seen, got, off>>
    PROVE  WholeInv(w)'
BY DEF WholeInv, LoadedWhole, CachedStorlet, IsWhole, latest

LEMMA WholeStep ==
    ASSUME ~UploadsRace, NEW w, Workers = {w},
           IInv, WholeInv(w), [Next]_vars
    PROVE  WholeInv(w)'
<1>1. LoadedWhole /\ w \in Workers
  BY WholeParts
<1>2. ASSUME BreakOff(w) PROVE WholeInv(w)'
  <2>1. Objects[k[w]] \in Breaking /\ k[w] \in DOMAIN Objects
    BY <1>1, <1>2, TypeParts DEF BreakOff, IInv, LocalTyped
  <2>2. k[w] = 1 \/ Objects[k[w]] \notin Sound
    BY <2>1, OtherThanStorlet DEF Sound
  <2>3. LoadedWhole'
    BY <1>1, <1>2 DEF BreakOff, sharedVars, LoadedWhole, IsWhole
  <2> QED BY <1>1, <1>2, <2>2, <2>3, GoOnWhole DEF BreakOff, sharedVars, workerVars, Pcs
<1>3. ASSUME Status(w) PROVE WholeInv(w)'
  <2>1. LoadedWhole'
    BY <1>1, <1>3 DEF Status, sharedVars, LoadedWhole, IsWhole
  <2>2. PICK l \in {"start", "stop", "execute"} : Goto(w, l)
    BY <1>3 DEF Status
  <2> QED BY <1>1, <1>3, <2>1, <2>2, GoOnWhole DEF Status, sharedVars, workerVars, Pcs
<1>4. ASSUME Stop(w) PROVE WholeInv(w)'
  <2>1. LoadedWhole'
    BY <1>4 DEF Stop, LoadedWhole
  <2> QED BY <1>1, <1>4, <2>1, GoOnWhole DEF Stop, workerVars, Pcs
<1>5. ASSUME Start(w) PROVE WholeInv(w)'
  <2>1. LoadedWhole'
    BY <1>1, <1>5, StartedWhole DEF Start
  <2> QED BY <1>1, <1>5, <2>1, GoOnWhole DEF Start, workerVars, Pcs
<1>6. ASSUME ActivateFails(w) PROVE WholeInv(w)'
  <2>1. LoadedWhole'
    <3>1. CASE pc[w] = "start"
      BY <1>1, <1>6, <3>1, StartedWhole DEF ActivateFails
    <3>2. CASE pc[w] # "start"
      BY <1>1, <1>6, <3>2 DEF ActivateFails, LoadedWhole, IsWhole
    <3> QED BY <3>1, <3>2
  <2> QED BY <1>1, <1>6, <2>1, GoOnWhole DEF ActivateFails, workerVars, Pcs
<1>7. ASSUME Execute(w) PROVE WholeInv(w)'
  <2>1. LoadedWhole'
    BY <1>1, <1>7 DEF Execute, sharedVars, LoadedWhole, IsWhole
  <2> QED BY <1>1, <1>7, <2>1, GoOnWhole DEF Execute, sharedVars, Pcs
<1>8. ASSUME DaemonEnds PROVE WholeInv(w)'
  <2>1. LoadedWhole'
    BY <1>8 DEF DaemonEnds, LoadedWhole
  <2> QED BY <1>1, <1>8, <2>1, SameWhole DEF DaemonEnds, workerVars
<1>9. CASE UNCHANGED vars
  <2>1. LoadedWhole'
    BY <1>1, <1>9 DEF vars, sharedVars, LoadedWhole, IsWhole
  <2> QED BY <1>1, <1>9, <2>1, SameWhole DEF vars, sharedVars, workerVars
<1> QED BY <1>1, <1>2, <1>3, <1>4, <1>5, <1>6, <1>7, <1>8, <1>9, UploadWhole, InvokeWhole,
           BringWhole, GetWhole, WriteWhole, CompareWhole, CopyStatWhole DEF Next

LEMMA WholeHolds ==
    ASSUME ~UploadsRace, NEW w, Workers = {w}
    PROVE  Spec => []WholeInv(w)
<1>1. Init => WholeInv(w)
  BY ObjectFacts, SoundFacts DEF Init, WholeInv, CachedStorlet
<1>2. IInv /\ WholeInv(w) /\ [Next]_vars => WholeInv(w)'
  BY WholeStep
<1> QED BY <1>1, <1>2, InvariantHolds, PTL DEF Spec

\* The code a daemon runs is, file by file, a version somebody uploaded, never
\* a part of one or a mixture of two, however often the storlet's download
\* breaks off and whatever the engine does.  This holds for one invocation at a
\* time, if nobody uploads during a download and the downloads of dependencies
\* do not break off (bring_from_cache).
THEOREM CodeIsWholeHolds ==
    ASSUME OneAtATime, OnlyStorletBreaks
    PROVE  Spec => []CodeIsWhole
<1>1. PICK w : Workers = {w}
  BY DEF OneAtATime
<1>2. WholeInv(w) => CodeIsWhole
  BY SoundFacts DEF WholeInv, CodeIsWhole, IsWhole
<1>3. Spec => []WholeInv(w)
  BY <1>1, WholeHolds DEF OneAtATime
<1> QED BY <1>2, <1>3, PTL

----------------------------------------------------------------------------
\* The answers are fresh.

\* The parts of FreshInv: the cached file, and the one in the sandbox.
CacheFresh(w) ==
    pc[w] \in {"compare", "copystat"} /\ k[w] = 1 => cache[storlet].blocks = Whole(storlet, seen[w])
BoxFresh(w) ==
    (pc[w] = "copystat" /\ k[w] = 1) \/ Past(w, 1) => box[storlet].blocks = Whole(storlet, seen[w])

LEMMA FreshParts ==
    ASSUME NEW w
    PROVE  FreshInv(w) <=> CacheFresh(w) /\ BoxFresh(w)
BY DEF FreshInv, CacheFresh, BoxFresh

\* A step that leaves the storlet's file in the sandbox alone.
LEMMA GoOnFresh ==
    ASSUME IInv, NEW w \in Workers, FreshInv(w), NEW l \in Pcs, Goto(w, l),
           k' = k, seen' = seen, box' = box, pc[w] # "idle", l # "copystat",
           l \in Activating => pc[w] \in Activating,
           l = "compare" /\ k[w] = 1 => cache'[storlet].blocks = Whole(storlet, seen[w])
    PROVE  FreshInv(w)'
<1>1. pc'[w] = l
  BY TypeParts DEF IInv, LocalTyped, Goto
<1>2. BoxFresh(w)
  BY FreshParts
<1>3. CacheFresh(w)'
  BY <1>1 DEF CacheFresh
<1>4. BoxFresh(w)'
  BY <1>1, <1>2 DEF BoxFresh, Past, Activating
<1> QED BY <1>3, <1>4 DEF FreshInv, CacheFresh, BoxFresh

\* On to the next object, once the storlet's file in the sandbox is fresh.
LEMMA NextObjectFresh ==
    ASSUME IInv, NEW w \in Workers, NextObject(w), seen' = seen,
           box'[storlet].blocks = Whole(storlet, seen[w])
    PROVE  FreshInv(w)'
<1>1. LocalTyped
  BY TypeParts DEF IInv
<1>2. k[w] \in Nat /\ k[w] # 0
  BY <1>1, ObjectFacts DEF LocalTyped
<1>3. (pc'[w] = "bring" /\ k'[w] = k[w] + 1) \/ pc'[w] = "status"
  BY <1>1 DEF NextObject, Goto, LocalTyped
<1>4. CacheFresh(w)'
  BY <1>2, <1>3 DEF CacheFresh
<1>5. BoxFresh(w)'
  BY DEF BoxFresh
<1> QED BY <1>4, <1>5 DEF FreshInv, CacheFresh, BoxFresh

\* Files of the same size are of the same version.
LEMMA SameVersion ==
    ASSUME SizesDiffer, IInv, NEW u \in DOMAIN swift[storlet], NEW v \in DOMAIN swift[storlet],
           Len(Whole(storlet, u)) = Len(Whole(storlet, v))
    PROVE  u = v
<1>1. /\ u \in Nat /\ v \in Nat /\ Size[storlet][u] \in Nat /\ Size[storlet][v] \in Nat
      /\ u \in 1 .. Versions[storlet] /\ v \in 1 .. Versions[storlet]
  BY LatestFacts, ObjectFacts
<1>2. Len(Part(u, Size[storlet][u])) = Len(Part(v, Size[storlet][v]))
  BY WholePart
<1>3. /\ Len(Part(u, Size[storlet][u])) = Size[storlet][u]
      /\ Len(Part(v, Size[storlet][v])) = Size[storlet][v]
  BY <1>1, PartFacts
<1> QED BY <1>1, <1>2, <1>3 DEF SizesDiffer

LEMMA CompareFresh ==
    ASSUME SizesDiffer, IInv, NEW w \in Workers, WholeInv(w), FreshInv(w), Compare(w)
    PROVE  FreshInv(w)'
<1> DEFINE o == Objects[k[w]]
<1>1. LocalTyped /\ SharedTyped /\ o \in Files /\ k[w] \in DOMAIN Objects /\ storlet \in Files
  BY TypeParts, ObjectFacts DEF IInv, LocalTyped
<1>2. /\ CacheFresh(w) /\ BoxFresh(w) /\ BoxWhole /\ pc[w] = "compare"
      /\ UNCHANGED <<cache, seen>>
  BY FreshParts, WholeParts DEF Compare
<1>3. k[w] \in Nat /\ k[w] # 0
  BY <1>1, ObjectFacts
<1>4. k[w] # 1 => box[storlet].blocks = Whole(storlet, seen[w])
  BY <1>2, <1>3 DEF BoxFresh, Past
<1>5. CASE BoxOutdated(o)
  <2> DEFINE f == File(cache[o].blocks, clock')
  <2>1. box' = [box EXCEPT ![o] = f] /\ pc' = [pc EXCEPT ![w] = "copystat"] /\ k' = k
    BY <1>5 DEF Compare, Goto
  <2>2. f.blocks = cache[o].blocks
    BY DEF File
  <2> HIDE DEF f
  <2>3. box'[o] = f /\ \A p \in Files \ {o} : box'[p] = box[p]
    BY <1>1, <2>1 DEF SharedTyped
  <2>4. pc'[w] = "copystat"
    BY <1>1, <2>1 DEF LocalTyped
  <2>5. CacheFresh(w)'
    BY <1>2, <2>1 DEF CacheFresh
  <2>6. box'[storlet].blocks = Whole(storlet, seen[w])
    <3>1. CASE k[w] = 1
      BY <1>2, <2>2, <2>3, <3>1 DEF CacheFresh, storlet
    <3>2. CASE k[w] # 1
      BY <1>1, <1>4, <2>3, <3>2, OtherThanStorlet
    <3> QED BY <3>1, <3>2
  <2>7. BoxFresh(w)'
    BY <1>2, <2>6 DEF BoxFresh
  <2> QED BY <2>5, <2>7 DEF FreshInv, CacheFresh, BoxFresh
<1>6. CASE ~BoxOutdated(o)
  <2>1. NextObject(w) /\ box' = box
    BY <1>6 DEF Compare
  <2>2. box[storlet].blocks = Whole(storlet, seen[w])
    <3>1. CASE k[w] = 1
      <4>1. o = storlet /\ cache[storlet].blocks = Whole(storlet, seen[w])
        BY <1>2, <3>1 DEF CacheFresh, storlet
      <4>2. box[storlet] # NoFile /\ Len(cache[storlet].blocks) = Len(box[storlet].blocks)
        BY <1>6, <4>1 DEF BoxOutdated
      <4>3. PICK u \in DOMAIN swift[storlet] : box[storlet].blocks = Whole(storlet, u)
        BY <1>2, <4>2, SoundFacts DEF BoxWhole, IsWhole
      <4>4. seen[w] \in DOMAIN swift[storlet]
        BY <1>2, TypeParts DEF IInv, WorkerTyped
      <4>5. u = seen[w]
        BY <4>1, <4>2, <4>3, <4>4, SameVersion
      <4> QED BY <4>3, <4>5
    <3>2. CASE k[w] # 1
      BY <1>4, <3>2
    <3> QED BY <3>1, <3>2
  <2> QED BY <1>2, <2>1, <2>2, NextObjectFresh
<1> QED BY <1>5, <1>6

LEMMA CopyStatFresh ==
    ASSUME IInv, NEW w \in Workers, FreshInv(w), CopyStat(w)
    PROVE  FreshInv(w)'
<1>1. BoxFresh(w) /\ NextObject(w) /\ pc[w] = "copystat" /\ seen' = seen
  BY FreshParts DEF CopyStat
<1>2. k[w] \in Nat /\ k[w] # 0 /\ storlet \in Files
  BY TypeParts, ObjectFacts DEF IInv, LocalTyped
<1>3. box[storlet].blocks = Whole(storlet, seen[w])
  BY <1>1, <1>2 DEF BoxFresh, Past
<1>4. box'[storlet].blocks = box[storlet].blocks
  BY <1>2, CopyStatFacts
<1> QED BY <1>1, <1>3, <1>4, NextObjectFresh

LEMMA FreshStep ==
    ASSUME SizesDiffer, NEW w, Workers = {w}, IInv, WholeInv(w), FreshInv(w), [Next]_vars
    PROVE  FreshInv(w)'
<1>1. w \in Workers
  OBVIOUS
<1>2. ASSUME Invoke(w) PROVE FreshInv(w)'
  <2>1. pc'[w] = "bring" /\ k'[w] = 1
    BY <1>1, <1>2, TypeParts DEF Invoke, Goto, IInv, LocalTyped
  <2> QED BY <2>1 DEF FreshInv, Past, Activating
<1>3. ASSUME Bring(w) PROVE FreshInv(w)'
  <2>1. CASE CacheOutdated(Objects[k[w]], seen[w])
    BY <1>1, <1>3, <2>1, GoOnFresh DEF Bring, sharedVars, workerVars, Pcs, Activating
  <2>2. CASE ~CacheOutdated(Objects[k[w]], seen[w])
    <3>1. k[w] = 1 => cache[storlet].blocks = Whole(storlet, seen[w])
      BY <1>1, <1>3, <2>2, UpToDate DEF Bring, storlet
    <3> QED BY <1>1, <1>3, <2>2, <3>1, GoOnFresh DEF Bring, sharedVars, workerVars, Pcs, Activating
  <2> QED BY <2>1, <2>2
<1>4. ASSUME Get(w) PROVE FreshInv(w)'
  BY <1>1, <1>4, GoOnFresh DEF Get, Pcs, Activating
<1>5. ASSUME Write(w) PROVE FreshInv(w)'
  <2> DEFINE o == Objects[k[w]]
  <2>1. CASE off[w] = Size[o][got[w]]
    <3>1. Goto(w, "compare") /\ cache' = cache /\ UNCHANGED <<box, k, seen>> /\ pc[w] = "write"
      BY <1>5, <2>1 DEF Write
    <3>2. Downloads(w) /\ SeesLatest(w)
      BY WholeParts
    <3>3. k[w] = 1 => cache[storlet].blocks = Whole(storlet, seen[w])
      BY <2>1, <3>1, <3>2, WholePart DEF Downloads, SeesLatest, storlet
    <3> QED BY <1>1, <3>1, <3>3, GoOnFresh DEF Pcs, Activating
  <2>2. CASE off[w] # Size[o][got[w]]
    <3>1. UNCHANGED <<pc, box, k, seen>> /\ pc[w] = "write"
      BY <1>5, <2>2 DEF Write
    <3> QED BY <3>1 DEF FreshInv, Past
  <2> QED BY <2>1, <2>2
<1>6. ASSUME BreakOff(w) PROVE FreshInv(w)'
  BY <1>1, <1>6, GoOnFresh DEF BreakOff, sharedVars, workerVars, Pcs, Activating
<1>7. ASSUME Status(w) PROVE FreshInv(w)'
  <2>1. PICK l \in {"start", "stop", "execute"} : Goto(w, l)
    BY <1>7 DEF Status
  <2> QED BY <1>1, <1>7, <2>1, GoOnFresh DEF Status, sharedVars, workerVars, Pcs, Activating
<1>8. ASSUME Stop(w) \/ Start(w) \/ ActivateFails(w) \/ Execute(w) PROVE FreshInv(w)'
  BY <1>1, <1>8, GoOnFresh
     DEF Stop, Start, ActivateFails, Execute, sharedVars, workerVars, Pcs, Activating
<1>9. ASSUME NEW o \in Files, Upload(o) PROVE FreshInv(w)'
  BY <1>9 DEF Upload, workerVars, FreshInv, Past
<1>10. ASSUME DaemonEnds PROVE FreshInv(w)'
  BY <1>10 DEF DaemonEnds, workerVars, FreshInv, Past
<1>11. CASE UNCHANGED vars
  BY <1>11 DEF vars, sharedVars, workerVars, FreshInv, Past
<1> QED BY <1>1, <1>2, <1>3, <1>4, <1>5, <1>6, <1>7, <1>8, <1>9, <1>10, <1>11,
           CompareFresh, CopyStatFresh DEF Next

\* What a daemon that serves a request has loaded.
LEMMA ServesFresh ==
    ASSUME NEW w, Workers = {w}, IInv, StopInv, FreshInv(w), Execute(w), loaded # NoDaemon
    PROVE  /\ loaded[storlet] = Whole(storlet, seen[w])
           /\ seen[w] \in seen[w] .. Versions[storlet]
<1>1. pc[w] = "execute" /\ storlet \in Files
  BY ObjectFacts DEF Execute
<1>2. Agrees
  BY <1>1, StopParts DEF Noticed, WillStop
<1>3. box[storlet].blocks = Whole(storlet, seen[w])
  BY <1>1, FreshParts DEF BoxFresh, Past, Activating
<1>4. seen[w] \in DOMAIN swift[storlet]
  BY <1>1, TypeParts DEF IInv, WorkerTyped
<1>5. seen[w] \in 1 .. Versions[storlet] /\ Versions[storlet] \in Nat
  BY <1>1, <1>4, LatestFacts
<1> QED BY <1>1, <1>2, <1>3, <1>5 DEF Agrees

LEMMA ServedStep ==
    ASSUME NEW w, Workers = {w}, IInv, StopInv, FreshInv(w), Fresh, [Next]_vars
    PROVE  Fresh'
<1>1. ASSUME Execute(w) PROVE Fresh'
  <2>1. served'[w] = IF loaded = NoDaemon THEN <<>> ELSE <<seen[w], loaded>>
    BY <1>1, TypeParts DEF Execute, IInv, LocalTyped
  <2>2. CASE loaded = NoDaemon
    BY <2>1, <2>2 DEF Fresh
  <2>3. CASE loaded # NoDaemon
    <3>1. served'[w][1] = seen[w] /\ served'[w][2] = loaded
      BY <2>1, <2>3
    <3>2. \E v \in served'[w][1] .. Versions[storlet] : served'[w][2][storlet] = Whole(storlet, v)
      BY <1>1, <2>3, <3>1, ServesFresh
    <3> QED BY <3>2 DEF Fresh
  <2> QED BY <2>2, <2>3
<1>2. ASSUME served' = served PROVE Fresh'
  BY <1>2 DEF Fresh
<1>3. Execute(w) \/ served' = served
  BY DEF Next, Upload, Invoke, Bring, Get, Write, BreakOff, Compare, CopyStat, Status, Stop, Start,
         ActivateFails, DaemonEnds, vars, sharedVars, workerVars
<1> QED BY <1>1, <1>2, <1>3

\* The answer to a request comes from the version of the storlet that was
\* current when the request was authorised, whatever is uploaded while it is
\* served and however many downloads broke off before.  This holds for one
\* invocation at a time, with an engine that stops a sandbox when told to, if
\* nobody uploads during a download and no two versions of the storlet have the
\* same size (bring_from_cache, invocation_flow).
THEOREM FreshHolds ==
    ASSUME OneAtATime, ~EngineFails, SizesDiffer
    PROVE  Spec => []Fresh
<1>1. PICK w : Workers = {w}
  BY DEF OneAtATime
<1>2. Spec => []WholeInv(w)
  BY <1>1, WholeHolds DEF OneAtATime
<1>3. Spec => []StopInv
  BY StopHolds
<1>4. Init => FreshInv(w) /\ Fresh
  <2>1. Init => w \in Workers /\ pc[w] = "idle" /\ \A v \in Workers : served[v] = <<>>
    BY <1>1 DEF Init
  <2> QED BY <2>1 DEF FreshInv, Fresh, Past
<1>5. IInv /\ WholeInv(w) /\ FreshInv(w) /\ [Next]_vars => FreshInv(w)'
  BY <1>1, FreshStep
<1>6. IInv /\ StopInv /\ FreshInv(w) /\ Fresh /\ [Next]_vars => Fresh'
  BY <1>1, ServedStep
<1> QED BY <1>2, <1>3, <1>4, <1>5, <1>6, InvariantHolds, PTL DEF Spec
=============================================================================
