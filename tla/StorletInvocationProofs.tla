---------------------- MODULE StorletInvocationProofs ----------------------
(***************************************************************************)
(* Proofs about the invocation protocol, for any number of invocations,    *)
(* chunks, descriptors and places in the pool and any capacity of the      *)
(* pipes; numbers are reused, timeouts strike and daemons stop at any      *)
(* moment.                                                                 *)
(***************************************************************************)
EXTENDS StorletInvocation, FiniteSetTheorems, TLAPS

\* The ends of its pipes an invocation has open in the worker.
Opened(i) == {e \in Ends : Here(i, e)}

\* The ends of one invocation have numbers of their own; the same number may be
\* remembered by several invocations.
FdInv ==
    /\ \A i \in Invocations : \A e, f \in Ends : num[i][e] # NoFd /\ num[i][e] = num[i][f] => e = f
    /\ \A i \in Invocations : pc[i] = "start" => \A e \in Ends : num[i][e] = NoFd

\* What an invocation has not open any more, by where it is: true whatever is
\* closed by others.
Shut(i) ==
    /\ pc[i] = "start" => storlet[i] = "none"
    /\ pc[i] = "answer" => storlet[i] # "none" /\ (i \notin HasFd => num[i]["in_w"] # NoFd)
    /\ pc[i] \in {"writable", "metadata", "data", "reading", "cancel"} =>
          Opened(i) \subseteq {"in_w", "out_r", "md_r"} /\ storlet[i] \notin {"none", "queued"}
    /\ pc[i] \in {"data", "reading"} => "md_r" \notin Opened(i)
    /\ pc[i] = "over" /\ num[i]["md_r"] # NoFd => Opened(i) \subseteq {"in_w"}
    /\ storlet[i] # "none" => num[i]["md_r"] # NoFd
    /\ writer[i] = "done" => "in_w" \notin Opened(i)
    /\ i \in HasFd => "in_w" \notin Opened(i) /\ writer[i] = "none" /\ pc[i] # "writable"
    /\ pc[i] \in {"metadata", "data", "reading", "cancel"} => writer[i] # "none" \/ i \in HasFd
    /\ pc[i] \in {"start", "answer", "writable"} => writer[i] = "none"
    /\ writer[i] = "none" => sent[i] = 0
    /\ pc[i] # "over" => result[i] = "none"

\* The chunks of the input, wherever they are.
Total(i) == IF i \in HasFd THEN Chunks ELSE sent[i]
Held(i) == IF storlet[i] = "write" THEN 1 ELSE 0
Somewhere(i) == got[i] + chan[i]["out_r"] + chan[i]["in_r"] + Held(i)

\* No chunk comes from nowhere, and none is lost while an invocation is under
\* way and its storlet does not crash.
ChunkInv(i) ==
    /\ Somewhere(i) <= Total(i)
    /\ pc[i] # "over" /\ i \notin crashed => Somewhere(i) = Total(i)
    /\ pc[i] # "over" /\ i \notin crashed /\ storlet[i] = "ended" =>
          chan[i]["in_r"] = 0 /\ (i \in HasFd \/ writer[i] = "done")
    /\ result[i] = "complete" /\ i \notin crashed =>
          got[i] = Total(i) /\ (i \in HasFd \/ writer[i] = "done")

\* What an invocation has open, and the storlet against it.
Live(i) ==
    /\ pc[i] = "answer" => \A e \in Ends : e \in Opened(i) <=> (i \in HasFd => e \notin {"in_r", "in_w"})
    /\ pc[i] \in {"writable", "metadata", "data", "reading", "cancel"} => "out_r" \in Opened(i)
    /\ pc[i] = "writable" \/ writer[i] = "run" => "in_w" \in Opened(i)
    /\ storlet[i] \in {"queued", "metadata"} /\ pc[i] # "over" => "md_r" \in Opened(i)
    /\ pc[i] \in {"writable", "metadata"} => "md_r" \in Opened(i)
    /\ storlet[i] \in {"none", "queued", "metadata"} => chan[i]["md_r"] = 0
    /\ writer[i] = "none" /\ i \notin HasFd => chan[i]["in_r"] = 0
    /\ ChunkInv(i)

\* The inductive invariant behind the safety properties.
IInv ==
    /\ TypeOK /\ FdInv
    /\ \A i \in Invocations : Shut(i)
    /\ robbed = {} => \A i \in Invocations : Live(i)

----------------------------------------------------------------------------
\* Descriptor numbers.

LEMMA FreeIsNobodys ==
    ASSUME NEW i, NEW e
    PROVE  <<i, e>> # Free
<1>1. Len(<<i, e>>) = 2 /\ Len(<<>>) = 0
  OBVIOUS
<1> QED BY <1>1 DEF Free

\* The place of a number among the free ones.
Rank(n) == 1 + Cardinality({m \in 1 .. (n - 1) : table[m] = Free})

\* No two free numbers have the same place.
LEMMA RankIsOwn ==
    ASSUME NEW m \in Numbers, NEW n \in Numbers, m < n, table[m] = Free
    PROVE  Rank(m) # Rank(n)
<1> DEFINE S == {k \in 1 .. (n - 1) : table[k] = Free}
           T == {k \in 1 .. (m - 1) : table[k] = Free}
<1>1. m \in Nat /\ n \in Nat /\ m > 0
  BY PipesAssumption DEF Numbers
<1>2. IsFiniteSet(1 .. (n - 1))
  BY <1>1, FS_Interval
<1>3. S \in SUBSET (1 .. (n - 1)) /\ T \in SUBSET S /\ m \in S /\ m \notin T
  BY <1>1
<1>4. IsFiniteSet(S)
  BY <1>2, <1>3, FS_Subset
<1>5. IsFiniteSet(T) /\ Cardinality(S) # Cardinality(T)
  BY <1>3, <1>4, FS_Subset
<1>6. Cardinality(S) \in Nat /\ Cardinality(T) \in Nat
  BY <1>4, <1>5, FS_CardinalityType
<1>7. Rank(m) = 1 + Cardinality(T) /\ Rank(n) = 1 + Cardinality(S)
  BY DEF Rank
<1> HIDE DEF S, T
<1> QED BY <1>5, <1>6, <1>7

\* The ends that are opened, each once.
Distinct(s) == \A m, n \in DOMAIN s : s[m] = s[n] => m = n
Among(e, s) == \E j \in DOMAIN s : s[j] = e

\* The numbers an end may be given.
Given(ends, e) ==
    {n \in Numbers : table[n] = Free /\ Rank(n) \in DOMAIN ends /\ ends[Rank(n)] = e}

LEMMA GivenFacts ==
    ASSUME NEW ends, Distinct(ends)
    PROVE  /\ \A e, f : \A n \in Given(ends, e) : n \in Given(ends, f) => e = f
           /\ \A e : \A m, n \in Given(ends, e) : m = n
           /\ \A e : Given(ends, e) # {} => Among(e, ends)
<1>1. \A e, f : \A n \in Given(ends, e) : n \in Given(ends, f) => e = f
  BY DEF Given
<1>2. ASSUME NEW e, NEW m \in Given(ends, e), NEW n \in Given(ends, e), m # n PROVE FALSE
  <2>1. m \in Numbers /\ n \in Numbers /\ table[m] = Free /\ table[n] = Free
    BY DEF Given
  <2>2. Rank(m) = Rank(n)
    BY DEF Given, Distinct
  <2>3. m < n \/ n < m
    BY <1>2, <2>1 DEF Numbers
  <2> QED BY <2>1, <2>2, <2>3, RankIsOwn
<1>3. \A e : Given(ends, e) # {} => Among(e, ends)
  BY DEF Given, Among
<1> QED BY <1>1, <1>2, <1>3

LEMMA OpenIs ==
    ASSUME NEW i, NEW ends, NEW stay, Open(i, ends, stay)
    PROVE  /\ \A j \in DOMAIN ends : Given(ends, ends[j]) # {}
           /\ num' = [num EXCEPT ![i] = [e \in Ends |->
                        IF Given(ends, e) = {} THEN NoFd ELSE CHOOSE n \in Given(ends, e) : TRUE]]
           /\ table' = [n \in Numbers |->
                          IF \E e \in stay : n \in Given(ends, e)
                            THEN <<i, CHOOSE e \in stay : n \in Given(ends, e)>> ELSE table[n]]
BY DEF Open, Given, Rank

\* The types the descriptor table and its users keep.
FdTypes ==
    /\ num \in [Invocations -> [Ends -> Numbers \cup {NoFd}]]
    /\ table \in [Numbers -> {Free} \cup (Invocations \X Ends)]
    /\ robbed \subseteq Invocations
    /\ \A n \in Numbers, i \in Invocations, e \in Ends : table[n] = <<i, e>> => num[i][e] = n

\* Open gives the invocation its ends, and leaves those of the others alone.
LEMMA OpenFacts ==
    ASSUME TypeOK, NEW i \in Invocations, \A e \in Ends : num[i][e] = NoFd,
           NEW ends, Distinct(ends), \A j \in DOMAIN ends : ends[j] \in Ends,
           NEW stay \in SUBSET Ends, Open(i, ends, stay), robbed' = robbed
    PROVE  /\ FdTypes'
           /\ \A e \in Ends : num'[i][e] # NoFd <=> Among(e, ends)
           /\ \A e \in Ends : e \in Opened(i)' <=> e \in stay /\ Among(e, ends)
           /\ \A e, f \in Ends : num'[i][e] # NoFd /\ num'[i][e] = num'[i][f] => e = f
           /\ \A k \in Invocations : k # i => num'[k] = num[k] /\ Opened(k)' = Opened(k)
<1> DEFINE G(e) == Given(ends, e)
           nm(e) == IF G(e) = {} THEN NoFd ELSE CHOOSE n \in G(e) : TRUE
           at(n) == CHOOSE e \in stay : n \in G(e)
<1>1. /\ \A j \in DOMAIN ends : G(ends[j]) # {}
      /\ num' = [num EXCEPT ![i] = [e \in Ends |-> nm(e)]]
      /\ table' = [n \in Numbers |-> IF \E e \in stay : n \in G(e) THEN <<i, at(n)>> ELSE table[n]]
  BY OpenIs
<1>2. /\ \A e, f : \A n \in G(e) : n \in G(f) => e = f
      /\ \A e : \A m, n \in G(e) : m = n
      /\ \A e \in Ends : G(e) # {} <=> Among(e, ends)
  BY <1>1, GivenFacts DEF Among
<1>3. \A e : \A n \in G(e) : n \in Numbers /\ table[n] = Free /\ n # NoFd
  BY NoFdAssumption DEF Given
<1> HIDE DEF G
<1>4. \A e : G(e) # {} => nm(e) \in G(e)
  OBVIOUS
<1>5. \A e : \A n \in G(e) : nm(e) = n
  BY <1>2, <1>4
<1>6. \A e \in stay : \A n \in G(e) : at(n) = e
  BY <1>2
<1>7. \A e : nm(e) # NoFd => nm(e) \in G(e)
  OBVIOUS
<1> HIDE DEF nm, at
<1>8. /\ num \in [Invocations -> [Ends -> Numbers \cup {NoFd}]]
      /\ table \in [Numbers -> {Free} \cup (Invocations \X Ends)]
      /\ \A n \in Numbers, k \in Invocations, e \in Ends : table[n] = <<k, e>> => num[k][e] = n
  BY DEF TypeOK
<1>9. /\ \A e \in Ends : num'[i][e] = nm(e)
      /\ \A k \in Invocations : k # i => num'[k] = num[k]
  BY <1>1, <1>8
<1>10. \A e \in Ends : nm(e) \in Numbers \cup {NoFd}
  BY <1>3, <1>7
<1>11. num' \in [Invocations -> [Ends -> Numbers \cup {NoFd}]]
  <2>1. [e \in Ends |-> nm(e)] \in [Ends -> Numbers \cup {NoFd}]
    BY <1>10
  <2> QED BY <1>1, <1>8, <2>1
<1>12. \A n \in Numbers : \/ \E e \in stay : n \in G(e) /\ table'[n] = <<i, e>>
                          \/ (\A e \in stay : n \notin G(e)) /\ table'[n] = table[n]
  BY <1>1, <1>6
<1>13. table' \in [Numbers -> {Free} \cup (Invocations \X Ends)]
  <2>1. \A e \in stay : <<i, e>> \in Invocations \X Ends
    OBVIOUS
  <2>2. \A n \in Numbers : table'[n] \in {Free} \cup (Invocations \X Ends)
    <3> SUFFICES ASSUME NEW n \in Numbers PROVE table'[n] \in {Free} \cup (Invocations \X Ends)
      OBVIOUS
    <3>1. CASE \E e \in stay : table'[n] = <<i, e>>
      BY <2>1, <3>1
    <3>2. CASE table'[n] = table[n]
      BY <1>8, <3>2
    <3> QED BY <1>12, <3>1, <3>2
  <2> QED BY <1>1, <2>2
<1>14. \A n \in Numbers : \A e \in Ends : table[n] # <<i, e>>
  BY <1>8, NoFdAssumption
<1>15. \A n \in Numbers : \A e \in Ends : table'[n] = <<i, e>> <=> e \in stay /\ n \in G(e)
  <2> SUFFICES ASSUME NEW n \in Numbers, NEW e \in Ends
               PROVE  table'[n] = <<i, e>> <=> e \in stay /\ n \in G(e)
    OBVIOUS
  <2>1. CASE \E f \in stay : n \in G(f) /\ table'[n] = <<i, f>>
    BY <1>2, <2>1
  <2>2. CASE (\A f \in stay : n \notin G(f)) /\ table'[n] = table[n]
    BY <1>14, <2>2
  <2> QED BY <1>12, <2>1, <2>2
<1>16. \A n \in Numbers : \A k \in Invocations : \A e \in Ends : k # i =>
          (table'[n] = <<k, e>> <=> table[n] = <<k, e>>)
  <2> SUFFICES ASSUME NEW n \in Numbers, NEW k \in Invocations, NEW e \in Ends, k # i
               PROVE  table'[n] = <<k, e>> <=> table[n] = <<k, e>>
    OBVIOUS
  <2>1. CASE \E f \in stay : n \in G(f) /\ table'[n] = <<i, f>>
    <3>1. table[n] = Free
      BY <1>3, <2>1
    <3>2. table[n] # <<k, e>>
      BY <3>1, FreeIsNobodys
    <3> QED BY <2>1, <3>2
  <2>2. CASE table'[n] = table[n]
    BY <2>2
  <2> QED BY <1>12, <2>1, <2>2
<1>17. \A n \in Numbers, k \in Invocations, e \in Ends : table'[n] = <<k, e>> => num'[k][e] = n
  <2> SUFFICES ASSUME NEW n \in Numbers, NEW k \in Invocations, NEW e \in Ends, table'[n] = <<k, e>>
               PROVE  num'[k][e] = n
    OBVIOUS
  <2>1. CASE k = i
    BY <1>5, <1>9, <1>15, <2>1
  <2>2. CASE k # i
    BY <1>8, <1>9, <1>16, <2>2
  <2> QED BY <2>1, <2>2
<1>18. FdTypes'
  <2>1. robbed' \subseteq Invocations
    BY DEF TypeOK
  <2> QED BY <1>11, <1>13, <1>17, <2>1 DEF FdTypes
<1>19. \A e \in Ends : num'[i][e] # NoFd <=> Among(e, ends)
  <2>1. \A e \in Ends : nm(e) # NoFd <=> G(e) # {}
    BY <1>3, <1>4, <1>7
  <2> QED BY <1>2, <1>9, <2>1
<1>20. \A e \in Ends : e \in Opened(i)' <=> e \in stay /\ Among(e, ends)
  <2> TAKE e \in Ends
  <2>1. e \in Opened(i)' <=> \E n \in Numbers : table'[n] = <<i, e>>
    BY DEF Opened, Here
  <2>2. (\E n \in Numbers : n \in G(e)) <=> Among(e, ends)
    BY <1>2, <1>3
  <2> QED BY <1>15, <2>1, <2>2
<1>21. \A e, f \in Ends : num'[i][e] # NoFd /\ num'[i][e] = num'[i][f] => e = f
  BY <1>2, <1>7, <1>9
<1>22. \A k \in Invocations : k # i => Opened(k)' = Opened(k)
  BY <1>16 DEF Opened, Here
<1> QED BY <1>9, <1>18, <1>19, <1>20, <1>21, <1>22

\* Closing ends of an invocation closes these of its own, and nobody else's
\* unless that makes it robbed.
LEMMA CloseFacts ==
    ASSUME TypeOK, FdInv, NEW i \in Invocations, NEW E \in SUBSET Ends, CloseFds(i, E), num' = num
    PROVE  /\ FdTypes' /\ robbed \subseteq robbed' /\ Opened(i)' = Opened(i) \ E
           /\ \A k \in Invocations : k # i => Opened(k)' \subseteq Opened(k)
           /\ robbed' = {} => \A k \in Invocations : k # i => Opened(k)' = Opened(k)
<1> DEFINE closed == {num[i][e] : e \in E}
<1>1. /\ num \in [Invocations -> [Ends -> Numbers \cup {NoFd}]]
      /\ table \in [Numbers -> {Free} \cup (Invocations \X Ends)]
      /\ robbed \subseteq Invocations
      /\ \A n \in Numbers, k \in Invocations, e \in Ends : table[n] = <<k, e>> => num[k][e] = n
  BY DEF TypeOK
<1>2. /\ table' = [n \in Numbers |-> IF n \in closed THEN Free ELSE table[n]]
      /\ robbed' = robbed \cup {j \in Invocations \ {i} :
                       \E n \in Numbers, e \in Ends : n \in closed /\ table[n] = <<j, e>>}
  BY DEF CloseFds
<1>3. \A n \in Numbers : n \in closed <=> \E e \in E : num[i][e] = n
  OBVIOUS
<1> HIDE DEF closed
<1>4. \A n \in Numbers : \A k \in Invocations : \A e \in Ends :
         table'[n] = <<k, e>> <=> table[n] = <<k, e>> /\ n \notin closed
  BY <1>2, FreeIsNobodys
<1>5. \A n \in Numbers : \A e \in Ends : table[n] = <<i, e>> => (n \in closed <=> e \in E)
  <2> SUFFICES ASSUME NEW n \in Numbers, NEW e \in Ends, table[n] = <<i, e>>
               PROVE  n \in closed <=> e \in E
    OBVIOUS
  <2>1. num[i][e] = n /\ n # NoFd
    BY <1>1, NoFdAssumption
  <2> QED BY <1>3, <2>1 DEF FdInv
<1>6. Opened(i)' = Opened(i) \ E
  <2>1. \A e \in Ends : Here(i, e)' <=> Here(i, e) /\ e \notin E
    BY <1>4, <1>5 DEF Here
  <2> QED BY <2>1 DEF Opened
<1>7. \A k \in Invocations : Opened(k)' \subseteq Opened(k)
  BY <1>4 DEF Opened, Here
<1>8. ASSUME robbed' = {}, NEW k \in Invocations, k # i PROVE Opened(k)' = Opened(k)
  <2>1. \A n \in Numbers : \A e \in Ends : table[n] = <<k, e>> => n \notin closed
    BY <1>2, <1>8
  <2>2. \A e \in Ends : Here(k, e)' <=> Here(k, e)
    BY <1>4, <2>1 DEF Here
  <2> QED BY <2>2 DEF Opened
<1>9. FdTypes'
  <2>1. table' \in [Numbers -> {Free} \cup (Invocations \X Ends)]
    BY <1>1, <1>2
  <2>2. \A n \in Numbers, k \in Invocations, e \in Ends : table'[n] = <<k, e>> => num'[k][e] = n
    BY <1>1, <1>4
  <2> QED BY <1>1, <1>2, <2>1, <2>2 DEF FdTypes
<1> QED BY <1>2, <1>6, <1>7, <1>8, <1>9

LEMMA NothingClosed ==
    ASSUME TypeOK, UNCHANGED <<num, table, robbed>>
    PROVE  FdTypes' /\ \A k \in Invocations : Opened(k)' = Opened(k)
<1>1. FdTypes'
  BY DEF TypeOK, FdTypes
<1>2. \A k \in Invocations : Opened(k)' = Opened(k)
  BY DEF Opened, Here
<1> QED BY <1>1, <1>2

\* An end that is open is the one its number leads to.
LEMMA LeadsHome ==
    ASSUME TypeOK, NEW i \in Invocations, NEW e \in Opened(i)
    PROVE  Leads(i, e) = <<i, e>>
<1>1. PICK n \in Numbers : table[n] = <<i, e>>
  BY DEF Opened, Here
<1>2. e \in Ends /\ num[i][e] = n /\ n # NoFd
  BY <1>1, NoFdAssumption DEF Opened, TypeOK
<1> QED BY <1>1, <1>2 DEF Leads

LEMMA HereIs ==
    ASSUME NEW i \in Invocations
    PROVE  \A e \in Ends : Here(i, e) <=> e \in Opened(i)
BY DEF Opened

----------------------------------------------------------------------------
\* Steps.

\* What an invocation has is left as it was, except what others may close ...
Stays(j) ==
    /\ pc'[j] = pc[j] /\ writer'[j] = writer[j] /\ num'[j] = num[j] /\ sent'[j] = sent[j]
    /\ result'[j] = result[j] /\ storlet'[j] = storlet[j] /\ Opened(j)' \subseteq Opened(j)

\* ... or read.
Rests(j) ==
    /\ got'[j] = got[j] /\ chan'[j] = chan[j] /\ (j \in crashed' <=> j \in crashed)
    /\ Opened(j)' = Opened(j)

LEMMA StaysFacts ==
    ASSUME NEW j \in Invocations, Stays(j), Shut(j)
    PROVE  Shut(j)'
BY DEF Stays, Shut

LEMMA RestFacts ==
    ASSUME NEW j \in Invocations, Stays(j), Rests(j), Live(j)
    PROVE  Live(j)'
<1>1. Total(j)' = Total(j) /\ Somewhere(j)' = Somewhere(j)
  BY DEF Stays, Rests, Total, Somewhere, Held
<1>2. ChunkInv(j)'
  BY <1>1 DEF Stays, Rests, Live, ChunkInv
<1> QED BY <1>2 DEF Stays, Rests, Live

LEMMA StepParts ==
    ASSUME IInv, NEW i \in Invocations, TypeOK', FdInv', robbed \subseteq robbed',
           \A j \in Invocations \ {i} : Stays(j), Shut(i)',
           robbed' = {} => Live(i)' /\ \A j \in Invocations \ {i} : Rests(j)
    PROVE  IInv'
<1>1. ASSUME NEW j \in Invocations PROVE Shut(j)'
  <2>1. CASE j = i
    BY <2>1
  <2>2. CASE j # i
    BY <2>2, StaysFacts DEF IInv
  <2> QED BY <2>1, <2>2
<1>2. ASSUME robbed' = {}, NEW j \in Invocations PROVE Live(j)'
  <2>1. CASE j = i
    BY <1>2, <2>1
  <2>2. CASE j # i
    <3>1. robbed = {} /\ Stays(j) /\ Rests(j)
      BY <1>2, <2>2
    <3> QED BY <3>1, RestFacts DEF IInv
  <2> QED BY <2>1, <2>2
<1> QED BY <1>1, <1>2 DEF IInv

\* The facts a step of i may start from.
LEMMA Facts ==
    ASSUME IInv, NEW i \in Invocations
    PROVE  /\ TypeOK /\ FdInv /\ Shut(i) /\ (robbed = {} => Live(i))
           /\ \A E \in SUBSET Ends : CloseFds(i, E) => (robbed' = {} => Live(i))
<1>1. \A E : CloseFds(i, E) => (robbed' = {} => robbed = {})
  BY DEF CloseFds
<1> QED BY <1>1 DEF IInv

\* Nothing is opened: the numbers keep their owners.
LEMMA FdRests ==
    ASSUME TypeOK, FdInv, num' = num, NEW i \in Invocations, NEW to, to # "start",
           pc' = pc \/ pc' = [pc EXCEPT ![i] = to]
    PROVE  FdInv'
<1>1. \A k \in Invocations : pc'[k] = "start" => pc[k] = "start"
  BY DEF TypeOK
<1> QED BY <1>1 DEF FdInv

LEMMA ChunkTypes ==
    ASSUME TypeOK, NEW i \in Invocations
    PROVE  /\ got[i] \in Nat /\ sent[i] \in Nat /\ chan[i]["in_r"] \in Nat /\ chan[i]["out_r"] \in Nat
           /\ chan[i]["md_r"] \in Nat /\ Total(i) \in Nat /\ Held(i) \in Nat /\ Somewhere(i) \in Nat
<1>1. chan[i] \in [ReadEnds -> Nat] /\ got[i] \in Nat /\ sent[i] \in 0 .. Chunks
  BY DEF TypeOK
<1>2. chan[i]["in_r"] \in Nat /\ chan[i]["out_r"] \in Nat /\ chan[i]["md_r"] \in Nat /\ sent[i] \in Nat
  BY <1>1, PipesAssumption DEF ReadEnds
<1> QED BY <1>1, <1>2, PipesAssumption DEF Total, Somewhere, Held

\* What is in the pipes of each invocation.
Pipes == [Invocations -> [ReadEnds -> Nat]]

LEMMA ChanFacts ==
    ASSUME chan \in Pipes, NEW i \in Invocations, NEW e \in ReadEnds, NEW n \in Nat,
           chan' = [chan EXCEPT ![i][e] = n]
    PROVE  /\ chan' \in Pipes /\ \A j \in Invocations \ {i} : chan'[j] = chan[j]
           /\ chan'[i][e] = n /\ \A f \in ReadEnds \ {e} : chan'[i][f] = chan[i][f]
BY DEF Pipes

\* An exception ends communicate, whatever has become of the storlet.
LEMMA FailStep ==
    ASSUME IInv, NEW i \in Invocations, NEW S \in SUBSET RemoteEnds, Fail(i, S),
           pc[i] \notin {"start", "over"}, pc[i] = "answer" => S = RemoteEnds,
           NEW s \in {storlet[i], "ended", "none"}, s = "none" => storlet[i] = "queued",
           storlet' = [storlet EXCEPT ![i] = s],
           chan' \in Pipes, robbed = {} => chan' = chan, daemon' \in {"up", "leaving", "gone"}
    PROVE  IInv'
<1> DEFINE E == S \cup {"out_r", "md_r"}
<1>0. TypeOK /\ FdInv /\ Shut(i) /\ E \in SUBSET Ends /\ "in_w" \notin E
  BY Facts DEF RemoteEnds, Ends
<1>1. /\ CloseFds(i, E) /\ pc' = [pc EXCEPT ![i] = "over"] /\ result' = [result EXCEPT ![i] = "error"]
      /\ UNCHANGED <<writer, num, sent, got, crashed>>
  BY DEF Fail
<1> HIDE DEF E
<1>2. /\ FdTypes' /\ robbed \subseteq robbed' /\ Opened(i)' = Opened(i) \ E
      /\ \A k \in Invocations : k # i => Opened(k)' \subseteq Opened(k)
      /\ robbed' = {} => \A k \in Invocations : k # i => Opened(k)' = Opened(k)
  BY <1>0, <1>1, CloseFacts
<1>3. /\ pc'[i] = "over" /\ \A j \in Invocations \ {i} : pc'[j] = pc[j]
      /\ result'[i] = "error" /\ \A j \in Invocations \ {i} : result'[j] = result[j]
      /\ storlet'[i] = s /\ \A j \in Invocations \ {i} : storlet'[j] = storlet[j]
  BY <1>0, <1>1 DEF TypeOK
<1>4. \A j \in Invocations \ {i} : Stays(j)
  BY <1>1, <1>2, <1>3 DEF Stays
<1>5. TypeOK'
  <2>1. storlet' \in [Invocations -> {"none", "queued", "metadata", "read", "write", "ended"}]
    BY <1>0 DEF TypeOK
  <2> QED BY <1>0, <1>1, <1>2, <2>1 DEF TypeOK, FdTypes, Pipes
<1>6. FdInv'
  BY <1>0, <1>1, FdRests
<1>7. Shut(i)'
  <2>1. Opened(i)' \subseteq {"in_w"}
    BY <1>0, <1>2 DEF Shut, E, TypeOK, RemoteEnds, Ends, Opened
  <2>2. storlet[i] # "none"
    BY <1>0 DEF Shut, TypeOK
  <2> QED BY <1>0, <1>1, <1>2, <1>3, <2>1, <2>2 DEF Shut
<1>8. ASSUME robbed' = {} PROVE Live(i)' /\ \A j \in Invocations \ {i} : Rests(j)
  <2>1. Live(i) /\ chan' = chan
    BY <1>0, <1>1, <1>2, <1>8, Facts
  <2>2. Total(i)' = Total(i) /\ Somewhere(i)' <= Somewhere(i) /\ Somewhere(i)' \in Nat
    BY <1>0, <1>1, <1>3, <2>1, ChunkTypes DEF Total, Somewhere, Held
  <2>3. ChunkInv(i)'
    BY <1>0, <1>1, <1>3, <2>1, <2>2, ChunkTypes DEF ChunkInv, Live
  <2>4. Live(i)'
    BY <1>0, <1>1, <1>2, <1>3, <2>1, <2>3 DEF Live
  <2> QED BY <1>1, <1>2, <1>8, <2>1, <2>4 DEF Rests
<1> QED BY <1>2, <1>4, <1>5, <1>6, <1>7, <1>8, StepParts

\* The ways to get there.
LEMMA FailSteps ==
    ASSUME IInv, NEW i \in Invocations,
           \/ Refused(i) \/ AnswerFails(i) \/ NoMetadata(i) \/ WaitFails(i) \/ WriteTimeout(i)
           \/ Cancelled(i) \/ CancelRefused(i) \/ CancelFails(i)
    PROVE  IInv'
<1>0. /\ TypeOK /\ Shut(i) /\ chan \in Pipes /\ (robbed = {} => Live(i))
      /\ storlet = [storlet EXCEPT ![i] = storlet[i]] /\ daemon \in {"up", "leaving", "gone"}
      /\ {} \in SUBSET RemoteEnds /\ RemoteEnds \in SUBSET RemoteEnds
  BY Facts DEF TypeOK, Pipes
<1>1. CASE Refused(i) \/ AnswerFails(i)
  <2>1. PICK s \in {storlet[i], "none"} :
           storlet' = [storlet EXCEPT ![i] = s] /\ (s = "none" => storlet[i] = "queued")
    <3>1. storlet[i] # "none"
      BY <1>0, <1>1 DEF Refused, AnswerFails, Shut
    <3> QED BY <1>1, <3>1 DEF Refused, AnswerFails
  <2>2. pc[i] = "answer" /\ Fail(i, RemoteEnds) /\ UNCHANGED <<chan, daemon>>
    BY <1>1 DEF Refused, AnswerFails
  <2> QED BY <1>0, <2>1, <2>2, FailStep
<1>2. CASE NoMetadata(i)
  <2>1. PICK j \in Invocations, e \in ReadEnds :
           /\ Leads(i, "md_r") = <<j, e>> /\ (chan[j][e] = 0 \/ e # "md_r")
           /\ chan' = [chan EXCEPT ![j][e] = IF @ > 0 THEN @ - 1 ELSE 0]
    BY <1>2 DEF NoMetadata
  <2>2. pc[i] = "metadata" /\ Fail(i, {}) /\ UNCHANGED <<storlet, daemon>>
    BY <1>2 DEF NoMetadata
  <2> DEFINE n == IF chan[j][e] > 0 THEN chan[j][e] - 1 ELSE 0
  <2>3. n \in Nat /\ chan' = [chan EXCEPT ![j][e] = n]
    BY <1>0, <2>1 DEF Pipes
  <2>4. chan' \in Pipes
    BY <1>0, <2>3, ChanFacts
  <2>5. ASSUME robbed = {} PROVE chan' = chan
    <3>1. Leads(i, "md_r") = <<i, "md_r">>
      BY <1>0, <2>2, <2>5, LeadsHome DEF Live
    <3>2. chan[j][e] = 0 /\ n = chan[j][e]
      BY <2>1, <3>1
    <3> HIDE DEF n
    <3> QED BY <1>0, <2>3, <3>2 DEF Pipes
  <2>6. storlet[i] # "none"
    BY <1>0, <2>2 DEF Shut
  <2> QED BY <1>0, <2>2, <2>4, <2>5, <2>6, FailStep
<1>3. CASE Cancelled(i)
  <2>1. /\ pc[i] = "cancel" /\ Fail(i, {}) /\ UNCHANGED chan /\ daemon' = "leaving"
        /\ storlet' = [storlet EXCEPT ![i] = "ended"]
    BY <1>3 DEF Cancelled
  <2> QED BY <1>0, <2>1, FailStep
<1>4. CASE WaitFails(i) \/ WriteTimeout(i) \/ CancelRefused(i) \/ CancelFails(i)
  <2>1. /\ pc[i] \in {"writable", "metadata", "data", "cancel"}
        /\ Fail(i, {}) /\ UNCHANGED <<chan, storlet, daemon>>
    BY <1>4 DEF WaitFails, Waits, WriteTimeout, CancelRefused, CancelFails
  <2>2. storlet[i] # "none"
    BY <1>0, <2>1 DEF Shut
  <2> QED BY <1>0, <2>1, <2>2, FailStep
<1> QED BY <1>1, <1>2, <1>3, <1>4

\* communicate waits for the next thing, the daemon's answer read ...
LEMMA AnswerStep ==
    ASSUME IInv, NEW i \in Invocations, Answer(i)
    PROVE  IInv'
<1> DEFINE to == IF i \in HasFd THEN "metadata" ELSE "writable"
<1>0. TypeOK /\ FdInv /\ Shut(i) /\ RemoteEnds \in SUBSET Ends
  BY Facts DEF RemoteEnds, Ends
<1>1. /\ pc[i] = "answer" /\ storlet[i] \notin {"none", "queued"}
      /\ CloseFds(i, RemoteEnds) /\ pc' = [pc EXCEPT ![i] = to]
      /\ UNCHANGED <<writer, num, sent, got, result, chan, storlet, crashed, daemon>>
  BY DEF Answer
<1>2. /\ FdTypes' /\ robbed \subseteq robbed' /\ Opened(i)' = Opened(i) \ RemoteEnds
      /\ \A k \in Invocations : k # i => Opened(k)' \subseteq Opened(k)
      /\ robbed' = {} => \A k \in Invocations : k # i => Opened(k)' = Opened(k)
  BY <1>0, <1>1, CloseFacts
<1>3. pc'[i] = to /\ \A j \in Invocations \ {i} : pc'[j] = pc[j]
  BY <1>0, <1>1 DEF TypeOK
<1>4. \A j \in Invocations \ {i} : Stays(j)
  BY <1>1, <1>2, <1>3 DEF Stays
<1>5. TypeOK'
  <2>1. pc'[i] = "writable" => num[i]["in_w"] # NoFd
    BY <1>0, <1>1, <1>3 DEF Shut
  <2>2. \A k \in Invocations : pc'[k] = "writable" \/ writer'[k] # "none" => num'[k]["in_w"] # NoFd
    BY <1>0, <1>1, <1>3, <2>1 DEF TypeOK
  <2> QED BY <1>0, <1>1, <1>2, <2>2 DEF TypeOK, FdTypes
<1>6. FdInv'
  BY <1>0, <1>1, FdRests
<1>7. Shut(i)'
  <2>1. Opened(i)' \subseteq {"in_w", "out_r", "md_r"}
    BY <1>2 DEF RemoteEnds, Ends, Opened
  <2> QED BY <1>0, <1>1, <1>2, <1>3, <2>1 DEF Shut
<1>8. ASSUME robbed' = {} PROVE Live(i)' /\ \A j \in Invocations \ {i} : Rests(j)
  <2>1. Live(i)
    BY <1>0, <1>1, <1>8, Facts
  <2>2. "out_r" \in Opened(i)' /\ "md_r" \in Opened(i)' /\ (i \notin HasFd => "in_w" \in Opened(i)')
    BY <1>1, <1>2, <2>1 DEF Live, RemoteEnds, Ends
  <2>3. ChunkInv(i)'
    BY <1>1, <1>3, <2>1 DEF Live, ChunkInv, Total, Somewhere, Held
  <2>4. Live(i)'
    BY <1>0, <1>1, <1>2, <1>3, <2>1, <2>2, <2>3 DEF Live, Shut
  <2> QED BY <1>1, <1>2, <1>8, <2>4 DEF Rests
<1> QED BY <1>2, <1>4, <1>5, <1>6, <1>7, <1>8, StepParts

\* ... the input pipe ready, the output there, a timeout.
LEMMA MoveStep ==
    ASSUME IInv, NEW i \in Invocations, Writable(i) \/ Data(i) \/ Timeout(i)
    PROVE  IInv'
<1>0. TypeOK /\ FdInv /\ Shut(i) /\ (robbed = {} => Live(i))
  BY Facts
<1>1. PICK to \in {"metadata", "reading", "cancel"} :
        /\ pc' = [pc EXCEPT ![i] = to] /\ pc[i] \in {"writable", "metadata", "data"}
        /\ \/ to = "metadata" /\ pc[i] = "writable" /\ writer' = [writer EXCEPT ![i] = "run"]
           \/ to # "metadata" /\ pc[i] # "writable" /\ writer' = writer
        /\ UNCHANGED <<num, table, robbed, sent, got, result, chan, storlet, crashed, daemon>>
        /\ to = "cancel" \/ to = "metadata" \/ pc[i] = "data"
  BY DEF Writable, Data, Timeout
<1>2. FdTypes' /\ \A k \in Invocations : Opened(k)' = Opened(k)
  BY <1>0, <1>1, NothingClosed
<1>3. /\ pc'[i] = to /\ \A j \in Invocations \ {i} : pc'[j] = pc[j] /\ writer'[j] = writer[j]
      /\ writer'[i] = IF to = "metadata" THEN "run" ELSE writer[i]
  BY <1>0, <1>1 DEF TypeOK
<1>4. \A j \in Invocations \ {i} : Stays(j) /\ Rests(j)
  BY <1>1, <1>2, <1>3 DEF Stays, Rests
<1>5. TypeOK'
  <2>1. pc' \in [Invocations -> {"start", "answer", "writable", "metadata", "data",
                                 "reading", "cancel", "over"}]
        /\ writer' \in [Invocations -> {"none", "run", "done"}]
    BY <1>0, <1>1 DEF TypeOK
  <2>2. \A k \in Invocations : pc'[k] = "writable" \/ writer'[k] # "none" => num'[k]["in_w"] # NoFd
    BY <1>0, <1>1, <1>3 DEF TypeOK
  <2> QED BY <1>0, <1>1, <1>2, <2>1, <2>2 DEF TypeOK, FdTypes
<1>6. FdInv'
  BY <1>0, <1>1, FdRests
<1>7. Shut(i)'
  BY <1>0, <1>1, <1>2, <1>3 DEF Shut
<1>8. ASSUME robbed' = {} PROVE Live(i)'
  <2>1. Live(i)
    BY <1>0, <1>1, <1>8
  <2>2. ChunkInv(i)'
    BY <1>0, <1>1, <1>3, <2>1 DEF Live, ChunkInv, Total, Somewhere, Held, Shut
  <2>3. to = "metadata" => "md_r" \in Opened(i)
    BY <1>0, <1>1, <2>1 DEF Live, Shut
  <2> QED BY <1>0, <1>1, <1>2, <1>3, <2>1, <2>2, <2>3 DEF Live
<1> QED BY <1>1, <1>4, <1>5, <1>6, <1>7, <1>8, StepParts

\* The metadata are read.
LEMMA MetadataStep ==
    ASSUME IInv, NEW i \in Invocations, Metadata(i)
    PROVE  IInv'
<1>0. TypeOK /\ FdInv /\ Shut(i) /\ {"md_r"} \in SUBSET Ends /\ chan \in Pipes
  BY Facts DEF Ends, TypeOK, Pipes
<1>1. /\ pc[i] = "metadata" /\ CloseFds(i, {"md_r"}) /\ pc' = [pc EXCEPT ![i] = "data"]
      /\ UNCHANGED <<writer, num, sent, got, result, storlet, crashed, daemon>>
  BY DEF Metadata
<1>c. PICK j \in Invocations, e \in ReadEnds :
        /\ Leads(i, "md_r") = <<j, e>> /\ chan[j][e] > 0
        /\ chan' = [chan EXCEPT ![j][e] = @ - 1]
  BY DEF Metadata
<1>d. chan[j][e] - 1 \in Nat /\ chan' = [chan EXCEPT ![j][e] = chan[j][e] - 1]
  BY <1>0, <1>c DEF Pipes
<1>e. /\ chan' \in Pipes /\ \A k \in Invocations \ {j} : chan'[k] = chan[k]
      /\ \A f \in ReadEnds \ {e} : chan'[j][f] = chan[j][f]
  BY <1>0, <1>d, ChanFacts
<1>2. /\ FdTypes' /\ robbed \subseteq robbed' /\ Opened(i)' = Opened(i) \ {"md_r"}
      /\ \A k \in Invocations : k # i => Opened(k)' \subseteq Opened(k)
      /\ robbed' = {} => \A k \in Invocations : k # i => Opened(k)' = Opened(k)
  BY <1>0, <1>1, CloseFacts
<1>3. pc'[i] = "data" /\ \A k \in Invocations \ {i} : pc'[k] = pc[k]
  BY <1>0, <1>1 DEF TypeOK
<1>4. \A k \in Invocations \ {i} : Stays(k)
  BY <1>1, <1>2, <1>3 DEF Stays
<1>5. TypeOK'
  BY <1>0, <1>1, <1>2, <1>e DEF TypeOK, FdTypes, Pipes
<1>6. FdInv'
  BY <1>0, <1>1, FdRests
<1>7. Shut(i)'
  BY <1>0, <1>1, <1>2, <1>3 DEF Shut
<1>8. ASSUME robbed' = {} PROVE Live(i)' /\ \A k \in Invocations \ {i} : Rests(k)
  <2>1. Live(i)
    BY <1>0, <1>1, <1>8, Facts
  <2>2. Leads(i, "md_r") = <<i, "md_r">>
    BY <1>0, <1>1, <2>1, LeadsHome DEF Live
  <2>3. j = i /\ e = "md_r"
    BY <1>c, <2>2
  <2>4. chan'[i]["in_r"] = chan[i]["in_r"] /\ chan'[i]["out_r"] = chan[i]["out_r"]
    BY <1>e, <2>3 DEF ReadEnds
  <2>5. storlet[i] \notin {"none", "queued", "metadata"}
    BY <1>c, <2>1, <2>3 DEF Live
  <2>6. ChunkInv(i)'
    BY <1>1, <1>3, <2>1, <2>4 DEF Live, ChunkInv, Total, Somewhere, Held
  <2>7. Live(i)'
    BY <1>0, <1>1, <1>2, <1>3, <2>1, <2>4, <2>5, <2>6 DEF Live
  <2> QED BY <1>1, <1>2, <1>8, <1>e, <2>3, <2>7 DEF Rests
<1> QED BY <1>2, <1>4, <1>5, <1>6, <1>7, <1>8, StepParts

\* The iterator hands out a chunk.
LEMMA NextChunkStep ==
    ASSUME IInv, NEW i \in Invocations, NextChunk(i)
    PROVE  IInv'
<1>0. TypeOK /\ FdInv /\ Shut(i) /\ chan \in Pipes /\ (robbed = {} => Live(i))
  BY Facts DEF TypeOK, Pipes
<1>1. /\ pc[i] = "reading" /\ got' = [got EXCEPT ![i] = @ + 1]
      /\ UNCHANGED <<pc, writer, num, table, robbed, sent, result, storlet, crashed, daemon>>
  BY DEF NextChunk
<1>c. PICK j \in Invocations, e \in ReadEnds :
        /\ Leads(i, "out_r") = <<j, e>> /\ chan[j][e] > 0
        /\ chan' = [chan EXCEPT ![j][e] = @ - 1]
  BY DEF NextChunk
<1>d. chan[j][e] - 1 \in Nat /\ chan' = [chan EXCEPT ![j][e] = chan[j][e] - 1]
  BY <1>0, <1>c DEF Pipes
<1>e. /\ chan' \in Pipes /\ \A k \in Invocations \ {j} : chan'[k] = chan[k]
      /\ chan'[j][e] = chan[j][e] - 1 /\ \A f \in ReadEnds \ {e} : chan'[j][f] = chan[j][f]
  BY <1>0, <1>d, ChanFacts
<1>2. FdTypes' /\ \A k \in Invocations : Opened(k)' = Opened(k)
  BY <1>0, <1>1, NothingClosed
<1>3. got'[i] = got[i] + 1 /\ \A k \in Invocations \ {i} : got'[k] = got[k]
  BY <1>0, <1>1 DEF TypeOK
<1>4. \A k \in Invocations \ {i} : Stays(k)
  BY <1>1, <1>2 DEF Stays
<1>5. TypeOK'
  <2>1. got' \in [Invocations -> Nat]
    BY <1>0, <1>1 DEF TypeOK
  <2> QED BY <1>0, <1>1, <1>2, <1>e, <2>1 DEF TypeOK, FdTypes, Pipes
<1>6. FdInv'
  BY <1>0, <1>1 DEF FdInv
<1>7. Shut(i)'
  BY <1>0, <1>1, <1>2 DEF Shut
<1>8. ASSUME robbed' = {} PROVE Live(i)' /\ \A k \in Invocations \ {i} : Rests(k)
  <2>1. Live(i)
    BY <1>0, <1>1, <1>8
  <2>2. Leads(i, "out_r") = <<i, "out_r">>
    BY <1>0, <1>1, <2>1, LeadsHome DEF Live
  <2>3. j = i /\ e = "out_r"
    BY <1>c, <2>2
  <2>4. /\ chan'[i]["in_r"] = chan[i]["in_r"] /\ chan'[i]["md_r"] = chan[i]["md_r"]
        /\ chan'[i]["out_r"] = chan[i]["out_r"] - 1
    BY <1>e, <2>3 DEF ReadEnds
  <2>5. Total(i)' = Total(i) /\ Somewhere(i)' = Somewhere(i)
    BY <1>0, <1>1, <1>3, <2>4, ChunkTypes DEF Total, Somewhere, Held
  <2>6. ChunkInv(i)'
    BY <1>0, <1>1, <2>1, <2>4, <2>5 DEF Live, ChunkInv, Shut
  <2>7. Live(i)'
    BY <1>0, <1>1, <1>2, <2>1, <2>4, <2>6 DEF Live
  <2> QED BY <1>1, <1>2, <1>3, <1>e, <2>3, <2>7 DEF Rests
<1> QED BY <1>1, <1>4, <1>5, <1>6, <1>7, <1>8, StepParts

\* The iterator is closed; if that is for the end of the data, everything has
\* been handed out.
LEMMA CloseStep ==
    ASSUME IInv, NEW i \in Invocations, NEW how \in {"cut", "complete"}, Close(i, how), pc[i] = "reading",
           UNCHANGED <<writer, num, sent, got, chan, storlet, crashed, daemon>>,
           robbed = {} /\ how = "complete" => ~Holds(i, "out_w") /\ chan[i]["out_r"] = 0
    PROVE  IInv'
<1>0. TypeOK /\ FdInv /\ Shut(i) /\ {"out_r"} \in SUBSET Ends
  BY Facts DEF Ends
<1>1. /\ CloseFds(i, {"out_r"}) /\ pc' = [pc EXCEPT ![i] = "over"]
      /\ result' = [result EXCEPT ![i] = how]
  BY DEF Close
<1>2. /\ FdTypes' /\ robbed \subseteq robbed' /\ Opened(i)' = Opened(i) \ {"out_r"}
      /\ \A k \in Invocations : k # i => Opened(k)' \subseteq Opened(k)
      /\ robbed' = {} => \A k \in Invocations : k # i => Opened(k)' = Opened(k)
  BY <1>0, <1>1, CloseFacts
<1>3. /\ pc'[i] = "over" /\ \A k \in Invocations \ {i} : pc'[k] = pc[k]
      /\ result'[i] = how /\ \A k \in Invocations \ {i} : result'[k] = result[k]
  BY <1>0, <1>1 DEF TypeOK
<1>4. \A k \in Invocations \ {i} : Stays(k)
  BY <1>1, <1>2, <1>3 DEF Stays
<1>5. TypeOK'
  BY <1>0, <1>1, <1>2 DEF TypeOK, FdTypes
<1>6. FdInv'
  BY <1>0, <1>1, FdRests
<1>7. Shut(i)'
  BY <1>0, <1>1, <1>2, <1>3 DEF Shut
<1>8. ASSUME robbed' = {} PROVE Live(i)' /\ \A k \in Invocations \ {i} : Rests(k)
  <2>1. Live(i) /\ robbed = {}
    BY <1>0, <1>1, <1>2, <1>8, Facts
  <2>2. ASSUME how = "complete", i \notin crashed
        PROVE  got[i] = Total(i) /\ (i \in HasFd \/ writer[i] = "done")
    <3>1. chan[i]["out_r"] = 0 /\ storlet[i] = "ended"
      BY <1>0, <2>1, <2>2 DEF Holds, Running, Shut, TypeOK
    <3> QED BY <1>0, <2>1, <2>2, <3>1, ChunkTypes DEF Live, ChunkInv, Somewhere, Held
  <2>3. Total(i)' = Total(i) /\ Somewhere(i)' = Somewhere(i)
    BY DEF Total, Somewhere, Held
  <2>4. ChunkInv(i)'
    BY <1>3, <2>1, <2>2, <2>3 DEF Live, ChunkInv
  <2>5. Live(i)'
    BY <1>0, <1>1, <1>2, <1>3, <2>1, <2>4 DEF Live
  <2> QED BY <1>1, <1>2, <1>8, <2>5 DEF Rests
<1> QED BY <1>2, <1>4, <1>5, <1>6, <1>7, <1>8, StepParts

LEMMA CloseSteps ==
    ASSUME IInv, NEW i \in Invocations, NextStops(i) \/ NextEnds(i)
    PROVE  IInv'
<1>0. TypeOK /\ (robbed = {} => Live(i))
  BY Facts
<1>1. CASE NextStops(i)
  <2>1. /\ pc[i] = "reading" /\ Close(i, "complete")
        /\ UNCHANGED <<writer, num, sent, got, chan, storlet, crashed, daemon>>
        /\ \E j \in Invocations, e \in ReadEnds :
              Leads(i, "out_r") = <<j, e>> /\ Readable(j, e) /\ chan[j][e] = 0
    BY <1>1 DEF NextStops
  <2>2. ASSUME robbed = {} PROVE ~Holds(i, "out_w") /\ chan[i]["out_r"] = 0
    <3>1. Leads(i, "out_r") = <<i, "out_r">>
      BY <1>0, <2>1, <2>2, LeadsHome DEF Live
    <3>2. Readable(i, "out_r") /\ chan[i]["out_r"] = 0
      BY <2>1, <3>1
    <3> QED BY <3>2 DEF Readable, WriteEnd
  <2> QED BY <2>1, <2>2, CloseStep
<1>2. CASE NextEnds(i)
  <2>1. /\ pc[i] = "reading" /\ Close(i, "cut")
        /\ UNCHANGED <<writer, num, sent, got, chan, storlet, crashed, daemon>>
    BY <1>2 DEF NextEnds
  <2> QED BY <2>1, CloseStep
<1> QED BY <1>1, <1>2

\* The writing thread.
LEMMA WriteChunkStep ==
    ASSUME IInv, NEW i \in Invocations, WriteChunk(i)
    PROVE  IInv'
<1>0. TypeOK /\ FdInv /\ Shut(i) /\ chan \in Pipes /\ (robbed = {} => Live(i))
  BY Facts DEF TypeOK, Pipes
<1>1. /\ writer[i] = "run" /\ sent[i] < Chunks /\ sent' = [sent EXCEPT ![i] = @ + 1]
      /\ UNCHANGED <<pc, writer, num, table, robbed, got, result, storlet, crashed, daemon>>
  BY DEF WriteChunk
<1>c. PICK j \in Invocations :
        /\ Leads(i, "in_w") = <<j, "in_w">> /\ Holds(j, "in_r")
        /\ chan' = [chan EXCEPT ![j]["in_r"] = @ + 1]
  BY DEF WriteChunk
<1>d. /\ "in_r" \in ReadEnds /\ chan[j]["in_r"] + 1 \in Nat
      /\ chan' = [chan EXCEPT ![j]["in_r"] = chan[j]["in_r"] + 1]
  BY <1>0, <1>c DEF Pipes, ReadEnds
<1>e. /\ chan' \in Pipes /\ \A k \in Invocations \ {j} : chan'[k] = chan[k]
      /\ chan'[j]["in_r"] = chan[j]["in_r"] + 1
      /\ \A f \in ReadEnds \ {"in_r"} : chan'[j][f] = chan[j][f]
  BY <1>0, <1>d, ChanFacts
<1>2. FdTypes' /\ \A k \in Invocations : Opened(k)' = Opened(k)
  BY <1>0, <1>1, NothingClosed
<1>3. sent'[i] = sent[i] + 1 /\ \A k \in Invocations \ {i} : sent'[k] = sent[k]
  BY <1>0, <1>1 DEF TypeOK
<1>4. \A k \in Invocations \ {i} : Stays(k)
  BY <1>1, <1>2, <1>3 DEF Stays
<1>5. TypeOK'
  <2>1. sent' \in [Invocations -> 0 .. Chunks]
    BY <1>0, <1>1, ChunkTypes, PipesAssumption DEF TypeOK
  <2> QED BY <1>0, <1>1, <1>2, <1>e, <2>1 DEF TypeOK, FdTypes, Pipes
<1>6. FdInv'
  BY <1>0, <1>1 DEF FdInv
<1>7. Shut(i)'
  BY <1>0, <1>1, <1>2 DEF Shut
<1>8. ASSUME robbed' = {} PROVE Live(i)' /\ \A k \in Invocations \ {i} : Rests(k)
  <2>1. Live(i) /\ i \notin HasFd
    BY <1>0, <1>1, <1>8 DEF Shut
  <2>2. Leads(i, "in_w") = <<i, "in_w">>
    BY <1>0, <1>1, <2>1, LeadsHome DEF Live
  <2>3. j = i
    BY <1>c, <2>2
  <2>4. /\ chan'[i]["out_r"] = chan[i]["out_r"] /\ chan'[i]["md_r"] = chan[i]["md_r"]
        /\ chan'[i]["in_r"] = chan[i]["in_r"] + 1
    BY <1>e, <2>3 DEF ReadEnds
  <2>a. Total(i)' = Total(i) + 1
    BY <1>3, <2>1 DEF Total
  <2>b. Held(i)' = Held(i) /\ got'[i] = got[i]
    BY <1>1 DEF Held
  <2>c. Somewhere(i)' = got[i] + chan[i]["out_r"] + (chan[i]["in_r"] + 1) + Held(i)
    BY <2>4, <2>b DEF Somewhere
  <2>5. Total(i)' = Total(i) + 1 /\ Somewhere(i)' = Somewhere(i) + 1
    BY <1>0, <2>a, <2>c, ChunkTypes DEF Somewhere
  <2>6. ChunkInv(i)'
    BY <1>0, <1>1, <2>1, <2>4, <2>5, ChunkTypes DEF Live, ChunkInv, Shut
  <2>7. Live(i)'
    BY <1>0, <1>1, <1>2, <2>1, <2>4, <2>6 DEF Live
  <2> QED BY <1>1, <1>2, <1>e, <2>3, <2>7 DEF Rests
<1> QED BY <1>1, <1>4, <1>5, <1>6, <1>7, <1>8, StepParts

LEMMA WriteEndsStep ==
    ASSUME IInv, NEW i \in Invocations, WriteEnds(i)
    PROVE  IInv'
<1>0. TypeOK /\ FdInv /\ Shut(i) /\ {"in_w"} \in SUBSET Ends
  BY Facts DEF Ends
<1>1. /\ writer[i] = "run" /\ writer' = [writer EXCEPT ![i] = "done"] /\ CloseFds(i, {"in_w"})
      /\ UNCHANGED <<pc, num, sent, got, result, chan, storlet, crashed, daemon>>
  BY DEF WriteEnds
<1>2. /\ FdTypes' /\ robbed \subseteq robbed' /\ Opened(i)' = Opened(i) \ {"in_w"}
      /\ \A k \in Invocations : k # i => Opened(k)' \subseteq Opened(k)
      /\ robbed' = {} => \A k \in Invocations : k # i => Opened(k)' = Opened(k)
  BY <1>0, <1>1, CloseFacts
<1>3. writer'[i] = "done" /\ \A k \in Invocations \ {i} : writer'[k] = writer[k]
  BY <1>0, <1>1 DEF TypeOK
<1>4. \A k \in Invocations \ {i} : Stays(k)
  BY <1>1, <1>2, <1>3 DEF Stays
<1>5. TypeOK'
  <2>1. \A k \in Invocations : pc'[k] = "writable" \/ writer'[k] # "none" => num'[k]["in_w"] # NoFd
    BY <1>0, <1>1, <1>3 DEF TypeOK
  <2> QED BY <1>0, <1>1, <1>2, <2>1 DEF TypeOK, FdTypes
<1>6. FdInv'
  BY <1>0, <1>1 DEF FdInv
<1>7. Shut(i)'
  BY <1>0, <1>1, <1>2, <1>3 DEF Shut
<1>8. ASSUME robbed' = {} PROVE Live(i)' /\ \A k \in Invocations \ {i} : Rests(k)
  <2>1. Live(i)
    BY <1>0, <1>1, <1>8, Facts
  <2>2. ChunkInv(i)'
    BY <1>1, <1>3, <2>1 DEF Live, ChunkInv, Total, Somewhere, Held
  <2>3. Live(i)'
    BY <1>0, <1>1, <1>2, <1>3, <2>1, <2>2 DEF Live, Shut
  <2> QED BY <1>1, <1>2, <1>8, <2>3 DEF Rests
<1> QED BY <1>2, <1>4, <1>5, <1>6, <1>7, <1>8, StepParts

\* A step that only moves a storlet.
LEMMA StorletMoves ==
    ASSUME IInv, NEW i \in Invocations, NEW s \in {"metadata", "read", "write", "ended"},
           storlet[i] # "none", pc[i] = "answer" \/ storlet[i] # "queued" \/ pc[i] = "over",
           storlet' = [storlet EXCEPT ![i] = s], UNCHANGED <<gatewayVars, daemon>>,
           chan' \in Pipes, \A j \in Invocations \ {i} : chan'[j] = chan[j],
           crashed' \subseteq Invocations, \A j \in Invocations \ {i} : j \in crashed' <=> j \in crashed,
           Live(i) => Live(i)'
    PROVE  IInv'
<1>0. TypeOK /\ FdInv /\ Shut(i) /\ (robbed = {} => Live(i))
  BY Facts
<1>1. UNCHANGED <<pc, writer, num, table, robbed, sent, got, result, daemon>>
  BY DEF gatewayVars
<1>2. FdTypes' /\ \A k \in Invocations : Opened(k)' = Opened(k)
  BY <1>0, <1>1, NothingClosed
<1>3. storlet'[i] = s /\ \A j \in Invocations \ {i} : storlet'[j] = storlet[j]
  BY <1>0 DEF TypeOK
<1>4. \A j \in Invocations \ {i} : Stays(j) /\ Rests(j)
  BY <1>1, <1>2, <1>3 DEF Stays, Rests
<1>5. TypeOK'
  <2>1. storlet' \in [Invocations -> {"none", "queued", "metadata", "read", "write", "ended"}]
    BY <1>0 DEF TypeOK
  <2> QED BY <1>0, <1>1, <1>2, <2>1 DEF TypeOK, FdTypes, Pipes
<1>6. FdInv'
  BY <1>0, <1>1 DEF FdInv
<1>7. Shut(i)'
  BY <1>0, <1>1, <1>2, <1>3 DEF Shut
<1> QED BY <1>0, <1>1, <1>4, <1>5, <1>6, <1>7, StepParts

LEMMA DaemonForksStep ==
    ASSUME IInv, NEW i \in Invocations, DaemonForks(i)
    PROVE  IInv'
<1>0. TypeOK /\ Shut(i) /\ chan \in Pipes /\ crashed \subseteq Invocations
  BY Facts DEF TypeOK, Pipes
<1>1. /\ storlet[i] = "queued" /\ storlet' = [storlet EXCEPT ![i] = "metadata"]
      /\ UNCHANGED <<gatewayVars, chan, crashed, daemon>>
  BY DEF DaemonForks
<1>2. pc[i] = "answer" \/ pc[i] = "over"
  BY <1>0, <1>1 DEF Shut, TypeOK
<1>3. UNCHANGED <<pc, writer, num, table, robbed, sent, got, result>> /\ storlet'[i] = "metadata"
  BY <1>0, <1>1 DEF gatewayVars, TypeOK
<1>4. Opened(i)' = Opened(i)
  BY <1>0, <1>3, NothingClosed
<1>5. ASSUME Live(i) PROVE Live(i)'
  <2>1. ChunkInv(i)'
    BY <1>1, <1>3, <1>5 DEF Live, ChunkInv, Total, Somewhere, Held
  <2> QED BY <1>1, <1>3, <1>4, <1>5, <2>1 DEF Live
<1> QED BY <1>0, <1>1, <1>2, <1>5, StorletMoves

LEMMA StorletCrashesStep ==
    ASSUME IInv, NEW i \in Invocations, StorletCrashes(i)
    PROVE  IInv'
<1>0. TypeOK /\ Shut(i) /\ chan \in Pipes /\ crashed \subseteq Invocations
  BY Facts DEF TypeOK, Pipes
<1>1. /\ storlet[i] \in {"metadata", "read", "write"} /\ storlet' = [storlet EXCEPT ![i] = "ended"]
      /\ crashed' = crashed \cup {i} /\ UNCHANGED <<gatewayVars, chan, daemon>>
  BY DEF StorletCrashes, Running
<1>2. UNCHANGED <<pc, writer, num, table, robbed, sent, got, result>> /\ storlet'[i] = "ended"
  BY <1>0, <1>1 DEF gatewayVars, TypeOK
<1>3. Opened(i)' = Opened(i)
  BY <1>0, <1>2, NothingClosed
<1>4. ASSUME Live(i) PROVE Live(i)'
  <2>1. Total(i)' = Total(i) /\ Somewhere(i)' <= Somewhere(i) /\ Somewhere(i)' \in Nat
    BY <1>0, <1>1, <1>2, ChunkTypes DEF Total, Somewhere, Held
  <2>2. ChunkInv(i)'
    BY <1>0, <1>1, <1>2, <1>4, <2>1, ChunkTypes DEF Live, ChunkInv
  <2> QED BY <1>1, <1>2, <1>3, <1>4, <2>2 DEF Live
<1> QED BY <1>0, <1>1, <1>4, StorletMoves

\* What a step of a storlet has to see to.
LEMMA StorletLive ==
    ASSUME TypeOK, NEW i \in Invocations, Live(i), UNCHANGED <<pc, writer, num, sent, got, result, crashed>>,
           Opened(i)' = Opened(i), storlet'[i] \in {"read", "write", "ended"},
           chan'[i]["in_r"] \in Nat, chan'[i]["in_r"] <= chan[i]["in_r"],
           Somewhere(i)' <= Somewhere(i), Somewhere(i)' \in Nat,
           pc[i] # "over" => Somewhere(i)' = Somewhere(i),
           pc[i] # "over" /\ storlet'[i] = "ended" =>
              chan'[i]["in_r"] = 0 /\ (i \in HasFd \/ writer[i] = "done")
    PROVE  Live(i)'
<1>0. Somewhere(i) \in Nat /\ Total(i) \in Nat /\ chan[i]["in_r"] \in Nat
  BY ChunkTypes
<1>1. Total(i)' = Total(i)
  BY DEF Total
<1>2. ChunkInv(i)'
  BY <1>0, <1>1 DEF Live, ChunkInv
<1>3. writer[i] = "none" /\ i \notin HasFd => chan'[i]["in_r"] = 0
  BY <1>0 DEF Live
<1> QED BY <1>2, <1>3 DEF Live

LEMMA StorletStepStep ==
    ASSUME IInv, NEW i \in Invocations, StorletStep(i)
    PROVE  IInv'
<1>0. /\ TypeOK /\ Shut(i) /\ chan \in Pipes /\ crashed \subseteq Invocations
      /\ {"in_r", "out_r", "md_r"} \subseteq ReadEnds /\ {"in_w", "out_r", "md_r"} \subseteq Ends
  BY Facts DEF TypeOK, Pipes, ReadEnds, Ends
<1>1. UNCHANGED <<gatewayVars, crashed, daemon>>
  BY DEF StorletStep
<1>2. UNCHANGED <<pc, writer, num, table, robbed, sent, got, result>>
  BY <1>1 DEF gatewayVars
<1>3. Opened(i)' = Opened(i) /\ \A e \in Ends : Here(i, e) <=> e \in Opened(i)
  BY <1>0, <1>2, NothingClosed, HereIs
<1>4. /\ got[i] \in Nat /\ chan[i]["in_r"] \in Nat /\ chan[i]["out_r"] \in Nat /\ chan[i]["md_r"] \in Nat
      /\ Held(i) \in Nat /\ Somewhere(i) \in Nat
  BY <1>0, ChunkTypes
<1>5. CASE /\ storlet[i] = "metadata" /\ chan' = [chan EXCEPT ![i]["md_r"] = 1]
           /\ storlet' = [storlet EXCEPT ![i] = IF Here(i, "md_r") THEN "read" ELSE "ended"]
  <2>1. PICK s \in {"read", "ended"} : /\ storlet' = [storlet EXCEPT ![i] = s]
                                       /\ "md_r" \in Opened(i) => s = "read"
    BY <1>0, <1>3, <1>5
  <2>2. /\ chan' \in Pipes /\ \A j \in Invocations \ {i} : chan'[j] = chan[j]
        /\ \A f \in ReadEnds \ {"md_r"} : chan'[i][f] = chan[i][f]
    BY <1>0, <1>5, ChanFacts
  <2>3. storlet'[i] = s /\ chan'[i]["in_r"] = chan[i]["in_r"] /\ chan'[i]["out_r"] = chan[i]["out_r"]
    BY <1>0, <2>1, <2>2 DEF TypeOK
  <2>4. Held(i) = 0 /\ Held(i)' = 0
    BY <1>5, <2>3 DEF Held
  <2>5. Somewhere(i)' = Somewhere(i)
    BY <1>2, <2>3, <2>4 DEF Somewhere
  <2>6. ASSUME Live(i) PROVE Live(i)'
    <3>1. pc[i] # "over" => s = "read"
      BY <1>5, <2>1, <2>6 DEF Live
    <3> QED BY <1>0, <1>1, <1>2, <1>3, <1>4, <2>3, <2>5, <2>6, <3>1, StorletLive
  <2> QED BY <1>0, <1>1, <1>5, <2>1, <2>2, <2>6, StorletMoves
<1>6. CASE /\ storlet[i] = "read" /\ chan[i]["in_r"] > 0
           /\ chan' = [chan EXCEPT ![i]["in_r"] = @ - 1] /\ storlet' = [storlet EXCEPT ![i] = "write"]
  <2>1. chan[i]["in_r"] - 1 \in Nat /\ chan' = [chan EXCEPT ![i]["in_r"] = chan[i]["in_r"] - 1]
    BY <1>0, <1>4, <1>6 DEF Pipes
  <2>2. /\ chan' \in Pipes /\ \A j \in Invocations \ {i} : chan'[j] = chan[j]
        /\ chan'[i]["in_r"] = chan[i]["in_r"] - 1
        /\ \A f \in ReadEnds \ {"in_r"} : chan'[i][f] = chan[i][f]
    BY <1>0, <2>1, ChanFacts
  <2>3. storlet'[i] = "write" /\ chan'[i]["out_r"] = chan[i]["out_r"]
    BY <1>0, <1>6, <2>2 DEF TypeOK
  <2>4. Held(i) = 0 /\ Held(i)' = 1
    BY <1>6, <2>3 DEF Held
  <2>a. Somewhere(i)' = got[i] + chan[i]["out_r"] + (chan[i]["in_r"] - 1) + 1
    BY <1>2, <2>2, <2>3, <2>4 DEF Somewhere
  <2>5. Somewhere(i)' = Somewhere(i)
    BY <1>4, <2>4, <2>a DEF Somewhere
  <2>6. ASSUME Live(i) PROVE Live(i)'
    BY <1>0, <1>1, <1>2, <1>3, <1>4, <2>1, <2>2, <2>3, <2>5, <2>6, StorletLive
  <2> QED BY <1>0, <1>1, <1>6, <2>2, <2>6, StorletMoves
<1>7. CASE /\ storlet[i] = "read" /\ chan[i]["in_r"] = 0 /\ ~Here(i, "in_w") /\ chan' = chan
           /\ storlet' = [storlet EXCEPT ![i] = "ended"]
  <2>1. storlet'[i] = "ended"
    BY <1>0, <1>7 DEF TypeOK
  <2>2. Held(i) = 0 /\ Held(i)' = 0
    BY <1>7, <2>1 DEF Held
  <2>3. Somewhere(i)' = Somewhere(i)
    BY <1>2, <1>7, <2>2 DEF Somewhere
  <2>4. ASSUME Live(i) PROVE Live(i)'
    <3>1. pc[i] # "over" => i \in HasFd \/ writer[i] = "done"
      <4>1. "in_w" \notin Opened(i)
        BY <1>0, <1>3, <1>7
      <4>2. writer[i] # "run" /\ pc[i] # "writable" /\ (pc[i] = "answer" => i \in HasFd)
        BY <1>0, <2>4, <4>1 DEF Live
      <4> QED BY <1>0, <1>7, <4>2 DEF Shut, TypeOK
    <3>2. chan'[i]["in_r"] = 0 /\ chan'[i]["in_r"] \in Nat
      BY <1>7
    <3> QED BY <1>0, <1>1, <1>2, <1>3, <1>4, <1>7, <2>1, <2>3, <2>4, <3>1, <3>2, StorletLive
  <2> QED BY <1>0, <1>1, <1>7, <2>4, StorletMoves
<1>8. CASE /\ storlet[i] = "write" /\ Here(i, "out_r")
           /\ chan' = [chan EXCEPT ![i]["out_r"] = @ + 1] /\ storlet' = [storlet EXCEPT ![i] = "read"]
  <2>1. chan[i]["out_r"] + 1 \in Nat /\ chan' = [chan EXCEPT ![i]["out_r"] = chan[i]["out_r"] + 1]
    BY <1>0, <1>4, <1>8 DEF Pipes
  <2>2. /\ chan' \in Pipes /\ \A j \in Invocations \ {i} : chan'[j] = chan[j]
        /\ chan'[i]["out_r"] = chan[i]["out_r"] + 1
        /\ \A f \in ReadEnds \ {"out_r"} : chan'[i][f] = chan[i][f]
    BY <1>0, <2>1, ChanFacts
  <2>3. storlet'[i] = "read" /\ chan'[i]["in_r"] = chan[i]["in_r"]
    BY <1>0, <1>8, <2>2 DEF TypeOK
  <2>4. Held(i) = 1 /\ Held(i)' = 0
    BY <1>8, <2>3 DEF Held
  <2>a. Somewhere(i)' = got[i] + (chan[i]["out_r"] + 1) + chan[i]["in_r"] + 0
    BY <1>2, <2>2, <2>3, <2>4 DEF Somewhere
  <2>5. Somewhere(i)' = Somewhere(i)
    BY <1>4, <2>4, <2>a DEF Somewhere
  <2>6. ASSUME Live(i) PROVE Live(i)'
    BY <1>0, <1>1, <1>2, <1>3, <1>4, <2>3, <2>5, <2>6, StorletLive
  <2> QED BY <1>0, <1>1, <1>8, <2>2, <2>6, StorletMoves
<1>9. CASE /\ storlet[i] = "write" /\ ~Here(i, "out_r") /\ chan' = chan
           /\ storlet' = [storlet EXCEPT ![i] = "ended"]
  <2>1. storlet'[i] = "ended"
    BY <1>0, <1>9 DEF TypeOK
  <2>2. Held(i) = 1 /\ Held(i)' = 0
    BY <1>9, <2>1 DEF Held
  <2>3. Somewhere(i)' <= Somewhere(i) /\ Somewhere(i)' \in Nat
    BY <1>2, <1>4, <1>9, <2>2 DEF Somewhere
  <2>4. ASSUME Live(i) PROVE Live(i)'
    <3>1. "out_r" \notin Opened(i)
      BY <1>0, <1>3, <1>9
    <3>2. pc[i] = "over"
      BY <1>0, <1>9, <2>4, <3>1 DEF Live, Shut, TypeOK
    <3> QED BY <1>0, <1>1, <1>2, <1>3, <1>4, <1>9, <2>1, <2>3, <2>4, <3>2, StorletLive
  <2> QED BY <1>0, <1>1, <1>9, <2>4, StorletMoves
<1> QED BY <1>5, <1>6, <1>7, <1>8, <1>9 DEF StorletStep

----------------------------------------------------------------------------
\* _invoke.

LEMMA PipeEndsFacts ==
    ASSUME NEW i
    PROVE  /\ PipeEnds(i) \in Seq(Ends) /\ Distinct(PipeEnds(i)) /\ Len(PipeEnds(i)) \in {5, 7}
           /\ \A e \in Ends : Among(e, PipeEnds(i)) <=> (i \in HasFd => e \notin {"in_r", "in_w"})
           /\ PipeEnds(i)[Len(PipeEnds(i)) - 1] = "md_r"
<1>1. CASE i \in HasFd
  <2> DEFINE s == <<"log", "out_r", "out_w", "md_r", "md_w">>
  <2>1. PipeEnds(i) = s
    BY <1>1 DEF PipeEnds
  <2>2. /\ s \in Seq(Ends) /\ Len(s) = 5 /\ DOMAIN s = 1 .. 5
        /\ s[1] = "log" /\ s[2] = "out_r" /\ s[3] = "out_w" /\ s[4] = "md_r" /\ s[5] = "md_w"
    BY DEF Ends
  <2> HIDE DEF s
  <2>3. \A m \in DOMAIN s : m = 1 \/ m = 2 \/ m = 3 \/ m = 4 \/ m = 5
    BY <2>2
  <2>4. Distinct(s)
    BY <2>2, <2>3 DEF Distinct
  <2>5. \A e \in Ends : Among(e, s) <=> e \notin {"in_r", "in_w"}
    BY <2>2, <2>3 DEF Ends, Among
  <2>6. s[Len(s) - 1] = "md_r"
    BY <2>2
  <2> QED BY <1>1, <2>1, <2>2, <2>4, <2>5, <2>6
<1>2. CASE i \notin HasFd
  <2> DEFINE s == <<"log", "in_r", "in_w", "out_r", "out_w", "md_r", "md_w">>
  <2>1. PipeEnds(i) = s
    BY <1>2 DEF PipeEnds
  <2>2. /\ s \in Seq(Ends) /\ Len(s) = 7 /\ DOMAIN s = 1 .. 7
        /\ s[1] = "log" /\ s[2] = "in_r" /\ s[3] = "in_w"
        /\ s[4] = "out_r" /\ s[5] = "out_w" /\ s[6] = "md_r" /\ s[7] = "md_w"
    BY DEF Ends
  <2> HIDE DEF s
  <2>3. \A m \in DOMAIN s : m = 1 \/ m = 2 \/ m = 3 \/ m = 4 \/ m = 5 \/ m = 6 \/ m = 7
    BY <2>2
  <2>4. Distinct(s)
    BY <2>2, <2>3 DEF Distinct
  <2>5. \A e \in Ends : Among(e, s)
    BY <2>2, <2>3 DEF Ends, Among
  <2>6. s[Len(s) - 1] = "md_r"
    BY <2>2
  <2> QED BY <1>2, <2>1, <2>2, <2>4, <2>5, <2>6
<1> QED BY <1>1, <1>2

\* What is open when the next pipe cannot be: never the last one.
LEMMA PrefixFacts ==
    ASSUME NEW i, NEW n \in {m \in 0 .. Len(PipeEnds(i)) - 1 : m = 0 \/ m % 2 = 1}
    PROVE  /\ Distinct(SubSeq(PipeEnds(i), 1, n))
           /\ \A j \in DOMAIN SubSeq(PipeEnds(i), 1, n) : SubSeq(PipeEnds(i), 1, n)[j] \in Ends
           /\ ~Among("md_r", SubSeq(PipeEnds(i), 1, n))
           /\ i \in HasFd => ~Among("in_w", SubSeq(PipeEnds(i), 1, n))
<1> DEFINE s == PipeEnds(i)
           t == SubSeq(s, 1, n)
<1>1. /\ s \in Seq(Ends) /\ Distinct(s) /\ Len(s) \in {5, 7} /\ s[Len(s) - 1] = "md_r"
      /\ \A e \in Ends : Among(e, s) <=> (i \in HasFd => e \notin {"in_r", "in_w"})
  BY PipeEndsFacts
<1>2. n \in 0 .. Len(s) - 1 /\ (n = 0 \/ n % 2 = 1)
  OBVIOUS
<1> HIDE DEF s
<1>3. n \in Nat /\ n <= Len(s) - 2 /\ Len(s) \in Nat
  <2>1. CASE Len(s) = 5
    BY <1>2, <2>1
  <2>2. CASE Len(s) = 7
    BY <1>2, <2>2
  <2> QED BY <1>1, <2>1, <2>2
<1>4. DOMAIN s = 1 .. Len(s)
  BY <1>1
<1>5. DOMAIN t = 1 .. n /\ \A j \in 1 .. n : t[j] = s[j]
  BY <1>1, <1>3
<1> HIDE DEF t
<1>6. \A j \in DOMAIN t : j \in DOMAIN s /\ t[j] = s[j] /\ j # Len(s) - 1
  BY <1>3, <1>4, <1>5
<1>7. Distinct(t) /\ \A j \in DOMAIN t : t[j] \in Ends
  BY <1>1, <1>6 DEF Distinct
<1>8. Len(s) - 1 \in DOMAIN s
  BY <1>1, <1>4
<1>9. ~Among("md_r", t)
  BY <1>1, <1>6, <1>8 DEF Among, Distinct
<1>10. i \in HasFd => ~Among("in_w", t)
  BY <1>1, <1>6 DEF Among, Ends
<1> QED BY <1>7, <1>9, <1>10 DEF s, t

\* The numbers after ends have been opened.
LEMMA OpenFdInv ==
    ASSUME TypeOK, FdInv, NEW i \in Invocations, NEW to, to # "start", pc' = [pc EXCEPT ![i] = to],
           \A e, f \in Ends : num'[i][e] # NoFd /\ num'[i][e] = num'[i][f] => e = f,
           \A k \in Invocations : k # i => num'[k] = num[k]
    PROVE  FdInv'
<1>1. pc'[i] = to /\ \A k \in Invocations : k # i => pc'[k] = pc[k]
  BY DEF TypeOK
<1> QED BY <1>1 DEF FdInv

LEMMA InvokeStep ==
    ASSUME IInv, NEW i \in Invocations, Invoke(i)
    PROVE  IInv'
<1>0. TypeOK /\ FdInv /\ Shut(i) /\ (robbed = {} => Live(i))
  BY Facts
<1>1. /\ pc[i] = "start" /\ pc' = [pc EXCEPT ![i] = "answer"] /\ Open(i, PipeEnds(i), Ends)
      /\ storlet' = [storlet EXCEPT ![i] = "queued"]
      /\ UNCHANGED <<writer, robbed, sent, got, result, chan, crashed, daemon>>
  BY DEF Invoke
<1>2. /\ FdTypes'
      /\ \A e \in Ends : num'[i][e] # NoFd <=> (i \in HasFd => e \notin {"in_r", "in_w"})
      /\ \A e \in Ends : e \in Opened(i)' <=> (i \in HasFd => e \notin {"in_r", "in_w"})
      /\ \A e, f \in Ends : num'[i][e] # NoFd /\ num'[i][e] = num'[i][f] => e = f
      /\ \A k \in Invocations : k # i => num'[k] = num[k] /\ Opened(k)' = Opened(k)
  <2> DEFINE ends == PipeEnds(i)
  <2>1. /\ ends \in Seq(Ends) /\ Distinct(ends)
        /\ \A e \in Ends : Among(e, ends) <=> (i \in HasFd => e \notin {"in_r", "in_w"})
    BY PipeEndsFacts
  <2>2. Open(i, ends, Ends) /\ Ends \in SUBSET Ends
    BY <1>1
  <2> HIDE DEF ends
  <2>3. \A j \in DOMAIN ends : ends[j] \in Ends
    BY <2>1
  <2>4. robbed' = robbed /\ \A e \in Ends : num[i][e] = NoFd
    BY <1>0, <1>1 DEF FdInv
  <2>5. /\ FdTypes'
        /\ \A e \in Ends : num'[i][e] # NoFd <=> Among(e, ends)
        /\ \A e \in Ends : e \in Opened(i)' <=> e \in Ends /\ Among(e, ends)
        /\ \A e, f \in Ends : num'[i][e] # NoFd /\ num'[i][e] = num'[i][f] => e = f
        /\ \A k \in Invocations : k # i => num'[k] = num[k] /\ Opened(k)' = Opened(k)
    BY <1>0, <2>1, <2>2, <2>3, <2>4, OpenFacts
  <2> QED BY <2>1, <2>5
<1>3. /\ pc'[i] = "answer" /\ \A j \in Invocations \ {i} : pc'[j] = pc[j]
      /\ storlet'[i] = "queued" /\ \A j \in Invocations \ {i} : storlet'[j] = storlet[j]
  BY <1>0, <1>1 DEF TypeOK
<1>4. \A j \in Invocations \ {i} : Stays(j) /\ Rests(j)
  BY <1>1, <1>2, <1>3 DEF Stays, Rests
<1>a. "in_w" \in Ends /\ "md_r" \in Ends
  BY DEF Ends
<1>5. TypeOK'
  <2>1. writer[i] = "none"
    BY <1>0, <1>1 DEF Shut
  <2>2. \A k \in Invocations : pc'[k] = "writable" \/ writer'[k] # "none" => num'[k]["in_w"] # NoFd
    BY <1>0, <1>1, <1>2, <1>3, <2>1 DEF TypeOK
  <2>3. storlet' \in [Invocations -> {"none", "queued", "metadata", "read", "write", "ended"}]
    BY <1>0, <1>1 DEF TypeOK
  <2> QED BY <1>0, <1>1, <1>2, <2>2, <2>3 DEF TypeOK, FdTypes
<1>6. FdInv'
  BY <1>0, <1>1, <1>2, OpenFdInv
<1>7. Shut(i)'
  BY <1>0, <1>1, <1>2, <1>3, <1>a DEF Shut
<1>8. ASSUME robbed' = {} PROVE Live(i)'
  <2>1. Live(i) /\ storlet[i] = "none"
    BY <1>0, <1>1, <1>8 DEF Shut
  <2>2. ChunkInv(i)'
    BY <1>1, <1>3, <2>1 DEF Live, ChunkInv, Total, Somewhere, Held
  <2>3. writer[i] = "none" /\ "md_r" \in Opened(i)'
    BY <1>0, <1>1, <1>2, <1>a DEF Shut
  <2> QED BY <1>1, <1>2, <1>3, <2>1, <2>2, <2>3 DEF Live
<1> QED BY <1>1, <1>4, <1>5, <1>6, <1>7, <1>8, StepParts

LEMMA InvokeFailsStep ==
    ASSUME IInv, NEW i \in Invocations, InvokeFails(i)
    PROVE  IInv'
<1>0. TypeOK /\ FdInv /\ Shut(i) /\ (robbed = {} => Live(i))
  BY Facts
<1>1. /\ pc[i] = "start" /\ pc' = [pc EXCEPT ![i] = "over"] /\ result' = [result EXCEPT ![i] = "error"]
      /\ UNCHANGED <<writer, robbed, sent, got, chan, storlet, crashed, daemon>>
  BY DEF InvokeFails
<1>2. /\ FdTypes' /\ num'[i]["md_r"] = NoFd
      /\ i \in HasFd => "in_w" \notin Opened(i)'
      /\ \A e, f \in Ends : num'[i][e] # NoFd /\ num'[i][e] = num'[i][f] => e = f
      /\ \A k \in Invocations : k # i => num'[k] = num[k] /\ Opened(k)' = Opened(k)
  <2>1. PICK n \in {m \in 0 .. Len(PipeEnds(i)) - 1 : m = 0 \/ m % 2 = 1} :
           Open(i, SubSeq(PipeEnds(i), 1, n), Ends \ {"log", "out_r"})
    BY DEF InvokeFails
  <2> DEFINE ends == SubSeq(PipeEnds(i), 1, n)
             stay == Ends \ {"log", "out_r"}
  <2>2. /\ Distinct(ends) /\ \A j \in DOMAIN ends : ends[j] \in Ends
        /\ ~Among("md_r", ends) /\ (i \in HasFd => ~Among("in_w", ends))
    BY PrefixFacts
  <2>3. Open(i, ends, stay) /\ stay \in SUBSET Ends
    BY <2>1
  <2> HIDE DEF ends, stay
  <2>4. robbed' = robbed /\ \A e \in Ends : num[i][e] = NoFd
    BY <1>0, <1>1 DEF FdInv
  <2>5. /\ FdTypes'
        /\ \A e \in Ends : num'[i][e] # NoFd <=> Among(e, ends)
        /\ \A e \in Ends : e \in Opened(i)' <=> e \in stay /\ Among(e, ends)
        /\ \A e, f \in Ends : num'[i][e] # NoFd /\ num'[i][e] = num'[i][f] => e = f
        /\ \A k \in Invocations : k # i => num'[k] = num[k] /\ Opened(k)' = Opened(k)
    BY <1>0, <2>2, <2>3, <2>4, OpenFacts
  <2>6. "md_r" \in Ends /\ "in_w" \in Ends
    BY DEF Ends
  <2> QED BY <2>2, <2>5, <2>6
<1>3. /\ pc'[i] = "over" /\ \A j \in Invocations \ {i} : pc'[j] = pc[j]
      /\ result'[i] = "error" /\ \A j \in Invocations \ {i} : result'[j] = result[j]
  BY <1>0, <1>1 DEF TypeOK
<1>4. \A j \in Invocations \ {i} : Stays(j) /\ Rests(j)
  BY <1>1, <1>2, <1>3 DEF Stays, Rests
<1>5. TypeOK'
  <2>1. writer[i] = "none"
    BY <1>0, <1>1 DEF Shut
  <2>2. \A k \in Invocations : pc'[k] = "writable" \/ writer'[k] # "none" => num'[k]["in_w"] # NoFd
    BY <1>0, <1>1, <1>2, <1>3, <2>1 DEF TypeOK
  <2> QED BY <1>0, <1>1, <1>2, <2>2 DEF TypeOK, FdTypes
<1>6. FdInv'
  BY <1>0, <1>1, <1>2, OpenFdInv
<1>7. Shut(i)'
  BY <1>0, <1>1, <1>2, <1>3 DEF Shut
<1>8. ASSUME robbed' = {} PROVE Live(i)'
  <2>1. Live(i) /\ storlet[i] = "none" /\ writer[i] = "none"
    BY <1>0, <1>1, <1>8 DEF Shut
  <2>2. ChunkInv(i)'
    BY <1>1, <1>3, <2>1 DEF Live, ChunkInv, Total, Somewhere, Held
  <2> QED BY <1>1, <1>3, <2>1, <2>2 DEF Live
<1> QED BY <1>1, <1>4, <1>5, <1>6, <1>7, <1>8, StepParts

----------------------------------------------------------------------------
\* The invariant.

\* A daemon that comes to its end, and a step that is none.
LEMMA DaemonStep ==
    ASSUME IInv, daemon' \in {"up", "leaving", "gone"}, UNCHANGED <<gatewayVars, chan, storlet, crashed>>
    PROVE  IInv'
<1>1. UNCHANGED <<pc, writer, num, table, robbed, sent, got, result, chan, storlet, crashed>>
  BY DEF gatewayVars
<1>2. TypeOK /\ FdInv
  BY DEF IInv
<1>3. TypeOK' /\ FdInv'
  BY <1>1, <1>2 DEF TypeOK, FdInv
<1>4. \A i \in Invocations : Stays(i) /\ Rests(i)
  BY <1>1, <1>2, NothingClosed DEF Stays, Rests
<1>5. \A i \in Invocations : Shut(i)'
  BY <1>4, StaysFacts DEF IInv
<1>6. robbed' = {} => \A i \in Invocations : Live(i)'
  BY <1>1, <1>4, RestFacts DEF IInv
<1> QED BY <1>3, <1>5, <1>6 DEF IInv

LEMMA InitHolds ==
    ASSUME Init
    PROVE  IInv
<1>1. \A i \in Invocations : chan[i] = [e \in ReadEnds |-> IF e = "in_r" /\ i \in HasFd THEN Chunks ELSE 0]
  BY DEF Init
<1>2. \A i \in Invocations : /\ chan[i]["out_r"] = 0 /\ chan[i]["md_r"] = 0
                             /\ chan[i]["in_r"] = IF i \in HasFd THEN Chunks ELSE 0
  BY <1>1 DEF ReadEnds
<1>3. \A n \in Numbers, i \in Invocations, e \in Ends : table[n] # <<i, e>>
  BY FreeIsNobodys DEF Init
<1>4. TypeOK
  <2>1. chan \in [Invocations -> [ReadEnds -> Nat]]
    BY PipesAssumption DEF Init
  <2>2. /\ sent \in [Invocations -> 0 .. Chunks] /\ got \in [Invocations -> Nat]
        /\ num \in [Invocations -> [Ends -> Numbers \cup {NoFd}]]
        /\ table \in [Numbers -> {Free} \cup (Invocations \X Ends)]
    BY PipesAssumption DEF Init
  <2>3. \A n \in Numbers, i \in Invocations, e \in Ends : table[n] = <<i, e>> => num[i][e] = n
    BY <1>3
  <2> QED BY <2>1, <2>2, <2>3 DEF Init, TypeOK
<1>5. FdInv
  BY DEF Init, FdInv
<1>6. \A i \in Invocations : Opened(i) = {}
  BY <1>3 DEF Opened, Here
<1>7. ASSUME NEW i \in Invocations PROVE Shut(i)
  BY <1>6, <1>7 DEF Init, Shut
<1>8. ASSUME NEW i \in Invocations PROVE Live(i)
  <2>1. Somewhere(i) = Total(i) /\ Total(i) \in Nat
    BY <1>2, PipesAssumption DEF Init, Somewhere, Total, Held
  <2>2. ChunkInv(i)
    BY <2>1 DEF Init, ChunkInv
  <2> QED BY <1>2, <2>2 DEF Init, Live
<1> QED BY <1>4, <1>5, <1>7, <1>8 DEF IInv

LEMMA NextHolds ==
    ASSUME IInv, [Next]_vars
    PROVE  IInv'
<1>1. daemon \in {"up", "leaving", "gone"}
  BY DEF IInv, TypeOK
<1>2. CASE UNCHANGED vars
  BY <1>1, <1>2, DaemonStep DEF vars
<1>3. CASE DaemonEnds \/ DaemonStops
  <2>1. daemon' \in {"leaving", "gone"} /\ UNCHANGED <<gatewayVars, chan, storlet, crashed>>
    BY <1>3 DEF DaemonEnds, DaemonStops
  <2> QED BY <2>1, DaemonStep
<1>4. ASSUME NEW i \in Invocations, communicate(i) \/ communicate_fails(i)
      PROVE  IInv'
  <2>1. CASE Invoke(i) \/ InvokeFails(i)
    BY <2>1, InvokeStep, InvokeFailsStep
  <2>2. CASE Answer(i) \/ Writable(i) \/ Metadata(i) \/ Data(i) \/ Timeout(i)
    BY <2>2, AnswerStep, MoveStep, MetadataStep
  <2>3. CASE \/ Refused(i) \/ AnswerFails(i) \/ NoMetadata(i) \/ WaitFails(i) \/ WriteTimeout(i)
             \/ Cancelled(i) \/ CancelRefused(i) \/ CancelFails(i)
    BY <2>3, FailSteps
  <2> QED BY <1>4, <2>1, <2>2, <2>3 DEF communicate, communicate_fails
<1>5. ASSUME NEW i \in Invocations, data_iter(i) \/ _write_input_data(i)
      PROVE  IInv'
  BY <1>5, NextChunkStep, CloseSteps, WriteChunkStep, WriteEndsStep DEF data_iter, _write_input_data
<1>6. ASSUME NEW i \in Invocations, DaemonForks(i) \/ StorletStep(i) \/ StorletCrashes(i)
      PROVE  IInv'
  BY <1>6, DaemonForksStep, StorletStepStep, StorletCrashesStep
<1> QED BY <1>2, <1>3, <1>4, <1>5, <1>6 DEF Next

LEMMA AlwaysIInv == Spec => []IInv
<1>1. Init => IInv
  BY InitHolds
<1>2. IInv /\ [Next]_vars => IInv'
  BY NextHolds
<1> QED BY <1>1, <1>2, PTL DEF Spec

\* The types are kept, every open descriptor is known by its number to the
\* invocation that opened it, and nobody writes or waits to write without an
\* input pipe of its own.
THEOREM InvocationTypeCorrect == Spec => []TypeOK
<1>1. IInv => TypeOK
  BY DEF IInv
<1> QED BY <1>1, AlwaysIInv, PTL

\* An invocation that is over has closed its descriptors, whatever ended it and
\* whatever the other invocations of the worker close.
THEOREM DescriptorsClosedHolds == Spec => []DescriptorsClosed
<1>1. ASSUME IInv PROVE DescriptorsClosed
  <2> SUFFICES ASSUME NEW i \in Invocations, pc[i] = "over", num[i]["md_r"] # NoFd,
                      NEW e \in Ends, Here(i, e)
               PROVE  e = "in_w" /\ writer[i] # "done"
    BY DEF DescriptorsClosed
  <2>1. Shut(i) /\ e \in Opened(i)
    BY <1>1, HereIs DEF IInv
  <2> QED BY <2>1 DEF Shut
<1> QED BY <1>1, AlwaysIInv, PTL

\* No storlet is left blocked on a pipe of an invocation that is over, but for
\* one that waits for a body nobody began to write.
THEOREM NoStorletStrandedHolds == Spec => []NoStorletStranded
<1>1. ASSUME IInv PROVE NoStorletStranded
  <2> SUFFICES ASSUME NEW i \in Invocations, Stranded(i)
               PROVE  storlet[i] = "read" /\ i \notin HasFd /\ writer[i] = "none" /\ sent[i] = 0
    BY DEF NoStorletStranded
  <2>1. TypeOK /\ Shut(i) /\ \A e \in Ends : Here(i, e) <=> e \in Opened(i)
    BY <1>1, HereIs DEF IInv
  <2>2. "in_w" \in Ends /\ "out_r" \in Ends
    BY DEF Ends
  <2>3. pc[i] = "over" /\ writer[i] # "run" /\ Opened(i) \subseteq {"in_w"}
    BY <2>1 DEF Stranded, Shut
  <2>4. storlet[i] = "read" /\ "in_w" \in Opened(i)
    BY <2>1, <2>2, <2>3 DEF Stranded
  <2> QED BY <2>1, <2>3, <2>4 DEF Shut, TypeOK
<1> QED BY <1>1, AlwaysIInv, PTL

\* As long as no invocation has had a descriptor closed by another, a response
\* that ends with the end of the data is complete.
THEOREM NothingLostHolds == Spec => []NothingLost
<1>1. ASSUME IInv PROVE NothingLost
  <2> SUFFICES ASSUME robbed = {}, NEW i \in Invocations, result[i] = "complete", i \notin crashed,
                      i \in HasFd \/ sent[i] = Chunks
               PROVE  got[i] = Chunks
    BY DEF NothingLost
  <2>1. Live(i)
    BY <1>1 DEF IInv
  <2> QED BY <2>1 DEF Live, ChunkInv, Total
<1> QED BY <1>1, AlwaysIInv, PTL
============================================================================
