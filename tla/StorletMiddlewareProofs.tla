---------------------- MODULE StorletMiddlewareProofs ----------------------
(***************************************************************************)
(* Proofs about the two halves of the Swift middleware, for any requests,  *)
(* any number of clients and of replicas.                                  *)
(***************************************************************************)
EXTENDS StorletMiddleware, FiniteSetTheorems, SequenceTheorems, TLAPS

\* storlet_execute_on_proxy has the same value on all servers.
SameOption == \A f \in Confs : f["proxy"] = f["object"]

Uploads(r) == r.method = "PUT" /\ ~Copies(r)
OnItsWay(c) == pc[c] \in {"read", "object", "back"}
Fresh(c) == node[c] = [replica |-> 1, linked |-> FALSE] /\ ran[c] = <<>>

\* The headers that reach the object servers, as functions of the request.
HeadersOK(c) ==
    LET r == req[c]
    IN  /\ pc[c] \in {"start", "verify"} =>
            /\ hdr[c].run = (r.what = "execution")
            /\ hdr[c].range = r.range
        /\ pc[c] \in {"verify", "upload", "read", "object", "back"} =>
            /\ r.what = "execution"
            /\ r.method \in {"GET", "PUT", "COPY"}
            /\ r.method = "GET" => ~r.range
        /\ pc[c] = "upload" => Uploads(r)
        /\ OnItsWay(c) =>
            /\ r.method = "GET" \/ Copies(r)
            /\ hdr[c].run = (r.method = "GET" \/ ~is_proxy_runnable(r, "plain"))
            /\ r.method = "GET" => hdr[c].range = execute_range_on_proxy(r, "proxy")
            /\ Copies(r) => hdr[c].range = r.range
        /\ pc[c] \in {"aclread", "aclwrite"} => r.method = "POST"
        /\ pc[c] = "aclwrite" => r.what = "acl"

\* Where the storlet has been started, and at which replica Swift is.
AttemptsOK(c) ==
    LET r == req[c]
        n == Len(ran[c])
    IN  /\ pc[c] \in {"start", "verify", "upload", "read", "aclread", "aclwrite"} => Fresh(c)
        /\ pc[c] = "object" => /\ n = node[c].replica - 1
                               /\ r.kind = "symlink" /\ ~node[c].linked => n = 0
        /\ pc[c] = "back" => n <= Replicas
        /\ pc[c] # "done" => \A i \in 1 .. n : ran[c][i] = "object"
        /\ \A i \in 1 .. n : i < n => ran[c][i] = "object"
        /\ n <= Replicas + 1
        /\ n = Replicas + 1 => ran[c][n] = "proxy"
        /\ execute_on_proxy(r, "object") \/ Uploads(r) =>
            \A i \in 1 .. n : ran[c][i] = "proxy"

\* The responses the proxy may get: an error, ...
FailedRead(c) ==
    /\ resp[c] = Response(resp[c].status, ErrorPage)
    /\ resp[c].status \in 400 .. 599

Parts == {"all", "range", "twice"}

\* ... what the storlet made of the object on an object server, ...
ByObject(c) ==
    LET r == req[c]
    IN  /\ resp[c] = Response(200, Body("object", resp[c].body.part, <<"object">>))
        /\ resp[c].body.part \in Parts
        /\ ~not_runnable(r, "plain")
        /\ r.kind \notin {"ec", "slo"}
        /\ r.srange = 1 /\ ~hdr[c].range => resp[c].body.part = "range"

\* ... or the object as it is.
Untouched(c) ==
    LET r == req[c]
        body == resp[c].body
    IN  /\ resp[c] \in Responses
        /\ is_success(resp[c])
        /\ body \in Bodies /\ body.by = <<>> /\ body.of # "error"
        /\ resp[c].seen = "slo" <=> r.kind = "slo"
        /\ resp[c].seen = "symlink" =>
            body.of = "link" /\ r.kind = "symlink" /\ r.query = "symlink"
        /\ hdr[c].range => body.part = "range"
        /\ hdr[c].run => not_runnable(r, resp[c].seen) \/ r.kind = "ec"

ReadOK(c) == pc[c] = "back" => FailedRead(c) \/ ByObject(c) \/ Untouched(c)

\* The inductive invariant: the type invariant, and for every client the facts
\* above.
ClientOK(c) == HeadersOK(c) /\ AttemptsOK(c) /\ ReadOK(c)
IInv == TypeOK /\ \A c \in Clients : ClientOK(c)

----------------------------------------------------------------------------
\* What a step leaves alone.
Same(d) ==
    /\ pc'[d] = pc[d] /\ hdr'[d] = hdr[d] /\ node'[d] = node[d]
    /\ resp'[d] = resp[d] /\ ran'[d] = ran[d] /\ store'[d] = store[d]

\* A step is about one request: it changes nothing of the others.
LEMMA StepIsLocal ==
    ASSUME TypeOK, NEW c \in Clients, Step(c)
    PROVE  /\ conf' = conf /\ req' = req
           /\ \A d \in Clients \ {c} : Same(d)
<1>1. ASSUME ProxyCall(c) PROVE conf' = conf /\ req' = req /\ \A d \in Clients \ {c} : Same(d)
  BY <1>1 DEF ProxyCall, Same, TypeOK, Goto, Answer, Fail, requestVars
<1>2. ASSUME VerifyAccess(c) PROVE conf' = conf /\ req' = req /\ \A d \in Clients \ {c} : Same(d)
  BY <1>2 DEF VerifyAccess, Same, TypeOK, Goto, Answer, Fail, requestVars
<1>3. ASSUME Read(c) PROVE conf' = conf /\ req' = req /\ \A d \in Clients \ {c} : Same(d)
  BY <1>3 DEF Read, Same, TypeOK, Goto, Answer, Fail, requestVars
<1>4. ASSUME ObjectCall(c) PROVE conf' = conf /\ req' = req /\ \A d \in Clients \ {c} : Same(d)
  BY <1>4 DEF ObjectCall, FromObject, Start, Same, TypeOK, Goto, Answer, Fail, requestVars
<1>5. ASSUME GetReturns(c) PROVE conf' = conf /\ req' = req /\ \A d \in Clients \ {c} : Same(d)
  BY <1>5 DEF GetReturns, Start, Same, TypeOK, Goto, Answer, Fail, requestVars
<1>6. ASSUME CopyReturns(c) PROVE conf' = conf /\ req' = req /\ \A d \in Clients \ {c} : Same(d)
  BY <1>6 DEF CopyReturns, Put, Start, Same, TypeOK, Goto, Answer, Fail, requestVars
<1>7. ASSUME Upload(c) PROVE conf' = conf /\ req' = req /\ \A d \in Clients \ {c} : Same(d)
  BY <1>7 DEF Upload, Put, Start, Same, TypeOK, Goto, Answer, Fail, requestVars
<1>8. ASSUME AclRead(c) PROVE conf' = conf /\ req' = req /\ \A d \in Clients \ {c} : Same(d)
  BY <1>8 DEF AclRead, Same, TypeOK, Goto, Answer, Fail, requestVars
<1>9. ASSUME AclWrite(c) PROVE conf' = conf /\ req' = req /\ \A d \in Clients \ {c} : Same(d)
  BY <1>9 DEF AclWrite, Same, TypeOK, Goto, Answer, Fail, requestVars
<1> QED
  BY <1>1, <1>2, <1>3, <1>4, <1>5, <1>6, <1>7, <1>8, <1>9 DEF Step

\* The facts about a request speak of nothing but the request and its own state.
LEMMA SameOK ==
    ASSUME NEW d \in Clients, ClientOK(d), Same(d), conf' = conf, req' = req
    PROVE  ClientOK(d)'
<1>1. HeadersOK(d)'
  BY DEF ClientOK, HeadersOK, Same, OnItsWay, Uploads, Copies, is_put_copy_request,
         is_proxy_runnable, execute_on_proxy, execute_range_on_proxy
<1>2. AttemptsOK(d)'
  BY DEF ClientOK, AttemptsOK, Same, Fresh, execute_on_proxy
<1>3. ReadOK(d)'
  BY DEF ClientOK, ReadOK, Same, FailedRead, ByObject, Untouched, not_runnable,
         execute_on_proxy, execute_range_on_proxy
<1> QED
  BY <1>1, <1>2, <1>3 DEF ClientOK

----------------------------------------------------------------------------
\* The type invariant.

LEMMA ErrorTyped ==
    ASSUME NEW st \in 200 .. 599
    PROVE  Response(st, ErrorPage) \in Responses
BY DEF Response, ErrorPage, Body, Responses, Bodies

LEMMA EmptyTyped ==
    ASSUME NEW st \in 200 .. 599
    PROVE  Response(st, Nothing) \in Responses
BY DEF Response, Responses

LEMMA BodyTyped ==
    ASSUME NEW st \in 200 .. 599, NEW b \in Bodies
    PROVE  Response(st, b) \in Responses
BY DEF Response, Responses

LEMMA AppendPair ==
    ASSUME NEW S, NEW t \in S, NEW s \in S
    PROVE  Append(<<t>>, s) = <<t, s>>
<1>1. <<t>> \in Seq(S) /\ <<t, s>> \in Seq(S) /\ Len(<<t, s>>) = 2
  OBVIOUS
<1>2. /\ Append(<<t>>, s) \in Seq(S)
      /\ Len(Append(<<t>>, s)) = 2
      /\ Append(<<t>>, s)[1] = t /\ Append(<<t>>, s)[2] = s
  BY <1>1
<1>3. \A i \in 1 .. Len(<<t, s>>) : Append(<<t>>, s)[i] = <<t, s>>[i]
  BY <1>1, <1>2
<1> QED BY <1>1, <1>2, <1>3, SeqEqual

\* A body that has been through a storlet, if at most one has seen it before.
LEMMA ProcessedTyped ==
    ASSUME NEW b \in Bodies, NEW s \in Servers, Len(b.by) <= 1
    PROVE  /\ Processed(b, s) \in Bodies
           /\ Processed(b, s).of = b.of
           /\ Processed(b, s).part = b.part
           /\ Processed(b, s).by = Append(b.by, s)
           /\ Len(Processed(b, s).by) = Len(b.by) + 1
<1>1. b = [of |-> b.of, part |-> b.part, by |-> b.by]
  BY DEF Bodies
<1>2. Processed(b, s) = [of |-> b.of, part |-> b.part, by |-> Append(b.by, s)]
  BY <1>1 DEF Processed
<1>3. b.by = <<>> \/ \E t \in Servers : b.by = <<t>>
  <2>1. b.by \in {<<>>} \cup {<<t>> : t \in Servers} \cup (Servers \X Servers)
    BY DEF Bodies
  <2>2. b.by \notin Servers \X Servers
    <3> SUFFICES ASSUME b.by \in Servers \X Servers PROVE FALSE
      OBVIOUS
    <3>1. PICK x \in Servers, y \in Servers : b.by = <<x, y>>
      OBVIOUS
    <3> QED BY <3>1
  <2> QED BY <2>1, <2>2
<1>4. CASE b.by = <<>>
  <2>1. Append(b.by, s) = <<s>>
    BY <1>4
  <2> QED BY <1>2, <1>4, <2>1 DEF Bodies
<1>5. CASE \E t \in Servers : b.by = <<t>>
  <2>1. PICK t \in Servers : b.by = <<t>>
    BY <1>5
  <2>2. Append(b.by, s) = <<t, s>>
    BY <2>1, AppendPair
  <2>3. <<t, s>> \in Servers \X Servers
    OBVIOUS
  <2> QED BY <1>2, <2>1, <2>2, <2>3 DEF Bodies
<1> QED BY <1>3, <1>4, <1>5

LEMMA RejectedStatus ==
    ASSUME NEW r \in Asks
    PROVE  Rejected(r) \in {0, 400, 403}
BY DEF Rejected, _parse_extra_resources

\* The new values of one request's variables have their types.
LEMMA AnswerTyped ==
    ASSUME TypeOK, NEW c \in Clients, NEW x \in Responses, Answer(c, x)
    PROVE  pc' \in [Clients -> Pcs] /\ resp' \in [Clients -> Responses \cup {Nothing}]
BY DEF TypeOK, Answer, Goto, Pcs

LEMMA FailTyped ==
    ASSUME TypeOK, NEW c \in Clients, NEW st \in 200 .. 599, Fail(c, st)
    PROVE  pc' \in [Clients -> Pcs] /\ resp' \in [Clients -> Responses \cup {Nothing}]
BY ErrorTyped, AnswerTyped DEF Fail

LEMMA GotoTyped ==
    ASSUME TypeOK, NEW c \in Clients, NEW l \in Pcs, Goto(c, l)
    PROVE  pc' \in [Clients -> Pcs]
BY DEF TypeOK, Goto

LEMMA StartTyped ==
    ASSUME TypeOK, NEW c \in Clients, NEW s \in Servers, Start(c, s)
    PROVE  ran' \in [Clients -> Seq(Servers)]
BY DEF TypeOK, Start

LEMMA PutTyped ==
    ASSUME TypeOK, NEW c \in Clients, NEW b \in Bodies, Put(c, b)
    PROVE  /\ store' \in [Clients -> Bodies \cup {Nothing}]
           /\ pc' \in [Clients -> Pcs]
           /\ resp' \in [Clients -> Responses \cup {Nothing}]
<1>1. CASE store' = [store EXCEPT ![c] = b] /\ Answer(c, Response(201, Nothing))
  <2>1. Response(201, Nothing) \in Responses
    BY EmptyTyped
  <2>2. store' \in [Clients -> Bodies \cup {Nothing}]
    BY <1>1 DEF TypeOK
  <2> QED BY <1>1, <2>1, <2>2, AnswerTyped
<1>2. CASE store' = store /\ Fail(c, 503)
  BY <1>2, FailTyped DEF TypeOK
<1> QED BY <1>1, <1>2 DEF Put

LEMMA ProxyCallTyped ==
    ASSUME TypeOK, NEW c \in Clients, ProxyCall(c)
    PROVE  TypeOK'
<1>1. req[c] \in Asks /\ Rejected(req[c]) \in {0, 400, 403}
  BY RejectedStatus DEF TypeOK
<1>2. pc' \in [Clients -> Pcs] /\ resp' \in [Clients -> Responses \cup {Nothing}]
  <2>1. ASSUME NEW l \in {"aclread", "verify"}, Goto(c, l), UNCHANGED resp
        PROVE  pc' \in [Clients -> Pcs] /\ resp' \in [Clients -> Responses \cup {Nothing}]
    BY <2>1, GotoTyped DEF TypeOK, Pcs
  <2>2. ASSUME Answer(c, Response(200, Nothing))
        PROVE  pc' \in [Clients -> Pcs] /\ resp' \in [Clients -> Responses \cup {Nothing}]
    <3>1. Response(200, Nothing) \in Responses
      BY EmptyTyped
    <3> QED BY <2>2, <3>1, AnswerTyped
  <2>3. ASSUME NEW st \in {400, 403, 405, 412}, Fail(c, st)
        PROVE  pc' \in [Clients -> Pcs] /\ resp' \in [Clients -> Responses \cup {Nothing}]
    BY <2>3, FailTyped
  <2>4. Refusal(req[c]) \in {0, 400, 405, 412}
    BY DEF Refusal
  <2> QED BY <1>1, <2>1, <2>2, <2>3, <2>4 DEF ProxyCall
<1> QED BY <1>2 DEF TypeOK, ProxyCall, requestVars, aclVars

LEMMA VerifyAccessTyped ==
    ASSUME TypeOK, NEW c \in Clients, VerifyAccess(c)
    PROVE  TypeOK'
<1>1. pc' \in [Clients -> Pcs] /\ resp' \in [Clients -> Responses \cup {Nothing}]
  <2>1. ASSUME NEW l \in {"upload", "read"}, Goto(c, l), UNCHANGED resp
        PROVE  pc' \in [Clients -> Pcs] /\ resp' \in [Clients -> Responses \cup {Nothing}]
    BY <2>1, GotoTyped DEF TypeOK, Pcs
  <2>2. ASSUME NEW st \in {400, 401, 412}, Fail(c, st)
        PROVE  pc' \in [Clients -> Pcs] /\ resp' \in [Clients -> Responses \cup {Nothing}]
    BY <2>2, FailTyped
  <2> QED BY <2>1, <2>2 DEF VerifyAccess
<1>2. hdr' \in [Clients -> [run: BOOLEAN, range: BOOLEAN, referer: BOOLEAN]]
  <2>1. hdr[c] \in [run: BOOLEAN, range: BOOLEAN, referer: BOOLEAN]
    BY DEF TypeOK
  <2>2. GetHeaders(c) \in [run: BOOLEAN, range: BOOLEAN, referer: BOOLEAN]
    BY <2>1 DEF GetHeaders, execute_range_on_proxy
  <2>3. SourceHeaders(c) \in [run: BOOLEAN, range: BOOLEAN, referer: BOOLEAN]
    BY <2>1 DEF SourceHeaders, is_proxy_runnable
  <2>4. \/ hdr' = hdr
        \/ \E h \in {GetHeaders(c), SourceHeaders(c), hdr[c]} : hdr' = [hdr EXCEPT ![c] = h]
    BY DEF VerifyAccess
  <2> QED BY <2>1, <2>2, <2>3, <2>4 DEF TypeOK
<1> QED BY <1>1, <1>2 DEF TypeOK, VerifyAccess, requestVars, aclVars

LEMMA ReadTyped ==
    ASSUME TypeOK, NEW c \in Clients, Read(c)
    PROVE  TypeOK'
<1>1. pc' \in [Clients -> Pcs] /\ resp' \in [Clients -> Responses \cup {Nothing}]
  <2>1. CASE Goto(c, "object") /\ UNCHANGED resp
    BY <2>1, GotoTyped DEF TypeOK, Pcs
  <2>2. CASE Goto(c, "back") /\ resp' = [resp EXCEPT ![c] = Response(403, ErrorPage)]
    <3>1. Response(403, ErrorPage) \in Responses
      BY ErrorTyped
    <3> QED BY <2>2, <3>1, GotoTyped DEF TypeOK, Pcs
  <2>3. ASSUME NEW st \in {401, 500}, Fail(c, st)
        PROVE  pc' \in [Clients -> Pcs] /\ resp' \in [Clients -> Responses \cup {Nothing}]
    BY <2>3, FailTyped
  <2>4. CASE UNCHANGED <<pc, resp>>
    BY <2>4 DEF TypeOK
  <2> QED BY <2>1, <2>2, <2>3, <2>4 DEF Read
<1>2. hdr' \in [Clients -> [run: BOOLEAN, range: BOOLEAN, referer: BOOLEAN]]
  <2>1. hdr[c] \in [run: BOOLEAN, range: BOOLEAN, referer: BOOLEAN]
    BY DEF TypeOK
  <2>2. [hdr[c] EXCEPT !.referer = TRUE] \in [run: BOOLEAN, range: BOOLEAN, referer: BOOLEAN]
    BY <2>1
  <2>3. hdr' = hdr \/ hdr' = [hdr EXCEPT ![c] = [hdr[c] EXCEPT !.referer = TRUE]]
    BY DEF Read
  <2> QED BY <2>2, <2>3 DEF TypeOK
<1> QED BY <1>1, <1>2 DEF TypeOK, Read, requestVars, aclVars

LEMMA AclTyped ==
    ASSUME TypeOK, NEW c \in Clients, AclRead(c) \/ AclWrite(c)
    PROVE  TypeOK'
<1>1. pc' \in [Clients -> Pcs] /\ resp' \in [Clients -> Responses \cup {Nothing}]
  <2>1. CASE Goto(c, "aclwrite") /\ UNCHANGED resp
    BY <2>1, GotoTyped DEF TypeOK, Pcs
  <2>2. CASE Answer(c, Response(204, Nothing))
    <3>1. Response(204, Nothing) \in Responses
      BY EmptyTyped
    <3> QED BY <2>2, <3>1, AnswerTyped
  <2>3. ASSUME NEW st \in {401, 403}, Fail(c, st)
        PROVE  pc' \in [Clients -> Pcs] /\ resp' \in [Clients -> Responses \cup {Nothing}]
    BY <2>3, FailTyped
  <2> QED BY <2>1, <2>2, <2>3 DEF AclRead, AclWrite
<1>2. acl' \subseteq Grants /\ read' \in [Clients -> SUBSET Grants]
  <2>1. req[c].grant \in Grants
    BY DEF TypeOK, Asks, Requests
  <2>2. NewAcl(c) \subseteq Grants
    BY <2>1 DEF NewAcl, TypeOK
  <2>3. acl' = acl \/ acl' = NewAcl(c)
    BY DEF AclRead, AclWrite
  <2>4. read' = read \/ read' = [read EXCEPT ![c] = acl]
    BY DEF AclRead, AclWrite
  <2> QED BY <2>2, <2>3, <2>4 DEF TypeOK
<1>3. clash' \in BOOLEAN
  BY DEF AclRead, AclWrite, TypeOK
<1> QED BY <1>1, <1>2, <1>3 DEF TypeOK, AclRead, AclWrite, requestVars, aclVars

----------------------------------------------------------------------------
\* The call in an object server.

\* What the object server's own GET finds.
LEMMA SwiftObjectFacts ==
    ASSUME TypeOK, NEW c \in Clients
    PROVE  LET r == req[c]
               orig == SwiftObject(c)
           IN  \/ orig = Response(404, ErrorPage)
               \/ /\ orig = [status |-> orig.status, body |-> orig.body, seen |-> orig.seen]
                  /\ orig.status \in {200, 206}
                  /\ orig.seen = IF r.kind = "symlink" /\ node[c].linked THEN "plain" ELSE r.kind
                  /\ r.kind # "missing"
                  /\ orig.body \in Bodies /\ orig.body.by = <<>>
                  /\ orig.body.of \in {"object", "manifest", "link"}
                  /\ orig.seen \in {"plain", "ec"} => orig.body.of = "object"
                  /\ orig.seen = "symlink" => orig.body.of = "link"
                  /\ orig.body.part = IF hdr[c].range THEN "range" ELSE "all"
<1> DEFINE r == req[c]
           kind == IF r.kind = "symlink" /\ node[c].linked THEN "plain" ELSE r.kind
           part == IF hdr[c].range THEN "range" ELSE "all"
           of == CASE kind = "slo" -> "manifest" [] kind = "symlink" -> "link"
                   [] OTHER -> "object"
           orig == SwiftObject(c)
<1>1. CASE kind = "missing"
  BY <1>1 DEF SwiftObject
<1>2. CASE kind # "missing"
  <2>1. orig = [status |-> IF hdr[c].range THEN 206 ELSE 200,
                body |-> Body(of, part, <<>>), seen |-> kind]
    BY <1>2 DEF SwiftObject
  <2>2. of \in {"object", "manifest", "link"} /\ part \in {"all", "range"}
    OBVIOUS
  <2>3. Body(of, part, <<>>) \in Bodies
    BY <2>2 DEF Body, Bodies
  <2>4. r.kind # "missing"
    BY <1>2
  <2>5. /\ orig.status \in {200, 206} /\ orig.seen = kind
        /\ orig.body = Body(of, part, <<>>)
    BY <2>1
  <2>6. /\ orig.body.by = <<>> /\ orig.body.of = of /\ orig.body.part = part
    BY <2>5 DEF Body
  <2>7. /\ kind \in {"plain", "ec"} => of = "object"
        /\ kind = "symlink" => of = "link"
        /\ part = IF hdr[c].range THEN "range" ELSE "all"
    OBVIOUS
  <2>8. orig = [status |-> orig.status, body |-> orig.body, seen |-> orig.seen]
    BY <2>1
  <2> HIDE DEF kind, part, of, orig
  <2>9. kind = IF r.kind = "symlink" /\ node[c].linked THEN "plain" ELSE r.kind
    BY DEF kind
  <2>10. orig = SwiftObject(c)
    BY DEF orig
  <2> QED BY <2>2, <2>3, <2>4, <2>5, <2>6, <2>7, <2>8, <2>9, <2>10
<1> QED BY <1>1, <1>2

\* The responses that an object server may give without having run the storlet ...
Passes(c, x) ==
    \/ \E st \in {400, 404, 416} : x = Response(st, ErrorPage)
    \/ /\ x = SwiftObject(c) /\ SwiftObject(c) # Response(404, ErrorPage)
       /\ hdr[c].run => not_runnable(req[c], x.seen)

\* ... and when it has.
Works(c, x) ==
    /\ hdr[c].run /\ is_success(SwiftObject(c))
    /\ ~not_runnable(req[c], SwiftObject(c).seen)
    /\ \/ x = Response(200, Processed(ObjectRange(req[c], SwiftObject(c).body), "object"))
       \/ x = Response(503, ErrorPage)

LEMMA ObjectCallCases ==
    ASSUME TypeOK, NEW c \in Clients, ObjectCall(c)
    PROVE  /\ pc[c] = "object"
           /\ UNCHANGED <<requestVars, hdr, store, aclVars>>
           /\ \E x : /\ FromObject(c, x)
                     /\ \/ Start(c, "object") /\ Works(c, x)
                        \/ ran' = ran /\ Passes(c, x)
<1> DEFINE r == req[c]
           orig == SwiftObject(c)
           unsatisfiable == hdr[c].run /\ hdr[c].range /\ r.srange = 0
           considered == hdr[c].run /\ ~unsatisfiable /\ is_success(orig)
           runs == considered /\ ~BadRunOnProxy(r) /\ ~not_runnable(r, orig.seen)
<1>1. CASE runs
  <2>1. PICK x \in {Response(200, Processed(ObjectRange(r, orig.body), "object")),
                    Response(503, ErrorPage)} : Start(c, "object") /\ FromObject(c, x)
    BY <1>1 DEF ObjectCall
  <2>2. Works(c, x)
    BY <1>1, <2>1 DEF Works
  <2> QED BY <2>1, <2>2 DEF ObjectCall
<1>2. CASE ~runs
  <2> DEFINE x == CASE unsatisfiable -> Response(416, ErrorPage)
                    [] considered /\ BadRunOnProxy(r) -> Response(400, ErrorPage)
                    [] OTHER -> orig
  <2>1. FromObject(c, x) /\ ran' = ran
    BY <1>2 DEF ObjectCall
  <2>2. Passes(c, x)
    <3>1. CASE unsatisfiable
      BY <3>1 DEF Passes
    <3>2. CASE ~unsatisfiable /\ considered /\ BadRunOnProxy(r)
      BY <3>2 DEF Passes
    <3>3. CASE ~unsatisfiable /\ ~(considered /\ BadRunOnProxy(r))
      <4>1. x = orig
        BY <3>3
      <4>2. CASE orig = Response(404, ErrorPage)
        BY <4>1, <4>2 DEF Passes
      <4>3. CASE orig # Response(404, ErrorPage)
        <5>1. is_success(orig)
          BY <4>3, SwiftObjectFacts DEF is_success
        <5>2. hdr[c].run => not_runnable(r, orig.seen)
          BY <1>2, <3>3, <5>1
        <5> HIDE DEF x
        <5> QED BY <4>1, <4>3, <5>2 DEF Passes
      <4> QED BY <4>2, <4>3
    <3> QED BY <3>1, <3>2, <3>3
  <2> HIDE DEF x
  <2> QED BY <2>1, <2>2 DEF ObjectCall
<1> QED BY <1>1, <1>2

LEMMA WorksFacts ==
    ASSUME TypeOK, NEW c \in Clients, NEW x, Works(c, x)
    PROVE  /\ ~Follows(c, x) /\ Assembled(c, x) = x
           /\ ~not_runnable(req[c], "plain")
           /\ req[c].kind \notin {"slo", "ec"}
           /\ ~(req[c].kind = "symlink" /\ ~node[c].linked)
           /\ \/ x = Response(503, ErrorPage)
              \/ \E part \in Parts :
                    /\ x = Response(200, Body("object", part, <<"object">>))
                    /\ req[c].srange = 1 /\ ~hdr[c].range => part = "range"
<1> DEFINE r == req[c]
           orig == SwiftObject(c)
<1>1. is_success(orig) /\ ~not_runnable(r, orig.seen)
  BY DEF Works
<1>2. orig # Response(404, ErrorPage)
  BY <1>1 DEF is_success, Response
<1>3. r \in Requests
  BY DEF TypeOK, Asks
<1>4. /\ orig.seen = IF r.kind = "symlink" /\ node[c].linked THEN "plain" ELSE r.kind
      /\ r.kind # "missing" /\ orig.body \in Bodies /\ orig.body.by = <<>>
      /\ orig.seen = "plain" => orig.body.of = "object"
      /\ orig.body.part = IF hdr[c].range THEN "range" ELSE "all"
  BY <1>2, SwiftObjectFacts
<1>5. orig.seen = "plain"
  BY <1>1, <1>3, <1>4
     DEF not_runnable, is_slo_response, is_symlink_response, is_ec_response, Requests
<1>6. x.seen = "plain"
  BY DEF Works, Response
<1>7. ~Follows(c, x) /\ Assembled(c, x) = x
  BY <1>6 DEF Follows, Assembled
<1>8. r.kind \notin {"slo", "ec"} /\ ~(r.kind = "symlink" /\ ~node[c].linked)
  BY <1>4, <1>5
<1>9. ASSUME x = Response(200, Processed(ObjectRange(r, orig.body), "object"))
      PROVE  \E part \in Parts :
                    /\ x = Response(200, Body("object", part, <<"object">>))
                    /\ r.srange = 1 /\ ~hdr[c].range => part = "range"
  <2> DEFINE b == ObjectRange(r, orig.body)
  <2>1. orig.body = [of |-> "object", part |-> orig.body.part, by |-> <<>>]
    BY <1>4, <1>5 DEF Bodies
  <2>2. orig.body.part \in Parts
    BY <1>4 DEF Bodies, Parts
  <2>3. /\ b.part \in Parts /\ (r.srange = 1 /\ ~hdr[c].range => b.part = "range")
        /\ b = [of |-> "object", part |-> b.part, by |-> <<>>]
    BY <1>4, <2>1, <2>2
       DEF ObjectRange, is_storlet_range_request, is_storlet_multiple_range_request, Parts
  <2> HIDE DEF b
  <2>4. Processed(b, "object") = [of |-> "object", part |-> b.part, by |-> Append(<<>>, "object")]
    BY <2>3 DEF Processed
  <2>5. Append(<<>>, "object") = <<"object">>
    OBVIOUS
  <2>6. x = Response(200, Body("object", b.part, <<"object">>))
    BY <1>9, <2>4, <2>5 DEF Body, b
  <2> QED BY <2>3, <2>6
<1>10. \/ x = Response(503, ErrorPage)
       \/ \E part \in Parts :
             /\ x = Response(200, Body("object", part, <<"object">>))
             /\ r.srange = 1 /\ ~hdr[c].range => part = "range"
  BY <1>9 DEF Works
<1> QED BY <1>1, <1>5, <1>7, <1>8, <1>10

\* What is left of a response that nobody worked on, once Swift has assembled it.
IsUntouched(c, y) ==
    LET r == req[c]
    IN  /\ y \in Responses
        /\ is_success(y)
        /\ y.body \in Bodies /\ y.body.by = <<>> /\ y.body.of # "error"
        /\ y.seen = "slo" <=> r.kind = "slo"
        /\ y.seen = "symlink" =>
            y.body.of = "link" /\ r.kind = "symlink" /\ r.query = "symlink"
        /\ hdr[c].range => y.body.part = "range"
        /\ hdr[c].run => not_runnable(r, y.seen) \/ r.kind = "ec"

LEMMA PassesFacts ==
    ASSUME TypeOK, NEW c \in Clients, NEW x, Passes(c, x)
    PROVE  /\ x.status \notin 500 .. 599
           /\ Follows(c, x) => req[c].kind = "symlink" /\ ~node[c].linked
           /\ ~Follows(c, x) =>
                \/ \E st \in {400, 404, 416} : Assembled(c, x) = Response(st, ErrorPage)
                \/ IsUntouched(c, Assembled(c, x))
<1> DEFINE r == req[c]
           orig == SwiftObject(c)
           y == Assembled(c, x)
<1>1. CASE \E st \in {400, 404, 416} : x = Response(st, ErrorPage)
  <2>1. PICK st \in {400, 404, 416} : x = Response(st, ErrorPage)
    BY <1>1
  <2>2. x.seen = "plain" /\ x.status = st
    BY <2>1 DEF Response
  <2>3. ~Follows(c, x) /\ y = x
    BY <2>2 DEF Follows, Assembled
  <2>4. x.status \notin 500 .. 599
    BY <2>2
  <2> QED BY <2>1, <2>3, <2>4
<1>2. CASE /\ x = orig /\ orig # Response(404, ErrorPage)
           /\ hdr[c].run => not_runnable(r, x.seen)
  <2>1. r \in Requests
    BY DEF TypeOK, Asks
  <2>0. x = [status |-> x.status, body |-> x.body, seen |-> x.seen]
    BY <1>2, SwiftObjectFacts
  <2>2. /\ x.status \in {200, 206}
        /\ x.seen = IF r.kind = "symlink" /\ node[c].linked THEN "plain" ELSE r.kind
        /\ r.kind # "missing"
        /\ x.body \in Bodies /\ x.body.by = <<>>
        /\ x.body.of \in {"object", "manifest", "link"}
        /\ x.seen = "symlink" => x.body.of = "link"
        /\ hdr[c].range => x.body.part = "range"
    BY <1>2, SwiftObjectFacts
  <2>3. x.seen \in {"plain", "slo", "ec", "symlink"}
    BY <2>1, <2>2 DEF Requests
  <2>4. x.status \notin 500 .. 599 /\ is_success(x)
    <3>1. x.status = 200 \/ x.status = 206
      BY <2>2
    <3>2. x.status \in 200 .. 299 /\ x.status \notin 500 .. 599
      BY <3>1
    <3> QED BY <3>2 DEF is_success
  <2>5. Follows(c, x) => r.kind = "symlink" /\ ~node[c].linked
    BY <2>2 DEF Follows
  <2>6. ASSUME ~Follows(c, x)
        PROVE  IsUntouched(c, y)
    <3>1. x.seen = "symlink" => r.query = "symlink"
      BY <2>4, <2>6 DEF Follows
    <3>2. CASE x.seen = "slo" /\ r.query # "manifest"
      <4>1. x.body = [of |-> x.body.of, part |-> x.body.part, by |-> x.body.by]
        BY <2>2 DEF Bodies
      <4>2. y = [status |-> x.status, seen |-> x.seen,
                 body |-> [of |-> "object", part |-> x.body.part, by |-> x.body.by]]
        BY <2>0, <3>2, <4>1 DEF Assembled
      <4>3. y.body \in Bodies
        BY <2>2, <4>2 DEF Bodies
      <4>4. y \in Responses
        BY <2>2, <4>2, <4>3, <3>2 DEF Responses
      <4>5. /\ y.seen = "slo" /\ y.status = x.status /\ r.kind = "slo"
            /\ y.body.by = <<>> /\ y.body.of = "object" /\ y.body.part = x.body.part
        BY <2>2, <3>2, <4>2
      <4>6. is_success(y) /\ not_runnable(r, y.seen)
        BY <2>4, <4>5 DEF is_success, not_runnable, is_slo_response
      <4> HIDE DEF y
      <4> QED BY <2>2, <4>3, <4>4, <4>5, <4>6 DEF IsUntouched
    <3>3. CASE x.seen = "ec"
      <4>1. y = [status |-> x.status, seen |-> "plain", body |-> x.body]
        BY <2>0, <3>3 DEF Assembled
      <4>2. y \in Responses
        BY <2>2, <4>1 DEF Responses
      <4>3. r.kind = "ec"
        BY <2>2, <3>3
      <4>4. y.seen = "plain" /\ y.status = x.status /\ y.body = x.body
        BY <4>1
      <4>5. is_success(y)
        BY <2>4, <4>4 DEF is_success
      <4> HIDE DEF y
      <4> QED BY <2>2, <4>2, <4>3, <4>4, <4>5 DEF IsUntouched
    <3>4. CASE ~(x.seen = "slo" /\ r.query # "manifest") /\ x.seen # "ec"
      <4>1. y = x
        BY <3>4 DEF Assembled
      <4>2. x \in Responses
        BY <2>0, <2>2, <2>3, <3>4 DEF Responses
      <4>3. x.seen = "slo" <=> r.kind = "slo"
        BY <2>2
      <4>4. x.body.of # "error"
        BY <2>2
      <4> HIDE DEF y
      <4>5. hdr[c].run => not_runnable(r, x.seen)
        BY <1>2
      <4> QED BY <2>2, <2>4, <3>1, <4>1, <4>2, <4>3, <4>4, <4>5 DEF IsUntouched
    <3> QED BY <3>2, <3>3, <3>4
  <2> QED BY <2>4, <2>5, <2>6
<1> QED BY <1>1, <1>2 DEF Passes

\* The storlet may be run on the object that the object server has before it.
MayRun(c) ==
    /\ ~not_runnable(req[c], "plain")
    /\ req[c].kind \notin {"slo", "ec"}
    /\ ~(req[c].kind = "symlink" /\ ~node[c].linked)

\* The three ways on for Swift: it follows a link, ...
FollowsLink(c) ==
    /\ ran' = ran /\ pc' = pc /\ resp' = resp
    /\ node' = [node EXCEPT ![c] = [replica |-> 1, linked |-> TRUE]]
    /\ req[c].kind = "symlink" /\ ~node[c].linked

\* ... it asks the next replica, ...
NextReplica(c) ==
    /\ Start(c, "object") /\ MayRun(c)
    /\ pc' = pc /\ resp' = resp
    /\ node[c].replica < Replicas
    /\ node' = [node EXCEPT ![c].replica = @ + 1]

\* ... or it has its response.
Returns(c, y) ==
    /\ Goto(c, "back") /\ node' = node /\ resp' = [resp EXCEPT ![c] = y]
    /\ \/ /\ ran' = ran
          /\ \/ \E st \in {400, 404, 416} : y = Response(st, ErrorPage)
             \/ IsUntouched(c, y)
       \/ /\ Start(c, "object") /\ MayRun(c)
          /\ \/ y = Response(503, ErrorPage)
             \/ \E part \in Parts :
                    /\ y = Response(200, Body("object", part, <<"object">>))
                    /\ req[c].srange = 1 /\ ~hdr[c].range => part = "range"

LEMMA ObjectCallOutcome ==
    ASSUME TypeOK, NEW c \in Clients, ObjectCall(c)
    PROVE  FollowsLink(c) \/ NextReplica(c) \/ \E y : Returns(c, y)
<1>1. PICK x : /\ FromObject(c, x)
               /\ \/ Start(c, "object") /\ Works(c, x)
                  \/ ran' = ran /\ Passes(c, x)
  BY ObjectCallCases
<1>2. CASE Start(c, "object") /\ Works(c, x)
  <2>1. MayRun(c) /\ ~Follows(c, x) /\ Assembled(c, x) = x
    BY <1>2, WorksFacts DEF MayRun
  <2>2. CASE x.status \in 500 .. 599 /\ node[c].replica < Replicas
    BY <1>1, <1>2, <2>1, <2>2 DEF FromObject, NextReplica
  <2>3. CASE ~(x.status \in 500 .. 599 /\ node[c].replica < Replicas)
    <3>1. \/ x = Response(503, ErrorPage)
          \/ \E part \in Parts :
                    /\ x = Response(200, Body("object", part, <<"object">>))
                    /\ req[c].srange = 1 /\ ~hdr[c].range => part = "range"
      BY <1>2, WorksFacts
    <3>2. Goto(c, "back") /\ node' = node /\ resp' = [resp EXCEPT ![c] = x]
      BY <1>1, <2>1, <2>3 DEF FromObject
    <3>3. Returns(c, x)
      BY <1>2, <2>1, <3>1, <3>2 DEF Returns
    <3> QED BY <3>3
  <2> QED BY <2>2, <2>3
<1>3. CASE ran' = ran /\ Passes(c, x)
  <2>1. CASE Follows(c, x)
    BY <1>1, <1>3, <2>1, PassesFacts DEF FromObject, FollowsLink
  <2>2. CASE ~Follows(c, x)
    <3>1. x.status \notin 500 .. 599
      BY <1>3, PassesFacts
    <3>2. \/ \E st \in {400, 404, 416} : Assembled(c, x) = Response(st, ErrorPage)
          \/ IsUntouched(c, Assembled(c, x))
      BY <1>3, <2>2, PassesFacts
    <3>3. /\ Goto(c, "back") /\ node' = node
          /\ resp' = [resp EXCEPT ![c] = Assembled(c, x)]
      BY <1>1, <2>2, <3>1 DEF FromObject
    <3>4. Returns(c, Assembled(c, x))
      BY <1>3, <3>2, <3>3 DEF Returns
    <3> QED BY <3>4
  <2> QED BY <2>1, <2>2
<1> QED BY <1>1, <1>2, <1>3

LEMMA ObjectCallTyped ==
    ASSUME TypeOK, NEW c \in Clients, ObjectCall(c)
    PROVE  TypeOK'
<1>1. UNCHANGED <<requestVars, hdr, store, aclVars>>
  BY ObjectCallCases
<1>2. node[c] \in [replica: 1 .. Replicas, linked: BOOLEAN] /\ Replicas \in Nat \ {0}
  BY ReplicasAssumption DEF TypeOK
<1>3. ASSUME FollowsLink(c)
      PROVE  TypeOK'
  <2>1. [replica |-> 1, linked |-> TRUE] \in [replica: 1 .. Replicas, linked: BOOLEAN]
    BY <1>2
  <2>2. node' \in [Clients -> [replica: 1 .. Replicas, linked: BOOLEAN]]
    BY <1>3, <2>1 DEF FollowsLink, TypeOK
  <2> QED BY <1>1, <1>3, <2>2 DEF FollowsLink, TypeOK, requestVars, aclVars
<1>4. ASSUME NextReplica(c)
      PROVE  TypeOK'
  <2>1. [node[c] EXCEPT !.replica = @ + 1] \in [replica: 1 .. Replicas, linked: BOOLEAN]
    BY <1>2, <1>4 DEF NextReplica
  <2>2. node' = [node EXCEPT ![c] = [node[c] EXCEPT !.replica = @ + 1]]
    BY <1>4 DEF NextReplica
  <2>3. node' \in [Clients -> [replica: 1 .. Replicas, linked: BOOLEAN]]
    BY <2>1, <2>2 DEF TypeOK
  <2>4. ran' \in [Clients -> Seq(Servers)]
    BY <1>4, StartTyped DEF NextReplica, Servers
  <2> QED BY <1>1, <1>4, <2>3, <2>4 DEF NextReplica, TypeOK, requestVars, aclVars
<1>5. ASSUME NEW y, Returns(c, y)
      PROVE  TypeOK'
  <2>1. ran' \in [Clients -> Seq(Servers)]
    <3>1. ran' = ran \/ Start(c, "object")
      BY <1>5 DEF Returns
    <3> QED BY <3>1, StartTyped DEF Servers, TypeOK
  <2>2. y \in Responses
    <3>1. ASSUME NEW st \in {400, 404, 416, 503}, y = Response(st, ErrorPage)
          PROVE  y \in Responses
      BY <3>1, ErrorTyped
    <3>2. ASSUME NEW part \in Parts,
                 y = Response(200, Body("object", part, <<"object">>))
          PROVE  y \in Responses
      <4>1. Body("object", part, <<"object">>) \in Bodies
        BY DEF Body, Bodies, Servers, Parts
      <4> QED BY <3>2, <4>1, BodyTyped
    <3> QED BY <1>5, <3>1, <3>2 DEF Returns, IsUntouched
  <2>3. pc' \in [Clients -> Pcs]
    BY <1>5, GotoTyped DEF Returns, Pcs
  <2>4. resp' \in [Clients -> Responses \cup {Nothing}]
    BY <1>5, <2>2 DEF Returns, TypeOK
  <2>5. node' = node
    BY <1>5 DEF Returns
  <2> QED BY <1>1, <2>1, <2>3, <2>4, <2>5 DEF TypeOK, requestVars, aclVars
<1> QED BY <1>3, <1>4, <1>5, ObjectCallOutcome

----------------------------------------------------------------------------
\* The response is back in the proxy.

LEMMA BackFacts ==
    ASSUME TypeOK, NEW c \in Clients, ReadOK(c), pc[c] = "back"
    PROVE  /\ resp[c] \in Responses
           /\ resp[c].body \in Bodies
           /\ Len(resp[c].body.by) <= 1
<1>1. CASE FailedRead(c)
  <2>1. resp[c].status \in 200 .. 599
    BY <1>1 DEF FailedRead
  <2>2. resp[c] \in Responses
    BY <1>1, <2>1, ErrorTyped DEF FailedRead
  <2>3. resp[c].body = ErrorPage
    BY <1>1 DEF FailedRead, Response
  <2> QED BY <2>2, <2>3 DEF ErrorPage, Body, Bodies
<1>2. CASE ByObject(c)
  <2> DEFINE b == Body("object", resp[c].body.part, <<"object">>)
  <2>1. b \in Bodies /\ b.by = <<"object">>
    BY <1>2 DEF ByObject, Body, Bodies, Servers, Parts
  <2>2. resp[c] = Response(200, b)
    BY <1>2 DEF ByObject
  <2> HIDE DEF b
  <2>3. resp[c].body = b
    BY <2>2 DEF Response
  <2>4. Len(b.by) <= 1
    BY <2>1
  <2>5. 200 \in 200 .. 599
    OBVIOUS
  <2>6. resp[c] \in Responses
    BY <2>1, <2>2, <2>5, BodyTyped
  <2> QED BY <2>1, <2>3, <2>4, <2>6
<1>3. CASE Untouched(c)
  <2>1. resp[c].body.by = <<>>
    BY <1>3 DEF Untouched
  <2>2. Len(resp[c].body.by) = 0
    BY <2>1
  <2> QED BY <1>3, <2>2 DEF Untouched
<1> QED BY <1>1, <1>2, <1>3 DEF ReadOK

LEMMA GetReturnsTyped ==
    ASSUME TypeOK, NEW c \in Clients, ReadOK(c), GetReturns(c)
    PROVE  TypeOK'
<1>1. /\ resp[c] \in Responses /\ resp[c].body \in Bodies
      /\ Processed(resp[c].body, "proxy") \in Bodies
  BY BackFacts, ProcessedTyped DEF GetReturns, Servers
<1>2. Response(200, Processed(resp[c].body, "proxy")) \in Responses
  BY <1>1, BodyTyped
<1>3. pc' \in [Clients -> Pcs] /\ resp' \in [Clients -> Responses \cup {Nothing}]
  <2>1. \/ Answer(c, resp[c])
        \/ Answer(c, Response(200, Processed(resp[c].body, "proxy")))
        \/ Fail(c, 503)
    BY DEF GetReturns
  <2> QED BY <1>1, <1>2, <2>1, AnswerTyped, FailTyped
<1>4. ran' \in [Clients -> Seq(Servers)]
  <2>1. ran' = ran \/ Start(c, "proxy")
    BY DEF GetReturns
  <2> QED BY <2>1, StartTyped DEF Servers, TypeOK
<1> QED BY <1>3, <1>4 DEF TypeOK, GetReturns, requestVars, aclVars

LEMMA CopyReturnsTyped ==
    ASSUME TypeOK, NEW c \in Clients, ReadOK(c), CopyReturns(c)
    PROVE  TypeOK'
<1>1. /\ resp[c].body \in Bodies
      /\ Processed(resp[c].body, "proxy") \in Bodies
  BY BackFacts, ProcessedTyped DEF CopyReturns, Servers
<1>2. /\ store' \in [Clients -> Bodies \cup {Nothing}]
      /\ pc' \in [Clients -> Pcs] /\ resp' \in [Clients -> Responses \cup {Nothing}]
  <2>1. \/ Put(c, resp[c].body)
        \/ Put(c, Processed(resp[c].body, "proxy"))
        \/ Fail(c, 500) /\ UNCHANGED store
    BY DEF CopyReturns
  <2>2. CASE Fail(c, 500) /\ UNCHANGED store
    BY <2>2, FailTyped DEF TypeOK
  <2> QED BY <1>1, <2>1, <2>2, PutTyped
<1>3. ran' \in [Clients -> Seq(Servers)]
  <2>1. ran' = ran \/ Start(c, "proxy")
    BY DEF CopyReturns
  <2> QED BY <2>1, StartTyped DEF Servers, TypeOK
<1> QED BY <1>2, <1>3 DEF TypeOK, CopyReturns, requestVars, aclVars

\* What an upload is made into.
LEMMA UploadBody ==
    LET b == Processed(Body("upload", "all", <<>>), "proxy")
    IN  b \in Bodies /\ b.of = "upload" /\ Len(b.by) = 1
<1> DEFINE u == Body("upload", "all", <<>>)
<1>1. u \in Bodies /\ Len(u.by) = 0 /\ u.of = "upload"
  BY DEF Body, Bodies
<1> HIDE DEF u
<1>a. Len(u.by) <= 1 /\ Len(u.by) + 1 = 1 /\ "proxy" \in Servers
  BY <1>1 DEF Servers
<1>2. /\ Processed(u, "proxy") \in Bodies
      /\ Processed(u, "proxy").of = "upload"
      /\ Len(Processed(u, "proxy").by) = 1
  BY <1>1, <1>a, ProcessedTyped
<1> QED BY <1>2 DEF u

LEMMA UploadTyped ==
    ASSUME TypeOK, NEW c \in Clients, Upload(c)
    PROVE  TypeOK'
<1>1. /\ store' \in [Clients -> Bodies \cup {Nothing}]
      /\ pc' \in [Clients -> Pcs] /\ resp' \in [Clients -> Responses \cup {Nothing}]
  <2>1. CASE Put(c, Processed(Body("upload", "all", <<>>), "proxy"))
    BY <2>1, UploadBody, PutTyped
  <2>2. CASE Fail(c, 500) /\ UNCHANGED store
    BY <2>2, FailTyped DEF TypeOK
  <2> QED BY <2>1, <2>2 DEF Upload
<1>2. ran' \in [Clients -> Seq(Servers)]
  BY StartTyped DEF Servers, Upload
<1> QED BY <1>1, <1>2 DEF TypeOK, Upload, requestVars, aclVars

LEMMA StepTyped ==
    ASSUME TypeOK, NEW c \in Clients, ReadOK(c), Step(c)
    PROVE  TypeOK'
BY ProxyCallTyped, VerifyAccessTyped, ReadTyped, ObjectCallTyped, GetReturnsTyped,
   CopyReturnsTyped, UploadTyped, AclTyped DEF Step

----------------------------------------------------------------------------
\* The inductive invariant is kept by the step of the request itself.

\* A request that is answered without having been sent on.
LEMMA AnsweredOK ==
    ASSUME TypeOK, NEW c \in Clients, ClientOK(c), NEW x, Answer(c, x),
           ran' = ran, conf' = conf, req' = req
    PROVE  ClientOK(c)'
<1>1. pc'[c] = "done"
  BY DEF Answer, Goto, TypeOK
<1>2. HeadersOK(c)' /\ ReadOK(c)'
  BY <1>1 DEF HeadersOK, ReadOK, OnItsWay
<1>3. AttemptsOK(c)'
  BY <1>1 DEF ClientOK, AttemptsOK, Fresh, execute_on_proxy
<1> QED BY <1>2, <1>3 DEF ClientOK

LEMMA ProxyCallOK ==
    ASSUME TypeOK, NEW c \in Clients, ClientOK(c), ProxyCall(c)
    PROVE  ClientOK(c)'
<1> DEFINE r == req[c]
<1>1. /\ pc[c] = "start" /\ hdr' = hdr /\ node' = node /\ ran' = ran
      /\ conf' = conf /\ req' = req
  BY DEF ProxyCall, requestVars
<1>2. r \in Asks
  BY DEF TypeOK
<1>3. ASSUME NEW x, Answer(c, x)
      PROVE  ClientOK(c)'
  BY <1>1, <1>3, AnsweredOK
<1>4. ASSUME NEW l \in {"aclread", "verify"}, Goto(c, l),
             r.what \notin {"other", "registration"}, r.method # "DELETE",
             ~(r.method = "GET" /\ r.range), (l = "aclread") <=> (r.method = "POST")
      PROVE  ClientOK(c)'
  <2>1. pc'[c] = l
    BY <1>4 DEF Goto, TypeOK
  <2>2. l = "verify" => /\ r.what = "execution" /\ r.method \in {"GET", "PUT", "COPY"}
                        /\ r.method = "GET" => ~r.range
    BY <1>2, <1>4 DEF Asks, Requests
  <2>3. HeadersOK(c)'
    BY <1>1, <1>4, <2>1, <2>2 DEF ClientOK, HeadersOK, OnItsWay
  <2>4. AttemptsOK(c)'
    BY <1>1, <2>1 DEF ClientOK, AttemptsOK, Fresh, execute_on_proxy
  <2>5. ReadOK(c)'
    BY <2>1 DEF ReadOK
  <2> QED BY <2>3, <2>4, <2>5 DEF ClientOK
<1>5. \/ \E x : Answer(c, x)
      \/ /\ r.what \notin {"other", "registration"} /\ r.method # "DELETE"
         /\ ~(r.method = "GET" /\ r.range)
         /\ \/ r.method = "POST" /\ Goto(c, "aclread")
            \/ r.method # "POST" /\ Goto(c, "verify")
  <2> DEFINE early == \/ Rejected(r) # 0 \/ r.what \in {"other", "registration"}
                      \/ r.method = "DELETE" \/ (r.method = "GET" /\ r.range)
                      \/ (r.method = "COPY" /\ r.copy \in {"no", "incomplete"})
  <2>1. CASE early
    <3>1. \/ Answer(c, Response(Rejected(r), ErrorPage)) \/ Answer(c, Response(200, Nothing))
          \/ Answer(c, Response(Refusal(r), ErrorPage))
      BY <2>1 DEF ProxyCall, Fail, Refusal
    <3> QED BY <3>1
  <2>2. CASE ~early
    BY <2>2 DEF ProxyCall, Refusal
  <2> QED BY <2>1, <2>2
<1> QED BY <1>3, <1>4, <1>5

LEMMA VerifyAccessOK ==
    ASSUME TypeOK, NEW c \in Clients, ClientOK(c), VerifyAccess(c)
    PROVE  ClientOK(c)'
<1> DEFINE r == req[c]
<1>1. /\ pc[c] = "verify" /\ node' = node /\ ran' = ran /\ conf' = conf /\ req' = req
  BY DEF VerifyAccess, requestVars
<1>2. CASE \E x : Answer(c, x)
  BY <1>1, <1>2, AnsweredOK
<1>3. CASE /\ Goto(c, IF r.method = "PUT" /\ ~Copies(r) THEN "upload" ELSE "read")
           /\ hdr' = [hdr EXCEPT ![c] = CASE r.method = "GET" -> GetHeaders(c)
                                          [] Copies(r) -> SourceHeaders(c)
                                          [] OTHER -> @]
  <2>1. /\ r.what = "execution" /\ r.method \in {"GET", "PUT", "COPY"}
        /\ r.method = "GET" => ~r.range
        /\ hdr[c].run = TRUE /\ hdr[c].range = r.range
    BY <1>1 DEF ClientOK, HeadersOK
  <2>2. pc'[c] = IF Uploads(r) THEN "upload" ELSE "read"
    BY <1>3 DEF Goto, TypeOK, Uploads
  <2>3. hdr[c] \in [run: BOOLEAN, range: BOOLEAN, referer: BOOLEAN] /\ c \in DOMAIN hdr
    BY DEF TypeOK
  <2>4. CASE r.method = "GET"
    <3>1. ~Copies(r) /\ ~Uploads(r)
      BY <2>4 DEF Copies, Uploads
    <3>0. hdr' = [hdr EXCEPT ![c] = GetHeaders(c)]
      BY <1>3, <2>4, <3>1
    <3>2. hdr'[c] = GetHeaders(c)
      BY <2>3, <3>0
    <3>3. /\ GetHeaders(c).run = hdr[c].run
          /\ GetHeaders(c).range = (hdr[c].range \/ execute_range_on_proxy(r, "proxy"))
      BY <2>3 DEF GetHeaders
    <3>4. hdr[c].range = FALSE
      BY <2>1, <2>3, <2>4
    <3>5. hdr'[c].run = TRUE /\ hdr'[c].range = execute_range_on_proxy(r, "proxy")
      BY <2>1, <3>2, <3>3, <3>4 DEF execute_range_on_proxy
    <3>6. HeadersOK(c)'
      BY <1>1, <2>1, <2>2, <2>4, <3>1, <3>5
         DEF HeadersOK, OnItsWay, execute_range_on_proxy, execute_on_proxy
    <3> QED BY <1>1, <2>2, <3>6 DEF ClientOK, AttemptsOK, ReadOK, Fresh, execute_on_proxy
  <2>5. CASE Copies(r)
    <3>1. r.method # "GET" /\ ~Uploads(r)
      BY <2>5 DEF Copies, Uploads
    <3>2. hdr'[c] = SourceHeaders(c)
      BY <1>3, <2>3, <2>5, <3>1
    <3>3. /\ SourceHeaders(c).run = (hdr[c].run /\ ~is_proxy_runnable(r, "plain"))
          /\ SourceHeaders(c).range = hdr[c].range
      BY <2>3 DEF SourceHeaders
    <3>4. hdr'[c].run = ~is_proxy_runnable(r, "plain") /\ hdr'[c].range = r.range
      BY <2>1, <3>2, <3>3
    <3>5. HeadersOK(c)'
      BY <1>1, <2>1, <2>2, <2>5, <3>1, <3>4
         DEF HeadersOK, OnItsWay, is_proxy_runnable, execute_range_on_proxy, execute_on_proxy
    <3> QED BY <1>1, <2>2, <3>5 DEF ClientOK, AttemptsOK, ReadOK, Fresh, execute_on_proxy
  <2>6. CASE Uploads(r)
    <3>1. HeadersOK(c)'
      BY <1>1, <2>1, <2>2, <2>6 DEF HeadersOK, OnItsWay
    <3> QED BY <1>1, <2>2, <3>1 DEF ClientOK, AttemptsOK, ReadOK, Fresh, execute_on_proxy
  <2> QED BY <2>1, <2>4, <2>5, <2>6 DEF Copies, Uploads
<1> QED BY <1>2, <1>3 DEF VerifyAccess, Fail

LEMMA ReadStepOK ==
    ASSUME TypeOK, NEW c \in Clients, ClientOK(c), Read(c)
    PROVE  ClientOK(c)'
<1> DEFINE r == req[c]
<1>1. /\ pc[c] = "read" /\ node' = node /\ ran' = ran /\ conf' = conf /\ req' = req
  BY DEF Read, requestVars
<1>2. CASE \E x : Answer(c, x)
  BY <1>1, <1>2, AnsweredOK
<1>3. CASE UNCHANGED <<pc, resp>> /\ hdr' = [hdr EXCEPT ![c].referer = TRUE]
  <2>1. /\ pc'[c] = "read" /\ hdr'[c].run = hdr[c].run /\ hdr'[c].range = hdr[c].range
    BY <1>1, <1>3 DEF TypeOK
  <2>2. HeadersOK(c)'
    BY <1>1, <2>1 DEF ClientOK, HeadersOK, OnItsWay, is_proxy_runnable,
       execute_range_on_proxy, execute_on_proxy
  <2> QED BY <1>1, <2>1, <2>2 DEF ClientOK, AttemptsOK, ReadOK, Fresh, execute_on_proxy
<1>4. CASE UNCHANGED hdr /\ Goto(c, "object")
  <2>1. pc'[c] = "object"
    BY <1>4 DEF TypeOK, Goto
  <2>2. HeadersOK(c)'
    BY <1>1, <1>4, <2>1 DEF ClientOK, HeadersOK, OnItsWay, is_proxy_runnable,
       execute_range_on_proxy, execute_on_proxy
  <2>3. AttemptsOK(c)'
    <3>1. ran[c] = <<>> /\ node[c].replica = 1
      BY <1>1 DEF ClientOK, AttemptsOK, Fresh
    <3>2. Len(ran[c]) = 0
      BY <3>1
    <3> QED BY <1>1, <2>1, <3>1, <3>2, ReplicasAssumption DEF AttemptsOK
  <2> QED BY <2>1, <2>2, <2>3 DEF ClientOK, ReadOK
<1>5. CASE /\ UNCHANGED hdr /\ Goto(c, "back")
           /\ resp' = [resp EXCEPT ![c] = Response(403, ErrorPage)]
  <2>1. pc'[c] = "back" /\ resp'[c] = Response(403, ErrorPage)
    BY <1>5 DEF TypeOK, Goto
  <2>2. HeadersOK(c)'
    BY <1>1, <1>5, <2>1 DEF ClientOK, HeadersOK, OnItsWay, is_proxy_runnable,
       execute_range_on_proxy, execute_on_proxy
  <2>3. AttemptsOK(c)'
    <3>1. ran[c] = <<>>
      BY <1>1 DEF ClientOK, AttemptsOK, Fresh
    <3>2. Len(ran[c]) = 0
      BY <3>1
    <3> QED BY <1>1, <2>1, <3>1, <3>2, ReplicasAssumption DEF AttemptsOK
  <2>4. ReadOK(c)'
    <3>1. resp'[c].status = 403
      BY <2>1 DEF Response
    <3> QED BY <2>1, <3>1 DEF ReadOK, FailedRead
  <2> QED BY <2>2, <2>3, <2>4 DEF ClientOK
<1> QED BY <1>2, <1>3, <1>4, <1>5 DEF Read, Fail

\* One more start of the storlet.
LEMMA StartFacts ==
    ASSUME TypeOK, NEW c \in Clients, NEW s \in Servers, Start(c, s)
    PROVE  /\ Len(ran'[c]) = Len(ran[c]) + 1 /\ Len(ran[c]) \in Nat
           /\ ran'[c][Len(ran[c]) + 1] = s
           /\ \A i \in 1 .. Len(ran[c]) : ran'[c][i] = ran[c][i]
<1>1. ran[c] \in Seq(Servers) /\ ran'[c] = Append(ran[c], s)
  BY DEF TypeOK, Start
<1> QED BY <1>1

LEMMA ObjectCallOK ==
    ASSUME TypeOK, NEW c \in Clients, ClientOK(c), ObjectCall(c)
    PROVE  ClientOK(c)'
<1> DEFINE r == req[c]
           n == Len(ran[c])
<1>1. /\ pc[c] = "object" /\ hdr' = hdr /\ conf' = conf /\ req' = req
  BY ObjectCallCases DEF requestVars
<1>2. /\ n = node[c].replica - 1
      /\ r.kind = "symlink" /\ ~node[c].linked => n = 0
      /\ \A i \in 1 .. n : ran[c][i] = "object"
      /\ execute_on_proxy(r, "object") \/ Uploads(r) => \A i \in 1 .. n : ran[c][i] = "proxy"
  BY <1>1 DEF ClientOK, AttemptsOK
<1>3. /\ node[c].replica \in 1 .. Replicas /\ Replicas \in Nat /\ n \in Nat
      /\ node[c] \in [replica: 1 .. Replicas, linked: BOOLEAN]
  BY ReplicasAssumption DEF TypeOK
<1>4. pc'[c] \in {"object", "back"} => HeadersOK(c)'
  BY <1>1 DEF ClientOK, HeadersOK, OnItsWay, is_proxy_runnable,
     execute_range_on_proxy, execute_on_proxy, Uploads, Copies
<1>5. ASSUME MayRun(c)
      PROVE  ~execute_on_proxy(r, "object") /\ ~Uploads(r)
  <2>1. r.method = "GET" \/ Copies(r)
    BY <1>1 DEF ClientOK, HeadersOK, OnItsWay
  <2> QED BY <1>5, <2>1 DEF MayRun, not_runnable, Uploads, Copies
<1>6. ASSUME FollowsLink(c)
      PROVE  ClientOK(c)'
  <2>1. /\ pc'[c] = "object" /\ ran'[c] = ran[c]
        /\ node'[c].replica = 1 /\ node'[c].linked = TRUE
    BY <1>1, <1>6 DEF FollowsLink, TypeOK
  <2>2. n = 0
    BY <1>2, <1>6 DEF FollowsLink
  <2>3. AttemptsOK(c)'
    BY <1>1, <1>2, <1>3, <2>1, <2>2 DEF AttemptsOK, execute_on_proxy
  <2> QED BY <1>4, <2>1, <2>3 DEF ClientOK, ReadOK
<1>7. ASSUME NextReplica(c)
      PROVE  ClientOK(c)'
  <2>1. MayRun(c) /\ Start(c, "object") /\ node[c].replica < Replicas
    BY <1>7 DEF NextReplica
  <2>2. /\ pc'[c] = "object"
        /\ node'[c].replica = node[c].replica + 1 /\ node'[c].linked = node[c].linked
    BY <1>1, <1>3, <1>7 DEF NextReplica, TypeOK
  <2>3. /\ Len(ran'[c]) = n + 1 /\ ran'[c][n + 1] = "object"
        /\ \A i \in 1 .. n : ran'[c][i] = ran[c][i]
    BY <2>1, StartFacts DEF Servers
  <2>4. \A i \in 1 .. n + 1 : ran'[c][i] = "object"
    <3> SUFFICES ASSUME NEW i \in 1 .. n + 1 PROVE ran'[c][i] = "object"
      OBVIOUS
    <3>1. i \in 1 .. n \/ i = n + 1
      BY <1>3
    <3> QED BY <1>2, <2>3, <3>1
  <2>5. ~execute_on_proxy(r, "object")' /\ ~Uploads(r)'
    BY <1>1, <1>5, <2>1 DEF execute_on_proxy
  <2>6. ~(r.kind = "symlink" /\ ~node[c].linked)
    BY <2>1 DEF MayRun
  <2>7. AttemptsOK(c)'
    BY <1>1, <1>2, <1>3, <2>1, <2>2, <2>3, <2>4, <2>5, <2>6 DEF AttemptsOK
  <2> QED BY <1>4, <2>2, <2>7 DEF ClientOK, ReadOK
<1>8. ASSUME NEW y, Returns(c, y)
      PROVE  ClientOK(c)'
  <2>1. pc'[c] = "back" /\ resp'[c] = y
    BY <1>8 DEF Returns, Goto, TypeOK
  <2>2. CASE /\ ran' = ran
             /\ (\E st \in {400, 404, 416} : y = Response(st, ErrorPage)) \/ IsUntouched(c, y)
    <3>1. AttemptsOK(c)'
      BY <1>1, <1>2, <1>3, <2>1, <2>2 DEF AttemptsOK, execute_on_proxy
    <3>2. CASE \E st \in {400, 404, 416} : y = Response(st, ErrorPage)
      <4>1. PICK st \in {400, 404, 416} : y = Response(st, ErrorPage)
        BY <3>2
      <4>2. y.status = st /\ st \in 400 .. 599
        BY <4>1 DEF Response
      <4>3. FailedRead(c)'
        BY <2>1, <4>1, <4>2 DEF FailedRead
      <4> QED BY <1>4, <2>1, <3>1, <4>3 DEF ClientOK, ReadOK
    <3>3. CASE IsUntouched(c, y)
      <4>1. Untouched(c)'
        BY <1>1, <2>1, <3>3 DEF IsUntouched, Untouched, not_runnable, execute_on_proxy,
           execute_range_on_proxy
      <4> QED BY <1>4, <2>1, <3>1, <4>1 DEF ClientOK, ReadOK
    <3> QED BY <2>2, <3>2, <3>3
  <2>3. CASE /\ Start(c, "object") /\ MayRun(c)
             /\ \/ y = Response(503, ErrorPage)
                \/ \E part \in Parts :
                       /\ y = Response(200, Body("object", part, <<"object">>))
                       /\ req[c].srange = 1 /\ ~hdr[c].range => part = "range"
    <3>1. /\ Len(ran'[c]) = n + 1 /\ ran'[c][n + 1] = "object"
          /\ \A i \in 1 .. n : ran'[c][i] = ran[c][i]
      BY <2>3, StartFacts DEF Servers
    <3>2. \A i \in 1 .. n + 1 : ran'[c][i] = "object"
      <4> SUFFICES ASSUME NEW i \in 1 .. n + 1 PROVE ran'[c][i] = "object"
        OBVIOUS
      <4>1. i \in 1 .. n \/ i = n + 1
        BY <1>3
      <4> QED BY <1>2, <3>1, <4>1
    <3>3. ~execute_on_proxy(r, "object")' /\ ~Uploads(r)'
      BY <1>1, <1>5, <2>3 DEF execute_on_proxy
    <3>4. AttemptsOK(c)'
      BY <1>1, <1>2, <1>3, <2>1, <3>1, <3>2, <3>3 DEF AttemptsOK
    <3>5. CASE y = Response(503, ErrorPage)
      <4>1. y.status = 503
        BY <3>5 DEF Response
      <4>2. FailedRead(c)'
        BY <2>1, <3>5, <4>1 DEF FailedRead
      <4> QED BY <1>4, <2>1, <3>4, <4>2 DEF ClientOK, ReadOK
    <3>6. CASE \E part \in Parts :
                       /\ y = Response(200, Body("object", part, <<"object">>))
                       /\ req[c].srange = 1 /\ ~hdr[c].range => part = "range"
      <4>1. PICK part \in Parts :
                       /\ y = Response(200, Body("object", part, <<"object">>))
                       /\ req[c].srange = 1 /\ ~hdr[c].range => part = "range"
        BY <3>6
      <4>2. y.body.part = part
        BY <4>1 DEF Response, Body
      <4>3. ByObject(c)'
        BY <1>1, <2>1, <2>3, <4>1, <4>2
           DEF ByObject, MayRun, not_runnable, execute_on_proxy, execute_range_on_proxy
      <4> QED BY <1>4, <2>1, <3>4, <4>3 DEF ClientOK, ReadOK
    <3> QED BY <2>3, <3>5, <3>6
  <2> QED BY <1>8, <2>2, <2>3 DEF Returns
<1> QED BY <1>6, <1>7, <1>8, ObjectCallOutcome

\* A request that is answered after a start of the storlet on the proxy.
LEMMA ProxyStartOK ==
    ASSUME TypeOK, NEW c \in Clients, ClientOK(c), Start(c, "proxy"), pc[c] \in {"back", "upload"},
           pc'[c] = "done", conf' = conf, req' = req
    PROVE  ClientOK(c)'
<1> DEFINE r == req[c]
           n == Len(ran[c])
<1>1. /\ Len(ran'[c]) = n + 1 /\ ran'[c][n + 1] = "proxy" /\ n \in Nat
      /\ \A i \in 1 .. n : ran'[c][i] = ran[c][i]
  BY StartFacts DEF Servers
<1>2. n <= Replicas /\ Replicas \in Nat
  BY ReplicasAssumption DEF ClientOK, AttemptsOK, Fresh
<1>3. /\ \A i \in 1 .. n : ran[c][i] = "object"
      /\ execute_on_proxy(r, "object") \/ Uploads(r) => \A i \in 1 .. n : ran[c][i] = "proxy"
  BY DEF ClientOK, AttemptsOK
<1>4. \A i \in 1 .. n + 1 : i < n + 1 => ran'[c][i] = "object"
  <2> SUFFICES ASSUME NEW i \in 1 .. n + 1, i < n + 1 PROVE ran'[c][i] = "object"
    OBVIOUS
  <2>1. i \in 1 .. n
    BY <1>1
  <2> QED BY <1>1, <1>3, <2>1
<1>5. execute_on_proxy(r, "object") \/ Uploads(r) => \A i \in 1 .. n + 1 : ran'[c][i] = "proxy"
  <2> SUFFICES ASSUME execute_on_proxy(r, "object") \/ Uploads(r), NEW i \in 1 .. n + 1
               PROVE  ran'[c][i] = "proxy"
    OBVIOUS
  <2>1. i \in 1 .. n \/ i = n + 1
    BY <1>1
  <2> QED BY <1>1, <1>3, <2>1
<1>6. (execute_on_proxy(r, "object") \/ Uploads(r))' = (execute_on_proxy(r, "object") \/ Uploads(r))
  BY DEF execute_on_proxy
<1>7. AttemptsOK(c)'
  BY <1>1, <1>2, <1>4, <1>5, <1>6 DEF AttemptsOK
<1>8. HeadersOK(c)' /\ ReadOK(c)'
  BY DEF HeadersOK, ReadOK, OnItsWay
<1> QED BY <1>7, <1>8 DEF ClientOK

LEMMA GetReturnsOK ==
    ASSUME TypeOK, NEW c \in Clients, ClientOK(c), GetReturns(c)
    PROVE  ClientOK(c)'
<1>1. pc[c] = "back" /\ conf' = conf /\ req' = req
  BY DEF GetReturns, requestVars
<1>2. CASE ran' = ran
  BY <1>1, <1>2, AnsweredOK DEF GetReturns, Fail
<1>3. CASE Start(c, "proxy")
  <2>1. pc'[c] = "done"
    BY DEF GetReturns, Fail, Answer, Goto, TypeOK
  <2> QED BY <1>1, <1>3, <2>1, ProxyStartOK
<1> QED BY <1>2, <1>3 DEF GetReturns

LEMMA CopyReturnsOK ==
    ASSUME TypeOK, NEW c \in Clients, ClientOK(c), CopyReturns(c)
    PROVE  ClientOK(c)'
<1>1. pc[c] = "back" /\ conf' = conf /\ req' = req
  BY DEF CopyReturns, requestVars
<1>2. CASE ran' = ran
  BY <1>1, <1>2, AnsweredOK DEF CopyReturns, Put, Fail
<1>3. CASE Start(c, "proxy")
  <2>1. pc'[c] = "done"
    BY DEF CopyReturns, Put, Fail, Answer, Goto, TypeOK
  <2> QED BY <1>1, <1>3, <2>1, ProxyStartOK
<1> QED BY <1>2, <1>3 DEF CopyReturns

LEMMA UploadOK ==
    ASSUME TypeOK, NEW c \in Clients, ClientOK(c), Upload(c)
    PROVE  ClientOK(c)'
<1>1. pc[c] = "upload" /\ conf' = conf /\ req' = req /\ Start(c, "proxy")
  BY DEF Upload, requestVars
<1>2. pc'[c] = "done"
  BY DEF Upload, Put, Fail, Answer, Goto, TypeOK
<1> QED BY <1>1, <1>2, ProxyStartOK

LEMMA AclOK ==
    ASSUME TypeOK, NEW c \in Clients, ClientOK(c), AclRead(c) \/ AclWrite(c)
    PROVE  ClientOK(c)'
<1>1. /\ pc[c] \in {"aclread", "aclwrite"} /\ hdr' = hdr /\ node' = node /\ ran' = ran
      /\ conf' = conf /\ req' = req
  BY DEF AclRead, AclWrite, requestVars
<1>2. CASE \E x : Answer(c, x)
  BY <1>1, <1>2, AnsweredOK
<1>3. CASE Goto(c, "aclwrite") /\ req[c].what = "acl"
  <2>1. pc'[c] = "aclwrite"
    BY <1>3 DEF Goto, TypeOK
  <2>2. HeadersOK(c)' /\ ReadOK(c)'
    BY <1>1, <1>3, <2>1 DEF ClientOK, HeadersOK, ReadOK, OnItsWay
  <2>3. AttemptsOK(c)'
    BY <1>1, <2>1 DEF ClientOK, AttemptsOK, Fresh, execute_on_proxy
  <2> QED BY <2>2, <2>3 DEF ClientOK
<1> QED BY <1>2, <1>3 DEF AclRead, AclWrite, Fail

LEMMA StepOK ==
    ASSUME TypeOK, NEW c \in Clients, ClientOK(c), Step(c)
    PROVE  ClientOK(c)'
BY ProxyCallOK, VerifyAccessOK, ReadStepOK, ObjectCallOK, GetReturnsOK, CopyReturnsOK,
   UploadOK, AclOK DEF Step

----------------------------------------------------------------------------
LEMMA InitOK == Init => IInv
<1> SUFFICES ASSUME Init PROVE IInv
  OBVIOUS
<1>1. TypeOK
  <2>1. req \in [Clients -> Asks] /\ conf \in Confs
    BY WorkloadsAssumption DEF Init
  <2>2. \A c \in Clients : req[c].range \in BOOLEAN
    BY <2>1 DEF Asks, Requests
  <2>3. hdr \in [Clients -> [run: BOOLEAN, range: BOOLEAN, referer: BOOLEAN]]
    BY <2>2 DEF Init
  <2>4. node \in [Clients -> [replica: 1 .. Replicas, linked: BOOLEAN]]
    BY ReplicasAssumption DEF Init
  <2>5. /\ pc \in [Clients -> Pcs] /\ resp \in [Clients -> Responses \cup {Nothing}]
        /\ ran \in [Clients -> Seq(Servers)] /\ store \in [Clients -> Bodies \cup {Nothing}]
    BY DEF Init, Pcs
  <2>6. acl \subseteq Grants /\ read \in [Clients -> SUBSET Grants] /\ clash \in BOOLEAN
    BY DEF Init
  <2> QED BY <2>1, <2>3, <2>4, <2>5, <2>6 DEF TypeOK
<1>2. ASSUME NEW c \in Clients PROVE ClientOK(c)
  <2>1. /\ pc[c] = "start" /\ ran[c] = <<>>
        /\ node[c] = [replica |-> 1, linked |-> FALSE]
        /\ hdr[c].run = (req[c].what = "execution") /\ hdr[c].range = req[c].range
    BY DEF Init
  <2>2. Len(ran[c]) = 0
    BY <2>1
  <2>3. AttemptsOK(c)
    BY <2>1, <2>2, ReplicasAssumption DEF AttemptsOK, Fresh
  <2>4. HeadersOK(c) /\ ReadOK(c)
    BY <2>1 DEF HeadersOK, ReadOK, OnItsWay
  <2> QED BY <2>3, <2>4 DEF ClientOK
<1> QED BY <1>1, <1>2 DEF IInv

LEMMA NextOK == IInv /\ [Next]_vars => IInv'
<1> SUFFICES ASSUME IInv, [Next]_vars PROVE IInv'
  OBVIOUS
<1>1. ASSUME NEW c \in Clients, Step(c)
      PROVE  IInv'
  <2>1. TypeOK'
    BY <1>1, StepTyped DEF IInv, ClientOK
  <2>2. ASSUME NEW d \in Clients PROVE ClientOK(d)'
    BY <1>1, StepOK, StepIsLocal, SameOK DEF IInv
  <2> QED BY <2>1, <2>2 DEF IInv
<1>2. CASE UNCHANGED vars
  <2>1. TypeOK'
    BY <1>2 DEF IInv, TypeOK, vars, requestVars, aclVars
  <2>2. ASSUME NEW d \in Clients PROVE ClientOK(d)'
    <3>1. Same(d) /\ conf' = conf /\ req' = req
      BY <1>2 DEF Same, vars, requestVars
    <3> QED BY <3>1, SameOK DEF IInv
  <2> QED BY <2>1, <2>2 DEF IInv
<1> QED BY <1>1, <1>2 DEF Next

LEMMA InvariantHolds == Spec => []IInv
BY InitOK, NextOK, PTL DEF Spec

\* Type correctness of the requests under way: whatever the clients ask for and
\* however the servers are configured, a response that the proxy's handler works
\* on is one it can work on, and no body goes through more than two storlet runs
\* (storlet_handler.py __call__, proxy.py and obj.py).
THEOREM MiddlewareTypeCorrect == Spec => []TypeOK
<1>1. IInv => TypeOK
  BY DEF IInv
<1> QED BY <1>1, InvariantHolds, PTL

----------------------------------------------------------------------------
\* The two decisions fit together.

\* What a storlet is to be given of an object.
CutOnce(r, body) ==
    /\ r.srange > 0 /\ ~Unclaimed(r) /\ body.of = "object" /\ r.kind # "slo"
    /\ r.method = "GET" \/ (~r.range /\ body.by = <<"object">>)
    => body.part = "range"

\* What the proxy decides about the response it has is right, given what the
\* object server decided.
LEMMA DecisionsFit ==
    ASSUME TypeOK, NEW c \in Clients, ClientOK(c), pc[c] = "back",
           conf["proxy"] = conf["object"], resp[c].body.of # "error"
    PROVE  LET r == req[c]
               x == resp[c]
           IN  /\ is_proxy_runnable(r, x.seen) => Len(x.body.by) = 0 /\ ~Unclaimed(r)
               /\ ~is_proxy_runnable(r, x.seen) =>
                    Len(x.body.by) = IF Unclaimed(r) THEN 0 ELSE 1
               /\ CutOnce(r, x.body)
<1> DEFINE r == req[c]
           x == resp[c]
<1>1. /\ r.method = "GET" \/ Copies(r)
      /\ hdr[c].run = (r.method = "GET" \/ ~is_proxy_runnable(r, "plain"))
      /\ r.method = "GET" => hdr[c].range = execute_range_on_proxy(r, "proxy")
      /\ Copies(r) => hdr[c].range = r.range
  BY DEF ClientOK, HeadersOK, OnItsWay
<1>2. /\ execute_on_proxy(r, "proxy") = execute_on_proxy(r, "object")
      /\ execute_range_on_proxy(r, "proxy") = execute_range_on_proxy(r, "object")
  BY DEF execute_on_proxy, execute_range_on_proxy
<1>3. r.srange \in 0 .. 2
  BY DEF TypeOK, Asks, Requests
<1>4. CASE ByObject(c)
  <2>1. x = Response(200, Body("object", x.body.part, <<"object">>))
    BY <1>4 DEF ByObject
  <2>2. x.seen = "plain" /\ x.body.by = <<"object">>
    BY <2>1 DEF Response, Body
  <2>3. ~not_runnable(r, "plain") /\ r.kind \notin {"ec", "slo"}
    BY <1>4 DEF ByObject
  <2>4. ~is_proxy_runnable(r, x.seen)
    BY <1>2, <2>2, <2>3 DEF is_proxy_runnable, not_runnable, is_slo_response, is_symlink_response
  <2>5. ~Unclaimed(r)
    BY <2>3 DEF Unclaimed, not_runnable, is_slo_get_request
  <2>6. Len(x.body.by) = 1
    BY <2>2
  <2>7. CutOnce(r, x.body)
    <3>1. r.srange # 2 /\ ~execute_range_on_proxy(r, "proxy")
      BY <1>2, <2>3 DEF not_runnable, execute_range_on_proxy, is_storlet_multiple_range_request
    <3>2. r.srange = 1 /\ ~hdr[c].range => x.body.part = "range"
      BY <1>4 DEF ByObject
    <3>3. r.method = "GET" \/ ~r.range => ~hdr[c].range
      BY <1>1, <3>1
    <3> QED BY <1>3, <3>1, <3>2, <3>3 DEF CutOnce
  <2> QED BY <2>4, <2>5, <2>6, <2>7
<1>5. CASE Untouched(c)
  <2>1. /\ x.body.by = <<>> /\ x \in Responses
        /\ x.seen = "slo" <=> r.kind = "slo"
        /\ x.seen = "symlink" => x.body.of = "link" /\ r.kind = "symlink" /\ r.query = "symlink"
        /\ hdr[c].range => x.body.part = "range"
        /\ hdr[c].run => not_runnable(r, x.seen) \/ r.kind = "ec"
    BY <1>5 DEF Untouched
  <2>2. Len(x.body.by) = 0 /\ x.seen # "ec"
    BY <2>1 DEF Responses
  <2>3. is_proxy_runnable(r, x.seen) => ~Unclaimed(r)
    BY <2>1 DEF is_proxy_runnable, Unclaimed, is_slo_response, is_symlink_response
  <2>4. ASSUME ~is_proxy_runnable(r, x.seen) PROVE Unclaimed(r)
    <3>1. ~is_proxy_runnable(r, "plain") /\ r.kind # "slo" /\ x.seen \notin {"slo", "symlink"}
      BY <2>1, <2>4 DEF is_proxy_runnable, is_slo_response, is_symlink_response
    <3>2. not_runnable(r, x.seen) \/ r.kind = "ec"
      BY <1>1, <2>1, <3>1
    <3>3. r.kind = "ec" \/ r.query = "manifest"
      BY <1>2, <2>2, <2>4, <3>1, <3>2
         DEF is_proxy_runnable, not_runnable, is_slo_get_request, is_slo_response,
             is_symlink_response, is_ec_response
    <3> QED BY <1>1, <3>1, <3>3 DEF Unclaimed
  <2>a. x.body.by # <<"object">>
    BY <2>2, Len(<<"object">>) = 1
  <2>5. ASSUME r.method = "GET", r.srange > 0, x.body.of = "object", r.kind # "slo", ~Unclaimed(r)
        PROVE  x.body.part = "range"
    <3>1. is_proxy_runnable(r, x.seen)
      BY <2>4, <2>5
    <3>2. execute_on_proxy(r, "proxy") \/ execute_range_on_proxy(r, "proxy")
      BY <2>1, <2>5, <3>1 DEF is_proxy_runnable, is_slo_response, is_symlink_response
    <3>3. execute_range_on_proxy(r, "proxy")
      BY <2>5, <3>2 DEF execute_range_on_proxy, is_storlet_range_request
    <3> QED BY <1>1, <2>1, <2>5, <3>3
  <2>6. CutOnce(r, x.body)
    BY <2>1, <2>5, <2>a DEF CutOnce
  <2> QED BY <2>2, <2>3, <2>4, <2>6
<1>6. CASE FailedRead(c)
  BY <1>6 DEF FailedRead, Response, ErrorPage, Body
<1> QED BY <1>4, <1>5, <1>6 DEF ClientOK, ReadOK

\* What the two properties say of one client.
Once(c) ==
    Delivered(c) /\ Outcome(c).of # "error" =>
        Len(Outcome(c).by) = IF Unclaimed(req[c]) THEN 0 ELSE 1

InRange(c) == Delivered(c) => CutOnce(req[c], Outcome(c))

\* A failure delivers nothing.
LEMMA FailDelivers ==
    ASSUME TypeOK, NEW c \in Clients, NEW st \in 400 .. 599, Fail(c, st)
    PROVE  Once(c)' /\ InRange(c)'
<1>1. resp'[c] = Response(st, ErrorPage)
  BY DEF Fail, Answer, TypeOK
<1>2. resp'[c].status = st
  BY <1>1 DEF Response
<1>3. ~is_success(resp[c])'
  BY <1>2 DEF is_success
<1> QED BY <1>3 DEF Once, InRange, Delivered

LEMMA GetDelivers ==
    ASSUME TypeOK, NEW c \in Clients, ClientOK(c), conf["proxy"] = conf["object"], GetReturns(c)
    PROVE  Once(c)' /\ InRange(c)'
<1> DEFINE r == req[c]
           x == resp[c]
           b == Processed(x.body, "proxy")
<1>1. pc[c] = "back" /\ conf' = conf /\ req' = req /\ ~Copies(r)
  BY DEF GetReturns, requestVars
<1>2. r.method = "GET"
  BY <1>1 DEF ClientOK, HeadersOK, OnItsWay
<1>3. x \in Responses /\ x.body \in Bodies /\ Len(x.body.by) <= 1
  BY <1>1, BackFacts DEF ClientOK
<1>4. /\ b.of = x.body.of /\ b.part = x.body.part /\ Len(b.by) = Len(x.body.by) + 1
  BY <1>3, ProcessedTyped DEF Servers
<1>5. Unclaimed(r)' = Unclaimed(r)
  BY <1>1 DEF Unclaimed, is_proxy_runnable, execute_on_proxy, execute_range_on_proxy
<1>6. Outcome(c)' = resp'[c].body
  BY <1>1, <1>2 DEF Outcome
<1>7. CASE ~is_success(x) /\ Answer(c, x)
  <2>1. resp'[c] = x
    BY <1>7 DEF Answer, TypeOK
  <2> QED BY <1>7, <2>1 DEF Once, InRange, Delivered, is_success
<1>8. CASE ~is_proxy_runnable(r, x.seen) /\ Answer(c, x)
  <2>1. resp'[c] = x
    BY <1>8 DEF Answer, TypeOK
  <2>2. ASSUME x.body.of # "error"
        PROVE  Len(x.body.by) = IF Unclaimed(r) THEN 0 ELSE 1
    BY <1>1, <1>8, <2>2, DecisionsFit
  <2>3. x.body.of # "error" => CutOnce(r, x.body)
    BY <1>1, DecisionsFit
  <2> QED BY <1>1, <1>5, <1>6, <2>1, <2>2, <2>3 DEF Once, InRange, CutOnce
<1>9. CASE is_proxy_runnable(r, x.seen) /\ Answer(c, Response(200, b))
  <2>1. resp'[c].body = b
    BY <1>9 DEF Answer, TypeOK, Response
  <2>2. ASSUME x.body.of # "error"
        PROVE  Len(x.body.by) = 0 /\ ~Unclaimed(r)
    BY <1>1, <1>9, <2>2, DecisionsFit
  <2>3. x.body.of # "error" => CutOnce(r, x.body)
    BY <1>1, DecisionsFit
  <2> HIDE DEF b
  <2>4. b.of # "error" => Len(b.by) = IF Unclaimed(r) THEN 0 ELSE 1
    BY <1>4, <2>2
  <2>5. CutOnce(r, b)
    BY <1>2, <1>4, <2>3 DEF CutOnce
  <2> QED BY <1>1, <1>5, <1>6, <2>1, <2>4, <2>5 DEF Once, InRange, CutOnce
<1>10. CASE Fail(c, 503)
  BY <1>10, FailDelivers
<1> QED BY <1>7, <1>8, <1>9, <1>10 DEF GetReturns

\* A successful PUT has stored its data.
LEMMA PutDelivers ==
    ASSUME TypeOK, NEW c \in Clients, NEW b, Put(c, b), req' = req, req[c].method # "GET",
           Unclaimed(req[c])' = Unclaimed(req[c]),
           b.of # "error" => Len(b.by) = IF Unclaimed(req[c]) THEN 0 ELSE 1,
           CutOnce(req[c], b)
    PROVE  Once(c)' /\ InRange(c)'
<1>1. CASE store' = [store EXCEPT ![c] = b]
  <2>1. Outcome(c)' = b
    BY <1>1 DEF Outcome, TypeOK
  <2> QED BY <2>1 DEF Once, InRange, CutOnce
<1>2. CASE Fail(c, 503)
  BY <1>2, FailDelivers
<1> QED BY <1>1, <1>2 DEF Put

LEMMA CopyDelivers ==
    ASSUME TypeOK, NEW c \in Clients, ClientOK(c), conf["proxy"] = conf["object"], CopyReturns(c)
    PROVE  Once(c)' /\ InRange(c)'
<1> DEFINE r == req[c]
           x == resp[c]
           b == Processed(x.body, "proxy")
<1>1. pc[c] = "back" /\ conf' = conf /\ req' = req /\ Copies(r)
  BY DEF CopyReturns, requestVars
<1>2. r.method # "GET"
  BY <1>1 DEF Copies
<1>3. x.body \in Bodies /\ Len(x.body.by) <= 1
  BY <1>1, BackFacts DEF ClientOK
<1>4. /\ b.of = x.body.of /\ Len(b.by) = Len(x.body.by) + 1
  BY <1>3, ProcessedTyped DEF Servers
<1>5. Unclaimed(r)' = Unclaimed(r)
  BY <1>1 DEF Unclaimed, is_proxy_runnable, execute_on_proxy, execute_range_on_proxy
<1>6. CASE ~is_proxy_runnable(r, x.seen) /\ Put(c, x.body)
  <2>1. x.body.of # "error" => Len(x.body.by) = IF Unclaimed(r) THEN 0 ELSE 1
    BY <1>1, <1>6, DecisionsFit
  <2>2. CutOnce(r, x.body)
    BY <1>1, DecisionsFit DEF CutOnce
  <2> QED BY <1>1, <1>2, <1>5, <1>6, <2>1, <2>2, PutDelivers
<1>7. CASE is_proxy_runnable(r, x.seen) /\ Put(c, b)
  <2>1. x.body.of # "error" => Len(x.body.by) = 0 /\ ~Unclaimed(r)
    BY <1>1, <1>7, DecisionsFit
  <2>a. b.by = Append(x.body.by, "proxy")
    BY <1>3 DEF Processed, Bodies
  <2> HIDE DEF b
  <2>2. b.of # "error" => Len(b.by) = IF Unclaimed(r) THEN 0 ELSE 1
    BY <1>4, <2>1
  <2>3. CutOnce(r, b)
    <3>1. \/ x.body.by = <<>> \/ \E t \in Servers : x.body.by = <<t>>
          \/ \E t, u \in Servers : x.body.by = <<t, u>>
      BY <1>3 DEF Bodies
    <3>2. Len(x.body.by) = 0 => x.body.by = <<>>
      BY <3>1
    <3>4. Append(<<>>, "proxy")[1] = "proxy"
      OBVIOUS
    <3>3. <<"object">>[1] = "object"
      OBVIOUS
    <3> QED BY <1>2, <1>4, <2>1, <2>a, <3>2, <3>3, <3>4 DEF CutOnce
  <2> QED BY <1>1, <1>2, <1>5, <1>7, <2>2, <2>3, PutDelivers
<1>8. CASE Fail(c, 500)
  BY <1>8, FailDelivers
<1> QED BY <1>6, <1>7, <1>8 DEF CopyReturns

LEMMA UploadDelivers ==
    ASSUME TypeOK, NEW c \in Clients, ClientOK(c), Upload(c)
    PROVE  Once(c)' /\ InRange(c)'
<1> DEFINE b == Processed(Body("upload", "all", <<>>), "proxy")
<1>1. conf' = conf /\ req' = req /\ Uploads(req[c])
  BY DEF Upload, requestVars, ClientOK, HeadersOK
<1>2. ~Unclaimed(req[c]) /\ ~Unclaimed(req[c])' /\ req[c].method # "GET"
  BY <1>1 DEF Uploads, Unclaimed
<1>3. Len(b.by) = 1 /\ b.of = "upload"
  BY UploadBody DEF Processed, Body
<1>4. CASE Put(c, b)
  <2> HIDE DEF b
  <2>1. b.of # "error" => Len(b.by) = IF Unclaimed(req[c]) THEN 0 ELSE 1
    BY <1>2, <1>3
  <2>2. Unclaimed(req[c])' = Unclaimed(req[c])
    BY <1>2 DEF Unclaimed
  <2>3. CutOnce(req[c], b)
    BY <1>3 DEF CutOnce
  <2> QED BY <1>1, <1>2, <1>4, <2>1, <2>2, <2>3, PutDelivers
<1>5. CASE Fail(c, 500)
  BY <1>5, FailDelivers
<1> QED BY <1>4, <1>5 DEF Upload

\* The steps before a request has gone through Swift deliver nothing.
LEMMA EarlyDelivers ==
    ASSUME TypeOK, NEW c \in Clients, ClientOK(c),
           ProxyCall(c) \/ VerifyAccess(c) \/ Read(c) \/ ObjectCall(c) \/ AclRead(c) \/ AclWrite(c)
    PROVE  Once(c)' /\ InRange(c)'
<1>0. req' = req /\ req[c] \in Asks
  BY StepIsLocal DEF Step, TypeOK
<1>1. ASSUME NEW l, l # "done", pc'[c] = l
      PROVE  Once(c)' /\ InRange(c)'
  BY <1>1 DEF Once, InRange, Delivered
<1>2. ASSUME req[c].what # "execution"
      PROVE  Once(c)' /\ InRange(c)'
  BY <1>0, <1>2 DEF Once, InRange, Delivered
<1>3. CASE ProxyCall(c)
  <2>1. Rejected(req[c]) \in {0, 400, 403} /\ Refusal(req[c]) \in {0, 400, 405, 412}
    BY <1>0, RejectedStatus DEF Refusal
  <2>2. \/ \E st \in {400, 403, 405, 412} : Fail(c, st)
        \/ req[c].what \in {"other", "registration"}
        \/ \E l \in {"aclread", "verify"} : Goto(c, l)
    BY <1>3, <2>1 DEF ProxyCall
  <2>3. ASSUME NEW l \in {"aclread", "verify"}, Goto(c, l) PROVE pc'[c] = l
    BY <2>3 DEF Goto, TypeOK
  <2> QED BY <1>1, <1>2, <2>2, <2>3, FailDelivers
<1>4. CASE VerifyAccess(c)
  <2>1. \/ \E st \in {400, 401, 412} : Fail(c, st)
        \/ \E l \in {"upload", "read"} : Goto(c, l)
    BY <1>4 DEF VerifyAccess
  <2>2. ASSUME NEW l \in {"upload", "read"}, Goto(c, l) PROVE pc'[c] = l
    BY <2>2 DEF Goto, TypeOK
  <2> QED BY <1>1, <2>1, <2>2, FailDelivers
<1>5. CASE Read(c)
  <2>1. \/ \E st \in {401, 500} : Fail(c, st)
        \/ \E l \in {"object", "back"} : Goto(c, l)
        \/ pc' = pc /\ pc[c] = "read"
    BY <1>5 DEF Read
  <2>2. ASSUME NEW l \in {"object", "back"}, Goto(c, l) PROVE pc'[c] = l
    BY <2>2 DEF Goto, TypeOK
  <2> QED BY <1>1, <2>1, <2>2, FailDelivers
<1>6. CASE ObjectCall(c)
  <2>1. pc'[c] \in {"object", "back"}
    BY <1>6, ObjectCallCases, ObjectCallOutcome
       DEF FollowsLink, NextReplica, Returns, Goto, TypeOK
  <2> QED BY <1>1, <2>1
<1>7. CASE AclRead(c)
  <2>1. Fail(c, 401) \/ req[c].what = "acl"
    BY <1>7 DEF AclRead
  <2> QED BY <1>2, <2>1, FailDelivers
<1>8. CASE AclWrite(c)
  <2>1. req[c].what = "acl"
    BY <1>8 DEF AclWrite, ClientOK, HeadersOK
  <2> QED BY <1>2, <2>1
<1> QED BY <1>3, <1>4, <1>5, <1>6, <1>7, <1>8

LEMMA DeliveryStep ==
    ASSUME SameOption, IInv, [Next]_vars, \A c \in Clients : Once(c) /\ InRange(c)
    PROVE  \A c \in Clients : Once(c)' /\ InRange(c)'
<1> SUFFICES ASSUME NEW c \in Clients PROVE Once(c)' /\ InRange(c)'
  OBVIOUS
<1>1. conf["proxy"] = conf["object"] /\ TypeOK /\ ClientOK(c)
  BY DEF SameOption, IInv, TypeOK
<1>2. ASSUME Same(c), conf' = conf, req' = req
      PROVE  Once(c)' /\ InRange(c)'
  BY <1>2 DEF Same, Once, InRange, CutOnce, Delivered, Outcome, is_success, Unclaimed,
     is_proxy_runnable, execute_on_proxy, execute_range_on_proxy
<1>3. CASE Step(c)
  BY <1>1, <1>3, GetDelivers, CopyDelivers, UploadDelivers, EarlyDelivers DEF Step
<1>4. ASSUME NEW d \in Clients \ {c}, Step(d)
      PROVE  Once(c)' /\ InRange(c)'
  BY <1>1, <1>2, <1>4, StepIsLocal
<1>5. CASE UNCHANGED vars
  BY <1>2, <1>5 DEF vars, requestVars, Same
<1> QED BY <1>3, <1>4, <1>5 DEF Next

LEMMA DeliveryHolds ==
    ASSUME SameOption
    PROVE  Spec => [](ProcessedOnce /\ RangeHonoured)
<1> DEFINE Delivery == \A c \in Clients : Once(c) /\ InRange(c)
<1>1. Init => Delivery
  BY DEF Init, Once, InRange, Delivered
<1>2. IInv /\ Delivery /\ [Next]_vars => Delivery'
  BY DeliveryStep
<1>3. Delivery => ProcessedOnce /\ RangeHonoured
  BY DEF Once, InRange, CutOnce, ProcessedOnce, RangeHonoured
<1> HIDE DEF Delivery
<1> QED BY <1>1, <1>2, <1>3, InvariantHolds, PTL DEF Spec

\* If storlet_execute_on_proxy is the same on all servers, what a read delivers
\* and what an upload or a copy stores went through the storlet exactly once,
\* whatever the request, the object and the failures before; excepted are the
\* reads that both servers leave to each other and the error page of a copy
\* (is_proxy_runnable in proxy.py, not_runnable in obj.py).
THEOREM ProcessedOnceHolds ==
    ASSUME SameOption
    PROVE  Spec => []ProcessedOnce
BY DeliveryHolds, PTL

\* If storlet_execute_on_proxy is the same on all servers, a storlet that reads an
\* object with X-Storlet-Range has been given that range, cut out once, on
\* whichever server it ran; a copy's only on the object server and without a Range
\* of the client's own; large objects excepted (GET in proxy.py,
\* _get_storlet_invocation_options in obj.py).
THEOREM RangeHonouredHolds ==
    ASSUME SameOption
    PROVE  Spec => []RangeHonoured
BY DeliveryHolds, PTL

----------------------------------------------------------------------------
\* The starts of the storlet of one request, counted.
LEMMA Attempts ==
    ASSUME TypeOK, NEW c \in Clients, AttemptsOK(c)
    PROVE  LET here == {i \in DOMAIN ran[c] : ran[c][i] = "object"}
           IN  /\ Cardinality(here) <= Replicas
               /\ Len(ran[c]) <= Cardinality(here) + 1
               /\ execute_on_proxy(req[c], "object") \/ Uploads(req[c]) => here = {}
<1> DEFINE n == Len(ran[c])
           here == {i \in DOMAIN ran[c] : ran[c][i] = "object"}
<1>1. ran[c] \in Seq(Servers) /\ Replicas \in Nat
  BY ReplicasAssumption DEF TypeOK
<1>2. n \in Nat /\ DOMAIN ran[c] = 1 .. n
  BY <1>1
<1>3. /\ \A i \in 1 .. n : i < n => ran[c][i] = "object"
      /\ n <= Replicas + 1 /\ (n = Replicas + 1 => ran[c][n] = "proxy")
      /\ execute_on_proxy(req[c], "object") \/ Uploads(req[c]) =>
            \A i \in 1 .. n : ran[c][i] = "proxy"
  BY DEF AttemptsOK
<1>4. Cardinality(here) <= Replicas
  <2>1. here \subseteq 1 .. Replicas
    <3> SUFFICES ASSUME NEW i \in 1 .. n, ran[c][i] = "object" PROVE i \in 1 .. Replicas
      BY <1>2
    <3> QED BY <1>1, <1>2, <1>3
  <2>2. IsFiniteSet(1 .. Replicas) /\ Cardinality(1 .. Replicas) = Replicas
    BY <1>1, FS_Interval
  <2> HIDE DEF here
  <2> QED BY <2>1, <2>2, FS_Subset
<1>5. n <= Cardinality(here) + 1
  <2>1. 1 .. (n - 1) \subseteq here
    BY <1>2, <1>3
  <2>2. /\ n > 0 => Cardinality(1 .. (n - 1)) = n - 1
        /\ IsFiniteSet(1 .. n)
    BY <1>2, FS_Interval
  <2>3. IsFiniteSet(here) /\ here \subseteq 1 .. n
    BY <1>2, <2>2, FS_Subset
  <2> HIDE DEF here
  <2>4. Cardinality(1 .. (n - 1)) <= Cardinality(here) /\ Cardinality(here) \in Nat
    BY <2>1, <2>3, FS_Subset, FS_CardinalityType
  <2> QED BY <1>2, <2>2, <2>4
<1>6. execute_on_proxy(req[c], "object") \/ Uploads(req[c]) => here = {}
  BY <1>2, <1>3
<1> QED BY <1>4, <1>5, <1>6

\* If storlet_execute_on_proxy is the same on all servers, a storlet that is to
\* run on the proxy is started there only and once, failed attempts included;
\* any other is started at most once on each replica, and once on the proxy
\* (execute_on_proxy in base.py, the retries of Swift's proxy).
THEOREM RunsWhereAskedHolds ==
    ASSUME SameOption
    PROVE  Spec => []RunsWhereAsked
<1>1. IInv => RunsWhereAsked
  <2> SUFFICES ASSUME IInv, NEW c \in Clients
               PROVE  LET r == req[c]
                          here == {i \in DOMAIN ran[c] : ran[c][i] = "object"}
                      IN  /\ Cardinality(here) <= Replicas
                          /\ Len(ran[c]) <= Cardinality(here) + 1
                          /\ execute_on_proxy(r, "proxy") \/ (r.method = "PUT" /\ ~Copies(r))
                                => here = {}
    BY DEF RunsWhereAsked
  <2>1. TypeOK /\ AttemptsOK(c)
    BY DEF IInv, ClientOK
  <2>2. execute_on_proxy(req[c], "proxy") = execute_on_proxy(req[c], "object")
    BY <2>1 DEF SameOption, TypeOK, execute_on_proxy
  <2> QED BY <2>1, <2>2, Attempts DEF Uploads
<1> QED BY <1>1, InvariantHolds, PTL

----------------------------------------------------------------------------
\* A step that answers an update of the ACL with success has set its entry, and
\* no step takes one away that was read in time.
LEMMA GrantsStep == IInv /\ GrantsKept /\ [Next]_vars => GrantsKept'
<1> SUFFICES ASSUME IInv, GrantsKept, [Next]_vars, ~clash', NEW d \in Clients,
                    pc'[d] = "done", req'[d].what = "acl", is_success(resp[d])'
             PROVE  req'[d].grant \in acl'
  BY DEF GrantsKept
<1>1. req' = req /\ TypeOK /\ ClientOK(d)
  BY StepIsLocal DEF IInv, Next, vars, requestVars
<1>2. ~clash /\ acl \subseteq acl'
  <2>1. CASE acl' = acl /\ clash' = clash
    BY <2>1
  <2>2. ASSUME NEW c \in Clients, Step(c)
        PROVE  \/ acl' = acl /\ clash' = clash
               \/ acl' = NewAcl(c) /\ clash' = (clash \/ read[c] # acl)
    BY <2>2 DEF Step, ProxyCall, VerifyAccess, Read, ObjectCall, GetReturns, CopyReturns,
       Upload, AclRead, AclWrite, aclVars
  <2>3. ASSUME NEW c \in Clients, acl' = NewAcl(c), clash' = (clash \/ read[c] # acl)
        PROVE  ~clash /\ acl \subseteq acl'
    BY <2>3 DEF NewAcl
  <2>4. CASE UNCHANGED vars
    BY <2>4 DEF vars, aclVars
  <2> QED BY <2>1, <2>2, <2>3, <2>4 DEF Next
<1>3. ASSUME Same(d)
      PROVE  req'[d].grant \in acl'
  BY <1>1, <1>2, <1>3 DEF Same, GrantsKept, is_success
<1>4. ASSUME NEW st \in 400 .. 599, Fail(d, st)
      PROVE  FALSE
  <2>1. resp'[d].status = st
    BY <1>1, <1>4 DEF Fail, Answer, TypeOK, Response
  <2> QED BY <2>1 DEF is_success
<1>5. CASE Step(d)
  <2>1. ~(VerifyAccess(d) \/ Read(d) \/ ObjectCall(d) \/ GetReturns(d) \/ CopyReturns(d) \/ Upload(d))
    BY <1>1 DEF ClientOK, HeadersOK, VerifyAccess, Read, ObjectCall, GetReturns, CopyReturns, Upload
  <2>2. CASE ProxyCall(d)
    <3>1. Rejected(req[d]) \in {0, 400, 403} /\ Refusal(req[d]) \in {0, 400, 405, 412}
      BY <1>1, RejectedStatus DEF Refusal, TypeOK
    <3>2. \/ \E st \in {400, 403, 405, 412} : Fail(d, st)
          \/ \E l \in {"aclread", "verify"} : Goto(d, l)
      BY <1>1, <2>2, <3>1 DEF ProxyCall
    <3>3. ASSUME NEW l \in {"aclread", "verify"}, Goto(d, l) PROVE pc'[d] = l
      BY <1>1, <3>3 DEF Goto, TypeOK
    <3> QED BY <1>4, <3>2, <3>3
  <2>3. CASE AclRead(d)
    <3>1. Fail(d, 401) \/ pc'[d] = "aclwrite"
      BY <1>1, <2>3 DEF AclRead, Goto, TypeOK
    <3> QED BY <1>4, <3>1
  <2>4. CASE AclWrite(d)
    <3>1. Fail(d, 403) \/ acl' = NewAcl(d)
      BY <2>4 DEF AclWrite
    <3> QED BY <1>1, <1>4, <3>1 DEF NewAcl
  <2> QED BY <1>5, <2>1, <2>2, <2>3, <2>4 DEF Step
<1>6. ASSUME NEW c \in Clients \ {d}, Step(c)
      PROVE  Same(d)
  BY <1>1, <1>6, StepIsLocal
<1>7. CASE UNCHANGED vars
  BY <1>3, <1>7 DEF vars, Same
<1> QED BY <1>3, <1>5, <1>6, <1>7 DEF Next

\* Updates of a container's ACL add up: unless an ACL was written that had
\* changed since it was read, every entry a client was told is set stays in
\* force, for any number of clients and entries (POST in proxy.py).
THEOREM GrantsKeptHolds == Spec => []GrantsKept
<1>1. Init => GrantsKept
  BY DEF Init, GrantsKept
<1> QED BY <1>1, GrantsStep, InvariantHolds, PTL DEF Spec
============================================================================
