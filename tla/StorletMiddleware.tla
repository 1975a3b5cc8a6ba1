------------------------- MODULE StorletMiddleware -------------------------
(***************************************************************************)
(* The two halves of the Swift middleware (storlets/swift_middleware/):    *)
(* the handler in the proxy server and the one in the object servers.      *)
(* Either may run the storlet on an object that is read; they decide       *)
(* separately, each from what it sees of the request and of the response,  *)
(* and nothing tells one what the other did.  The proxy's handler also     *)
(* serves uploads, copies and the update of a container's storlet ACL.     *)
(*                                                                         *)
(* Swift between and below them is external: it authorises a read, tries   *)
(* the object's replicas one after the other, follows symbolic links and   *)
(* assembles large objects.                                                *)
(*                                                                         *)
(* A body is what it was made of and the servers whose storlet runs went   *)
(* into it, in order.                                                      *)
(***************************************************************************)
EXTENDS Naturals, Sequences, FiniteSets

CONSTANTS
    Clients,     \* each makes one request
    Workloads,   \* the assignments of requests to clients, [Clients -> Asks]
    Confs,       \* storlet_execute_on_proxy of the proxy and the object servers
    MaxExtra,    \* max_extra_resources: "unlimited", "few" or "none"
    Replicas,    \* object servers that hold a copy of an object
    Grants,      \* users and storlets that an entry of the ACL may name
    Nothing      \* no body, no response

ASSUME ReplicasAssumption == Replicas \in Nat \ {0}
ASSUME MaxExtraAssumption == MaxExtra \in {"unlimited", "few", "none"}

Servers == {"proxy", "object"}

ASSUME ConfsAssumption == Confs \subseteq [Servers -> BOOLEAN]

\* A request, as far as the handlers look at it.
Requests ==
    [what: {"execution", "registration", "acl", "other"},
     method: {"GET", "PUT", "COPY", "POST", "DELETE"},
     copy: {"no", "yes", "unsupported", "incomplete"},  \* X-Copy-From, Destination
     kind: {"plain", "slo", "ec", "symlink", "missing"}, \* of the object read
     query: {"none", "manifest", "symlink"}, \* multipart-manifest=get, symlink=get
     run_on_proxy: {"absent", "empty", "filled"},        \* X-Storlet-Run-On-Proxy
     extra: {"absent", "empty", "few", "many", "malformed"},
     srange: 0 .. 2,          \* ranges in X-Storlet-Range
     range: BOOLEAN,          \* has a Range header
     access: {"reader", "named", "unnamed", "anonymous"},
     grant: Grants,           \* the user and the storlet of the request
     valid: BOOLEAN,          \* headers of a registration or an ACL update
     refused: {"no", "referer", "disabled"}]

\* Only a POST is an update of an ACL, only a PUT or a POST a registration
\* (is_storlet_acl_update, is_storlet_object_update).
Asks ==
    {r \in Requests : /\ r.what = "acl" => r.method = "POST"
                      /\ r.what = "registration" => r.method \in {"PUT", "POST"}}

ASSUME WorkloadsAssumption == \A f \in Workloads : f \in [Clients -> Asks]

VARIABLES
    conf,    \* the configuration of the servers
    req,     \* each client's request
    pc,      \* where its request is
    hdr,     \* the headers the handlers change on their way
    node,    \* the replica Swift asks, and whether it has followed a link
    resp,    \* the last response
    ran,     \* history: the servers that started the storlet, failures included
    store,   \* what was stored under the request's (destination) path
    acl,     \* the storlet entries of the container's read ACL
    read,    \* the ACL an update has read
    clash    \* history: an ACL was written that had changed since it was read

requestVars == <<conf, req>>
aclVars == <<acl, read, clash>>
vars == <<requestVars, pc, hdr, node, resp, ran, store, aclVars>>

Body(of, part, by) == [of |-> of, part |-> part, by |-> by]
ErrorPage == Body("error", "all", <<>>)
Response(status, body) == [status |-> status, body |-> body, seen |-> "plain"]
is_success(r) == r.status \in 200 .. 299

\* The outcome of gateway.invocation_flow on server s, if it does not raise.
Processed(body, s) == [body EXCEPT !.by = Append(@, s)]

----------------------------------------------------------------------------
\* StorletBaseHandler: what a server makes of the headers alone.
has_run_on_proxy_header(r) == r.run_on_proxy # "absent"
has_extra_resources_header(r) == r.extra # "absent"
is_storlet_range_request(r) == r.srange > 0
is_storlet_multiple_range_request(r) == r.srange > 1
is_slo_get_request(r) == r.query = "manifest"
is_put_copy_request(r) == r.copy # "no"

execute_on_proxy(r, s) ==
    has_run_on_proxy_header(r) \/ has_extra_resources_header(r) \/ conf[s]

execute_range_on_proxy(r, s) ==
    \/ is_storlet_multiple_range_request(r)
    \/ is_storlet_range_request(r) /\ execute_on_proxy(r, s)

\* has_run_on_proxy_header raises HTTPBadRequest wherever it is evaluated.
BadRunOnProxy(r) == r.run_on_proxy = "filled"

\* The headers of a response tell these kinds of objects.
is_slo_response(seen) == seen = "slo"
is_symlink_response(seen) == seen = "symlink"
is_ec_response(seen) == seen = "ec"

\* Bug: a response that reveals a large object is not looked at again.
is_proxy_runnable_headers(r, seen) ==
    execute_on_proxy(r, "proxy") \/ execute_range_on_proxy(r, "proxy")

\* StorletProxyHandler.is_proxy_runnable; seen: what the response reveals.
is_proxy_runnable(r, seen) ==
    \/ execute_on_proxy(r, "proxy")
    \/ execute_range_on_proxy(r, "proxy")
    \/ is_slo_response(seen) \/ is_symlink_response(seen)

\* Bug: the object server does not look for X-Storlet-Extra-Resources and the
\* like; it relies on the proxy.
not_runnable_response(r, seen) ==
    is_slo_response(seen) \/ is_symlink_response(seen) \/ is_ec_response(seen)

\* not_runnable in the GET of StorletObjectHandler.
not_runnable(r, seen) ==
    \/ execute_on_proxy(r, "object")
    \/ execute_range_on_proxy(r, "object")
    \/ is_slo_get_request(r)
    \/ is_slo_response(seen) \/ is_symlink_response(seen) \/ is_ec_response(seen)

\* _parse_extra_resources: the status it raises, or 0.
_parse_extra_resources(r) ==
    IF r.extra \in {"absent", "empty"} THEN 0
    ELSE IF MaxExtra = "none" THEN 403
    ELSE IF r.extra = "malformed" \/ (MaxExtra = "few" /\ r.extra = "many") THEN 400
    ELSE 0

----------------------------------------------------------------------------
Init ==
    /\ conf \in Confs
    /\ req \in Workloads
    /\ pc = [c \in Clients |-> "start"]
    /\ hdr = [c \in Clients |->
                 [run |-> req[c].what = "execution", range |-> req[c].range, referer |-> FALSE]]
    /\ node = [c \in Clients |-> [replica |-> 1, linked |-> FALSE]]
    /\ resp = [c \in Clients |-> Nothing]
    /\ ran = [c \in Clients |-> <<>>]
    /\ store = [c \in Clients |-> Nothing]
    /\ acl = {}
    /\ read = [c \in Clients |-> {}]
    /\ clash = FALSE

Goto(c, label) == pc' = [pc EXCEPT ![c] = label]

Answer(c, r) ==
    /\ Goto(c, "done")
    /\ resp' = [resp EXCEPT ![c] = r]

Fail(c, status) == Answer(c, Response(status, ErrorPage))

\* The storlet is started on server s.
Start(c, s) == ran' = [ran EXCEPT ![c] = Append(@, s)]

\* The checks of the proxy's handler; FALSE where the code raises.
_should_block(r) == r.refused = "referer"
_validate_registration(r) == r.valid
_validate_acl_update(r) == r.valid

\* The status StorletProxyHandler.__init__ raises, or 0.
Rejected(r) ==
    IF _should_block(r) THEN 403
    ELSE IF r.what = "other" THEN 0
    ELSE IF r.refused = "disabled" THEN 400
    ELSE CASE r.what = "acl" -> IF _validate_acl_update(r) THEN 0 ELSE 400
           [] r.what = "registration" -> IF _validate_registration(r) THEN 0 ELSE 400
           [] OTHER -> _parse_extra_resources(r)

\* The status with which the handler of the method answers at once, or 0.
Refusal(r) ==
    CASE r.method = "DELETE" -> 405
      [] r.method = "GET" /\ r.range -> 400
      [] r.method = "COPY" /\ r.copy \in {"no", "incomplete"} -> 412
      [] OTHER -> 0

\* The middleware is called in the proxy: the handler is built, and either the
\* request is passed on (NotStorletRequest) or its method is looked up.  A POST
\* to an object that asks for an execution ends up in the handler of ACL updates.
ProxyCall(c) ==
    LET r == req[c]
    IN  /\ pc[c] = "start"
        /\ IF Rejected(r) # 0 THEN Fail(c, Rejected(r))
           ELSE IF r.what \in {"other", "registration"} THEN Answer(c, Response(200, Nothing))
           ELSE IF Refusal(r) # 0 THEN Fail(c, Refusal(r))
           ELSE /\ Goto(c, IF r.method = "POST" THEN "aclread" ELSE "verify")
                /\ UNCHANGED resp
        /\ UNCHANGED <<requestVars, hdr, node, ran, store, aclVars>>

Copies(r) == r.method = "COPY" \/ (r.method = "PUT" /\ is_put_copy_request(r))

\* FALSE if one of the unsupported headers is there.
_validate_copy_request(r) == r.copy # "unsupported"

\* Bug: X-Run-Storlet stays although the proxy is going to run the storlet.
SourceHeadersKept(c) == hdr[c]

\* base_handle_copy_request: the source is read without X-Run-Storlet if the
\* proxy runs the storlet anyway.
SourceHeaders(c) == [hdr[c] EXCEPT !.run = @ /\ ~is_proxy_runnable(req[c], "plain")]

\* Bug: X-Storlet-Range becomes the Range of every read, whoever works on it.
GetHeadersAlways(c) == [hdr[c] EXCEPT !.range = @ \/ is_storlet_range_request(req[c])]

\* GET: X-Storlet-Range becomes the Range of a read the proxy will work on.
GetHeaders(c) == [hdr[c] EXCEPT !.range = @ \/ execute_range_on_proxy(req[c], "proxy")]

\* verify_access_to_storlet; then the handler up to its next request to Swift,
\* if it gets that far.
VerifyAccess(c) ==
    LET r == req[c]
        status == CASE r.method = "GET" /\ r.srange = 1 /\ BadRunOnProxy(r) -> 400
                    [] Copies(r) /\ ~_validate_copy_request(r) -> 400
                    [] Copies(r) /\ r.copy = "incomplete" -> 412
                    [] Copies(r) /\ r.copy = "yes" /\ BadRunOnProxy(r) -> 400
                    [] OTHER -> 0
    IN  /\ pc[c] = "verify"
        /\ \/ Fail(c, 401) /\ UNCHANGED hdr
           \/ status # 0 /\ Fail(c, status) /\ UNCHANGED hdr
           \/ /\ status = 0
              /\ Goto(c, IF r.method = "PUT" /\ ~Copies(r) THEN "upload" ELSE "read")
              /\ hdr' = [hdr EXCEPT ![c] = CASE r.method = "GET" -> GetHeaders(c)
                                             [] Copies(r) -> SourceHeaders(c)
                                             [] OTHER -> @]
              /\ UNCHANGED resp
        /\ UNCHANGED <<requestVars, node, ran, store, aclVars>>

----------------------------------------------------------------------------
\* Swift lets a user read who may, or for whom the internal referer is listed.
Authorised(c) == req[c].access = "reader" \/ (hdr[c].referer /\ req[c].grant \in acl)

\* Bug: the read is tried again with the internal referer for as long as it is
\* refused.
ReadAgain(c) ==
    /\ pc[c] = "read"
    /\ IF Authorised(c) THEN Goto(c, "object") ELSE Goto(c, "read")
    /\ hdr' = [hdr EXCEPT ![c].referer = TRUE]
    /\ UNCHANGED <<requestVars, node, resp, ran, store, aclVars>>

\* A read enters Swift.  A GET that is refused with 403 is tried once more with
\* the internal referer of the user and the storlet.
Read(c) ==
    LET r == req[c]
    IN  /\ pc[c] = "read"
        /\ IF Authorised(c)
             THEN Goto(c, "object") /\ UNCHANGED <<hdr, resp>>
             ELSE IF Copies(r) \/ hdr[c].referer
             THEN /\ Goto(c, "back")
                  /\ resp' = [resp EXCEPT ![c] = Response(403, ErrorPage)]
                  /\ UNCHANGED hdr
             ELSE CASE r.access = "unnamed" -> Fail(c, 401) /\ UNCHANGED hdr
                    [] r.access = "anonymous" -> Fail(c, 500) /\ UNCHANGED hdr
                    [] OTHER -> /\ hdr' = [hdr EXCEPT ![c].referer = TRUE]
                                /\ UNCHANGED <<pc, resp>>
        /\ UNCHANGED <<requestVars, node, ran, store, aclVars>>

\* What an object server's own GET returns, and what its headers reveal.
SwiftObject(c) ==
    LET r == req[c]
        kind == IF r.kind = "symlink" /\ node[c].linked THEN "plain" ELSE r.kind
        part == IF hdr[c].range THEN "range" ELSE "all"
    IN  IF kind = "missing" THEN Response(404, ErrorPage)
        ELSE [status |-> IF hdr[c].range THEN 206 ELSE 200,
              body |-> Body(CASE kind = "slo" -> "manifest" [] kind = "symlink" -> "link"
                              [] OTHER -> "object", part, <<>>),
              seen |-> kind]

\* The input range goes to the gateway as range_start and range_end: it is cut
\* out of what Swift has read, which may have been cut already.
ObjectRange(r, body) ==
    IF is_storlet_range_request(r) /\ ~is_storlet_multiple_range_request(r)
      THEN [body EXCEPT !.part = IF @ = "all" THEN "range" ELSE "twice"] ELSE body

\* What the proxy's Swift makes of an object server's response on the way back:
\* it assembles a large object, decodes an erasure coded one, follows a link.
Assembled(c, r) ==
    CASE r.seen = "slo" /\ req[c].query # "manifest" -> [r EXCEPT !.body.of = "object"]
      [] r.seen = "ec" -> [r EXCEPT !.seen = "plain"]
      [] OTHER -> r

Follows(c, r) == is_success(r) /\ r.seen = "symlink" /\ req[c].query # "symlink"

\* The response r of an object server reaches Swift's proxy.
FromObject(c, r) ==
    IF Follows(c, r)
      THEN /\ node' = [node EXCEPT ![c] = [replica |-> 1, linked |-> TRUE]]
           /\ UNCHANGED <<pc, resp>>
      ELSE IF r.status \in 500 .. 599 /\ node[c].replica < Replicas
      THEN /\ node' = [node EXCEPT ![c].replica = @ + 1]
           /\ UNCHANGED <<pc, resp>>
      ELSE /\ Goto(c, "back")
           /\ resp' = [resp EXCEPT ![c] = Assembled(c, r)]
           /\ node' = node

\* The middleware is called in an object server, for a GET that carries
\* X-Run-Storlet or not.
ObjectCall(c) ==
    LET r == req[c]
        orig == SwiftObject(c)
        unsatisfiable == hdr[c].run /\ hdr[c].range /\ r.srange = 0
        considered == hdr[c].run /\ ~unsatisfiable /\ is_success(orig)
    IN  /\ pc[c] = "object"
        /\ IF considered /\ ~BadRunOnProxy(r) /\ ~not_runnable(r, orig.seen)
             THEN /\ Start(c, "object")
                  /\ \/ FromObject(c, Response(200, Processed(ObjectRange(r, orig.body), "object")))
                     \/ FromObject(c, Response(503, ErrorPage))
             ELSE /\ FromObject(c, CASE unsatisfiable -> Response(416, ErrorPage)
                                     [] considered /\ BadRunOnProxy(r) -> Response(400, ErrorPage)
                                     [] OTHER -> orig)
                  /\ ran' = ran
        /\ UNCHANGED <<requestVars, hdr, store, aclVars>>

----------------------------------------------------------------------------
\* The GET of the proxy has its response.
GetReturns(c) ==
    LET r == resp[c]
    IN  /\ pc[c] = "back" /\ ~Copies(req[c])
        /\ IF ~is_success(r) \/ ~is_proxy_runnable(req[c], r.seen)
             THEN Answer(c, r) /\ UNCHANGED ran
             ELSE /\ Start(c, "proxy")
                  /\ \/ Answer(c, Response(200, Processed(r.body, "proxy")))
                     \/ Fail(c, 503)
        /\ UNCHANGED <<requestVars, hdr, node, store, aclVars>>

\* handle_put_copy_response: Swift stores the data, or fails to.
Put(c, body) ==
    \/ store' = [store EXCEPT ![c] = body] /\ Answer(c, Response(201, Nothing))
    \/ store' = store /\ Fail(c, 503)

\* The source of a copy has been read, with whatever outcome.
CopyReturns(c) ==
    LET r == resp[c]
    IN  /\ pc[c] = "back" /\ Copies(req[c])
        /\ IF is_proxy_runnable(req[c], r.seen)
             THEN /\ Start(c, "proxy")
                  /\ \/ Put(c, Processed(r.body, "proxy"))
                     \/ Fail(c, 500) /\ UNCHANGED store
             ELSE Put(c, r.body) /\ UNCHANGED ran
        /\ UNCHANGED <<requestVars, hdr, node, aclVars>>

\* PUT without a source: the storlet works on the body of the request.
Upload(c) ==
    /\ pc[c] = "upload"
    /\ Start(c, "proxy")
    /\ \/ Put(c, Processed(Body("upload", "all", <<>>), "proxy"))
       \/ Fail(c, 500) /\ UNCHANGED store
    /\ UNCHANGED <<requestVars, hdr, node, aclVars>>

----------------------------------------------------------------------------
\* POST: read the container's ACL.  The HEAD of an object answers 200, not 204.
AclRead(c) ==
    /\ pc[c] = "aclread"
    /\ \/ Fail(c, 401) /\ UNCHANGED read
       \/ /\ req[c].what = "acl"
          /\ Goto(c, "aclwrite")
          /\ read' = [read EXCEPT ![c] = acl]
          /\ UNCHANGED resp
    /\ UNCHANGED <<requestVars, hdr, node, ran, store, acl, clash>>

\* Bug: the new entry replaces the ACL.
NewAclAlone(c) == {req[c].grant}

\* Bug: the entry names the requester, not the user and the storlet.
NewAclRequester(c) == read[c] \cup {req[c].access}

\* The ACL that was read, and the new entry.
NewAcl(c) == read[c] \cup {req[c].grant}

\* POST: write the container's ACL.
AclWrite(c) ==
    /\ pc[c] = "aclwrite"
    /\ \/ Fail(c, 403) /\ UNCHANGED <<acl, clash>>
       \/ /\ Answer(c, Response(204, Nothing))
          /\ acl' = NewAcl(c)
          /\ clash' = (clash \/ read[c] # acl)
    /\ UNCHANGED <<requestVars, hdr, node, ran, store, read>>

----------------------------------------------------------------------------
Step(c) ==
    \/ ProxyCall(c) \/ VerifyAccess(c) \/ Read(c) \/ ObjectCall(c)
    \/ GetReturns(c) \/ CopyReturns(c) \/ Upload(c)
    \/ AclRead(c) \/ AclWrite(c)

Next == \E c \in Clients : Step(c)

Spec == Init /\ [][Next]_vars

\* Swift goes on with every request.
FairSpec == Spec /\ \A c \in Clients : WF_vars(Step(c))

----------------------------------------------------------------------------
Pcs == {"start", "verify", "read", "object", "back", "upload", "aclread", "aclwrite", "done"}

Bodies == [of: {"object", "manifest", "link", "upload", "error"}, part: {"all", "range", "twice"},
           by: {<<>>} \cup {<<s>> : s \in Servers} \cup (Servers \X Servers)]

Responses == [status: 200 .. 599, body: Bodies \cup {Nothing}, seen: {"plain", "slo", "symlink"}]

\* Type invariant of the requests under way.
TypeOK ==
    /\ conf \in Confs
    /\ req \in [Clients -> Asks]
    /\ pc \in [Clients -> Pcs]
    /\ hdr \in [Clients -> [run: BOOLEAN, range: BOOLEAN, referer: BOOLEAN]]
    /\ node \in [Clients -> [replica: 1 .. Replicas, linked: BOOLEAN]]
    /\ resp \in [Clients -> Responses \cup {Nothing}]
    /\ ran \in [Clients -> Seq(Servers)]
    /\ store \in [Clients -> Bodies \cup {Nothing}]
    /\ acl \subseteq Grants
    /\ read \in [Clients -> SUBSET Grants]
    /\ clash \in BOOLEAN

\* What a successful execution delivered: to the client, or to the store.
Delivered(c) == pc[c] = "done" /\ req[c].what = "execution" /\ is_success(resp[c])
Outcome(c) == IF req[c].method = "GET" THEN resp[c].body ELSE store[c]

\* The reads that each of the two servers leaves to the other.
Unclaimed(r) ==
    /\ r.method = "GET" \/ Copies(r)
    /\ ~is_proxy_runnable(r, "plain")
    /\ r.kind = "ec" \/ (r.query = "manifest" /\ r.kind # "slo")

\* The two decisions fit together: whatever the object turns out to be, and
\* whichever replicas failed before, what a read delivers and what an upload or
\* a copy stores went through the storlet exactly once.  Excepted are the reads
\* both servers leave to each other, which come back as they are, and the error
\* page that a copy stores when its source could not be read
\* (is_proxy_runnable, not_runnable, base_handle_copy_request).
ProcessedOnce ==
    \A c \in Clients :
        Delivered(c) /\ Outcome(c).of # "error" =>
            Len(Outcome(c).by) = IF Unclaimed(req[c]) THEN 0 ELSE 1

\* A storlet that is to run on the proxy (header, extra resources, option, an
\* upload) is started there only, and once, failed attempts included; otherwise
\* a further attempt is made only on the next replica
\* (execute_on_proxy, apply_storlet).
RunsWhereAsked ==
    \A c \in Clients :
        LET r == req[c]
            here == {i \in DOMAIN ran[c] : ran[c][i] = "object"}
        IN  /\ Cardinality(here) <= Replicas
            /\ Len(ran[c]) <= Cardinality(here) + 1
            /\ execute_on_proxy(r, "proxy") \/ (r.method = "PUT" /\ ~Copies(r)) => here = {}

\* A storlet that reads an object with X-Storlet-Range is given that range, cut
\* out once, on whichever server it runs; large objects excepted, which are read
\* whole unless the proxy was asked for.  For a copy it holds where the object
\* server runs the storlet and the client has sent no Range of its own
\* (GET, base_handle_copy_request, _get_storlet_invocation_options).
RangeHonoured ==
    \A c \in Clients :
        /\ Delivered(c) /\ req[c].srange > 0 /\ ~Unclaimed(req[c])
        /\ Outcome(c).of = "object" /\ req[c].kind # "slo"
        /\ req[c].method = "GET" \/ (~req[c].range /\ Outcome(c).by = <<"object">>)
        => Outcome(c).part = "range"

\* Updates of the ACL add up: unless an ACL was written that had changed since
\* it was read, every entry a client was told is set stays in force (POST).
GrantsKept ==
    ~clash =>
        \A c \in Clients :
            pc[c] = "done" /\ req[c].what = "acl" /\ is_success(resp[c]) => req[c].grant \in acl

\* Every request is answered: neither the second try with the internal referer
\* nor the replicas nor a link keep it going for ever (GET, __call__).
EveryRequestAnswered == \A c \in Clients : <>(pc[c] = "done")

----------------------------------------------------------------------------
\* Stated by the release notes and violated, see the README.

\* The storlet is run on the proxy for erasure coded objects: whatever a read
\* of one delivers has been processed.
ErasureCodedProcessed ==
    \A c \in Clients :
        Delivered(c) /\ req[c].method = "GET" /\ req[c].kind = "ec" => Outcome(c).by # <<>>
============================================================================
