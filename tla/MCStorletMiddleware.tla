------------------------ MODULE MCStorletMiddleware ------------------------
(***************************************************************************)
(* StorletMiddleware on small instances: one request of every kind alone,  *)
(* and a read that needs an ACL entry among two updates of the ACL.        *)
(***************************************************************************)
EXTENDS StorletMiddleware

\* A GET of a plain object, from which the others differ.
Plain ==
    [what |-> "execution", method |-> "GET", copy |-> "no", kind |-> "plain",
     query |-> "none", run_on_proxy |-> "absent", extra |-> "absent", srange |-> 0,
     range |-> FALSE, access |-> "reader", grant |-> "g1", valid |-> TRUE, refused |-> "no"]

Kinds == {"plain", "slo", "ec", "symlink", "missing"}

\* Everything that decides where a read is processed.
Gets ==
    {[Plain EXCEPT !.kind = k, !.query = q, !.run_on_proxy = p, !.extra = e, !.srange = n] :
        k \in Kinds, q \in {"none", "manifest", "symlink"},
        p \in {"absent", "empty", "filled"}, e \in {"absent", "few"}, n \in 0 .. 2}

MCCopies ==
    {[Plain EXCEPT !.method = m, !.copy = x, !.kind = k, !.run_on_proxy = p, !.extra = e,
                   !.srange = n, !.range = g, !.access = a] :
        m \in {"PUT", "COPY"}, x \in {"yes", "unsupported", "incomplete"}, k \in Kinds,
        p \in {"absent", "empty", "filled"}, e \in {"absent", "few"}, n \in 0 .. 1,
        g \in BOOLEAN, a \in {"reader", "named"}}

Others ==
    {[Plain EXCEPT !.method = m, !.extra = e, !.refused = f, !.range = g] :
        m \in {"GET", "PUT", "POST", "DELETE"}, f \in {"no", "referer", "disabled"},
        e \in {"absent", "empty", "few", "many", "malformed"}, g \in BOOLEAN}
    \cup {[Plain EXCEPT !.what = w, !.method = "POST", !.valid = v] :
            w \in {"registration", "acl", "other"}, v \in BOOLEAN}
    \cup {[Plain EXCEPT !.access = a] : a \in {"named", "unnamed", "anonymous"}}

Elsewhere == [Plain EXCEPT !.what = "other"]
AclUpdate(g) == [Plain EXCEPT !.what = "acl", !.method = "POST", !.grant = g]

MCWorkloads ==
    {[c \in Clients |-> IF c = "c1" THEN r ELSE Elsewhere] : r \in Gets \cup MCCopies \cup Others}
    \cup {[c1 |-> AclUpdate("g1"), c2 |-> AclUpdate("g2"),
           c3 |-> [Plain EXCEPT !.access = "named", !.kind = k]] : k \in Kinds}

\* Reads of erasure coded objects.
MCErasureCoded == {[c \in Clients |-> [Plain EXCEPT !.kind = "ec", !.srange = n]] : n \in 0 .. 1}

\* The option is the same on all servers.
MCConfs == {[s \in Servers |-> b] : b \in BOOLEAN}
============================================================================
