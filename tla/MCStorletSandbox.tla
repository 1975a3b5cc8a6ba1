------------------------- MODULE MCStorletSandbox -------------------------
(***************************************************************************)
(* StorletSandbox on a small instance: two gateways and two scopes.        *)
(***************************************************************************)
EXTENDS StorletSandbox

ForA == <<[scope |-> "A", storlet |-> "X"]>>
ForB == <<[scope |-> "B", storlet |-> "X"]>>

\* Two requests in a row, two of one scope that meet, and two of two scopes.
MCWorkloads == {[g1 |-> ForA \o ForA, g2 |-> <<>>], [g1 |-> ForA, g2 |-> ForA],
                [g1 |-> ForA, g2 |-> ForB]}
============================================================================
