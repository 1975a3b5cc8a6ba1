-------------------------- MODULE MCStorletCache --------------------------
(***************************************************************************)
(* StorletCache on small instances.                                        *)
(***************************************************************************)
EXTENDS StorletCache

\* A storlet alone, and a storlet with a dependency.
MCStorlet == <<"storlet">>
MCStorletAndDependency == <<"storlet", "dependency">>

MCVersions == [o \in Files |-> IF o = "storlet" THEN 3 ELSE 1]
MCTwoVersions == [o \in Files |-> IF o = "storlet" THEN 2 ELSE 1]

\* All uploads differ in size; all have the same size.
MCSizes == [o \in Files |-> [v \in 1 .. Versions[o] |-> <<2, 1, 3>>[v]]]
MCSameSize == [o \in Files |-> [v \in 1 .. Versions[o] |-> 1]]
============================================================================
