-------------------------- MODULE MCStorletDaemon --------------------------
(***************************************************************************)
(* StorletDaemon on small instances.                                       *)
(***************************************************************************)
EXTENDS StorletDaemon, TLC

\* The name of a request tells its command; every CANCEL names task e1.
MCCommand ==
    [r \in Requests |->
        CASE r \in {"e1", "e2", "e3"} -> "EXECUTE"
          [] r \in {"c1", "c2"} -> "CANCEL"
          [] r = "h1" -> "HALT"
          [] r = "p1" -> "PING"
          [] r = "u1" -> "START_DAEMON"
          [] OTHER -> "GARBLED"]

MCTarget == [c \in {r \in Requests : Command[r] = "CANCEL"} |-> "e1"]

PidSymmetry == Permutations(Pids)
============================================================================
