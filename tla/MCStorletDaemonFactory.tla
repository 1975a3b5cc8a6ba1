----------------------- MODULE MCStorletDaemonFactory -----------------------
(***************************************************************************)
(* StorletDaemonFactory on small instances.                                *)
(***************************************************************************)
EXTENDS StorletDaemonFactory, TLC

\* The name of a request tells its command and, for daemon commands, the storlet.
MCCommand ==
    [r \in Requests |->
        CASE r \in {"startA", "startA2", "startB"} -> "START_DAEMON"
          [] r \in {"stopA", "stopB"} -> "STOP_DAEMON"
          [] r \in {"statusA", "statusB"} -> "DAEMON_STATUS"
          [] r = "stopall" -> "STOP_DAEMONS"
          [] r = "halt" -> "HALT"
          [] r = "ping" -> "PING"
          [] r = "execute" -> "EXECUTE"
          [] OTHER -> "GARBLED"]

MCStorlet ==
    [r \in {q \in Requests : Command[q] \in DaemonCommands} |->
        IF r \in {"startB", "stopB", "statusB"} THEN "B" ELSE "A"]

\* Bound: a run of the factory sees the requests of one of these groups.
Groups == {{"startA", "startA2", "stopA", "statusA"},
           {"startA", "startB", "halt", "stopall"},
           {"startA", "ping"}}
OneGroup == \E g \in Groups : \A r \in Requests \ g : reply[r] = "unsent"

PidSymmetry == Permutations(Pids)
============================================================================
