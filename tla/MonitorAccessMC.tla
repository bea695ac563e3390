-------------------------- MODULE MonitorAccessMC --------------------------
(***************************************************************************)
(* Small instances of MonitorAccess for TLC: a register, an opcode in the  *)
(* core's memory and a byte of it.                                         *)
(***************************************************************************)
EXTENDS MonitorAccess

MCPlace == {"reg", "opcode", "byte"}
MCSize == [p \in MCPlace |->
             CASE p = "reg" -> 4 [] p = "opcode" -> 2 [] p = "byte" -> 1]
MCCaller == {"CheckCoreStatus", "monitor_loop", "StdioHandler"}

Reads(P) == {[write |-> FALSE, place |-> p] : p \in P}

\* CheckCoreStatus also writes registers; monitor_loop, at the timeout, reads
\* registers; in batch mode a write is never waited for.
MCAsks == [c \in MCCaller |->
  CASE c = "CheckCoreStatus" ->
         Reads({"reg", "opcode"}) \cup {[write |-> TRUE, place |-> "reg"]}
    [] c = "monitor_loop" -> Reads({"reg"})
    [] c = "StdioHandler" -> Reads(MCPlace)]

\* A run of more than two cores before its timeout; one of two cores or
\* fewer after it; batch mode.
MCRunning == {<<TRUE, {"CheckCoreStatus"}>>,
              <<FALSE, {"CheckCoreStatus", "monitor_loop"}>>,
              <<FALSE, {"StdioHandler"}>>}

\* A run of more than two cores after its timeout.
MCTimedOut == {<<TRUE, {"CheckCoreStatus", "monitor_loop"}>>}
=============================================================================
