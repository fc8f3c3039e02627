--------------------------- MODULE MC_LinkTracking ---------------------------
(***************************************************************************)
(* The instance of LinkTracking for its runs: one link of the baseline, a  *)
(* link that takes over one of its ports, and a link that takes over a     *)
(* port of that one; the last two lead to a device of their own.           *)
(***************************************************************************)
EXTENDS LinkTracking

McLinks == {"base", "rewired", "moved"}
McPorts == {"a1", "a2", "b1", "d1"}
McDevices == {"a", "b", "d"}
McFrom == [l \in McLinks |-> IF l = "moved" THEN "a2" ELSE "a1"]
McTo == [l \in McLinks |-> IF l = "base" THEN "b1" ELSE "d1"]
McDeviceOf == [e \in McPorts |-> CASE e = "b1" -> "b" [] e = "d1" -> "d" [] OTHER -> "a"]
McBaseline == {"base"}
McBaselineDevices == {"a", "b"}

=============================================================================
