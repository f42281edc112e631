------------------------------- MODULE MCTMIPC -------------------------------
(* TMIPC with two user threads, of which one runs at first and the other can *)
(* be started, and no driver.                                                *)
EXTENDS TMIPC

CONSTANTS u1, u2

MCDrivers == {}
MCUserIds == <<u1, u2>>
MCThread == {TM, MM, Idle, u1, u2}
MCPriorityOf == [t \in MCThread |-> CASE t = Idle -> 2
                                      [] t \in {u1, u2} -> 1
                                      [] OTHER -> 0]
MCUserOps == {"send", "recv", "call", "exit", "fault", "yield"}

\* Without receives of users' messages, for liveness.
MCFewUserOps == {"send", "call", "exit", "fault"}
=============================================================================
