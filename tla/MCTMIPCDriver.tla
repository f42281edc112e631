---------------------------- MODULE MCTMIPCDriver ----------------------------
(* TMIPC with one user thread and one driver, and queues of the real length. *)
EXTENDS TMIPC

CONSTANTS u1, d

MCDrivers == {d}
MCUserIds == <<u1>>
MCThread == {TM, MM, Idle, u1, d}
MCPriorityOf == [t \in MCThread |-> CASE t = Idle -> 2
                                      [] t = u1 -> 1
                                      [] OTHER -> 0]
\* The user only calls and exits, for the counterexample.
MCFewUserOps == {"call", "exit"}
=============================================================================
