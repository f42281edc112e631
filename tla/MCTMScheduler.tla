---------------------------- MODULE MCTMScheduler ----------------------------
(* TMScheduler with its two kernel servers, three user threads and the idle   *)
(* thread.                                                                  *)
EXTENDS TMScheduler

CONSTANTS mm, u1, u2, u3

MCThread == {TM, mm, u1, u2, u3, Idle}
MCPermanent == {TM, mm, Idle}
MCPriorityOf == [t \in MCThread |-> CASE t \in {TM, mm} -> 0
                                      [] t \in {u1, u2, u3} -> 1
                                      [] t = Idle -> 2]
MCBootOrder == [p \in 0 .. 2 |-> CASE p = 0 -> <<TM, mm>>
                                   [] p = 1 -> << >>
                                   [] p = 2 -> <<Idle>>]
=============================================================================
