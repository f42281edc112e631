---------------------------- MODULE MCKernelLocks ----------------------------
(* KernelLocks with one driver, the shell and one thread that it may start.   *)
EXTENDS KernelLocks

CONSTANT child

MCUsers == {Shell, child}
MCThread == {TM, MM, IO, Driver, Idle, Shell, child}
MCPriorityOf == [t \in MCThread |-> CASE t = Idle -> 2
                                      [] t \in MCUsers -> 1
                                      [] OTHER -> 0]
MCAllOps == {"TM_START", "TM_KILL", "TM_EXIT", "VM_ALLOC", "IO_OPEN",
             "IO_CLOSE", "IO_INIT", "IO_READ"}
=============================================================================
