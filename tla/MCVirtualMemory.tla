--------------------------- MODULE MCVirtualMemory ---------------------------
(* VirtualMemory with pages of four bytes, and a few of them for users.       *)
EXTENDS VirtualMemory

CONSTANT FreeUserPages

MCSegMap == [bootStackSize |-> 4, kernelCodeSize |-> 4, kernelDataSize |-> 3,
             heapSize |-> 4, userCodeSize |-> 4, userDataSize |-> 3]
MCKernelSize == 32                      \* two pages are left for stacks
MCUserSize   == 8 + 4 * FreeUserPages
=============================================================================
