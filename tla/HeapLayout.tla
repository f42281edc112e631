------------------------------ MODULE HeapLayout ------------------------------
(***************************************************************************)
(* The constants of Memory/MMHeapMemory.c.  Addresses are bytes, counted   *)
(* from start.                                                             *)
(***************************************************************************)
EXTENDS Integers

CONSTANTS
    KERNELHEAPSIZE,
    Sizes               \* the sizes that callers ask for

ALIGN    == 4
LEFTOVER == ALIGN * 2
HEADER   == 8           \* sizeof(HmEntryDesc)

\* The smallest object that the kernel puts into its heap has eight bytes
\* (devFPGADesc).
ASSUME HeapAssumption ==
    /\ KERNELHEAPSIZE \in Nat
    /\ KERNELHEAPSIZE % ALIGN = 0
    /\ Sizes \subseteq Nat
    /\ \A n \in Sizes : n >= LEFTOVER

start == 0
end   == KERNELHEAPSIZE + HEADER

\* Pointers are aligned.
Addresses == {a \in start .. end : a % ALIGN = 0}

\* Wrong: sizes are not rounded.
NotRounded(size) == size

\* Rounds up, by a whole word if the size is a multiple of words already.
Rounded(size) == size + (ALIGN - (size % ALIGN))
===============================================================================
