------------------------------ MODULE MCHeapChain ------------------------------
(* HeapChain with room for four of the smallest blocks, and three sizes: the  *)
(* smallest, one that is no multiple of it, and twice the smallest.           *)
EXTENDS HeapChain

MCSizes == {8, 12, 16}
===============================================================================
