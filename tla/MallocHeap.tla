------------------------------- MODULE MallocHeap -------------------------------
(****************************************************************************)
(* The heap of a C program: the set of the live blocks, each named by what  *)
(* it holds and whose it is.  What free does to a block that is not live is *)
(* undefined: the heap is then broken, and stays so.                        *)
(****************************************************************************)

Broken == {<<"broken", "heap">>}

\* The heap h after all of the blocks have been freed.
Freed(h, blocks) == IF blocks \subseteq h THEN h \ blocks ELSE Broken
================================================================================
