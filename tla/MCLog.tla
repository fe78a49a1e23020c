------------------------------- MODULE MCLog -------------------------------
(* The log for model checking: three operations, of which two share a block, *)
(* as system calls share the bitmap block, and two may run at a time. One    *)
(* process reads a block before it begins, so that three transfers may be    *)
(* under way, one more than there are descriptors for.                       *)
EXTENDS Log

CONSTANTS p1, p2, p3

MCHome == 10 .. 12
MCOpBlocks == (p1 :> <<10>>) @@ (p2 :> <<12, 10>>) @@ (p3 :> <<11>>)
MCReads == (p1 :> <<10>>) @@ (p2 :> <<>>) @@ (p3 :> <<>>)
===========================================================================
