----------------------------- MODULE MCLazyFile -----------------------------
(* LazyFile on small instances. *)
EXTENDS LazyFile, TLC

(* The threads of the requests run the same code and the input chosen in    *)
(* Init ranges over all assignments, so requests are interchangeable.       *)
RequestSymmetry == Permutations(Requests)

=============================================================================
