---------------------------- MODULE MCCowMemory -----------------------------
(* Small instances of CowMemory.  Processes and frames are interchangeable. *)
EXTENDS CowMemory, TLC

CowSymmetry == Permutations(Procs) \cup Permutations(Frames)


=============================================================================
