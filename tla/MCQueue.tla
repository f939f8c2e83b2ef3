------------------------------- MODULE MCQueue -------------------------------
(* Instances of the queue for model checking.  Producers and closers are   *)
(* interchangeable, so the safety runs identify permutations of them.      *)
EXTENDS Queue, TLC

ThreadSymmetry == Permutations(Producers) \union Permutations(Closers)
=============================================================================
