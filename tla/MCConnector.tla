----------------------------- MODULE MCConnector -----------------------------
(* Model values for Connector; the threads are interchangeable.            *)
EXTENDS Connector, TLC

ThreadSymmetry == Permutations(Threads)
=============================================================================
