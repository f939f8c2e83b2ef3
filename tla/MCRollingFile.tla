---------------------------- MODULE MCRollingFile ----------------------------
(* Model values for RollingFile; the processes are interchangeable.        *)
EXTENDS RollingFile, TLC

ProcSymmetry == Permutations(Procs)
=============================================================================
