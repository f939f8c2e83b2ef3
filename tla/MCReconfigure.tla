---------------------------- MODULE MCReconfigure ----------------------------
(***************************************************************************)
(* Reconfiguration of a running program, for model checking: the watching  *)
(* of the file, and the locks under which it changes the hierarchy.  The   *)
(* two models share no state, so a behaviour is one of the model that      *)
(* `part' names, and the other stays as it began.                          *)
(***************************************************************************)
EXTENDS ConfigWatch, HierarchyLocker

VARIABLE part

allVars == <<part, vars, lkVars>>

AllInit ==
  /\ part \in {"watch", "locker"}
  /\ Init /\ LockerInit
  /\ part = "locker" => \A n \in Sizes : size <= n

(* What a step of one model leaves alone.                                  *)
BesideWatch == UNCHANGED <<part, lkVars>>
BesideLocker == UNCHANGED <<part, vars>>

AllNext ==
  \/ part = "watch" /\ BesideWatch /\ Next
  \/ part = "locker" /\ BesideLocker /\ LockerNext

(* The fairness that FairSpec and LockerFairSpec state, for the model that *)
(* runs.                                                                   *)
Fairness ==
  /\ WF_vars(part = "watch" /\ Run)
  /\ WF_lkVars(part = "locker" /\ Reload)
  /\ \A t \in Threads : WF_lkVars(part = "locker" /\ Logging(t))

AllSpec == AllInit /\ [][AllNext]_allVars /\ Fairness
=============================================================================
