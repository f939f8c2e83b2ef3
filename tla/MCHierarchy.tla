---------------------------- MODULE MCHierarchy ----------------------------
(* Instances of Hierarchy with concrete logger names.                      *)
EXTENDS Hierarchy

(* Four names with a chain of three and a branch; none of them is a    *)
(* string prefix of "root".                                                *)
TreeNames == {"a", "a.b", "a.b.c", "a.d"}
TreeAnc ==
  [n \in TreeNames \cup {Root} |->
     CASE n = "a.b" -> {"a"}
       [] n = "a.b.c" -> {"a", "a.b"}
       [] n = "a.d" -> {"a"}
       [] OTHER -> {}]

(* Names of which one, "r", is a string prefix of the root's name.         *)
RNames == {"r", "r.x", "r.x.y"}
RAnc ==
  [n \in RNames \cup {Root} |->
     CASE n = "r.x" -> {"r"}
       [] n = "r.x.y" -> {"r", "r.x"}
       [] OTHER -> {}]
RPrefixes == [RAnc EXCEPT ![Root] = {"r"}]

(* Inputs of the runs: which levels are assigned to which loggers.         *)
NoneAssigned == [n \in Nodes |-> {}]
SomeAssigned ==
  [n \in Nodes |-> CASE n = "a" -> {2, NOT_SET_LOG_LEVEL}
                     [] n = Root -> {1, NOT_SET_LOG_LEVEL}
                     [] OTHER -> {}]
SomeDisabled == {1, DISABLE_OVERRIDE}
=============================================================================
