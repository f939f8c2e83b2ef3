--------------------------- MODULE HierarchyProofs ---------------------------
(***************************************************************************)
(* Proofs about Hierarchy, for every set of names, threads and levels.     *)
(* NearestParent alone is not inductive: a creation in progress has linked *)
(* some of the children and not others, and the children it will find are  *)
(* known only through the provision nodes.  TreeInv says what the links    *)
(* and the provision nodes are at every point of a creation, and WalkInv   *)
(* what a walk has still before it.                                        *)
(***************************************************************************)
EXTENDS Hierarchy, TLAPS

(* No logger is named like a proper prefix of the root logger's name.      *)
RootNotPrefixed == Prefixes[Root] = {}

(* n has been given the logger in the making as a possible parent.         *)
Relinked(n) == making # Null /\ making \in Anc[n] /\ n \notin todo

MakingInv ==
  /\ making # Null => making \in loggers /\ todo \subseteq prov[making]
  /\ making = Null => todo = {} /\ moving = Null
  /\ moving # Null =>
       /\ moving \in todo
       /\ parent[making] # Null
       /\ parent[making] = parent[moving]

ProvSound ==
  \A m \in Names : \A n \in prov[m] : n \in Complete /\ m \in Anc[n]

ProvComplete ==
  \A m \in Names \ Complete, n \in Complete :
    /\ m \in Anc[n]
    /\ \A k \in Anc[n] \cap Complete : m \notin Anc[k]
    => n \in prov[m]

ParentInv ==
  /\ \A n \in Complete :
       Nearest(parent[n], n, IF Relinked(n) THEN loggers ELSE Complete)
  /\ making # Null /\ parent[making] # Null =>
       Nearest(parent[making], making, Complete)
  /\ making # Null => \A n \in Complete :
       parent[n] = making => parent[making] # Null
  /\ \A n \in Nodes \ loggers : parent[n] = Null

TreeInv == MakingInv /\ ProvSound /\ ProvComplete /\ ParentInv

WalkInv ==
  \A t \in Threads : pc[t] \in {"level", "append"} =>
    /\ start[t] \in Handles
    /\ pos[t] \in loggers \cup {Root}
    /\ pos[t] = making => parent[making] # Null
    /\ due[t] \subseteq Handles
    /\ pc[t] = "level" => visited[t] = {} /\ due[t] \subseteq Anc[start[t]] \cup {start[t], Root}
    /\ pc[t] = "append" =>
         /\ due[t] \subseteq visited[t] \cup Anc[pos[t]] \cup {pos[t], Root}
         /\ visited[t] \cap (Anc[pos[t]] \cup {pos[t], Root}) = {}

-----------------------------------------------------------------------------
(* The root and the null pointer are no names.                             *)
LEMMA NotNames ==
  /\ Root \notin Names /\ Null \notin Names /\ Root # Null
  /\ Root \in Nodes /\ Null \notin Nodes /\ Names \subseteq Nodes
BY NameAssumption DEF Nodes

(* Ancestors are names; the root has none.                                 *)
LEMMA AncNames ==
  /\ \A n \in Nodes : Anc[n] \subseteq Names /\ n \notin Anc[n]
  /\ Anc[Root] = {}
BY NameAssumption DEF Nodes

(* Every variable keeps its type, whatever the clients do.                 *)
THEOREM TypeCorrect == Spec => []TypeOK
<1>1. Init => TypeOK
  BY NotNames, LevelAssumption DEF Init, TypeOK
<1>2. TypeOK /\ [Next]_vars => TypeOK'
  <2> SUFFICES ASSUME TypeOK, [Next]_vars PROVE TypeOK'
    OBVIOUS
  <2> USE NotNames DEF TypeOK
  <2>1. ASSUME NEW n \in Names, GetInstanceImpl(n) PROVE TypeOK'
    BY <2>1 DEF GetInstanceImpl, confVars, walkVars
  <2>2. ASSUME NEW n \in Names, SkipChild(n) PROVE TypeOK'
    BY <2>2 DEF SkipChild, confVars, walkVars
  <2>3. ASSUME NEW n \in Names, LinkAboveChild(n) PROVE TypeOK'
    BY <2>3 DEF LinkAboveChild, confVars, walkVars
  <2>4. CASE RelinkChild
    BY <2>4 DEF RelinkChild, confVars, walkVars
  <2>5. ASSUME NEW p \in Nodes, UpdateParents(p) PROVE TypeOK'
    BY <2>5 DEF UpdateParents, confVars, walkVars
  <2>6. ASSUME NEW n \in Nodes, NEW l \in Assigned[n], SetLogLevel(n, l) PROVE TypeOK'
    BY ZenonT(40), <2>6, LevelAssumption DEF SetLogLevel, treeVars
  <2>7. ASSUME NEW n \in Toggled, NEW b \in BOOLEAN, SetAdditivity(n, b) PROVE TypeOK'
    BY <2>7, LevelAssumption DEF SetAdditivity, treeVars, walkVars
  <2>8. ASSUME NEW l \in Disabled, Disable(l) PROVE TypeOK'
    BY <2>8, LevelAssumption DEF Disable, treeVars, walkVars
  <2>9. CASE EnableAll
    BY <2>9 DEF EnableAll, treeVars, walkVars
  <2>10. ASSUME NEW t \in Threads, NEW n \in Nodes, NEW l \in Levels, IsEnabledFor(t, n, l)
         PROVE TypeOK'
    <3>1. ChainedLevel(n) \in Levels \cup {NOT_SET_LOG_LEVEL}
      BY ZenonT(40), AncNames DEF ChainedLevel, LevelSetters
    <3>2. due' \in [Threads -> SUBSET Nodes]
      BY <2>10, AncNames DEF IsEnabledFor, Complete
    <3> QED BY <2>10, <3>1, <3>2 DEF IsEnabledFor, treeVars, confVars
  <2>11. ASSUME NEW t \in Threads, LevelFound(t) PROVE TypeOK'
    BY <2>11 DEF LevelFound, treeVars, confVars
  <2>12. ASSUME NEW t \in Threads, LevelUp(t) PROVE TypeOK'
    BY <2>12 DEF LevelUp, treeVars, confVars
  <2>13. ASSUME NEW t \in Threads, Rethrown(t) PROVE TypeOK'
    BY <2>13 DEF Rethrown, treeVars, confVars
  <2>14. ASSUME NEW t \in Threads, CallAppenders(t) PROVE TypeOK'
    BY <2>14 DEF CallAppenders, treeVars, confVars
  <2>15. CASE UNCHANGED vars
    BY <2>15 DEF vars
  <2> HIDE NotNames DEF TypeOK
  <2> QED
    BY <2>1, <2>2, <2>3, <2>4, <2>5, <2>6, <2>7, <2>8, <2>9, <2>10, <2>11,
       <2>12, <2>13, <2>14, <2>15 DEF Next, Create, Configure, Log
<1> QED BY <1>1, <1>2, PTL DEF Spec

-----------------------------------------------------------------------------
(* Configuring and logging leave the tree alone.                           *)
LEMMA OnlyCreateChangesTree ==
  ASSUME [Next]_vars, ~Create
  PROVE  UNCHANGED treeVars
<1>1. CASE Configure
  BY <1>1 DEF Configure, SetLogLevel, SetAdditivity, Disable, EnableAll
<1>2. ASSUME NEW t \in Threads, Log(t) PROVE UNCHANGED treeVars
  BY <1>2 DEF Log, IsEnabledFor, LevelFound, LevelUp, Rethrown, CallAppenders
<1>3. CASE UNCHANGED vars
  BY <1>3 DEF vars, treeVars
<1> QED BY <1>1, <1>2, <1>3 DEF Next

(* The nearest ancestor of a logger c that waits for m, when it is not     *)
(* below m, is also the nearest ancestor of m.                             *)
LEMMA NearestAbove ==
  ASSUME NEW c \in Names, NEW m \in Anc[c], NEW S \in SUBSET Names, m \notin S,
         NEW p \in Nodes, Nearest(p, c, S), m \notin Prefixes[p]
  PROVE  Nearest(p, m, S)
<1> USE NameAssumption DEF Nearest, Nodes
<1>1. m \in Names /\ Anc[m] \subseteq Anc[c]
  OBVIOUS
<1>2. CASE p = Root /\ Anc[c] \cap S = {}
  BY <1>1, <1>2
<1>3. CASE p \in Anc[c] \cap S /\ Anc[c] \cap S \subseteq Anc[p] \cup {p}
  <2>1. p \in Anc[m]
    BY <1>3
  <2> QED BY <1>1, <1>3, <2>1
<1> QED BY <1>2, <1>3

(* A new logger m becomes the nearest ancestor of c when the former one is *)
(* above m.                                                                *)
LEMMA NearestBetween ==
  ASSUME NEW c \in Names, NEW m \in Anc[c], NEW S \in SUBSET Names,
         NEW p \in Nodes, Nearest(p, c, S), Nearest(p, m, S)
  PROVE  Nearest(m, c, S \cup {m})
<1> USE NameAssumption DEF Nearest, Nodes
<1>1. CASE p = Root /\ Anc[c] \cap S = {}
  BY <1>1
<1>2. CASE p # Root
  <2>1. p \in Anc[m] /\ Anc[p] \subseteq Anc[m] /\ Anc[c] \cap S \subseteq Anc[p] \cup {p}
    BY <1>2
  <2> QED BY <2>1
<1> QED BY <1>1, <1>2

(* A new logger m that the nearest ancestor of n lies below changes        *)
(* nothing for n.                                                          *)
LEMMA NearestKept ==
  ASSUME NEW n \in Names, NEW m \in Names, NEW S \in SUBSET Names,
         NEW p \in Nodes, Nearest(p, n, S),
         m \in Anc[n] => m \in Anc[p]
  PROVE  Nearest(p, n, S \cup {m})
BY NameAssumption DEF Nearest, Nodes

-----------------------------------------------------------------------------
(* The five steps of a creation preserve TreeInv.                          *)

LEMMA GetInstanceTree ==
  ASSUME TypeOK, TreeInv, NEW m \in Names, GetInstanceImpl(m)
  PROVE  TreeInv'
<1> USE NameAssumption DEF TypeOK, Nodes, Complete
<1>1. /\ making = Null /\ m \notin loggers /\ loggers' = loggers \cup {m}
      /\ making' = m /\ todo' = prov[m] /\ todo = {} /\ moving = Null
      /\ parent' = parent /\ prov' = prov /\ moving' = moving
      /\ Complete = loggers /\ Complete' = loggers
  BY DEF GetInstanceImpl, TreeInv, MakingInv
<1>2. MakingInv'
  BY <1>1 DEF TreeInv, MakingInv
<1>3. ProvSound'
  BY <1>1 DEF TreeInv, ProvSound
<1>4. ProvComplete'
  BY <1>1 DEF TreeInv, ProvComplete
<1>5. ParentInv'
  <2>1. ASSUME NEW n \in Complete'
        PROVE  Nearest(parent'[n], n, IF Relinked(n)' THEN loggers' ELSE Complete')
    <3>1. Nearest(parent[n], n, Complete) /\ parent[n] \in Nodes
      BY <1>1, <2>1 DEF TreeInv, ParentInv, Relinked, Nearest
    <3>2. CASE Relinked(n)'
      <4>1. PICK k \in Anc[n] \cap Complete : m \in Anc[k]
        BY <1>1, <2>1, <3>2 DEF TreeInv, ProvComplete, Relinked
      <4>2. m \in Anc[parent[n]]
        BY <3>1, <4>1 DEF Nearest
      <4>3. Nearest(parent[n], n, Complete \cup {m})
        BY <1>1, <2>1, <3>1, <4>2, NearestKept
      <4> QED BY ZenonT(40), <1>1, <3>2, <4>3
    <3>3. CASE ~Relinked(n)'
      BY ZenonT(40), <1>1, <3>1, <3>3
    <3> QED BY <3>2, <3>3
  <2>2. parent[m] = Null
    BY <1>1 DEF TreeInv, ParentInv
  <2>3. \A n \in loggers : parent[n] # m
    BY <1>1 DEF TreeInv, ParentInv, Nearest, Relinked
  <2> QED BY ZenonT(40), <1>1, <2>1, <2>2, <2>3 DEF TreeInv, ParentInv
<1> QED BY <1>2, <1>3, <1>4, <1>5 DEF TreeInv

LEMMA SkipChildTree ==
  ASSUME RootNotPrefixed, TypeOK, TreeInv, NEW c \in Names, SkipChild(c)
  PROVE  TreeInv'
<1> USE NameAssumption DEF TypeOK, Nodes, Complete
<1>1. /\ making # Null /\ moving = Null /\ c \in todo /\ making \in Prefixes[parent[c]]
      /\ todo' = todo \ {c} /\ loggers' = loggers /\ parent' = parent
      /\ prov' = prov /\ making' = making /\ moving' = moving /\ Complete' = Complete
  BY DEF SkipChild, StartsWith
<1>2. /\ making \in loggers /\ making \in Names /\ todo \subseteq prov[making]
      /\ c \in Complete /\ making \in Anc[c]
  BY <1>1 DEF TreeInv, MakingInv, ProvSound
<1>3. MakingInv'
  BY <1>1, <1>2 DEF TreeInv, MakingInv
<1>4. ProvSound' /\ ProvComplete'
  BY <1>1 DEF TreeInv, ProvSound, ProvComplete
<1>5. ParentInv'
  <2>1. Nearest(parent[c], c, loggers)
    <3>1. Nearest(parent[c], c, Complete) /\ parent[c] \in Nodes
      BY <1>1, <1>2 DEF TreeInv, ParentInv, Relinked, Nearest
    <3>2. parent[c] \in Anc[c]
      BY <1>1, <3>1 DEF RootNotPrefixed, Nearest
    <3>3. making \in Anc[parent[c]]
      BY <1>1, <1>2, <3>2
    <3>4. Nearest(parent[c], c, Complete \cup {making})
      BY <1>2, <3>1, <3>3, NearestKept
    <3>5. Complete \cup {making} = loggers
      BY <1>2
    <3> QED BY ZenonT(40), <3>4, <3>5
  <2>2. ASSUME NEW n \in Complete
        PROVE  Nearest(parent[n], n, IF Relinked(n)' THEN loggers ELSE Complete)
    <3>1. CASE n = c
      BY <1>1, <1>2, <2>1, <3>1 DEF Relinked
    <3>2. CASE n # c
      BY ZenonT(40), <1>1, <3>2 DEF TreeInv, ParentInv, Relinked
    <3> QED BY <3>1, <3>2
  <2> QED BY ZenonT(40), <1>1, <2>2 DEF TreeInv, ParentInv
<1> QED BY <1>3, <1>4, <1>5 DEF TreeInv

LEMMA LinkAboveTree ==
  ASSUME TypeOK, TreeInv, NEW c \in Names, LinkAboveChild(c)
  PROVE  TreeInv'
<1> USE NameAssumption DEF TypeOK, Nodes, Complete
<1>1. /\ making # Null /\ moving = Null /\ c \in todo /\ making \notin Prefixes[parent[c]]
      /\ parent' = [parent EXCEPT ![making] = parent[c]] /\ moving' = c
      /\ todo' = todo /\ loggers' = loggers
      /\ prov' = prov /\ making' = making /\ Complete' = Complete
  BY DEF LinkAboveChild, StartsWith
<1>2. /\ making \in loggers /\ making \in Names /\ todo \subseteq prov[making]
      /\ c \in Complete /\ making \in Anc[c] /\ c # making
  BY <1>1 DEF TreeInv, MakingInv, ProvSound
<1>3. Nearest(parent[c], c, Complete) /\ parent[c] \in Nodes
  BY <1>1, <1>2 DEF TreeInv, ParentInv, Relinked, Nearest
<1>4. /\ parent'[making] = parent[c] /\ parent[c] # Null
      /\ \A n \in Nodes : n # making => parent'[n] = parent[n]
  BY <1>1, <1>2, <1>3
<1>5. MakingInv'
  BY <1>1, <1>2, <1>4 DEF TreeInv, MakingInv
<1>6. ProvSound' /\ ProvComplete'
  BY <1>1 DEF TreeInv, ProvSound, ProvComplete
<1>7. ParentInv'
  <2>1. Nearest(parent[c], making, Complete)
    BY ZenonT(40), <1>1, <1>2, <1>3, NearestAbove
  <2>2. ASSUME NEW n \in Complete
        PROVE  Nearest(parent'[n], n, IF Relinked(n)' THEN loggers ELSE Complete)
    BY ZenonT(40), <1>1, <1>4 DEF TreeInv, ParentInv, Relinked
  <2>3. \A n \in Nodes \ loggers : parent'[n] = Null
    BY <1>2, <1>4 DEF TreeInv, ParentInv
  <2>4. \A n \in Complete : parent'[n] = making => parent'[making] # Null
    BY <1>4
  <2> HIDE DEF Complete, TypeOK, Nodes
  <2> QED BY <1>1, <1>4, <2>1, <2>2, <2>3, <2>4 DEF ParentInv, Nodes
<1> QED BY <1>5, <1>6, <1>7 DEF TreeInv

LEMMA RelinkTree ==
  ASSUME TypeOK, TreeInv, RelinkChild
  PROVE  TreeInv'
<1> USE NameAssumption DEF TypeOK, Nodes, Complete
<1>1. /\ moving # Null /\ parent' = [parent EXCEPT ![moving] = making]
      /\ todo' = todo \ {moving} /\ moving' = Null /\ loggers' = loggers
      /\ prov' = prov /\ making' = making /\ Complete' = Complete
  BY DEF RelinkChild
<1>2. /\ making # Null /\ making \in loggers /\ making \in Names
      /\ todo \subseteq prov[making] /\ moving \in todo /\ moving \in Names
      /\ moving \in Complete /\ making \in Anc[moving] /\ moving # making
      /\ parent[making] # Null /\ parent[making] = parent[moving]
  BY <1>1 DEF TreeInv, MakingInv, ProvSound
<1>3. /\ parent'[moving] = making
      /\ \A n \in Nodes : n # moving => parent'[n] = parent[n]
  BY <1>1, <1>2
<1>4. MakingInv'
  BY <1>1, <1>2 DEF TreeInv, MakingInv
<1>5. ProvSound' /\ ProvComplete'
  BY <1>1 DEF TreeInv, ProvSound, ProvComplete
<1>6. ParentInv'
  <2>1. Nearest(making, moving, loggers)
    <3>1. /\ Nearest(parent[moving], moving, Complete)
          /\ Nearest(parent[moving], making, Complete)
      BY ZenonT(40), <1>1, <1>2 DEF TreeInv, ParentInv, Relinked
    <3>2. parent[moving] \in Nodes
      BY <3>1 DEF Nearest
    <3>3. Nearest(making, moving, Complete \cup {making})
      BY <1>2, <3>1, <3>2, NearestBetween
    <3>4. Complete \cup {making} = loggers
      BY <1>2
    <3> QED BY ZenonT(40), <3>3, <3>4
  <2>2. ASSUME NEW n \in Complete
        PROVE  Nearest(parent'[n], n, IF Relinked(n)' THEN loggers ELSE Complete)
    <3>1. CASE n = moving
      BY <1>1, <1>2, <1>3, <2>1, <3>1 DEF Relinked
    <3>2. CASE n # moving
      BY ZenonT(40), <1>1, <1>3, <3>2 DEF TreeInv, ParentInv, Relinked
    <3> QED BY <3>1, <3>2
  <2> QED BY ZenonT(40), <1>1, <1>2, <1>3, <2>2 DEF TreeInv, ParentInv
<1> QED BY <1>4, <1>5, <1>6 DEF TreeInv

LEMMA UpdateParentsTree ==
  ASSUME TypeOK, TreeInv, NEW p \in Nodes, UpdateParents(p)
  PROVE  TreeInv'
<1> USE NameAssumption DEF TypeOK, Nodes
<1>1. /\ making # Null /\ moving = Null /\ todo = {} /\ Nearest(p, making, Complete)
      /\ parent' = [parent EXCEPT ![making] = p]
      /\ making' = Null /\ loggers' = loggers /\ todo' = todo /\ moving' = moving
  BY DEF UpdateParents
<1>2. /\ making \in loggers /\ making \in Names
      /\ Complete' = loggers /\ loggers = Complete \cup {making} /\ making \notin Complete
  BY <1>1 DEF TreeInv, MakingInv, Complete
<1>3. /\ prov'[making] = {}
      /\ \A m \in Names : m # making /\ m \in Anc[making] \ (Anc[p] \cup {p})
                            => prov'[m] = prov[m] \cup {making}
      /\ \A m \in Names : m # making /\ m \notin Anc[making] \ (Anc[p] \cup {p})
                            => prov'[m] = prov[m]
  BY <1>2 DEF UpdateParents
<1>4. /\ parent'[making] = p
      /\ \A n \in Nodes : n # making => parent'[n] = parent[n]
  BY <1>1, <1>2
<1>5. MakingInv'
  BY <1>1 DEF TreeInv, MakingInv
<1>6. ProvSound'
  BY <1>2, <1>3 DEF TreeInv, ProvSound
<1>7. ProvComplete'
  <2> SUFFICES ASSUME NEW m \in Names \ loggers, NEW n \in loggers, m \in Anc[n],
                      \A k \in Anc[n] \cap loggers : m \notin Anc[k]
               PROVE  n \in prov'[m]
    BY <1>2 DEF ProvComplete
  <2>1. CASE n = making
    <3>1. m \notin Anc[p] \cup {p}
      BY <1>1, <1>2, <2>1 DEF Nearest
    <3> QED BY <1>2, <1>3, <2>1, <3>1
  <2>2. CASE n # making
    <3>1. n \in prov[m]
      BY <1>2, <2>2 DEF TreeInv, ProvComplete
    <3> QED BY <1>2, <1>3, <3>1
  <2> QED BY <2>1, <2>2
<1>8. ParentInv'
  <2>1. ASSUME NEW n \in loggers PROVE Nearest(parent'[n], n, loggers)
    <3>1. CASE n = making
      BY <1>1, <1>2, <1>4, <3>1 DEF Nearest
    <3>2. CASE n # making /\ making \in Anc[n]
      BY ZenonT(40), <1>1, <1>2, <1>4, <3>2 DEF TreeInv, ParentInv, Relinked
    <3>3. CASE n # making /\ making \notin Anc[n]
      <4>1. Nearest(parent[n], n, Complete)
        BY <1>2, <3>3 DEF TreeInv, ParentInv, Relinked
      <4> QED BY <1>2, <1>4, <3>3, <4>1 DEF Nearest
    <3> QED BY <3>1, <3>2, <3>3
  <2> QED BY ZenonT(40), <1>1, <1>2, <1>4, <2>1 DEF TreeInv, ParentInv, Relinked
<1> QED BY <1>5, <1>6, <1>7, <1>8 DEF TreeInv

LEMMA TreeInduction ==
  ASSUME RootNotPrefixed, TypeOK, TreeInv, [Next]_vars
  PROVE  TreeInv'
<1>1. CASE Create
  BY <1>1, GetInstanceTree, SkipChildTree, LinkAboveTree, RelinkTree, UpdateParentsTree
     DEF Create
<1>2. CASE ~Create
  <2>1. /\ loggers' = loggers /\ parent' = parent /\ prov' = prov /\ making' = making
        /\ todo' = todo /\ moving' = moving /\ Complete' = Complete
    BY <1>2, OnlyCreateChangesTree DEF treeVars, Complete
  <2>2. MakingInv' /\ ProvSound' /\ ProvComplete'
    BY <2>1 DEF TreeInv, MakingInv, ProvSound, ProvComplete
  <2>3. \A n : Relinked(n)' = Relinked(n)
    BY <2>1 DEF Relinked
  <2>4. ParentInv'
    BY <2>1, <2>3 DEF TreeInv, ParentInv
  <2> QED BY <2>2, <2>4 DEF TreeInv
<1> QED BY <1>1, <1>2

(* TreeInv holds at every point of every creation.                         *)
THEOREM TreeInvariant ==
  ASSUME RootNotPrefixed
  PROVE  Spec => []TreeInv
<1>1. Init => TreeInv
  BY NameAssumption
     DEF Init, TreeInv, MakingInv, ProvSound, ProvComplete, ParentInv, Complete, Nodes
<1>2. TypeOK /\ TreeInv /\ [Next]_vars => TreeInv'
  BY TreeInduction
<1> QED BY <1>1, <1>2, TypeCorrect, PTL DEF Spec

(* In whatever order loggers are created, between creations the parent of  *)
(* every logger is its nearest existing ancestor, or the root.             *)
THEOREM ParentsAreNearest ==
  ASSUME RootNotPrefixed
  PROVE  Spec => []NearestParent
<1>1. TypeOK /\ TreeInv => NearestParent
  <2> SUFFICES ASSUME TypeOK, TreeInv, making = Null, NEW n \in loggers
               PROVE  Nearest(parent[n], n, loggers)
    BY DEF NearestParent
  <2>1. Complete = loggers /\ ~Relinked(n)
    BY NameAssumption DEF TypeOK, Complete, Relinked
  <2> QED BY <2>1 DEF TreeInv, ParentInv
<1> QED BY <1>1, TypeCorrect, TreeInvariant, PTL

-----------------------------------------------------------------------------
LEMMA RootHasNoParent ==
  ASSUME TypeOK, TreeInv
  PROVE  parent[Root] = Null
BY NotNames DEF TypeOK, TreeInv, ParentInv

(* A link leads from a logger that a walk can stand on to another such     *)
(* logger, above it, and passes over no complete logger.                   *)
LEMMA UpLink ==
  ASSUME TypeOK, TreeInv, NEW c \in loggers, c = making => parent[making] # Null
  PROVE  /\ Nearest(parent[c], c, Complete) \/ parent[c] = making
         /\ parent[c] \in loggers \cup {Root}
         /\ parent[c] = making => parent[making] # Null
         /\ parent[c] # Root =>
              /\ parent[c] \in Anc[c]
              /\ Anc[c] \cap Complete \subseteq Anc[parent[c]] \cup {parent[c]}
<1> USE NameAssumption DEF TypeOK, Nodes
<1>1. CASE c = making
  BY <1>1 DEF TreeInv, ParentInv, Nearest, Complete
<1>2. CASE c # making
  <2>1. c \in Complete /\ Complete \subseteq loggers
    BY <1>2 DEF Complete
  <2>2. Nearest(parent[c], c, IF Relinked(c) THEN loggers ELSE Complete)
    BY <2>1 DEF TreeInv, ParentInv
  <2>3. making \in Names => (parent[c] = making => parent[making] # Null)
    BY <2>1 DEF TreeInv, ParentInv
  <2>4. parent[c] \in loggers \cup {Root}
    BY SMTT(40), <2>1, <2>2 DEF Nearest
  <2>5. CASE Relinked(c)
    BY SMTT(40), <2>1, <2>2, <2>3, <2>4, <2>5 DEF Nearest, Complete
  <2>6. CASE ~Relinked(c)
    BY <2>1, <2>2, <2>3, <2>4, <2>6 DEF Nearest, Complete
  <2> QED BY <2>5, <2>6
<1> QED BY <1>1, <1>2

(* Creation steps do not pull the ground from under a walk.                *)
LEMMA CreateKeepsWalk ==
  ASSUME RootNotPrefixed, TypeOK, TreeInv, WalkInv, Create
  PROVE  WalkInv'
<1> USE NameAssumption DEF TypeOK, Nodes
<1>1. walkVars' = walkVars
  BY SMTT(40) DEF Create, GetInstanceImpl, SkipChild, LinkAboveChild, RelinkChild, UpdateParents
<1>2. Complete \subseteq Complete' /\ loggers \subseteq loggers'
  BY SMTT(40) DEF Create, GetInstanceImpl, SkipChild, LinkAboveChild, RelinkChild, UpdateParents,
         Complete, TreeInv, MakingInv
<1>3. ASSUME NEW c \in loggers \cup {Root}, c = making => parent[making] # Null, c = making'
      PROVE  parent'[making'] # Null
  <2>1. CASE \E n \in Names : GetInstanceImpl(n)
    BY <1>3, <2>1 DEF GetInstanceImpl
  <2>2. ASSUME NEW n \in Names, SkipChild(n) PROVE parent'[making'] # Null
    BY <1>3, <2>2 DEF SkipChild
  <2>3. ASSUME NEW n \in Names, LinkAboveChild(n) PROVE parent'[making'] # Null
    <3>1. making \in Names /\ moving' # Null /\ making' = making
      BY SMTT(40), <2>3 DEF LinkAboveChild
    <3>2. MakingInv'
      BY <2>3, LinkAboveTree DEF TreeInv
    <3> QED BY <3>1, <3>2 DEF MakingInv
  <2>4. CASE RelinkChild
    BY <1>3, <2>4 DEF RelinkChild, TreeInv, MakingInv
  <2>5. CASE \E p \in Nodes : UpdateParents(p)
    BY <1>3, <2>5 DEF UpdateParents
  <2> QED BY <2>1, <2>2, <2>3, <2>4, <2>5 DEF Create
<1> HIDE NameAssumption DEF TypeOK, Nodes
<1> QED BY <1>1, <1>2, <1>3 DEF WalkInv, walkVars, Handles

(* Assignments to levels and flags do not touch what WalkInv speaks of.    *)
LEMMA ConfigureKeepsWalk ==
  ASSUME WalkInv, Configure \/ UNCHANGED vars
  PROVE  WalkInv'
<1>1. /\ UNCHANGED treeVars
      /\ UNCHANGED <<pc, start, pos, visited, due>>
  BY SMTT(40) DEF Configure, SetLogLevel, SetAdditivity, Disable, EnableAll, vars, treeVars, walkVars
<1> QED BY <1>1 DEF WalkInv, treeVars, Handles, Complete

(* The steps of log() preserve WalkInv.                                    *)
LEMMA LogKeepsWalk ==
  ASSUME TypeOK, TreeInv, WalkInv, NEW t \in Threads, Log(t)
  PROVE  WalkInv'
<1> DEFINE WalkOf(u) ==
      pc[u] \in {"level", "append"} =>
        /\ start[u] \in Handles
        /\ pos[u] \in loggers \cup {Root}
        /\ pos[u] = making => parent[making] # Null
        /\ due[u] \subseteq Handles
        /\ pc[u] = "level" =>
             visited[u] = {} /\ due[u] \subseteq Anc[start[u]] \cup {start[u], Root}
        /\ pc[u] = "append" =>
             /\ due[u] \subseteq visited[u] \cup Anc[pos[u]] \cup {pos[u], Root}
             /\ visited[u] \cap (Anc[pos[u]] \cup {pos[u], Root}) = {}
<1>1. /\ loggers' = loggers /\ parent' = parent /\ making' = making
      /\ Handles' = Handles /\ Complete' = Complete
  BY SMTT(40) DEF Log, IsEnabledFor, LevelFound, LevelUp, Rethrown, CallAppenders, treeVars,
         Handles, Complete
<1>2. ASSUME NEW u \in Threads, u # t PROVE WalkOf(u)'
  <2>1. /\ pc'[u] = pc[u] /\ start'[u] = start[u] /\ pos'[u] = pos[u]
        /\ visited'[u] = visited[u] /\ due'[u] = due[u]
    BY SMTT(40), <1>2 DEF Log, IsEnabledFor, LevelFound, LevelUp, Rethrown, CallAppenders, TypeOK
  <2>2. WalkOf(u)
    BY ZenonT(40) DEF WalkInv
  <2> QED BY ZenonT(40), <1>1, <2>1, <2>2
<1>3. WalkOf(t)'
  <2>1. WalkOf(t)
    BY ZenonT(40) DEF WalkInv
  <2>2. loggers \subseteq Names /\ Complete \subseteq loggers /\ making \notin Handles
    BY NameAssumption DEF TypeOK, Complete, Handles
  <2>3. ASSUME NEW n \in Nodes, NEW l \in Levels, IsEnabledFor(t, n, l) PROVE WalkOf(t)'
    <3>1. /\ pc'[t] = "level" /\ start'[t] = n /\ pos'[t] = n /\ visited'[t] = {}
          /\ due'[t] = (Anc[n] \cap Complete) \cup {n, Root} /\ n \in Handles
      BY SMTT(40), <2>3 DEF IsEnabledFor, TypeOK
    <3> QED BY SMTT(40), <1>1, <2>2, <3>1 DEF Handles
  <2>4. CASE LevelFound(t)
    <3>1. /\ pc[t] = "level" /\ start'[t] = start[t] /\ visited'[t] = visited[t]
          /\ due'[t] = due[t]
          /\ (pc'[t] = "append" /\ pos'[t] = start[t]) \/ pc'[t] = "idle"
      BY SMTT(40), <2>4 DEF LevelFound, TypeOK
    <3> QED BY <1>1, <2>1, <2>2, <3>1 DEF Handles
  <2>5. CASE LevelUp(t)
    <3>1. /\ pc[t] = "level" /\ start'[t] = start[t] /\ visited'[t] = visited[t]
          /\ due'[t] = due[t] /\ pos'[t] = parent[pos[t]]
          /\ (pc'[t] = "level" /\ parent[pos[t]] # Null) \/ pc'[t] = "threw"
      BY SMTT(40), <2>5 DEF LevelUp, TypeOK
    <3>2. CASE pos[t] = Root
      BY ZenonT(40), <3>1, <3>2, RootHasNoParent
    <3>3. CASE pos[t] # Root
      <4>1. pos[t] \in loggers /\ (pos[t] = making => parent[making] # Null)
        BY ZenonT(40), <2>1, <3>1, <3>3
      <4>2. /\ parent[pos[t]] \in loggers \cup {Root}
            /\ parent[pos[t]] = making => parent[making] # Null
        BY <4>1, UpLink
      <4> QED BY ZenonT(40), <1>1, <2>1, <3>1, <4>2
    <3> QED BY <3>2, <3>3
  <2>6. CASE Rethrown(t)
    BY ZenonT(40), <2>6 DEF Rethrown, TypeOK
  <2>7. CASE CallAppenders(t)
    <3>1. /\ pc[t] = "append" /\ start'[t] = start[t] /\ due'[t] = due[t]
          /\ visited'[t] = visited[t] \cup {pos[t]}
          /\ \/ /\ pc'[t] = "append" /\ pos'[t] = parent[pos[t]] /\ parent[pos[t]] # Null
             \/ pc'[t] = "idle"
      BY SMTT(40), <2>7 DEF CallAppenders, TypeOK
    <3>2. CASE pos[t] = Root
      BY ZenonT(40), <3>1, <3>2, RootHasNoParent
    <3>3. CASE pos[t] # Root
      <4> DEFINE c == pos[t]
                 p == parent[c]
      <4>1. c \in loggers /\ c \in Names /\ (c = making => parent[making] # Null)
        BY <2>1, <2>2, <3>1, <3>3
      <4>2. /\ p \in loggers \cup {Root}
            /\ p = making => parent[making] # Null
            /\ p # Root => p \in Anc[c] /\ Anc[c] \cap Complete \subseteq Anc[p] \cup {p}
            /\ Nearest(p, c, Complete) \/ p = making
        BY <4>1, UpLink
      <4>3. p = Root => Anc[c] \cap Complete = {}
        <5>1. p = Root => p # making /\ p \notin Anc[c]
          BY SMTT(40), <4>1, AncNames, NotNames DEF TypeOK
        <5> QED BY <4>2, <5>1 DEF Nearest
      <4>4. due[t] \subseteq visited[t] \cup {c} \cup Anc[p] \cup {p, Root}
        BY SMTT(40), <2>1, <3>1, <4>2, <4>3 DEF Handles
      <4>5. p # Root => Anc[p] \cup {p} \subseteq Anc[c]
        BY <4>1, <4>2, NameAssumption
      <4>6. (visited[t] \cup {c}) \cap (Anc[p] \cup {p, Root}) = {}
        <5>1. visited[t] \cap (Anc[c] \cup {c, Root}) = {}
          BY <2>1, <3>1
        <5>2. c \notin Anc[c] /\ c # Root /\ Anc[Root] = {}
          BY <4>1, AncNames, NotNames
        <5>3. Anc[p] \cup {p, Root} \subseteq Anc[c] \cup {Root}
          BY <4>5, <5>2
        <5> QED BY SMTT(40), <5>1, <5>2, <5>3
      <4> QED BY SMTT(40), <1>1, <2>1, <3>1, <4>2, <4>4, <4>6
    <3> QED BY <3>2, <3>3
  <2> QED BY ZenonT(40), <2>3, <2>4, <2>5, <2>6, <2>7 DEF Log
<1> QED BY SMTT(40), <1>2, <1>3 DEF WalkInv

(* A walk stands on a linked logger and has every ancestor it still owes   *)
(* the event to above it, and none it has already served.                  *)
THEOREM WalkInvariant ==
  ASSUME RootNotPrefixed
  PROVE  Spec => []WalkInv
<1>1. Init => WalkInv
  BY DEF Init, WalkInv
<1>2. TypeOK /\ TreeInv /\ WalkInv /\ [Next]_vars => WalkInv'
  BY CreateKeepsWalk, ConfigureKeepsWalk, LogKeepsWalk DEF Next
<1> QED BY <1>1, <1>2, TypeCorrect, TreeInvariant, PTL DEF Spec

(* One call of log() never offers the event to the same logger twice.      *)
THEOREM AppendersCalledOnce ==
  ASSUME RootNotPrefixed
  PROVE  Spec => []NoDoubleAppend
<1>1. WalkInv => NoDoubleAppend
  BY DEF WalkInv, NoDoubleAppend
<1> QED BY <1>1, WalkInvariant, PTL

(* An additive walk that ends has offered the event to every ancestor that *)
(* existed when log() was called, however many loggers were created during *)
(* the walk.                                                               *)
THEOREM NoAncestorMissed ==
  ASSUME RootNotPrefixed
  PROVE  Spec => EveryAncestorAppends
<1> DEFINE A == \A t \in Threads :
       /\ pc[t] = "append" /\ pc'[t] = "idle" /\ additive[pos[t]]
       => due[t] \subseteq visited'[t]
<1>1. TypeOK /\ TreeInv /\ WalkInv /\ [Next]_vars => [A]_vars
  <2> SUFFICES ASSUME TypeOK, TreeInv, WalkInv, Next, NEW t \in Threads,
                      pc[t] = "append", pc'[t] = "idle", additive[pos[t]]
               PROVE  due[t] \subseteq visited'[t]
    BY SMTT(40)
  <2>1. PICK u \in Threads : Log(u)
    BY SMTT(40) DEF Next, Create, Configure, GetInstanceImpl, SkipChild, LinkAboveChild,
       RelinkChild, UpdateParents, SetLogLevel, SetAdditivity, Disable, EnableAll, walkVars
  <2>2. u = t /\ CallAppenders(t)
    BY <2>1 DEF Log, IsEnabledFor, LevelFound, LevelUp, Rethrown, CallAppenders, TypeOK
  <2>3. parent[pos[t]] = Null /\ visited'[t] = visited[t] \cup {pos[t]}
    BY <2>2 DEF CallAppenders, TypeOK
  <2>4. pos[t] = Root
    <3>1. pos[t] \in loggers \cup {Root} /\ (pos[t] = making => parent[making] # Null)
      BY DEF WalkInv
    <3>2. pos[t] \in loggers => parent[pos[t]] \in loggers \cup {Root}
      BY <3>1, UpLink
    <3>3. Null \notin loggers \cup {Root}
      BY NotNames DEF TypeOK
    <3> QED BY <2>3, <3>1, <3>2, <3>3
  <2> QED BY <2>3, <2>4, NameAssumption DEF WalkInv
<1> QED BY <1>1, TypeCorrect, TreeInvariant, WalkInvariant, PTL DEF Spec, EveryAncestorAppends

(* The search for a level fails only at a root without one: no             *)
(* intermediate state of a creation shows a walk a null parent.            *)
THEOREM LevelSearchSucceeds ==
  ASSUME RootNotPrefixed
  PROVE  Spec => LevelAlwaysFound
<1> DEFINE A == \A t \in Threads :
       pc[t] = "level" /\ pc'[t] = "threw"
       => pos[t] = Root /\ ll[Root] = NOT_SET_LOG_LEVEL
<1>1. TypeOK /\ TreeInv /\ WalkInv /\ [Next]_vars => [A]_vars
  <2> SUFFICES ASSUME TypeOK, TreeInv, WalkInv, Next, NEW t \in Threads,
                      pc[t] = "level", pc'[t] = "threw"
               PROVE  pos[t] = Root /\ ll[Root] = NOT_SET_LOG_LEVEL
    BY SMTT(40)
  <2>1. PICK u \in Threads : Log(u)
    BY SMTT(40) DEF Next, Create, Configure, GetInstanceImpl, SkipChild, LinkAboveChild,
       RelinkChild, UpdateParents, SetLogLevel, SetAdditivity, Disable, EnableAll, walkVars
  <2>2. u = t /\ LevelUp(t)
    BY <2>1 DEF Log, IsEnabledFor, LevelFound, LevelUp, Rethrown, CallAppenders, TypeOK
  <2>3. parent[pos[t]] = Null /\ ll[pos[t]] = NOT_SET_LOG_LEVEL
    BY <2>2 DEF LevelUp, TypeOK
  <2>4. pos[t] = Root
    <3>1. pos[t] \in loggers \cup {Root} /\ (pos[t] = making => parent[making] # Null)
      BY DEF WalkInv
    <3>2. pos[t] \in loggers => parent[pos[t]] \in loggers \cup {Root}
      BY <3>1, UpLink
    <3>3. Null \notin loggers \cup {Root}
      BY NotNames DEF TypeOK
    <3> QED BY <2>3, <3>1, <3>2, <3>3
  <2> QED BY <2>3, <2>4
<1> QED BY <1>1, TypeCorrect, TreeInvariant, WalkInvariant, PTL DEF Spec, LevelAlwaysFound

=============================================================================
