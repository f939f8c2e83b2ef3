-------------------------- MODULE ConfigWatchProofs --------------------------
(***************************************************************************)
(* Proofs about ConfigWatch: the state is well-formed, and a change of the *)
(* watched file goes unnoticed only if it falls between reading the file   *)
(* and recording its time and size, or leaves the file the recorded size   *)
(* and no later time, for any clock, any number of changes and any sizes.  *)
(***************************************************************************)
EXTENDS ConfigWatch, TLAPS

(* The file, wherever it is, differs from what was recorded of it.         *)
Changed == mtime > last.mtime \/ size # last.size

(* Why no change is lost, at each place of the constructor and the loop.   *)
(* A file that is there when it is read is current, or was changed since;  *)
(* one that was away is still told from what was recorded when it comes    *)
(* back, unless it comes back in the window.                               *)
Noticed ==
  /\ pc = "construct" => last.size = 0 /\ applied = 0
  /\ pc = "examine" => last.size = 0 /\ (exists => properties = version \/ missed)
  /\ pc = "first" => version = 0 \/ properties = version \/ Changed \/ missed
  /\ pc \in {"wait", "check"} => version = 0 \/ applied = version \/ Changed \/ missed
  /\ pc \in {"reset", "read"} => Changed \/ missed
  /\ pc = "configure" => /\ exists => properties = version \/ missed
                         /\ properties = version \/ Changed \/ missed
  /\ pc = "update" => /\ exists => applied = version \/ missed
                      /\ applied = version \/ Changed \/ missed
  /\ exists => version > 0
  /\ pc \in {"examine", "first", "read"} => applied = 0

(* What ConfigWatch records of the file is a time and a size.              *)
Recorded == last = [mtime |-> last.mtime, size |-> last.size]

Invariant == TypeOK /\ Recorded /\ Noticed

LEMMA InitInvariant == Init => Invariant
<1> SUFFICES ASSUME Init PROVE Invariant
  OBVIOUS
<1>1. exists \in BOOLEAN /\ terminated \in BOOLEAN /\ missed \in BOOLEAN
  BY Zenon DEF Init
<1>2. TypeOK
  BY <1>1, ConfigWatchAssumption DEF Init, TypeOK
<1>3. Recorded /\ Noticed
  BY SMTT(40) DEF Init, Recorded, Noticed
<1> QED BY <1>2, <1>3 DEF Invariant

LEMMA StepInvariant == Invariant /\ [Next]_vars => Invariant'
<1> SUFFICES ASSUME Invariant, [Next]_vars PROVE Invariant'
  OBVIOUS
<1> USE ConfigWatchAssumption DEF Invariant, TypeOK, Recorded, Noticed, Changed
<1>1. CASE Tick
  BY <1>1 DEF Tick
<1>2. CASE Edit
  <2>0. missed' \in BOOLEAN /\ exists' \in BOOLEAN
    BY <1>2, Zenon DEF Edit
  <2>1. TypeOK'
    BY <1>2, <2>0 DEF Edit
  <2>2. Recorded'
    BY <1>2 DEF Edit
  <2>3. missed' <=> InWindow \/ Hidden(mtime', size')
    BY <1>2, Zenon DEF Edit
  <2>4. Changed' \/ missed'
    BY <1>2, <2>1, <2>3 DEF Edit, Hidden
  <2>5. pc \in {"examine", "configure", "update"} => missed'
    BY <2>3, Zenon DEF InWindow
  <2>6. Noticed'
    BY <1>2, <2>4, <2>5 DEF Edit
  <2> QED BY <2>1, <2>2, <2>6
<1>3. CASE MoveAway
  <2>0. exists' \in BOOLEAN /\ missed' \in BOOLEAN
    BY <1>3, Zenon DEF MoveAway
  <2>1. TypeOK'
    BY <1>3, <2>0 DEF MoveAway
  <2>2. Recorded'
    BY <1>3 DEF MoveAway
  <2>3. Noticed'
    BY <1>3 DEF MoveAway
  <2> QED BY <2>1, <2>2, <2>3
<1>4. CASE MoveBack
  BY ZenonT(40), <1>4 DEF MoveBack, InWindow
<1>5. CASE Construct
  <2>0. exists' \in BOOLEAN /\ missed' \in BOOLEAN
    BY <1>5, Zenon DEF Construct, ReadFile, fileVars
  <2>1. TypeOK'
    BY <1>5, <2>0 DEF Construct, ReadFile, fileVars
  <2>2. Recorded'
    BY <1>5 DEF Construct, ReadFile, fileVars
  <2>3. Noticed'
    BY <1>5 DEF Construct, ReadFile, fileVars
  <2> QED BY <2>1, <2>2, <2>3
<1>6. CASE Examine
  BY <1>6 DEF Examine, UpdateLastModInfo, fileVars
<1>7. CASE FirstConfigure
  BY <1>7 DEF FirstConfigure, fileVars
<1>8. CASE Wait
  BY <1>8 DEF Wait, fileVars
<1>9. CASE CheckForFileModification
  BY <1>9 DEF CheckForFileModification, Modified, fileVars
<1>10. CASE ResetConfiguration
  BY <1>10 DEF ResetConfiguration, fileVars
<1>11. CASE Reconfigure
  <2>0. exists' \in BOOLEAN /\ missed' \in BOOLEAN
    BY <1>11, Zenon DEF Reconfigure, ReadFile, fileVars
  <2>1. TypeOK'
    BY <1>11, <2>0 DEF Reconfigure, ReadFile, fileVars
  <2>2. Recorded'
    BY <1>11 DEF Reconfigure, ReadFile, fileVars
  <2>3. Noticed'
    BY <1>11 DEF Reconfigure, ReadFile, fileVars
  <2> QED BY <2>1, <2>2, <2>3
<1>12. CASE Configure
  BY <1>12 DEF Configure, fileVars
<1>13. CASE Update
  BY <1>13 DEF Update, UpdateLastModInfo, fileVars
<1>14. CASE Terminate
  BY <1>14 DEF Terminate, fileVars
<1>15. CASE UNCHANGED vars
  BY <1>15 DEF vars
<1> QED
  BY ZenonT(40), <1>1, <1>2, <1>3, <1>4, <1>5, <1>6, <1>7, <1>8, <1>9, <1>10, <1>11, <1>12,
     <1>13, <1>14, <1>15 DEF Next, Run

LEMMA InvariantHolds == Spec => []Invariant
  BY InitInvariant, StepInvariant, PTL DEF Spec

(* The state stays well-formed; in particular the hierarchy is never given *)
(* a configuration that was not read from the file.                        *)
THEOREM WatchTypeCorrect == Spec => []TypeOK
  BY InvariantHolds, PTL DEF Invariant

(* While the thread waits, the file's configuration is in force, or the    *)
(* next look at the file will tell, or the last change fell into the       *)
(* window between reconfigure() and updateLastModInfo() or left the file   *)
(* with the recorded size and no later time.                               *)
THEOREM ChangesNoticed == Spec => []CurrentOrNoticed
<1>1. Invariant => CurrentOrNoticed
  BY DEF Invariant, TypeOK, Noticed, Changed, CurrentOrNoticed, Modified
<1> QED BY <1>1, InvariantHolds, PTL

=============================================================================
