----------------------------- MODULE ConfigWatch -----------------------------
(***************************************************************************)
(* ConfigureAndWatchThread and ConfigurationWatchDogThread                 *)
(* (src/configurator.cxx): a thread that looks at the properties file from *)
(* time to time and reconfigures the hierarchy when the file's             *)
(* modification time or size says that it has changed.                     *)
(*                                                                         *)
(* The contents of the file are a version number; 0 is no file, and the    *)
(* configuration of an empty Properties object.                            *)
(***************************************************************************)
EXTENDS Naturals

CONSTANTS
  Sizes,          \* possible sizes of the file
  MaxTime,        \* bound on the clock, in seconds
  MaxEdits        \* bound on the changes of the file

ASSUME ConfigWatchAssumption ==
  /\ Sizes \subseteq Nat \ {0} /\ MaxTime \in Nat \ {0} /\ MaxEdits \in Nat

VARIABLES
  now,         \* the clock
  edits,       \* number of changes of the file
  exists,      \* the file is there
  version,     \* its contents
  mtime, size, \* what stat() says of it
  last,        \* lastFileInfo
  properties,  \* version the configurator has read
  applied,     \* version the hierarchy is configured with
  pc,          \* where the constructor and then the thread are
  terminated,  \* shouldTerminate is signalled
  missed       \* history: the last change of the file cannot be seen (Hidden)

fileVars == <<now, edits, exists, version, mtime, size>>
vars == <<now, edits, exists, version, mtime, size, last, properties, applied, pc,
          terminated, missed>>

(* The state is well-formed; configurations come from the file.            *)
TypeOK ==
  /\ now \in 1..MaxTime /\ edits \in 0..MaxEdits
  /\ exists \in BOOLEAN /\ version \in 0..edits
  /\ mtime \in 0..now /\ size \in Sizes
  /\ last.mtime \in 0..now /\ last.size \in Sizes \union {0}
  /\ properties \in 0..version /\ applied \in 0..properties
  /\ pc \in {"construct", "examine", "first", "wait", "check", "reset", "read",
             "configure", "update", "done"}
  /\ terminated \in BOOLEAN /\ missed \in BOOLEAN

Init ==
  /\ now = 1 /\ edits = 0
  /\ exists = FALSE /\ version = 0 /\ mtime = 0 /\ size \in Sizes
  /\ last = [mtime |-> 0, size |-> 0]
  /\ properties = 0 /\ applied = 0
  /\ pc = "construct" /\ terminated = FALSE /\ missed = FALSE

-----------------------------------------------------------------------------
(* The world: time passes, the file is written, moved away and back.       *)

Tick ==
  /\ now < MaxTime /\ now' = now + 1
  /\ UNCHANGED <<edits, exists, version, mtime, size, last, properties, applied, pc>>
  /\ UNCHANGED <<terminated, missed>>

(* Between reading the file and examining it.                              *)
InWindow == pc \in {"examine", "configure", "update"}

(* A file with time t and size n looks like the recorded one.              *)
Hidden(t, n) == t <= last.mtime /\ n = last.size

(* The file is written, now or, if it is replaced by another one, at some  *)
(* earlier time.  st_mtime counts seconds: several writes may share one.   *)
Edit ==
  /\ edits < MaxEdits /\ edits' = edits + 1
  /\ exists' = TRUE /\ version' = edits + 1
  /\ mtime' \in 1..now /\ size' \in Sizes
  /\ missed' = (InWindow \/ Hidden(mtime', size'))
  /\ UNCHANGED <<now, last, properties, applied, pc, terminated>>

MoveAway ==
  /\ exists /\ edits < MaxEdits /\ edits' = edits + 1
  /\ exists' = FALSE
  /\ UNCHANGED <<now, version, mtime, size, last, properties, applied, pc>>
  /\ UNCHANGED <<terminated, missed>>

MoveBack ==
  /\ ~exists /\ version > 0
  /\ exists' = TRUE
  /\ missed' = (missed \/ InWindow)
  /\ UNCHANGED <<now, edits, version, mtime, size, last, properties, applied, pc, terminated>>

-----------------------------------------------------------------------------
(* The constructor of ConfigurationWatchDogThread, then configure().       *)

(* Properties (file): an absent file is reported and leaves them empty.    *)
ReadFile ==
  /\ properties' = IF exists THEN version ELSE 0
  /\ missed' = (missed /\ ~exists)

(* Faulty: the information is taken over when the file is absent, too.     *)
UpdateLastModInfoAlways == last' = [mtime |-> now, size |-> size]

UpdateLastModInfo ==
  IF exists THEN last' = [mtime |-> mtime, size |-> size] ELSE UNCHANGED last

Construct ==
  /\ pc = "construct"
  /\ ReadFile
  /\ last' = [mtime |-> now, size |-> 0]
  /\ pc' = "examine"
  /\ UNCHANGED <<applied, terminated>> /\ UNCHANGED fileVars

Examine ==
  /\ pc = "examine"
  /\ UpdateLastModInfo
  /\ pc' = "first"
  /\ UNCHANGED <<properties, applied, terminated, missed>> /\ UNCHANGED fileVars

(* ConfigureAndWatchThread's constructor configures and starts the thread. *)
FirstConfigure ==
  /\ pc = "first"
  /\ applied' = properties
  /\ pc' = "wait"
  /\ UNCHANGED <<last, properties, terminated, missed>> /\ UNCHANGED fileVars

-----------------------------------------------------------------------------
(* ConfigurationWatchDogThread::run and terminate.                         *)

Wait ==
  /\ pc = "wait"
  /\ pc' = IF terminated THEN "done" ELSE "check"
  /\ UNCHANGED <<last, properties, applied, terminated, missed>> /\ UNCHANGED fileVars

(* Faulty: goes by the size of the file alone.                             *)
ModifiedSize == exists /\ size # last.size

(* checkForFileModification; stat() follows links, so is_link is never set.*)
Modified == exists /\ (mtime > last.mtime \/ size # last.size)

CheckForFileModification ==
  /\ pc = "check"
  /\ pc' = IF Modified THEN "reset" ELSE "wait"
  /\ UNCHANGED <<last, properties, applied, terminated, missed>> /\ UNCHANGED fileVars

(* HierarchyLocker::resetConfiguration.                                    *)
ResetConfiguration ==
  /\ pc = "reset"
  /\ applied' = 0
  /\ pc' = "read"
  /\ UNCHANGED <<last, properties, terminated, missed>> /\ UNCHANGED fileVars

Reconfigure ==
  /\ pc = "read"
  /\ ReadFile
  /\ pc' = "configure"
  /\ UNCHANGED <<last, applied, terminated>> /\ UNCHANGED fileVars

Configure ==
  /\ pc = "configure"
  /\ applied' = properties
  /\ pc' = "update"
  /\ UNCHANGED <<last, properties, terminated, missed>> /\ UNCHANGED fileVars

(* Faulty: the information is not updated.                                 *)
UpdateNot ==
  /\ pc = "update"
  /\ pc' = "wait"
  /\ UNCHANGED <<last, properties, applied, terminated, missed>> /\ UNCHANGED fileVars

Update ==
  /\ pc = "update"
  /\ UpdateLastModInfo
  /\ pc' = "wait"
  /\ UNCHANGED <<properties, applied, terminated, missed>> /\ UNCHANGED fileVars

(* ~ConfigureAndWatchThread signals and joins.                             *)
Terminate ==
  /\ ~terminated /\ pc \notin {"construct", "examine", "first"}
  /\ terminated' = TRUE
  /\ UNCHANGED <<last, properties, applied, pc, missed>> /\ UNCHANGED fileVars

-----------------------------------------------------------------------------
Run ==
  \/ Construct \/ Examine \/ FirstConfigure
  \/ Wait \/ CheckForFileModification \/ ResetConfiguration \/ Reconfigure
  \/ Configure \/ Update

Next == Tick \/ Edit \/ MoveAway \/ MoveBack \/ Run \/ Terminate

Spec == Init /\ [][Next]_vars

(* The thread runs and its timed waits end.                                *)
FairSpec == Spec /\ WF_vars(Run)

-----------------------------------------------------------------------------
(* While the thread waits, the hierarchy has the configuration that is in  *)
(* the file, or the next look at the file will tell that it has changed.   *)
(* There are two exceptions, both in `missed': the last change fell        *)
(* between the moment the file was read and the moment its time and size   *)
(* were recorded (configurator.cxx:557), or it gave the file the recorded  *)
(* size and a time no later than the recorded one, as a second change      *)
(* within a second does (configurator.cxx:596).                            *)
CurrentOrNoticed ==
  pc = "wait" /\ exists => applied = version \/ Modified \/ missed

(* When the file stays, its configuration is in force sooner or later,     *)
(* unless the watch is ended or the last change was made between reading   *)
(* and examining the file or left it the recorded size and no later time   *)
(* (configurator.cxx:544).                                                 *)
ConfigurationFollows ==
  <>[]exists => []<>(applied = version \/ missed \/ terminated)

(* The thread does not reconfigure a hierarchy over and over: once the     *)
(* file is left alone it is quiet (configurator.cxx:617).                  *)
Settles == <>[](pc \notin {"reset", "read", "configure", "update"})

=============================================================================
