----------------------------- MODULE RollingFile -----------------------------
(***************************************************************************)
(* RollingFileAppender (src/fileappender.cxx) in several processes that    *)
(* share one log file with UseLockFile=true.  Each process keeps the file  *)
(* open; whoever finds it too large renames it to file.1, after moving the *)
(* older backups up, and opens a new one.  The others still hold the file  *)
(* that was renamed and have to notice.                                    *)
(*                                                                         *)
(* The files are inodes reached through names: name[0] is the log file,    *)
(* name[i] is the backup file.i.  Events are numbered as they are written. *)
(* Any process may die at any step; the system then releases its lock.     *)
(***************************************************************************)
EXTENDS Integers, Sequences, FiniteSets, SequencesExt

CONSTANTS
  Procs,           \* processes with an appender on the file
  MaxFileSize,     \* RollingFileAppender::maxFileSize
  MaxBackupIndex,  \* RollingFileAppender::maxBackupIndex
  EventSize,       \* size of a formatted event
  MaxEvents,       \* bound on the events written
  MaxCrashes,      \* bound on the crashes
  MaxFailures,     \* bound on the failures to open the log file
  MaxUnrenamed,    \* bound on the renames that fail
  MaxTruncations,  \* bound on the processes that start with Append=false
  Nobody           \* holder of the free lock file

(* RollingFileAppender::init makes maxBackupIndex at least 1.              *)
ASSUME RollingFileAssumption ==
  /\ IsFiniteSet(Procs) /\ Nobody \notin Procs
  /\ MaxFileSize \in Nat \ {0} /\ EventSize \in Nat \ {0}
  /\ MaxBackupIndex \in Nat \ {0}
  /\ MaxEvents \in Nat /\ MaxCrashes \in Nat
  /\ MaxFailures \in Nat /\ MaxUnrenamed \in Nat /\ MaxTruncations \in Nat

VARIABLES
  name,     \* the inode of each name, or None
  data,     \* the events in each inode
  out,      \* the inode of each process' output stream, or None
  lock,     \* holder of the lock file
  pc,       \* where each process is in append() and rollover()
  resume,   \* where rollover() returns to
  idx,      \* loop variable i of rolloverFiles
  written,  \* number of events written
  crashes,  \* number of crashes
  failures, \* number of failures to open the log file
  unrenamed, \* number of renames that failed with the source in place
  truncations, \* number of starts that emptied the file
  midway    \* history: one of them did so under an append() of another process

truncVars == <<truncations, midway>>
faultVars == <<crashes, failures, unrenamed, truncations, midway>>
vars == <<name, data, out, lock, pc, resume, idx, written, crashes, failures, unrenamed,
          truncations, midway>>

None == 0
Names == 0..MaxBackupIndex
(* Enough for every name, every stream and the file being created.         *)
Inodes == 1..(MaxBackupIndex + Cardinality(Procs) + 2)

TypeOK ==
  /\ name \in [Names -> Inodes \union {None}]
  /\ data \in [Inodes -> Seq(1..MaxEvents)]
  /\ out \in [Procs -> Inodes \union {None}]
  /\ lock \in Procs \union {Nobody}
  /\ pc \in [Procs -> {"down", "idle", "before", "write", "after", "recheck",
                       "remove", "shift", "open"}]
  /\ \A p \in Procs : pc[p] \notin {"down", "idle"} => lock = p
  /\ resume \in [Procs -> {"write", "idle"}]
  /\ idx \in [Procs -> 0..MaxBackupIndex]
  /\ written \in 0..MaxEvents /\ crashes \in 0..MaxCrashes
  /\ failures \in 0..MaxFailures /\ unrenamed \in 0..MaxUnrenamed
  /\ truncations \in 0..MaxTruncations /\ midway \in BOOLEAN

Init ==
  /\ name = [i \in Names |-> None]
  /\ data = [n \in Inodes |-> <<>>]
  /\ out = [p \in Procs |-> None]
  /\ lock = Nobody
  /\ pc = [p \in Procs |-> "down"]
  /\ resume = [p \in Procs |-> "idle"]
  /\ idx = [p \in Procs |-> 0]
  /\ written = 0 /\ crashes = 0
  /\ failures = 0 /\ unrenamed = 0
  /\ truncations = 0 /\ midway = FALSE

-----------------------------------------------------------------------------
(* The file system.                                                        *)

Size(n) == EventSize * Len(data[n])
InUse == {name[i] : i \in Names} \union {out[p] : p \in Procs}
NewInode == CHOOSE n \in Inodes : n \notin InUse

(* open (out | ate | app): an existing file keeps its contents.            *)
OpenApp(p) ==
  IF name[0] # None
  THEN out' = [out EXCEPT ![p] = name[0]] /\ UNCHANGED <<name, data, failures>>
  ELSE /\ name' = [name EXCEPT ![0] = NewInode]
       /\ data' = [data EXCEPT ![NewInode] = <<>>]
       /\ out' = [out EXCEPT ![p] = NewInode]
       /\ UNCHANGED failures

(* open (out | trunc): an existing file is emptied.                        *)
OpenTrunc(p) ==
  LET n == IF name[0] # None THEN name[0] ELSE NewInode
  IN  /\ name' = [name EXCEPT ![0] = n]
      /\ data' = [data EXCEPT ![n] = <<>>]
      /\ out' = [out EXCEPT ![p] = n]
      /\ UNCHANGED failures

OpenFails(p) ==
  /\ failures < MaxFailures
  /\ failures' = failures + 1
  /\ out' = [out EXCEPT ![p] = None]
  /\ UNCHANGED <<name, data>>

(* rename() replaces the target; a missing source is an error without      *)
(* effect (LOG4CPLUS_FILE_NOT_FOUND).                                      *)
Renamed(from, to) ==
  IF name[from] = None THEN name
  ELSE [name EXCEPT ![to] = name[from], ![from] = None]

Rename(from, to) ==
  \/ name' = Renamed(from, to) /\ UNCHANGED unrenamed
  \/ /\ unrenamed < MaxUnrenamed /\ unrenamed' = unrenamed + 1
     /\ UNCHANGED name

-----------------------------------------------------------------------------
(* FileAppenderBase::init opens the file in append mode, or empties it     *)
(* when the Append property is false.  It holds the lock for that, unless  *)
(* the LockFile property was given: then the lock exists already, and a    *)
(* process may open the file while another one is inside append().         *)
Start(p) ==
  /\ pc[p] = "down"
  /\ \/ (OpenApp(p) \/ OpenFails(p)) /\ UNCHANGED truncVars
     \/ /\ truncations < MaxTruncations /\ truncations' = truncations + 1
        /\ midway' = (midway \/ lock # Nobody)
        /\ OpenTrunc(p)
  /\ pc' = [pc EXCEPT ![p] = "idle"]
  /\ UNCHANGED <<lock, resume, idx, written, crashes, unrenamed>>

(* FileAppenderBase::close, at the end of the process.                     *)
Close(p) ==
  /\ pc[p] = "idle"
  /\ pc' = [pc EXCEPT ![p] = "down"]
  /\ out' = [out EXCEPT ![p] = None]
  /\ UNCHANGED <<name, data, lock, resume, idx, written>> /\ UNCHANGED faultVars

(* The process dies; every write was flushed, and its lock is released.    *)
Crash(p) ==
  /\ pc[p] # "down" /\ crashes < MaxCrashes
  /\ pc' = [pc EXCEPT ![p] = "down"]
  /\ out' = [out EXCEPT ![p] = None]
  /\ lock' = IF lock = p THEN Nobody ELSE lock
  /\ crashes' = crashes + 1
  /\ UNCHANGED <<name, data, resume, idx, written, failures, unrenamed>> /\ UNCHANGED truncVars

(* Faulty: appends without the lock file.                                  *)
SyncDoAppendUnlocked(p) ==
  /\ pc[p] = "idle" /\ written < MaxEvents
  /\ lock' = p
  /\ pc' = [pc EXCEPT ![p] = "before"]
  /\ UNCHANGED <<name, data, out, resume, idx, written>> /\ UNCHANGED faultVars

(* syncDoAppend locks the lock file around append().                       *)
SyncDoAppend(p) ==
  /\ pc[p] = "idle" /\ written < MaxEvents /\ lock = Nobody
  /\ lock' = p
  /\ pc' = [pc EXCEPT ![p] = "before"]
  /\ UNCHANGED <<name, data, out, resume, idx, written>> /\ UNCHANGED faultVars

(* out.tellp() > maxFileSize, at the end of the file; -1 without a file.   *)
TooLarge(p) == out[p] # None /\ Size(out[p]) > MaxFileSize

(* Faulty: the size is not looked at before writing.                       *)
CheckBeforeNot(p) ==
  /\ pc[p] = "before"
  /\ pc' = [pc EXCEPT ![p] = "write"]
  /\ UNCHANGED <<name, data, out, lock, resume, idx, written>> /\ UNCHANGED faultVars

(* append() seeks to the end and rolls over first if the file is too       *)
(* large; rollover() begins by closing the stream.                         *)
CheckBefore(p) ==
  /\ pc[p] = "before"
  /\ IF TooLarge(p)
     THEN /\ pc' = [pc EXCEPT ![p] = "recheck"]
          /\ resume' = [resume EXCEPT ![p] = "write"]
          /\ out' = [out EXCEPT ![p] = None]
     ELSE pc' = [pc EXCEPT ![p] = "write"] /\ UNCHANGED <<resume, out>>
  /\ UNCHANGED <<name, data, lock, idx, written>> /\ UNCHANGED faultVars

(* FileAppenderBase::append writes the event and flushes it.               *)
Write(p) ==
  /\ pc[p] = "write" /\ out[p] # None /\ written < MaxEvents
  /\ written' = written + 1
  /\ data' = [data EXCEPT ![out[p]] = Append(@, written + 1)]
  /\ pc' = [pc EXCEPT ![p] = "after"]
  /\ UNCHANGED <<name, out, lock, resume, idx>> /\ UNCHANGED faultVars

(* The stream is not good: reopen() opens the file once its delay is over. *)
Reopen(p) ==
  /\ pc[p] = "write" /\ out[p] = None
  /\ OpenApp(p)
  /\ UNCHANGED <<lock, pc, resume, idx, written, crashes, unrenamed>> /\ UNCHANGED truncVars

(* ... and until then, or when that fails too, the event is dropped.       *)
Drop(p) ==
  /\ pc[p] = "write" /\ out[p] = None
  /\ pc' = [pc EXCEPT ![p] = "after"]
  /\ UNCHANGED <<name, data, out, lock, resume, idx, written>> /\ UNCHANGED faultVars

(* append() looks at the size again after writing, and returns.            *)
CheckAfter(p) ==
  /\ pc[p] = "after"
  /\ IF TooLarge(p)
     THEN /\ pc' = [pc EXCEPT ![p] = "recheck"]
          /\ resume' = [resume EXCEPT ![p] = "idle"]
          /\ out' = [out EXCEPT ![p] = None]
          /\ UNCHANGED lock
     ELSE /\ pc' = [pc EXCEPT ![p] = "idle"]
          /\ lock' = Nobody
          /\ UNCHANGED <<resume, out>>
  /\ UNCHANGED <<name, data, idx, written>> /\ UNCHANGED faultVars

-----------------------------------------------------------------------------
(* rollover(true).                                                         *)

RolloverReturns(p) ==
  /\ pc' = [pc EXCEPT ![p] = resume[p]]
  /\ lock' = IF resume[p] = "idle" THEN Nobody ELSE lock

(* Faulty: the file is rolled over without looking at it again.            *)
AlreadyRolledNever == FALSE

(* The log file is gone, or has been replaced by a smaller one.            *)
AlreadyRolled == name[0] # None => Size(name[0]) < MaxFileSize

(* Faulty: opens what another process left with truncation.                *)
RolledByOtherTrunc(p) ==
  /\ pc[p] = "recheck" /\ AlreadyRolled
  /\ OpenTrunc(p) \/ OpenFails(p)
  /\ RolloverReturns(p)
  /\ UNCHANGED <<resume, idx, written, crashes, unrenamed>> /\ UNCHANGED truncVars

(* Another process was here first: open what it left.                      *)
RolledByOther(p) ==
  /\ pc[p] = "recheck" /\ AlreadyRolled
  /\ OpenApp(p) \/ OpenFails(p)
  /\ RolloverReturns(p)
  /\ UNCHANGED <<resume, idx, written, crashes, unrenamed>> /\ UNCHANGED truncVars

Recheck(p) ==
  /\ pc[p] = "recheck" /\ ~AlreadyRolled
  /\ pc' = [pc EXCEPT ![p] = "remove"]
  /\ UNCHANGED <<name, data, out, lock, resume, idx, written>> /\ UNCHANGED faultVars

(* Faulty: the loop starts one too low.                                    *)
RemoveOldestShort(p) ==
  /\ pc[p] = "remove"
  /\ name' = [name EXCEPT ![MaxBackupIndex] = None]
  /\ idx' = [idx EXCEPT ![p] = IF MaxBackupIndex > 1 THEN MaxBackupIndex - 2 ELSE 0]
  /\ pc' = [pc EXCEPT ![p] = "shift"]
  /\ UNCHANGED <<data, out, lock, resume, written>> /\ UNCHANGED faultVars

(* rolloverFiles removes the oldest backup ...                             *)
RemoveOldest(p) ==
  /\ pc[p] = "remove"
  /\ name' = [name EXCEPT ![MaxBackupIndex] = None]
  /\ idx' = [idx EXCEPT ![p] = MaxBackupIndex - 1]
  /\ pc' = [pc EXCEPT ![p] = "shift"]
  /\ UNCHANGED <<data, out, lock, resume, written>> /\ UNCHANGED faultVars

(* ... and maps MaxBackupIndex - 1, ..., 1 to MaxBackupIndex, ..., 2.      *)
Shift(p) ==
  /\ pc[p] = "shift" /\ idx[p] >= 1
  /\ Rename(idx[p], idx[p] + 1)
  /\ idx' = [idx EXCEPT ![p] = @ - 1]
  /\ UNCHANGED <<data, out, lock, pc, resume, written, crashes, failures>> /\ UNCHANGED truncVars

RenameBase(p) ==
  /\ pc[p] = "shift" /\ idx[p] = 0
  /\ Rename(0, 1)
  /\ pc' = [pc EXCEPT ![p] = "open"]
  /\ UNCHANGED <<data, out, lock, resume, idx, written, crashes, failures>> /\ UNCHANGED truncVars

OpenNew(p) ==
  /\ pc[p] = "open"
  /\ OpenTrunc(p) \/ OpenFails(p)
  /\ RolloverReturns(p)
  /\ UNCHANGED <<resume, idx, written, crashes, unrenamed>> /\ UNCHANGED truncVars

-----------------------------------------------------------------------------
Appending(p) ==
  \/ CheckBefore(p) \/ Write(p) \/ Reopen(p) \/ Drop(p) \/ CheckAfter(p)
  \/ RolledByOther(p) \/ Recheck(p) \/ RemoveOldest(p) \/ Shift(p) \/ RenameBase(p)
  \/ OpenNew(p)

Next == \E p \in Procs : Start(p) \/ Close(p) \/ Crash(p) \/ SyncDoAppend(p) \/ Appending(p)

Spec == Init /\ [][Next]_vars

-----------------------------------------------------------------------------
(* A stream that is not the log file any more is over the limit.  That is  *)
(* the only way a process can notice that another one has rolled the file  *)
(* over under it (fileappender.cxx:520).  Where a file can have exactly    *)
(* MaxFileSize bytes this fails: such a file is rolled over by a process   *)
(* on its way from a stale stream but is not too large for its owner.  It  *)
(* also fails once a process has emptied the file without the lock in the  *)
(* middle of a rollover, which then renames a file that is small.          *)
StaleIsTooLarge ==
  ~midway => \A p \in Procs : out[p] # None /\ out[p] # name[0] => TooLarge(p)

(* An event is written to the log file and not to a backup, under the same *)
(* two provisos (fileappender.cxx:523).                                    *)
WritesToLogFile ==
  ~midway => \A p \in Procs : pc[p] = "write" /\ out[p] # None => out[p] = name[0]

Contents(i) == IF name[i] = None THEN <<>> ELSE data[name[i]]

Retained ==
  FlattenSeq([i \in 1..(MaxBackupIndex + 1) |-> Contents(MaxBackupIndex + 1 - i)])

(* Read from the oldest backup to the log file, the files hold events each *)
(* once and in the order they were written, at every moment of a rollover, *)
(* whoever crashes in it and whichever renames fail.  As long as no rename *)
(* fails, which may overwrite a backup or empty the log file, and no       *)
(* process starts by emptying it, they hold the newest event and all       *)
(* events from some event on (fileappender.cxx:156, :532).                 *)
RetainedIsSuffix ==
  /\ ~midway => \A j, k \in DOMAIN Retained : j < k => Retained[j] < Retained[k]
  /\ unrenamed = 0 /\ truncations = 0 =>
       /\ Retained = [k \in 1..Len(Retained) |-> written - Len(Retained) + k]
       /\ written > 0 => Retained # <<>>

(* A rollover gives up no file but the oldest backup: every other file     *)
(* keeps a name, also when an earlier rollover was cut short, as long as   *)
(* no rename fails (fileappender.cxx:163).                                 *)
OnlyOldestExpires ==
  [][unrenamed = 0 => \A i \in Names \ {MaxBackupIndex} :
       name[i] # None => \E j \in Names : name'[j] = name[i]]_name

=============================================================================
