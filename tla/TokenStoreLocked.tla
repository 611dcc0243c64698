--------------------------- MODULE TokenStoreLocked ---------------------------
(***************************************************************************)
(* FileTokenStore.save and clear with the file lock they run under: the    *)
(* lock is taken by withFileLock (FileLock), the stored tokens are read    *)
(* again, and the merged tokens are written by renaming a temporary file.  *)
(* The specification of TokenStore, in which each is a single step, is a   *)
(* property of this one.                                                   *)
(*                                                                         *)
(* save() is synchronous: a process does nothing else from the attempt to  *)
(* lock to the release.                                                    *)
(***************************************************************************)
EXTENDS TokenStore

CONSTANTS Inodes, Crashed, MayCrash, MaxFailures, MayStall, ReuseInodes,  \* see FileLock
          Unread  \* the stored tokens have not been read

ASSUME UnreadAssumption == Unread # None /\ Unread \notin Tokens

(* What FileLock assumes of its constants.                                 *)
ASSUME LockAssumption ==
  /\ None \notin Procs \cup Inodes /\ Crashed \subseteq Procs /\ Inodes # {}
  /\ {MayCrash, MayStall, ReuseInodes} \subseteq BOOLEAN /\ MaxFailures \in Nat

VARIABLES lock, reap, holder, aged, failures, pc, seen, own,  \* see FileLock
          read   \* the stored tokens as a process has read them under the lock

File == INSTANCE FileLock

lockVars == <<lock, reap, holder, aged, failures, pc, seen, own>>
lockedVars == <<tokenVars, lockVars, read>>

LockedTypeOK ==
  /\ TokenTypeOK
  /\ File!TypeOK
  /\ read \in [Procs -> Tokens \cup {None, Unread}]

LockedInit ==
  /\ TokenInit
  /\ File!Init
  /\ read = [p \in Procs |-> Unread]

-----------------------------------------------------------------------------
(* Everything but save() and clear(). *)
Elsewhere(p) ==
  /\ pc[p] = "idle"
  /\ Compute(p)
  /\ UNCHANGED <<lockVars, read>>

StartLocking(p) ==
  /\ phase[p] \in {"saving", "clearing"}
  /\ File!Enter(p)
  /\ UNCHANGED <<tokenVars, read>>

(* The steps of withFileLock that neither give up nor run the callback.    *)
Locking(p) ==
  /\ \/ File!OpenCreates(p) \/ File!OpenFails(p) \/ File!WritePid(p)
     \/ File!FindStale(p) \/ File!Rename(p) \/ File!Compare(p)
     \/ File!Stat(p) \/ File!Unlink(p)
     \/ File!FindBusy(p) /\ pc'[p] = "open"
  /\ UNCHANGED <<tokenVars, read>>

(* withFileLock throws. *)
LockingFails(p) ==
  /\ \/ File!FindBusy(p) /\ pc'[p] = "idle"
     \/ File!WriteFails(p)
  /\ LockTimesOut(p)
  /\ UNCHANGED read

(* load() inside the lock; a file that cannot be parsed counts as absent.  *)
ReadStored(p) ==
  /\ pc[p] = "work" /\ phase[p] = "saving" /\ read[p] = Unread
  /\ read' = [read EXCEPT ![p] = disk]
  /\ UNCHANGED <<tokenVars, lockVars>>

(* writeJson: the merged tokens replace the stored ones by a rename.       *)
WriteUnmerged(p) ==  \* faulty: merged with the tokens loaded before the lock
  /\ read[p] # Unread
  /\ phase[p] = "saving"
  /\ disk' = mem[p]
  /\ Return(p)
  /\ UNCHANGED <<out, cognito, clock>>
  /\ File!Work(p)
  /\ read' = [read EXCEPT ![p] = Unread]

WriteMerged(p) ==
  /\ read[p] # Unread
  /\ phase[p] = "saving"
  /\ disk' = Merge(read[p], mem[p])
  /\ Return(p)
  /\ UNCHANGED <<out, cognito, clock>>
  /\ File!Work(p)
  /\ read' = [read EXCEPT ![p] = Unread]

(* writeJson fails: the lock is released, and save() throws.               *)
WriteFails(p) ==
  /\ LockTimesOut(p)
  /\ File!Work(p)
  /\ read' = [read EXCEPT ![p] = Unread]

RemoveStored(p) ==
  /\ Clear(p)
  /\ File!Work(p)
  /\ UNCHANGED read

Dies(p) ==
  /\ File!Crash(p)
  /\ UNCHANGED <<tokenVars, read>>

Ages ==
  /\ File!Age
  /\ UNCHANGED <<tokenVars, read>>

LockedNext ==
  \/ \E p \in Procs :
       \/ Elsewhere(p) \/ StartLocking(p) \/ Locking(p) \/ LockingFails(p)
       \/ ReadStored(p) \/ WriteMerged(p) \/ WriteFails(p) \/ RemoveStored(p) \/ Dies(p)
  \/ Ages

LockedSpec == LockedInit /\ [][LockedNext]_lockedVars

=============================================================================
