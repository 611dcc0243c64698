------------------------------ MODULE FileLock ------------------------------
(***************************************************************************)
(* withFileLock and isLockStale (packages/core/src/secure-fs.js): the      *)
(* advisory lock "<path>.lock" under which the serve daemon and the CLI    *)
(* change files such as tokens.json.  An action is one system call, or     *)
(* calls nothing can come between; what the lock protects is the step      *)
(* Work, left open here.                                                   *)
(*                                                                         *)
(* A process may die at any step.  A pid is not used again.  fn always     *)
(* ends, by returning or by throwing: the release is in a finally block.   *)
(***************************************************************************)
EXTENDS Integers

CONSTANTS
  Procs,        \* pids
  Inodes,       \* inode numbers of lock files
  Crashed,      \* pids dead from the start, one of which left the lock
  MayCrash,     \* whether a running process may die
  MaxFailures,  \* bound of the model: how often writing the pid may fail
  MayStall,     \* whether a process may hold the lock for longer than staleMs
  ReuseInodes,  \* whether the number of a deleted file may be given out
                \* again while a process still compares against it
  None

ASSUME ProcsAssumption  == None \notin Procs /\ Crashed \subseteq Procs
ASSUME InodesAssumption == None \notin Inodes /\ Inodes # {}
ASSUME FlagsAssumption  == {MayCrash, MayStall, ReuseInodes} \subseteq BOOLEAN /\ MaxFailures \in Nat

(* Nothing dies, fails or is slow.                                         *)
Calm == Crashed = {} /\ ~MayCrash /\ MaxFailures = 0 /\ ~MayStall

VARIABLES
  lock,    \* the inode at lockPath, or None
  reap,    \* the inode at each process' own lockPath.reap.<pid>, or None
  holder,  \* the pid written into each inode; None before it is written
  aged,    \* inodes whose mtime is further back than staleMs
  failures,\* how often a write has failed
  pc,      \* where each process is in withFileLock
  seen,    \* the inode a process found stale
  own      \* acquiredIno

file == <<lock, reap, holder>>
faults == <<aged, failures>>
vars == <<file, faults, pc, seen, own>>

Places == {"idle", "open", "write", "inspect", "rename", "compare",
           "work", "stat", "unlink", "dead"}

(* A process owns the lock from the creation of its file to its release.   *)
Holds(p) == pc[p] \in {"write", "work", "stat", "unlink"}

TypeOK ==
  /\ lock \in Inodes \cup {None}
  /\ reap \in [Procs -> Inodes \cup {None}]
  /\ holder \in [Inodes -> Procs \cup {None}]
  /\ aged \subseteq Inodes /\ failures \in 0 .. MaxFailures
  /\ pc \in [Procs -> Places]
  /\ seen \in [Procs -> Inodes \cup {None}]
  /\ own \in [Procs -> Inodes \cup {None}]
  /\ \A p \in Procs : Holds(p) => own[p] # None

(* The lock file one of the crashed processes left, if there is one.       *)
Init ==
  /\ \/ /\ lock = None
        /\ holder = [i \in Inodes |-> None]
     \/ \E i \in Inodes, p \in Crashed :
          /\ lock = i
          /\ holder = [j \in Inodes |-> IF j = i THEN p ELSE None]
  /\ reap = [p \in Procs |-> None]
  /\ aged = {} /\ failures = 0
  /\ pc = [p \in Procs |-> IF p \in Crashed THEN "dead" ELSE "idle"]
  /\ seen = [p \in Procs |-> None]
  /\ own = [p \in Procs |-> None]

Goto(p, place) == pc' = [pc EXCEPT ![p] = place]

Linked(i) == lock = i \/ \E p \in Procs : reap[p] = i

Remembered(i) == \E p \in Procs : seen[p] = i \/ own[p] = i

Available(i) == ~Linked(i) /\ (ReuseInodes \/ ~Remembered(i))

-----------------------------------------------------------------------------
(* Acquiring.                                                              *)

Enter(p) ==
  /\ pc[p] = "idle"
  /\ Goto(p, "open")
  /\ UNCHANGED <<file, faults, seen, own>>

(* openSync(lockPath, "wx"): created, and its inode will be acquiredIno.   *)
OpenCreates(p) ==
  /\ pc[p] = "open" /\ lock = None
  /\ \E i \in Inodes :
       /\ Available(i)
       /\ lock' = i
       /\ own' = [own EXCEPT ![p] = i]
       /\ holder' = [holder EXCEPT ![i] = None]
       /\ aged' = aged \ {i}
  /\ Goto(p, "write")
  /\ UNCHANGED <<reap, seen, failures>>

OpenFails(p) ==
  /\ pc[p] = "open" /\ lock # None
  /\ Goto(p, "inspect")
  /\ UNCHANGED <<file, faults, seen, own>>

WritePid(p) ==
  /\ pc[p] = "write"
  /\ holder' = [holder EXCEPT ![own[p]] = p]
  /\ Goto(p, "work")
  /\ UNCHANGED <<lock, reap, faults, seen, own>>

(* The write fails (the disk is full): withFileLock throws, the file stays. *)
WriteFails(p) ==
  /\ pc[p] = "write"
  /\ failures < MaxFailures /\ failures' = failures + 1
  /\ own' = [own EXCEPT ![p] = None]
  /\ Goto(p, "idle")
  /\ UNCHANGED <<file, aged, seen>>

(* isLockStale, on one descriptor: the file is old, or its pid is dead.  A *)
(* file without a pid yet is judged by its age alone.                      *)
StaleByPidOnly ==  \* faulty: the age is ignored
  \E p \in Procs : lock # None /\ holder[lock] = p /\ pc[p] = "dead"

Stale ==
  /\ lock # None
  /\ lock \in aged \/ \E p \in Procs : holder[lock] = p /\ pc[p] = "dead"

FindStale(p) ==
  /\ pc[p] = "inspect" /\ Stale
  /\ seen' = [seen EXCEPT ![p] = lock]
  /\ Goto(p, "rename")
  /\ UNCHANGED <<file, faults, own>>

(* Not stale, or gone by now: sleep and try again, or give up after        *)
(* timeoutMs.                                                              *)
FindBusy(p) ==
  /\ pc[p] = "inspect" /\ ~Stale
  /\ Goto(p, "open") \/ Goto(p, "idle")
  /\ UNCHANGED <<file, faults, seen, own>>

(* renameSync(lockPath, reapPath): moves whatever is at lockPath by now.   *)
Rename(p) ==
  /\ pc[p] = "rename"
  /\ IF lock = None
     THEN /\ seen' = [seen EXCEPT ![p] = None]
          /\ Goto(p, "open")
          /\ UNCHANGED <<lock, reap>>
     ELSE /\ reap' = [reap EXCEPT ![p] = lock]
          /\ lock' = None
          /\ Goto(p, "compare")
          /\ UNCHANGED seen
  /\ UNCHANGED <<holder, faults, own>>

(* The inode that was moved is the one found stale: it is deleted; it is   *)
(* another: it is moved back, over whatever is at lockPath by then.        *)
CompareNever(p) ==  \* faulty: the inode is not compared
  /\ pc[p] = "compare"
  /\ reap' = [reap EXCEPT ![p] = None]
  /\ seen' = [seen EXCEPT ![p] = None]
  /\ Goto(p, "open")
  /\ UNCHANGED <<lock, holder, faults, own>>

Compare(p) ==
  /\ pc[p] = "compare"
  /\ lock' = IF reap[p] = seen[p] THEN lock ELSE reap[p]
  /\ reap' = [reap EXCEPT ![p] = None]
  /\ seen' = [seen EXCEPT ![p] = None]
  /\ Goto(p, "open")
  /\ UNCHANGED <<holder, faults, own>>

-----------------------------------------------------------------------------
(* The protected work, and releasing.                                      *)

Work(p) ==
  /\ pc[p] = "work"
  /\ Goto(p, "stat")
  /\ UNCHANGED <<file, faults, seen, own>>

(* statSync(lockPath).ino against acquiredIno. *)
Stat(p) ==
  /\ pc[p] = "stat"
  /\ IF lock = own[p]
     THEN Goto(p, "unlink") /\ UNCHANGED own
     ELSE Goto(p, "idle") /\ own' = [own EXCEPT ![p] = None]
  /\ UNCHANGED <<file, faults, seen>>

Unlink(p) ==
  /\ pc[p] = "unlink"
  /\ lock' = None
  /\ own' = [own EXCEPT ![p] = None]
  /\ Goto(p, "idle")
  /\ UNCHANGED <<reap, holder, faults, seen>>

-----------------------------------------------------------------------------
(* The environment.                                                        *)

Crash(p) ==
  /\ MayCrash /\ pc[p] # "dead"
  /\ Goto(p, "dead")
  /\ UNCHANGED <<file, faults, seen, own>>

Age ==
  /\ lock # None /\ (MayStall \/ \A p \in Procs : ~Holds(p))
  /\ aged' = aged \cup {lock}
  /\ UNCHANGED <<file, failures, pc, seen, own>>

Step(p) ==
  \/ OpenCreates(p) \/ OpenFails(p) \/ WritePid(p) \/ WriteFails(p)
  \/ FindStale(p) \/ FindBusy(p) \/ Rename(p) \/ Compare(p)
  \/ Work(p) \/ Stat(p) \/ Unlink(p)

Next == (\E p \in Procs : Enter(p) \/ Step(p) \/ Crash(p)) \/ Age

Spec == Init /\ [][Next]_vars

(* withFileLock is synchronous: a process that is in it goes on.  The      *)
(* daemon and the CLI keep asking for the lock, and a lock file left alone *)
(* gets older.                                                             *)
FairSpec == Spec /\ (\A p \in Procs : WF_vars(Enter(p)) /\ WF_vars(Step(p))) /\ WF_vars(Age)

-----------------------------------------------------------------------------
(* Two processes are never at work on the protected file at the same time. *)
MutualExclusion ==
  \A p, q \in Procs : pc[p] = "work" /\ pc[q] = "work" => p = q

(* While nothing crashes or stalls, a process that holds the lock finds    *)
(* its own file at lockPath, so that its release frees the lock it took.   *)
HolderKeepsFile == \A p \in Procs : Holds(p) => lock = own[p]

Abandoned(i) == lock = i /\ \A p \in Procs : Holds(p) => own[p] # i

(* A lock file that no live process owns, left by a crash or by a failed   *)
(* write, does not stay for ever while a process asks for the lock.        *)
AbandonedIsReaped ==
  \A i \in Inodes : Abandoned(i) ~> (lock # i \/ \A p \in Procs : pc[p] = "dead")
=============================================================================
