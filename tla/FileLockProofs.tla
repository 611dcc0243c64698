---------------------------- MODULE FileLockProofs ----------------------------
(***************************************************************************)
(* The file lock for any number of processes and inodes, as long as none   *)
(* of the processes dies, fails or stalls: it excludes, and its holder     *)
(* keeps its file.  And for two processes that may die, with a lock file   *)
(* left by others or with one pid that could not be written: it excludes,  *)
(* although a holder may lose its file.  What goes wrong otherwise is      *)
(* shown by runs of TLC.                                                   *)
(***************************************************************************)
EXTENDS FileLock, TLAPS

(* Whatever dies, fails, stalls or is reused, every state is of the        *)
(* declared type: in particular a holder knows the inode it created, which *)
(* its release compares.                                                   *)
LEMMA TypeStep == TypeOK /\ [Next]_vars => TypeOK'
<1> USE ProcsAssumption, InodesAssumption, FlagsAssumption DEF TypeOK, Holds, file, faults
<1> SUFFICES ASSUME TypeOK, [Next]_vars PROVE TypeOK'
  OBVIOUS
<1> USE DEF Places, Goto
<1>1. ASSUME NEW p \in Procs, Enter(p) PROVE TypeOK'
  BY <1>1 DEF Enter
<1>2. ASSUME NEW p \in Procs, OpenCreates(p) PROVE TypeOK'
  BY <1>2 DEF OpenCreates
<1>3. ASSUME NEW p \in Procs, OpenFails(p) PROVE TypeOK'
  BY <1>3 DEF OpenFails
<1>4. ASSUME NEW p \in Procs, WritePid(p) PROVE TypeOK'
  BY <1>4 DEF WritePid
<1>5. ASSUME NEW p \in Procs, WriteFails(p) PROVE TypeOK'
  BY <1>5 DEF WriteFails
<1>6. ASSUME NEW p \in Procs, FindStale(p) PROVE TypeOK'
  BY <1>6 DEF FindStale
<1>7. ASSUME NEW p \in Procs, FindBusy(p) PROVE TypeOK'
  BY <1>7 DEF FindBusy
<1>8. ASSUME NEW p \in Procs, Rename(p) PROVE TypeOK'
  BY <1>8 DEF Rename
<1>9. ASSUME NEW p \in Procs, Compare(p) PROVE TypeOK'
  BY <1>9 DEF Compare
<1>10. ASSUME NEW p \in Procs, Work(p) PROVE TypeOK'
  BY <1>10 DEF Work
<1>11. ASSUME NEW p \in Procs, Stat(p) PROVE TypeOK'
  BY <1>11 DEF Stat
<1>12. ASSUME NEW p \in Procs, Unlink(p) PROVE TypeOK'
  BY <1>12 DEF Unlink
<1>13. ASSUME NEW p \in Procs, Crash(p) PROVE TypeOK'
  BY <1>13 DEF Crash
<1>14. CASE Age
  BY <1>14 DEF Age
<1>15. CASE UNCHANGED vars
  BY <1>15 DEF vars
<1> QED
  BY <1>1, <1>2, <1>3, <1>4, <1>5, <1>6, <1>7, <1>8, <1>9, <1>10, <1>11, <1>12, <1>13,
     <1>14, <1>15 DEF Next, Step

THEOREM TypeCorrect == Spec => []TypeOK
<1>1. Init => TypeOK
  BY ProcsAssumption, InodesAssumption, FlagsAssumption DEF Init, TypeOK, Places, Holds
<1> QED
  BY <1>1, TypeStep, PTL DEF Spec

(* No process takes a lock file for a stale one, so that none is ever      *)
(* moved; the file at lockPath is always that of the one holder.           *)
NothingReaped ==
  /\ aged = {}
  /\ \A p \in Procs : pc[p] \notin {"rename", "compare", "dead"}

LockIsHeld == lock # None => \E p \in Procs : Holds(p) /\ own[p] = lock

OneHolder == \A p, q \in Procs : Holds(p) /\ Holds(q) => p = q

IInv == TypeOK /\ NothingReaped /\ LockIsHeld /\ HolderKeepsFile /\ OneHolder

LEMMA InitHolds == ASSUME Calm PROVE Init => IInv
BY ProcsAssumption, InodesAssumption, FlagsAssumption
   DEF Calm, Init, IInv, TypeOK, Places, Holds, NothingReaped, LockIsHeld, HolderKeepsFile, OneHolder

(* Without aged files and dead processes no file is stale.                 *)
LEMMA NothingStale == IInv => ~Stale
BY DEF IInv, NothingReaped, Stale

LEMMA StepHolds == ASSUME Calm PROVE IInv /\ [Next]_vars => IInv'
<1> SUFFICES ASSUME IInv, [Next]_vars PROVE IInv'
  OBVIOUS
<1> USE ProcsAssumption, InodesAssumption, FlagsAssumption DEF file, faults
<1>1. CASE UNCHANGED vars
  BY <1>1 DEF vars, IInv, TypeOK, Places, Holds, NothingReaped, LockIsHeld, HolderKeepsFile, OneHolder
<1>2. ASSUME NEW p \in Procs, Enter(p) PROVE IInv'
  BY <1>2 DEF Enter, Goto, IInv, TypeOK, Places, Holds, NothingReaped, LockIsHeld, HolderKeepsFile, OneHolder
<1>3. ASSUME NEW p \in Procs, OpenCreates(p) PROVE IInv'
  <2>1. \A q \in Procs : ~Holds(q)
    BY <1>3 DEF OpenCreates, IInv, TypeOK, HolderKeepsFile, Holds
  <2>2. PICK i \in Inodes : /\ lock' = i
                            /\ own' = [own EXCEPT ![p] = i]
                            /\ holder' = [holder EXCEPT ![i] = None]
                            /\ aged' = aged \ {i}
    BY <1>3 DEF OpenCreates
  <2>3. pc' = [pc EXCEPT ![p] = "write"] /\ UNCHANGED <<reap, seen, failures>>
    BY <1>3 DEF OpenCreates, Goto
  <2>4. TypeOK' /\ NothingReaped'
    BY <2>2, <2>3 DEF IInv, TypeOK, Places, NothingReaped, Holds
  <2>5. \A q \in Procs : Holds(q)' <=> q = p
    BY <2>1, <2>3 DEF Holds, IInv, TypeOK
  <2>6. own'[p] = lock'
    BY <2>2 DEF IInv, TypeOK
  <2>7. LockIsHeld' /\ HolderKeepsFile' /\ OneHolder'
    BY <2>5, <2>6 DEF LockIsHeld, HolderKeepsFile, OneHolder
  <2> QED
    BY <2>4, <2>7 DEF IInv
<1>4. ASSUME NEW p \in Procs, OpenFails(p) PROVE IInv'
  BY <1>4 DEF OpenFails, Goto, IInv, TypeOK, Places, Holds, NothingReaped, LockIsHeld, HolderKeepsFile, OneHolder
<1>5. ASSUME NEW p \in Procs, WritePid(p) PROVE IInv'
  BY <1>5 DEF WritePid, Goto, IInv, TypeOK, Places, Holds, NothingReaped, LockIsHeld, HolderKeepsFile, OneHolder
<1>6. ASSUME NEW p \in Procs, FindBusy(p) PROVE IInv'
  BY <1>6 DEF FindBusy, Goto, IInv, TypeOK, Places, Holds, NothingReaped, LockIsHeld, HolderKeepsFile, OneHolder
<1>7. ASSUME NEW p \in Procs, WriteFails(p) \/ FindStale(p) \/ Rename(p) \/ Compare(p) \/ Crash(p)
      PROVE IInv'
  <2>1. ~WriteFails(p)
    BY DEF Calm, WriteFails, IInv, TypeOK
  <2> QED
    BY <1>7, <2>1, NothingStale DEF Calm, FindStale, Rename, Compare, Crash, IInv, NothingReaped
<1>8. ASSUME NEW p \in Procs, Work(p) PROVE IInv'
  BY <1>8 DEF Work, Goto, IInv, TypeOK, Places, Holds, NothingReaped, LockIsHeld, HolderKeepsFile, OneHolder
<1>9. ASSUME NEW p \in Procs, Stat(p) PROVE IInv'
  <2>1. lock = own[p]
    BY <1>9 DEF Stat, IInv, HolderKeepsFile, Holds
  <2> QED
    BY <1>9, <2>1 DEF Stat, Goto, IInv, TypeOK, Places, Holds, NothingReaped, LockIsHeld, HolderKeepsFile, OneHolder
<1>10. ASSUME NEW p \in Procs, Unlink(p) PROVE IInv'
  <2>1. \A q \in Procs : ~Holds(q)'
    BY <1>10 DEF Unlink, Goto, IInv, TypeOK, Holds, OneHolder
  <2> QED
    BY <1>10, <2>1 DEF Unlink, Goto, IInv, TypeOK, Places, NothingReaped, LockIsHeld, HolderKeepsFile, OneHolder
<1>11. CASE Age
  BY <1>11 DEF Age, Calm, IInv, LockIsHeld
<1> QED
  BY <1>1, <1>2, <1>3, <1>4, <1>5, <1>6, <1>7, <1>8, <1>9, <1>10, <1>11 DEF Next, Step

LEMMA Invariance == ASSUME Calm PROVE Spec => []IInv
BY InitHolds, StepHolds, PTL DEF Spec

(* However many processes share a file, its load-modify-save sequences     *)
(* exclude each other while nothing dies, fails or stalls.                 *)
THEOREM Exclusion == ASSUME Calm PROVE Spec => []MutualExclusion
<1>1. IInv => MutualExclusion
  BY DEF IInv, OneHolder, Holds, MutualExclusion
<1> QED
  BY <1>1, Invariance, PTL

(* Under the same conditions the lock a process releases is its own.       *)
THEOREM HolderKeeps == ASSUME Calm PROVE Spec => []HolderKeepsFile
<1>1. IInv => HolderKeepsFile
  BY DEF IInv
<1> QED
  BY <1>1, Invariance, PTL

-----------------------------------------------------------------------------
(***************************************************************************)
(* Two processes, such as the daemon and a command, either of which may    *)
(* die at any point, and a lock file that processes now dead have left.    *)
(***************************************************************************)

(* At most two processes run.  None is slow, and an inode number is not    *)
(* given out while a process compares against it.  Each writes its pid,    *)
(* but for one write that may fail if no lock was left by the dead.  None  *)
(* of this can be spared: TLC finds two processes at work if a third runs, *)
(* one is slow, a number is reused, a second write fails, or the first     *)
(* fails beside the lock of a dead process.                                *)
TwoAtATime ==
  /\ \E a, b \in Procs : Procs \ Crashed \subseteq {a, b}
  /\ ~MayStall /\ ~ReuseInodes
  /\ MaxFailures = 0 \/ (MaxFailures = 1 /\ Crashed = {})

(* Once one of two processes has died nothing remains to be excluded, so   *)
(* that most of the invariant is about processes that are both alive.      *)
Two(p, q) == p # q /\ pc[p] # "dead" /\ pc[q] # "dead"

TwoAlive == \A p, q, r \in Procs : Two(p, q) => r \in {p, q} \/ pc[r] = "dead"

(* A file has one name.                                                    *)
OneName ==
  \A p \in Procs : reap[p] # None =>
    reap[p] # lock /\ \A q \in Procs : q # p => reap[q] # reap[p]

Known ==
  \A p \in Procs : /\ pc[p] \in {"rename", "compare"} => seen[p] # None
                   /\ pc[p] = "compare" => reap[p] # None

(* The file of a holder cannot be taken for a stale one, wherever it is.   *)
HeldIsFresh ==
  \A p \in Procs : Holds(p) => own[p] \notin aged /\ holder[own[p]] \in {None, p}

HeldAlone == \A p, q \in Procs : Two(p, q) => ~(Holds(p) /\ Holds(q))

(* A process has moved away a file that is not the one it found stale.     *)
Mistaken(p) == pc[p] = "compare" /\ reap[p] # seen[p]

(* While one process holds the lock, lockPath is empty only because the    *)
(* other has moved its file away by mistake, and is about to put it back   *)
(* instead of opening the lock.                                            *)
HeldUnlessMoved ==
  \A p, q \in Procs : Two(p, q) /\ Holds(q) /\ lock = None => Mistaken(p)

(* Nor is what is at lockPath stale, be it the holder's or a file it owned *)
(* before that was put back over it.                                       *)
NotStaleWhileHeld == \A p, q \in Procs : Two(p, q) /\ Holds(q) => ~Stale

(* A process about to rename finds the file it has seen, or none, or that  *)
(* of the other, which has acquired the lock since.                        *)
RenamesSeenOrHeld ==
  \A p, q \in Procs : Two(p, q) /\ pc[p] = "rename" =>
    /\ Holds(q) => lock # seen[p]
    /\ lock \notin {None, seen[p]} => Holds(q) /\ own[q] = lock

(* What was moved by mistake is not stale when it is put back, and until   *)
(* then the other process neither waits for the lock nor reaps it.         *)
MovedIsFresh ==
  \A p, q \in Procs : Two(p, q) /\ Mistaken(p) =>
    /\ reap[p] \notin aged /\ holder[reap[p]] \in {None, q}
    /\ pc[q] \notin {"inspect", "rename", "compare"}
    /\ lock # None => Holds(q) /\ own[q] = lock

(* As long as the write that may fail has not failed, a lock file belongs  *)
(* to one of two living processes, and neither finds anything stale.       *)
Unhurt ==
  failures < MaxFailures => \A p, q \in Procs : Two(p, q) =>
    /\ pc[p] \notin {"rename", "compare"}
    /\ lock # None => \E r \in {p, q} : Holds(r) /\ own[r] = lock

TwoInv ==
  /\ TypeOK /\ TwoAlive /\ OneName /\ Known
  /\ HeldIsFresh /\ HeldAlone /\ HeldUnlessMoved /\ NotStaleWhileHeld
  /\ RenamesSeenOrHeld /\ MovedIsFresh /\ Unhurt

LEMMA TwoInitially == ASSUME TwoAtATime PROVE Init => TwoInv
<1> SUFFICES ASSUME Init PROVE TwoInv
  OBVIOUS
<1>1. TypeOK
  BY ProcsAssumption, InodesAssumption, FlagsAssumption DEF Init, TypeOK, Places, Holds
<1>2. \A p \in Procs : pc[p] = (IF p \in Crashed THEN "dead" ELSE "idle") /\ reap[p] = None
  BY DEF Init
<1>3. TwoAlive
  BY <1>2 DEF TwoAtATime, TwoAlive, Two
<1>4. Unhurt
  BY <1>2 DEF Init, TwoAtATime, Unhurt
<1> QED
  BY <1>1, <1>2, <1>3, <1>4 DEF TwoInv, OneName, Known, Holds, HeldIsFresh, HeldAlone, Mistaken,
     HeldUnlessMoved, NotStaleWhileHeld, RenamesSeenOrHeld, MovedIsFresh

LEMMA TwoStep == ASSUME TwoAtATime PROVE TwoInv /\ [Next]_vars => TwoInv'
<1> SUFFICES ASSUME TwoInv, [Next]_vars, TypeOK' PROVE TwoInv'
  BY TypeStep DEF TwoInv
<1> USE InodesAssumption, ProcsAssumption DEF TwoInv, TypeOK, Two, file, faults, Goto
<1>1. ASSUME NEW r \in Procs, Enter(r) \/ OpenFails(r) \/ FindBusy(r) \/ Work(r) \/ Stat(r)
      PROVE  TwoInv'
  (* Only one process goes on: it does not get the lock, and may leave it. *)
  <2>1. /\ UNCHANGED <<lock, reap, holder, aged, seen>>
        /\ \A p \in Procs : p # r => pc'[p] = pc[p] /\ own'[p] = own[p]
        /\ pc[r] \notin {"rename", "compare", "dead"}
        /\ pc'[r] \in {"idle", "open", "inspect", "stat", "unlink"}
        /\ Holds(r)' => Holds(r) /\ own'[r] = own[r]
        /\ pc'[r] = "inspect" => lock # None /\ ~Holds(r)
        /\ Holds(r) /\ ~Holds(r)' => lock # own[r]
        /\ failures' = failures
    BY <1>1 DEF Enter, OpenFails, FindBusy, Work, Stat, Holds
  <2>2. \A p \in Procs : pc[p] = "dead" <=> pc'[p] = "dead"
    BY <2>1
  <2>3. TwoAlive' /\ OneName' /\ Known' /\ HeldIsFresh' /\ HeldAlone'
    BY <2>1, <2>2 DEF TwoAlive, OneName, Known, HeldIsFresh, HeldAlone, Holds
  <2>4. HeldUnlessMoved'
    BY <2>1, <2>2 DEF HeldUnlessMoved, Mistaken, Holds
  <2>5. NotStaleWhileHeld'
    BY <2>1, <2>2 DEF NotStaleWhileHeld, Stale, Holds
  <2>6. RenamesSeenOrHeld'
    BY <2>1, <2>2 DEF RenamesSeenOrHeld, Holds
  <2>7. MovedIsFresh'
    BY <2>1, <2>2 DEF MovedIsFresh, Mistaken, Holds
  <2>8. Unhurt'
    BY <2>1, <2>2 DEF Unhurt, Holds
  <2> QED
    BY <2>3, <2>4, <2>5, <2>6, <2>7, <2>8
<1>2. ASSUME NEW r \in Procs, OpenCreates(r) PROVE TwoInv'
  <2>1. PICK i \in Inodes : /\ Available(i) /\ lock' = i
                            /\ own' = [own EXCEPT ![r] = i]
                            /\ holder' = [holder EXCEPT ![i] = None]
                            /\ aged' = aged \ {i}
    BY <1>2 DEF OpenCreates
  <2>2. /\ pc[r] = "open" /\ lock = None
        /\ pc' = [pc EXCEPT ![r] = "write"] /\ UNCHANGED <<reap, seen, failures>>
    BY <1>2 DEF OpenCreates
  <2>3. \A p \in Procs : reap[p] # i /\ seen[p] # i /\ own[p] # i
    BY <2>1 DEF TwoAtATime, Available, Linked, Remembered
  <2>4. \A p \in Procs : Two(p, r) => ~Holds(p)
    BY <2>2 DEF HeldUnlessMoved, Mistaken
  <2>5. TwoAlive' /\ OneName' /\ Known'
    BY <2>1, <2>2, <2>3 DEF TwoAlive, OneName, Known
  <2>6. HeldIsFresh' /\ HeldAlone' /\ HeldUnlessMoved'
    BY <2>1, <2>2, <2>3, <2>4 DEF HeldIsFresh, HeldAlone, HeldUnlessMoved, Holds
  <2>7. NotStaleWhileHeld'
    BY <2>1, <2>2 DEF NotStaleWhileHeld, Stale
  <2>8. RenamesSeenOrHeld' /\ MovedIsFresh'
    BY <2>1, <2>2, <2>3 DEF TwoAlive, RenamesSeenOrHeld, MovedIsFresh, Mistaken, Holds
  <2>9. Unhurt'
    BY <2>1, <2>2 DEF TwoAlive, Unhurt, Holds
  <2> QED
    BY <2>5, <2>6, <2>7, <2>8, <2>9
<1>3. ASSUME NEW r \in Procs, WritePid(r) PROVE TwoInv'
  BY <1>3 DEF WritePid, TwoAlive, OneName, Known, Holds, HeldIsFresh, HeldAlone, Mistaken,
     HeldUnlessMoved, NotStaleWhileHeld, Stale, RenamesSeenOrHeld, MovedIsFresh, Unhurt
<1>4. ASSUME NEW r \in Procs, FindStale(r) PROVE TwoInv'
  (* No process that is alive holds the lock. *)
  <2>1. \A q \in Procs : Two(r, q) => ~Holds(q)
    BY <1>4 DEF FindStale, NotStaleWhileHeld
  (* So a write has failed, or one has died, and what they left is found.  *)
  <2>2. Unhurt'
    BY <1>4, <2>1 DEF FindStale, Stale, TwoAlive, Unhurt, Holds
  <2> QED
    BY <1>4, <2>1, <2>2 DEF FindStale, Stale, TwoAlive, OneName, Known, Holds, HeldIsFresh, HeldAlone,
       Mistaken, HeldUnlessMoved, NotStaleWhileHeld, RenamesSeenOrHeld, MovedIsFresh
<1>5. ASSUME NEW r \in Procs, Rename(r) PROVE TwoInv'
  <2>0. Unhurt'
    BY <1>5 DEF Rename, TwoAlive, Unhurt, Holds
  <2>1. CASE lock = None
    <3>1. /\ pc' = [pc EXCEPT ![r] = "open"] /\ seen' = [seen EXCEPT ![r] = None]
          /\ UNCHANGED <<lock, reap, holder, aged, own>> /\ pc[r] = "rename"
      BY <1>5, <2>1 DEF Rename
    <3>2. TwoAlive' /\ OneName' /\ Known' /\ HeldIsFresh' /\ HeldAlone'
      BY <3>1 DEF TwoAlive, OneName, Known, HeldIsFresh, HeldAlone, Holds
    <3>3. HeldUnlessMoved' /\ NotStaleWhileHeld'
      BY <2>1, <3>1 DEF HeldUnlessMoved, NotStaleWhileHeld, Stale, Mistaken, Holds
    <3>4. RenamesSeenOrHeld' /\ MovedIsFresh'
      BY <2>1, <3>1 DEF RenamesSeenOrHeld, MovedIsFresh, Mistaken, Holds
    <3> QED
      BY <2>0, <3>2, <3>3, <3>4
  <2>2. CASE lock # None
    <3>1. /\ pc[r] = "rename" /\ pc' = [pc EXCEPT ![r] = "compare"]
          /\ reap' = [reap EXCEPT ![r] = lock] /\ lock' = None
          /\ UNCHANGED <<holder, aged, seen, own>>
      BY <1>5, <2>2 DEF Rename
    <3>2. TwoAlive' /\ OneName' /\ Known'
      BY <2>2, <3>1 DEF TwoAlive, OneName, Known
    <3>3. HeldIsFresh' /\ HeldAlone' /\ NotStaleWhileHeld'
      BY <3>1 DEF HeldIsFresh, HeldAlone, NotStaleWhileHeld, Stale, Holds
    (* A holder's file is not the one seen: it is moved by mistake, and    *)
    (* then it is the other's.                                             *)
    <3>4. HeldUnlessMoved'
      BY <3>1, <2>2 DEF RenamesSeenOrHeld, HeldUnlessMoved, TwoAlive, Mistaken, Holds
    <3>5. RenamesSeenOrHeld' /\ MovedIsFresh'
      BY <3>1, <2>2 DEF RenamesSeenOrHeld, MovedIsFresh, HeldIsFresh, TwoAlive, Mistaken, Holds, Known
    <3> QED
      BY <2>0, <3>2, <3>3, <3>4, <3>5
  <2> QED
    BY <2>1, <2>2
<1>6. ASSUME NEW r \in Procs, Compare(r) PROVE TwoInv'
  <2>1. /\ pc[r] = "compare" /\ pc' = [pc EXCEPT ![r] = "open"]
        /\ lock' = IF reap[r] = seen[r] THEN lock ELSE reap[r]
        /\ reap' = [reap EXCEPT ![r] = None] /\ seen' = [seen EXCEPT ![r] = None]
        /\ UNCHANGED <<holder, aged, own>>
    BY <1>6 DEF Compare
  <2>2. TwoAlive' /\ OneName' /\ Known' /\ HeldIsFresh' /\ HeldAlone'
    BY <2>1 DEF TwoAlive, OneName, Known, HeldIsFresh, HeldAlone, Holds
  <2>3. HeldUnlessMoved'
    BY <2>1 DEF HeldUnlessMoved, Known, TwoAlive, Mistaken, Holds
  <2>4. NotStaleWhileHeld'
    BY <2>1 DEF NotStaleWhileHeld, MovedIsFresh, Mistaken, Stale, TwoAlive, Holds
  <2>5. RenamesSeenOrHeld' /\ MovedIsFresh'
    BY <2>1 DEF RenamesSeenOrHeld, MovedIsFresh, Mistaken, TwoAlive, Holds
  <2>6. Unhurt'
    BY <1>6 DEF Compare, TwoAlive, Unhurt, Holds
  <2> QED
    BY <2>2, <2>3, <2>4, <2>5, <2>6
<1>7. ASSUME NEW r \in Procs, Unlink(r) PROVE TwoInv'
  BY <1>7 DEF Unlink, TwoAlive, OneName, Known, Holds, HeldIsFresh, HeldAlone, Mistaken,
     HeldUnlessMoved, NotStaleWhileHeld, Stale, RenamesSeenOrHeld, MovedIsFresh, Unhurt
<1>8. ASSUME NEW r \in Procs, Crash(r) PROVE TwoInv'
  BY <1>8 DEF Crash, TwoAlive, OneName, Known, Holds, HeldIsFresh, HeldAlone, Mistaken,
     HeldUnlessMoved, NotStaleWhileHeld, Stale, RenamesSeenOrHeld, MovedIsFresh, Unhurt
(* A file gets old only while nobody holds the lock, and only at lockPath. *)
<1>9. CASE Age
  BY <1>9 DEF Age, TwoAtATime, TwoAlive, OneName, Known, Holds, HeldIsFresh, HeldAlone, Mistaken,
     HeldUnlessMoved, NotStaleWhileHeld, Stale, RenamesSeenOrHeld, MovedIsFresh, Unhurt
(* The file without a pid stays: nobody has found anything stale so far,   *)
(* and there is no second failure.                                         *)
<1>10. ASSUME NEW r \in Procs, WriteFails(r) PROVE TwoInv'
  <2>1. /\ failures < MaxFailures /\ ~(failures' < MaxFailures)
        /\ pc[r] = "write" /\ pc' = [pc EXCEPT ![r] = "idle"]
        /\ own' = [own EXCEPT ![r] = None] /\ UNCHANGED <<lock, reap, holder, aged, seen>>
    BY <1>10, FlagsAssumption DEF TwoAtATime, WriteFails
  <2>2. \A p, q \in Procs : Two(p, q) =>
          pc[p] \notin {"rename", "compare"} /\ (r \in {p, q} => ~Holds(p) \/ p = r)
    BY <2>1 DEF Unhurt, HeldAlone, Holds
  <2>3. TwoAlive' /\ OneName' /\ Known' /\ HeldIsFresh' /\ HeldAlone' /\ Unhurt'
    BY <2>1 DEF TwoAlive, OneName, Known, HeldIsFresh, HeldAlone, Holds, Unhurt
  (* There is no holder left among the two.                                *)
  <2>4. \A p, q \in Procs : Two(p, q)' => ~Holds(p)' /\ pc'[p] \notin {"rename", "compare"}
    BY <2>1, <2>2 DEF TwoAlive, Holds
  <2> QED
    BY <2>3, <2>4 DEF HeldUnlessMoved, NotStaleWhileHeld, RenamesSeenOrHeld, MovedIsFresh, Mistaken
<1>11. CASE UNCHANGED vars
  BY <1>11 DEF vars, TwoAlive, OneName, Known, Holds, HeldIsFresh, HeldAlone, Mistaken,
     HeldUnlessMoved, NotStaleWhileHeld, Stale, RenamesSeenOrHeld, MovedIsFresh, Unhurt
<1> QED
  BY <1>1, <1>2, <1>3, <1>4, <1>5, <1>6, <1>7, <1>8, <1>9, <1>10, <1>11 DEF Next, Step

(* The daemon and one command exclude each other although either of them   *)
(* may die at any system call, and one may fail to write its pid: a lock   *)
(* is taken only from a process that is dead or has given it up.           *)
THEOREM TwoExclude == ASSUME TwoAtATime PROVE Spec => []MutualExclusion
<1>1. TwoInv => MutualExclusion
  BY DEF TwoInv, HeldAlone, Two, Holds, MutualExclusion
<1> QED
  BY <1>1, TwoInitially, TwoStep, PTL DEF Spec

=============================================================================
