---------------------------- MODULE StoresProofs ----------------------------
(***************************************************************************)
(* What a process keeps from one run to the next, for any number of        *)
(* processes: the merge of tokens.json (TokenStore) and the lock that      *)
(* makes it a single step (TokenStoreLocked), the merge of config.json     *)
(* (ConfigStore) and the temporary AWS credentials (AwsCredentials).  The  *)
(* three share no state.  What overlapping processes may break in the two  *)
(* files is proved of processes that come one after the other.             *)
(***************************************************************************)
EXTENDS TokenStoreLocked, ConfigStore, AwsCredentials, TLAPS

-----------------------------------------------------------------------------
(***************************************************************************)
(* tokens.json, for any number of logins and refreshes: what is stored is  *)
(* never rolled back.                                                      *)
(***************************************************************************)

(* Merging keeps the type, and unless it is told to discard the tokens,    *)
(* what is left is as fresh as both.                                       *)
LEMMA MergedTokens ==
  ASSUME NEW d \in Tokens \cup {None}, NEW t \in Tokens
  PROVE  Merge(d, t) \in Tokens
BY TokenBoundAssumption DEF Merge, Tokens, Discarded

LEMMA MergeKeepsFreshest ==
  ASSUME NEW d \in Tokens, NEW t \in Tokens, ~Discarded(t)
  PROVE  Merge(d, t).fresh >= d.fresh /\ Merge(d, t).fresh >= t.fresh
BY TokenBoundAssumption, TokenNoneAssumption DEF Merge, Tokens, Discarded

LEMMA MergeDiscards ==
  ASSUME NEW d \in Tokens, NEW t \in Tokens, Discarded(t)
  PROVE  Merge(d, t) = t
BY DEF Merge

-----------------------------------------------------------------------------
(* Every state is of the declared type, whatever is refused, lost, logged  *)
(* in or logged out.                                                       *)
LEMMA TokenInitType == TokenInit => TokenTypeOK
BY TokenBoundAssumption DEF TokenInit, TokenTypeOK, Phases, Logins

LEMMA LoggedInType ==
  ASSUME TokenTypeOK, NEW p \in Procs, NEW d \in 0 .. MaxLogins, NEW dev \in 0 .. MaxLogins,
         LoggedIn(p, d, dev)
  PROVE  TokenTypeOK'
<1>1. PICK now \in Now \ {0} :
        /\ clock' = now
        /\ Goes(p, "saving", [login |-> logins + 1, rotation |-> 0, fresh |-> now,
                              device |-> dev])
  BY DEF LoggedIn
<1> DEFINE t == [login |-> logins + 1, rotation |-> 0, fresh |-> now, device |-> dev]
<1>2. logins + 1 \in 1 .. MaxLogins /\ now \in 1 .. MaxClock
  BY <1>1, TokenBoundAssumption DEF LoggedIn, TokenTypeOK, Now
<1>3. t \in Tokens
  BY <1>2, TokenBoundAssumption DEF Tokens
<1>4. Goes(p, "saving", t)
  BY <1>1
<1> HIDE DEF t
<1> QED
  BY <1>1, <1>2, <1>3, <1>4, TokenNoneAssumption, TokenBoundAssumption
     DEF LoggedIn, Goes, TokenTypeOK, Phases, Logins

LEMMA ComputeType ==
  ASSUME TokenTypeOK, NEW p \in Procs, Compute(p)
  PROVE  TokenTypeOK'
<1> USE TokenBoundAssumption, TokenNoneAssumption
    DEF TokenTypeOK, Phases, Logins, Discarded, Goes, Return, cognito
<1>1. CASE StartRefresh(p)
  BY <1>1 DEF StartRefresh
<1>2. CASE CognitoGrants(p)
  <2>1. PICK now \in Now :
          /\ now > mem[p].fresh /\ clock' = now
          /\ LET next == IF Rotation THEN mem[p].rotation + 1 ELSE mem[p].rotation
             IN  /\ current' = [current EXCEPT ![mem[p].login] = next]
                 /\ Goes(p, "granted", Renewed(mem[p], next, now))
    BY <1>2 DEF CognitoGrants
  <2> DEFINE next == IF Rotation THEN mem[p].rotation + 1 ELSE mem[p].rotation
             t == Renewed(mem[p], next, now)
  <2>2. mem[p] \in Tokens /\ mem[p].login # 0 /\ next \in Nat /\ now \in 1 .. MaxClock
    BY <1>2, <2>1 DEF CognitoGrants, Tokens, Now
  <2> HIDE DEF next
  <2>3. mem[p].login \in 1 .. MaxLogins /\ mem[p].device \in 0 .. MaxLogins
    BY <2>2 DEF Tokens
  <2>4. t \in Tokens /\ t.login # 0 /\ t # None
    <3>1. t = [login |-> mem[p].login, rotation |-> next, fresh |-> now, device |-> mem[p].device]
      BY DEF Renewed
    <3>2. t.login = mem[p].login /\ t.fresh = now
      BY <3>1
    <3>3. t \in [login : 0 .. MaxLogins, rotation : Nat, fresh : 0 .. MaxClock,
                 device : 0 .. MaxLogins]
      BY <2>2, <2>3, <3>1
    <3> HIDE DEF t
    <3> QED
      BY <2>2, <2>3, <3>2, <3>3 DEF Tokens
  <2>5. /\ current' = [current EXCEPT ![mem[p].login] = next]
        /\ phase' = [phase EXCEPT ![p] = "granted"]
        /\ mem' = [mem EXCEPT ![p] = t]
        /\ clock' = now
        /\ UNCHANGED <<disk, out, bound, logins>>
    BY <1>2, <2>1 DEF CognitoGrants, next
  <2> HIDE DEF t
  <2>6. now \in 0 .. MaxClock
    BY <2>2
  <2> QED
    BY <2>2, <2>4, <2>5, <2>6
<1>3. CASE CognitoDenies(p)
  BY <1>3 DEF CognitoDenies
<1>4. CASE CallFails(p)
  BY <1>4 DEF CallFails
<1>5. CASE ReceiveGrant(p)
  BY <1>5 DEF ReceiveGrant
<1>6. CASE ReceiveDenial(p)
  BY <1>6 DEF ReceiveDenial, Tokens
<1>7. CASE Login(p)
  <2>1. PICK dev \in {0, logins + 1} : LoggedIn(p, logins + 1, dev)
    BY <1>7 DEF Login
  <2>2. logins + 1 \in 0 .. MaxLogins /\ dev \in 0 .. MaxLogins
    BY <2>1 DEF LoggedIn
  <2> QED
    BY <2>1, <2>2, LoggedInType
<1>8. CASE StartDeviceAuth(p)
  BY <1>8 DEF StartDeviceAuth
<1>9. CASE DeviceAccepted(p)
  BY <1>9, LoggedInType DEF DeviceAccepted, Tokens
<1>10. CASE DeviceRefused(p)
  <2>1. CASE disk = None
    BY <1>10, <2>1 DEF DeviceRefused
  <2>2. CASE disk # None
    <3> DEFINE t == [disk EXCEPT !.device = 0]
    <3>1. t \in Tokens
      BY <2>2 DEF Tokens
    <3>2. /\ phase' = [phase EXCEPT ![p] = "saving"]
          /\ mem' = [mem EXCEPT ![p] = t]
          /\ UNCHANGED <<disk, out, current, bound, logins, clock>>
      BY <1>10, <2>2 DEF DeviceRefused
    <3> HIDE DEF t
    <3> QED
      BY <3>1, <3>2
  <2> QED
    BY <2>1, <2>2
<1>11. CASE StartLogout(p)
  BY <1>11 DEF StartLogout
<1>12. CASE CognitoForgets(p)
  BY <1>12 DEF CognitoForgets
<1>13. CASE NotForgotten(p)
  BY <1>13 DEF NotForgotten
<1>14. CASE CognitoRevokes(p)
  BY <1>14 DEF CognitoRevokes, Tokens
<1>15. CASE NotRevoked(p)
  BY <1>15 DEF NotRevoked
<1> QED
  BY <1>1, <1>2, <1>3, <1>4, <1>5, <1>6, <1>7, <1>8, <1>9, <1>10, <1>11, <1>12, <1>13,
     <1>14, <1>15 DEF Compute

LEMMA TokenStepType == TokenTypeOK /\ [TokenNext]_tokenVars => TokenTypeOK'
<1> SUFFICES ASSUME TokenTypeOK, [TokenNext]_tokenVars PROVE TokenTypeOK'
  OBVIOUS
<1>1. ASSUME NEW p \in Procs, Compute(p) PROVE TokenTypeOK'
  BY <1>1, ComputeType
<1>2. ASSUME NEW p \in Procs, Save(p) PROVE TokenTypeOK'
  <2>1. disk' \in Tokens
    BY <1>2, MergedTokens DEF Save, TokenTypeOK
  <2> QED
    BY <1>2, <2>1 DEF Save, Return, Goes, cognito, TokenTypeOK, Phases, Discarded
<1>3. ASSUME NEW p \in Procs, Clear(p) PROVE TokenTypeOK'
  BY <1>3 DEF Clear, Goes, cognito, TokenTypeOK, Phases, Discarded
<1>4. ASSUME NEW p \in Procs, LockTimesOut(p) PROVE TokenTypeOK'
  BY <1>4 DEF LockTimesOut, Return, Goes, cognito, TokenTypeOK, Phases, Discarded
<1>5. CASE UNCHANGED tokenVars
  BY <1>5 DEF tokenVars, cognito, TokenTypeOK
<1> QED
  BY <1>1, <1>2, <1>3, <1>4, <1>5 DEF TokenNext

THEOREM TokenTypeCorrect == TokenSpec => []TokenTypeOK
BY TokenInitType, TokenStepType, PTL DEF TokenSpec

-----------------------------------------------------------------------------
(* Saved tokens are never replaced by older ones: a step that changes the  *)
(* stored tokens is a save or a clear(), and a save merges.                *)
LEMMA ComputeKeepsDisk == ASSUME NEW p \in Procs, Compute(p) PROVE UNCHANGED disk
BY DEF Compute, StartRefresh, CognitoGrants, CognitoDenies, CallFails, ReceiveGrant, ReceiveDenial,
       Login, LoggedIn, StartDeviceAuth, DeviceAccepted, DeviceRefused, StartLogout,
       CognitoForgets, NotForgotten, CognitoRevokes, NotRevoked

LEMMA DiskChanges ==
  ASSUME TokenTypeOK, [TokenNext]_tokenVars, disk' # disk, disk' # None
  PROVE  \E p \in Procs : phase[p] = "saving" /\ mem[p] \in Tokens /\ disk' = Merge(disk, mem[p])
BY ComputeKeepsDisk DEF TokenNext, tokenVars, Save, Clear, LockTimesOut, TokenTypeOK

THEOREM NeverRolledBack == TokenSpec => NoRollback
<1>1. TokenTypeOK /\ [TokenNext]_tokenVars =>
        [disk # None /\ disk' # None => Discarded(disk') \/ disk'.fresh >= disk.fresh]_disk
  <2> SUFFICES ASSUME TokenTypeOK, [TokenNext]_tokenVars, disk' # disk, disk # None, disk' # None
               PROVE  Discarded(disk') \/ disk'.fresh >= disk.fresh
    OBVIOUS
  <2>1. PICK p \in Procs : mem[p] \in Tokens /\ disk' = Merge(disk, mem[p])
    BY DiskChanges
  <2>2. disk \in Tokens
    BY DEF TokenTypeOK
  <2> QED
    BY <2>1, <2>2, MergeDiscards, MergeKeepsFreshest
<1> QED
  BY <1>1, TokenTypeCorrect, PTL DEF TokenSpec, NoRollback

-----------------------------------------------------------------------------
(* FresherIsLater is inductive.  Most steps make nothing new: what there   *)
(* is after them is a copy, up to its device, of what there was before.    *)
Copied(t) ==
  \/ t = None \/ t.login = 0
  \/ \E s \in Copies : s.login = t.login /\ s.rotation = t.rotation /\ s.fresh = t.fresh

LEMMA CopiesType ==
  ASSUME TokenTypeOK, NEW t \in Copies
  PROVE  /\ t \in Tokens /\ t.login \in Logins /\ t.login \in Nat
         /\ t.rotation \in Nat /\ t.fresh \in Nat
BY TokenBoundAssumption DEF Copies, TokenTypeOK, Tokens, Logins

LEMMA NothingNew ==
  ASSUME TokenTypeOK, FresherIsLater,
         \A q \in Procs : Copied(mem'[q]), Copied(disk'),
         \A l \in Logins : current'[l] \in {current[l], -1},
         logins' = logins, clock' = clock
  PROVE  FresherIsLater'
<1>1. \A t \in Copies' : \E s \in Copies : /\ s.login = t.login /\ s.rotation = t.rotation
                                         /\ s.fresh = t.fresh
  BY DEF Copies, Copied
<1>2. CopiesOrdered'
  BY <1>1, CopiesType DEF FresherIsLater, CopiesOrdered
<1>3. CopiesKnown'
  BY <1>1, CopiesType DEF FresherIsLater, CopiesKnown
<1> QED
  BY <1>2, <1>3 DEF FresherIsLater

(* What Cognito issues is fresher and later than every copy of its login.  *)
LEMMA NewlyIssued ==
  ASSUME TokenTypeOK, TokenTypeOK', FresherIsLater,
         NEW p \in Procs,
         \A q \in Procs \ {p} : mem'[q] = mem[q],
         mem'[p] # None, mem'[p].login \in Logins, disk' = disk,
         clock <= clock', logins <= logins',
         mem'[p].fresh <= clock', mem'[p].login <= logins',
         \A s \in Copies : s.login = mem'[p].login =>
           IF Rotation THEN s.rotation < mem'[p].rotation /\ s.fresh < mem'[p].fresh
                       ELSE s.rotation = mem'[p].rotation,
         \A s \in Copies : current'[s.login] # -1 => s.rotation <= current'[s.login],
         current'[mem'[p].login] # -1 => mem'[p].rotation <= current'[mem'[p].login]
  PROVE  FresherIsLater'
<1> DEFINE new == mem'[p]
<1>1. \A t \in Copies' : t \in Copies \/ t = new
  BY DEF Copies
<1>2. /\ new \in Tokens /\ new.rotation \in Nat /\ new.fresh \in Nat
      /\ clock \in Nat /\ clock' \in Nat /\ logins \in Nat /\ logins' \in Nat
  BY TokenBoundAssumption, TokenNoneAssumption DEF TokenTypeOK, Tokens
<1>3. \A t \in Copies : /\ t.login \in Nat /\ t.rotation \in Nat /\ t.fresh \in Nat
                        /\ t.login <= logins /\ t.fresh <= clock
  BY CopiesType DEF FresherIsLater, CopiesKnown
<1> HIDE DEF new
<1>4. CopiesOrdered'
  <2> SUFFICES ASSUME NEW s \in Copies', NEW t \in Copies', s.login = t.login
               PROVE  IF Rotation THEN s.rotation < t.rotation <=> s.fresh < t.fresh
                                  ELSE s.rotation = t.rotation
    BY DEF CopiesOrdered
  <2>1. CASE s \in Copies /\ t \in Copies
    BY <2>1 DEF FresherIsLater, CopiesOrdered
  <2>2. CASE s = new /\ t \in Copies
    BY <1>2, <1>3, <2>2 DEF new
  <2>3. CASE s \in Copies /\ t = new
    BY <1>2, <1>3, <2>3 DEF new
  <2>4. CASE s = new /\ t = new
    BY <1>2, <2>4
  <2> QED
    BY <1>1, <2>1, <2>2, <2>3, <2>4
<1>5. CopiesKnown'
  <2> SUFFICES ASSUME NEW t \in Copies'
               PROVE  /\ t.login <= logins' /\ t.fresh <= clock'
                      /\ current'[t.login] # -1 => t.rotation <= current'[t.login]
    BY DEF CopiesKnown
  <2>1. CASE t \in Copies
    BY <1>2, <1>3, <2>1
  <2>2. CASE t = new
    BY <2>2 DEF new
  <2> QED
    BY <1>1, <2>1, <2>2
<1> QED
  BY <1>4, <1>5 DEF FresherIsLater

LEMMA GrantKeeps ==
  ASSUME TokenTypeOK, TokenTypeOK', FresherIsLater, NEW p \in Procs, CognitoGrants(p)
  PROVE  FresherIsLater'
<1> DEFINE l == mem[p].login
           r == mem[p].rotation
           next == IF Rotation THEN r + 1 ELSE r
<1>1. /\ mem[p] \in Tokens /\ l \in Logins /\ r \in Nat /\ mem[p].fresh \in Nat
      /\ mem[p] \in Copies /\ current[l] = r
  BY TokenBoundAssumption
     DEF CognitoGrants, Valid, TokenTypeOK, Tokens, Logins, Discarded, Copies
<1>2. PICK now \in Now :
        /\ now > mem[p].fresh /\ clock' = now
        /\ current' = [current EXCEPT ![l] = next]
        /\ Goes(p, "granted", Renewed(mem[p], next, now))
  BY DEF CognitoGrants
<1>3. /\ mem'[p] # None /\ mem'[p].login = l /\ mem'[p].rotation = next /\ mem'[p].fresh = now
      /\ \A q \in Procs \ {p} : mem'[q] = mem[q]
      /\ UNCHANGED <<disk, logins>>
  <2>1. mem' = [mem EXCEPT ![p] = Renewed(mem[p], next, now)]
    BY <1>2 DEF Goes
  <2>2. mem'[p] = Renewed(mem[p], next, now)
        /\ \A q \in Procs \ {p} : mem'[q] = mem[q]
    BY <2>1 DEF TokenTypeOK
  <2>3. next \in Nat /\ now \in 1 .. MaxClock
    BY <1>1, <1>2, TokenBoundAssumption DEF Now
  <2>4. mem'[p] # None
    BY TokenNoneAssumption, <1>2 DEF TokenTypeOK, Goes
  <2>5. UNCHANGED <<disk, logins>>
    BY DEF CognitoGrants
  <2> HIDE DEF l, next
  <2>6. mem'[p].login = mem[p].login /\ mem'[p].rotation = next /\ mem'[p].fresh = now
    BY <1>1, <2>2, <2>3 DEF Renewed
  <2> QED
    BY <2>2, <2>4, <2>5, <2>6 DEF l
<1>4. now \in Nat /\ clock \in Nat /\ clock <= now /\ logins \in Nat /\ next \in Nat
  BY <1>1, TokenBoundAssumption DEF TokenTypeOK, Now
<1>5. \A s \in Copies : s.login = l =>
        IF Rotation THEN s.rotation < next /\ s.fresh < now ELSE s.rotation = next
  <2> SUFFICES ASSUME NEW s \in Copies, s.login = l
               PROVE  IF Rotation THEN s.rotation < next /\ s.fresh < now
                                  ELSE s.rotation = next
    OBVIOUS
  <2>1. s.rotation \in Nat /\ s.fresh \in Nat /\ s.rotation <= r
    BY <1>1, CopiesType DEF FresherIsLater, CopiesKnown
  <2>2. IF Rotation THEN r < s.rotation <=> mem[p].fresh < s.fresh ELSE s.rotation = r
    BY <1>1 DEF FresherIsLater, CopiesOrdered
  <2> HIDE DEF r, l
  <2> QED
    BY <1>1, <1>2, <1>4, <2>1, <2>2
<1>6. \A s \in Copies : current'[s.login] # -1 => s.rotation <= current'[s.login]
  <2> SUFFICES ASSUME NEW s \in Copies, current'[s.login] # -1
               PROVE  s.rotation <= current'[s.login]
    OBVIOUS
  <2>1. s.login \in Logins /\ s.rotation \in Nat
    BY CopiesType
  <2>2. current[s.login] # -1 => s.rotation <= current[s.login]
    BY DEF FresherIsLater, CopiesKnown
  <2>3. current'[l] = next /\ \A m \in Logins : m # l => current'[m] = current[m]
    BY <1>1, <1>2 DEF TokenTypeOK
  <2>4. CASE s.login = l
    <3>1. s.rotation <= r
      BY <1>1, <2>1, <2>2, <2>4
    <3> HIDE DEF l, r
    <3> QED
      BY <1>1, <2>1, <2>3, <2>4, <3>1
  <2>5. CASE s.login # l
    BY <2>1, <2>2, <2>3, <2>5
  <2> QED
    BY <2>4, <2>5
<1>7. current'[l] = next /\ l <= logins
  BY <1>1, <1>2 DEF TokenTypeOK, FresherIsLater, CopiesKnown
<1> HIDE DEF l, next
<1> QED
  BY <1>1, <1>2, <1>3, <1>4, <1>5, <1>6, <1>7, NewlyIssued

LEMMA LoggedInKeeps ==
  ASSUME TokenTypeOK, TokenTypeOK', FresherIsLater,
         NEW p \in Procs, NEW d \in 0 .. MaxLogins, NEW dev \in 0 .. MaxLogins,
         LoggedIn(p, d, dev)
  PROVE  FresherIsLater'
<1>1. PICK now \in Now \ {0} :
        /\ clock' = now
        /\ Goes(p, "saving", [login |-> logins + 1, rotation |-> 0, fresh |-> now,
                              device |-> dev])
  BY DEF LoggedIn
<1> DEFINE t == [login |-> logins + 1, rotation |-> 0, fresh |-> now, device |-> dev]
<1>2. t.login = logins + 1 /\ t.rotation = 0 /\ t.fresh = now
  OBVIOUS
<1>3. mem' = [mem EXCEPT ![p] = t]
  BY <1>1 DEF Goes
<1>4. /\ logins \in Nat /\ logins + 1 \in Logins
      /\ current' = [current EXCEPT ![logins + 1] = 0]
      /\ logins' = logins + 1 /\ disk' = disk
      /\ now \in Nat /\ now <= MaxClock /\ now # 0 /\ clock \in Nat /\ clock <= now
  BY TokenBoundAssumption DEF LoggedIn, TokenTypeOK, Logins, Now
<1>5. t # None
  <2>1. t \in Tokens
    BY <1>4, TokenBoundAssumption DEF Tokens, Logins
  <2> QED
    BY <2>1, TokenNoneAssumption
<1> HIDE DEF t
<1>6. mem'[p] = t /\ \A q \in Procs \ {p} : mem'[q] = mem[q]
  BY <1>3 DEF TokenTypeOK
<1>7. \A s \in Copies : /\ s.login \in Logins /\ s.login # logins + 1
                        /\ current[s.login] # -1 => s.rotation <= current[s.login]
  BY <1>4, CopiesType DEF FresherIsLater, CopiesKnown
<1>8. /\ \A l \in Logins : l # logins + 1 => current'[l] = current[l]
      /\ current'[logins + 1] = 0
  BY <1>4 DEF TokenTypeOK, Logins
<1>9. \A s \in Copies : current'[s.login] # -1 => s.rotation <= current'[s.login]
  BY <1>7, <1>8
<1> QED
  BY <1>1, <1>2, <1>4, <1>5, <1>6, <1>7, <1>8, <1>9, NewlyIssued

LEMMA ComputeKeeps ==
  ASSUME TokenTypeOK, TokenTypeOK', FresherIsLater, NEW p \in Procs, Compute(p)
  PROVE  FresherIsLater'
<1> USE DEF Goes, Return, cognito, TokenTypeOK
<1>1. CASE StartRefresh(p)
  BY <1>1, NothingNew DEF StartRefresh, Copied, Copies
<1>2. CASE CognitoGrants(p)
  BY <1>2, GrantKeeps
<1>3. CASE CognitoDenies(p)
  BY <1>3, NothingNew DEF CognitoDenies, Copied, Copies
<1>4. CASE CallFails(p)
  BY <1>4, NothingNew DEF CallFails, Copied, Copies
<1>5. CASE ReceiveGrant(p)
  BY <1>5, NothingNew DEF ReceiveGrant, Copied, Copies
<1>6. CASE ReceiveDenial(p)
  BY <1>6, NothingNew DEF ReceiveDenial, Copied, Copies
<1>7. CASE Login(p)
  <2>1. PICK dev \in {0, logins + 1} : LoggedIn(p, logins + 1, dev)
    BY <1>7 DEF Login
  <2>2. logins + 1 \in 0 .. MaxLogins /\ dev \in 0 .. MaxLogins
    BY <2>1, TokenBoundAssumption DEF LoggedIn
  <2> QED
    BY <2>1, <2>2, LoggedInKeeps
<1>8. CASE StartDeviceAuth(p)
  BY <1>8, NothingNew DEF StartDeviceAuth, Copied, Copies
<1>9. CASE DeviceAccepted(p)
  <2>1. mem[p].device \in 0 .. MaxLogins
    BY <1>9, TokenNoneAssumption DEF DeviceAccepted, Tokens
  <2> QED
    BY <1>9, <2>1, LoggedInKeeps DEF DeviceAccepted
<1>10. CASE DeviceRefused(p)
  <2>1. CASE disk = None
    BY <1>10, <2>1, NothingNew DEF DeviceRefused, Copied, Copies
  <2>2. CASE disk # None
    <3> DEFINE t == [disk EXCEPT !.device = 0]
    <3>1. t.login = disk.login /\ t.rotation = disk.rotation /\ t.fresh = disk.fresh
      BY <2>2 DEF Tokens
    <3>2. /\ phase' = [phase EXCEPT ![p] = "saving"]
          /\ mem' = [mem EXCEPT ![p] = t]
          /\ UNCHANGED <<disk, current, logins, clock>>
      BY <1>10, <2>2 DEF DeviceRefused
    <3> HIDE DEF t
    <3>3. Copied(t) /\ Copied(disk)
      BY <2>2, <3>1 DEF Copied, Copies
    <3> QED
      BY <3>2, <3>3, NothingNew DEF Copied, Copies
  <2> QED
    BY <2>1, <2>2
<1>11. CASE StartLogout(p)
  BY <1>11, NothingNew DEF StartLogout, Copied, Copies
<1>12. CASE CognitoForgets(p)
  BY <1>12, NothingNew DEF CognitoForgets, Copied, Copies
<1>13. CASE NotForgotten(p)
  BY <1>13, NothingNew DEF NotForgotten, Copied, Copies
<1>14. CASE CognitoRevokes(p)
  BY <1>14, NothingNew DEF CognitoRevokes, Copied, Copies
<1>15. CASE NotRevoked(p)
  BY <1>15, NothingNew DEF NotRevoked, Copied, Copies
<1> QED
  BY <1>1, <1>2, <1>3, <1>4, <1>5, <1>6, <1>7, <1>8, <1>9, <1>10, <1>11, <1>12, <1>13,
     <1>14, <1>15 DEF Compute

LEMMA MergeCopies ==
  ASSUME TokenTypeOK, NEW p \in Procs, phase[p] = "saving"
  PROVE  Copied(Merge(disk, mem[p]))
<1>1. mem[p] \in Tokens /\ disk \in Tokens \cup {None}
  BY DEF TokenTypeOK
<1>2. Copied(mem[p])
  BY DEF Copied, Copies
<1>3. CASE Merge(disk, mem[p]) = mem[p]
  BY <1>2, <1>3
<1>4. CASE disk \in Tokens /\ Merge(disk, mem[p]) = [disk EXCEPT !.device = mem[p].device]
  <2> DEFINE t == [disk EXCEPT !.device = mem[p].device]
  <2>1. t.login = disk.login /\ t.rotation = disk.rotation /\ t.fresh = disk.fresh
    BY <1>4 DEF Tokens
  <2> HIDE DEF t
  <2>2. Copied(t)
    BY <1>4, <2>1, TokenNoneAssumption DEF Copied, Copies
  <2> QED
    BY <1>4, <2>2 DEF t
<1> QED
  BY <1>1, <1>3, <1>4 DEF Merge

TokenInv == TokenTypeOK /\ FresherIsLater

LEMMA StepKeeps == TokenInv /\ [TokenNext]_tokenVars => TokenInv'
<1> SUFFICES ASSUME TokenTypeOK, FresherIsLater, [TokenNext]_tokenVars PROVE FresherIsLater'
  BY TokenStepType DEF TokenInv
<1>1. TokenTypeOK'
  BY TokenStepType
<1>2. ASSUME NEW p \in Procs, Compute(p) PROVE FresherIsLater'
  BY <1>1, <1>2, ComputeKeeps
<1>3. ASSUME NEW p \in Procs, Save(p) PROVE FresherIsLater'
  <2>1. Copied(disk') /\ \A q \in Procs : Copied(mem'[q])
    BY <1>3, MergeCopies DEF Save, Return, Goes, TokenTypeOK, Copied, Copies
  <2> QED
    BY <1>3, <2>1, NothingNew DEF Save, cognito
<1>4. ASSUME NEW p \in Procs, Clear(p) PROVE FresherIsLater'
  BY <1>4, NothingNew DEF Clear, Goes, cognito, TokenTypeOK, Copied, Copies
<1>5. ASSUME NEW p \in Procs, LockTimesOut(p) PROVE FresherIsLater'
  BY <1>1, <1>5, NothingNew
     DEF LockTimesOut, Return, Goes, cognito, TokenTypeOK, Copied, Copies
<1>6. CASE UNCHANGED tokenVars
  BY <1>6 DEF tokenVars, cognito, FresherIsLater, CopiesOrdered, CopiesKnown, Copies
<1> QED
  BY <1>2, <1>3, <1>4, <1>5, <1>6 DEF TokenNext

LEMMA InitKeeps == TokenInit => TokenInv
<1> SUFFICES ASSUME TokenInit PROVE FresherIsLater
  BY TokenInitType DEF TokenInv
<1>1. Copies = {}
  BY DEF TokenInit, Copies
<1> QED
  BY <1>1 DEF TokenInit, FresherIsLater, CopiesOrdered, CopiesKnown

(* However many processes refresh, log in and save, the freshness tells      *)
(* which of two copies of a login's tokens carries the later refresh       *)
(* token.                                                                  *)
THEOREM FreshnessIsSound == TokenSpec => []FresherIsLater
<1>1. TokenSpec => []TokenInv
  BY InitKeeps, StepKeeps, PTL DEF TokenSpec
<1>2. TokenInv => FresherIsLater
  BY DEF TokenInv
<1> QED
  BY <1>1, <1>2, PTL

(* A refresh token that Cognito has rotated out is never stored in place   *)
(* of one that came after it.                                              *)
THEOREM RotationsNeverReturn == TokenSpec => RotationsAdvance
<1>1. TokenInv /\ [TokenNext]_tokenVars =>
        [disk # None /\ disk' # None /\ ~Discarded(disk) /\ disk'.login = disk.login
           => disk'.rotation >= disk.rotation]_disk
  <2> SUFFICES ASSUME TokenTypeOK, FresherIsLater, [TokenNext]_tokenVars, disk' # disk,
                      disk # None, disk' # None, ~Discarded(disk), disk'.login = disk.login
               PROVE  disk'.rotation >= disk.rotation
    BY DEF TokenInv
  <2>1. PICK p \in Procs : phase[p] = "saving" /\ mem[p] \in Tokens /\ disk' = Merge(disk, mem[p])
    BY DiskChanges
  <2>2. disk \in Tokens /\ disk \in Copies
    BY DEF TokenTypeOK, Copies, Discarded
  <2>3. CASE disk.fresh <= mem[p].fresh \/ Discarded(mem[p])
    <3>1. disk' = mem[p]
      BY <2>1, <2>3 DEF Merge
    <3>2. mem[p] \in Copies /\ disk.fresh <= mem[p].fresh
      BY <2>1, <2>3, <3>1, TokenNoneAssumption DEF Copies, Discarded
    <3> QED
      BY <2>1, <2>2, <3>1, <3>2 DEF FresherIsLater, CopiesOrdered, Tokens
  <2>4. CASE ~(disk.fresh <= mem[p].fresh) /\ ~Discarded(mem[p])
    BY <2>1, <2>2, <2>4 DEF Merge, Tokens
  <2> QED
    BY <2>3, <2>4
<1>2. TokenSpec => []TokenInv
  BY InitKeeps, StepKeeps, PTL DEF TokenSpec
<1> QED
  BY <1>1, <1>2, PTL DEF TokenSpec, RotationsAdvance

-----------------------------------------------------------------------------
(* Operations that overlap may store the tokens of one login with the      *)
(* device of another, or lose tokens that Cognito honours.  Those that     *)
(* follow one another, of however many processes, do not.                  *)
OneByOne == \A p, q \in Procs : phase[p] # "idle" /\ phase[q] # "idle" => p = q

Fits(t) == Discarded(t) \/ t.device \in {0, bound[t.login]}

(* Saving t takes nothing away that is worth more. *)
MaySave(t) ==
  disk # None => IF Discarded(t) THEN Discarded(disk) \/ ~Valid(disk)
                                 ELSE disk.fresh <= t.fresh

(* Between what a process has loaded and what it saves, the file does not  *)
(* change.                                                                 *)
InStep(p) ==
  /\ phase[p] \in {"calling", "denied", "verifying"} => mem[p] = disk
  /\ phase[p] = "denied" => ~Valid(disk)
  /\ phase[p] \in {"granted", "saving"} => Fits(mem[p]) /\ MaySave(mem[p])

SequentialInv == (disk # None => Fits(disk)) /\ \A p \in Procs : InStep(p)

(* A computation of one process leaves the phase of the others alone.      *)
LEMMA ComputeIsOwn ==
  ASSUME TokenTypeOK, NEW p \in Procs, Compute(p), NEW q \in Procs, q # p
  PROVE  phase'[q] = phase[q]
BY DEF Compute, StartRefresh, CognitoGrants, CognitoDenies, CallFails, ReceiveGrant, ReceiveDenial,
       Login, LoggedIn, StartDeviceAuth, DeviceAccepted, DeviceRefused, StartLogout,
       CognitoForgets, NotForgotten, CognitoRevokes, NotRevoked, Goes, Return, TokenTypeOK

LEMMA OthersAreIdle ==
  ASSUME TokenTypeOK, OneByOne, OneByOne', NEW p \in Procs, NEW q \in Procs, q # p,
         Compute(p) \/ Save(p) \/ Clear(p) \/ LockTimesOut(p)
  PROVE  phase'[q] = "idle"
<1>1. phase'[q] = phase[q]
  BY ComputeIsOwn DEF Save, Clear, LockTimesOut, Return, Goes, TokenTypeOK
<1>2. phase[p] # "idle" \/ phase'[p] # "idle"
  BY DEF Compute, StartRefresh, CognitoGrants, CognitoDenies, CallFails, ReceiveGrant, ReceiveDenial,
     Login, LoggedIn, StartDeviceAuth, DeviceAccepted, DeviceRefused, StartLogout, CognitoForgets,
     NotForgotten, CognitoRevokes, NotRevoked, Save, Clear, LockTimesOut, Goes, TokenTypeOK
<1> QED
  BY <1>1, <1>2 DEF OneByOne

(* The tokens of a new login are newer than any, and its number is new.    *)
LEMMA LoginInStep ==
  ASSUME TokenInv, TokenTypeOK', SequentialInv, NEW p \in Procs, NEW d \in 0 .. MaxLogins,
         NEW dev \in {0, d}, LoggedIn(p, d, dev)
  PROVE  (disk' # None => Fits(disk)') /\ InStep(p)'
<1>1. PICK now \in Now \ {0} :
        Goes(p, "saving", [login |-> logins + 1, rotation |-> 0, fresh |-> now, device |-> dev])
  BY DEF LoggedIn
<1>2. PICK t : t = [login |-> logins + 1, rotation |-> 0, fresh |-> now, device |-> dev]
  OBVIOUS
<1>3. /\ t.login = logins + 1 /\ t.fresh = now /\ t.device = dev
      /\ phase'[p] = "saving" /\ mem'[p] = t
  BY <1>1, <1>2 DEF Goes, TokenInv, TokenTypeOK
<1>4. logins + 1 \in Logins /\ bound' = [bound EXCEPT ![logins + 1] = d] /\ disk' = disk
  BY TokenBoundAssumption DEF LoggedIn, Logins, TokenInv, TokenTypeOK
<1>5. now \in Nat /\ clock <= now
  BY TokenBoundAssumption DEF Now, TokenInv, TokenTypeOK
<1>6. disk # None => disk.login <= logins /\ disk.fresh <= clock /\ disk.login \in 0 .. MaxLogins
  BY TokenBoundAssumption DEF TokenInv, TokenTypeOK, FresherIsLater, CopiesKnown, Copies, Tokens
<1>7. bound'[logins + 1] = d
  BY <1>4 DEF TokenInv, TokenTypeOK
<1>8. disk # None => disk.fresh \in Nat /\ clock \in Nat /\ logins \in Nat
  BY TokenBoundAssumption DEF TokenInv, TokenTypeOK, Tokens
<1>9. Fits(t)'
  BY <1>3, <1>7 DEF Fits
<1>10. ~Discarded(t)
  BY <1>3, TokenBoundAssumption DEF Discarded, TokenInv, TokenTypeOK
<1>11. disk # None => disk.fresh <= t.fresh
  BY <1>3, <1>5, <1>6, <1>8
<1>12. MaySave(t)'
  BY <1>4, <1>10, <1>11 DEF MaySave, Discarded
<1>13. disk' # None => Fits(disk)'
  BY <1>4, <1>6, <1>8, TokenBoundAssumption DEF Fits, Discarded, SequentialInv, TokenInv, TokenTypeOK
<1> QED
  BY <1>3, <1>9, <1>12, <1>13 DEF InStep, Fits, MaySave

LEMMA GrantInStep ==
  ASSUME TokenInv, TokenTypeOK', SequentialInv, NEW p \in Procs, CognitoGrants(p)
  PROVE  InStep(p)'
<1>1. PICK now \in Now : \E next : 
        /\ now > mem[p].fresh /\ Goes(p, "granted", Renewed(mem[p], next, now))
  BY DEF CognitoGrants
<1>2. PICK next : now > mem[p].fresh /\ Goes(p, "granted", Renewed(mem[p], next, now))
  BY <1>1
<1>3. PICK t : t = Renewed(mem[p], next, now)
  OBVIOUS
<1>4. mem[p] = disk /\ disk # None /\ ~Discarded(disk) /\ UNCHANGED <<disk, bound>>
  BY DEF CognitoGrants, SequentialInv, InStep, TokenInv, TokenTypeOK
<1>5. disk \in Tokens /\ disk.fresh \in Nat /\ now \in Nat
  BY <1>4, TokenBoundAssumption DEF TokenInv, TokenTypeOK, Tokens, Now
<1>6. /\ t.login = disk.login /\ t.fresh = now /\ t.device = disk.device
      /\ phase'[p] = "granted" /\ mem'[p] = t
  BY <1>2, <1>3, <1>4, <1>5 DEF Renewed, Goes, TokenInv, TokenTypeOK, Tokens
<1>7. Fits(t)'
  BY <1>4, <1>6 DEF SequentialInv, Fits, Discarded
<1>8. MaySave(t)'
  BY <1>2, <1>4, <1>5, <1>6 DEF MaySave, Discarded
<1> QED
  BY <1>6, <1>7, <1>8 DEF InStep, Fits, MaySave

LEMMA ComputeInStep ==
  ASSUME TokenInv, TokenTypeOK', SequentialInv, NEW p \in Procs, Compute(p)
  PROVE  (disk' # None => Fits(disk)') /\ InStep(p)'
<1> USE DEF TokenInv, TokenTypeOK, SequentialInv, Goes, Return, cognito
<1>1. ASSUME bound' = bound, disk' = disk PROVE disk' # None => Fits(disk)'
  BY <1>1 DEF Fits
<1>2. CASE StartRefresh(p)
  BY <1>1, <1>2 DEF StartRefresh, InStep
<1>3. CASE CognitoGrants(p)
  BY <1>1, <1>3, GrantInStep DEF CognitoGrants
<1>4. CASE CognitoDenies(p)
  BY <1>1, <1>4 DEF CognitoDenies, InStep, Valid
<1>5. CASE CallFails(p)
  BY <1>1, <1>5 DEF CallFails, InStep
<1>6. CASE ReceiveGrant(p)
  BY <1>1, <1>6 DEF ReceiveGrant, InStep, Fits, MaySave, Valid
<1>7. CASE ReceiveDenial(p)
  <2> DEFINE t == [login |-> 0, rotation |-> 0, fresh |-> 0, device |-> mem[p].device]
  <2>1. Discarded(t) /\ phase'[p] = "saving" /\ mem'[p] = t /\ phase[p] = "denied"
        /\ UNCHANGED <<disk, current, bound>>
    BY <1>7 DEF ReceiveDenial, Discarded
  <2> HIDE DEF t
  <2>2. ~Valid(disk)'
    BY <2>1 DEF InStep, Valid
  <2> QED
    BY <1>1, <2>1, <2>2 DEF InStep, Fits, MaySave, Discarded
<1>8. CASE Login(p)
  <2>1. PICK dev \in {0, logins + 1} : LoggedIn(p, logins + 1, dev)
    BY <1>8 DEF Login
  <2>2. logins + 1 \in 0 .. MaxLogins
    BY <2>1, TokenBoundAssumption DEF LoggedIn
  <2> QED
    BY <2>1, <2>2, LoginInStep
<1>9. CASE StartDeviceAuth(p)
  BY <1>1, <1>9 DEF StartDeviceAuth, InStep
<1>10. CASE DeviceAccepted(p)
  <2>1. mem[p].device \in 0 .. MaxLogins
    BY <1>10, TokenNoneAssumption DEF DeviceAccepted, Tokens
  <2> QED
    BY <1>10, <2>1, LoginInStep DEF DeviceAccepted
<1>11. CASE DeviceRefused(p)
  <2>1. CASE disk = None
    BY <1>1, <1>11, <2>1 DEF DeviceRefused, InStep
  <2>2. CASE disk # None
    <3> DEFINE t == [disk EXCEPT !.device = 0]
    <3>1. t.login = disk.login /\ t.fresh = disk.fresh /\ t.device = 0 /\ t.fresh \in Nat
      BY <2>2, TokenBoundAssumption DEF Tokens
    <3>2. phase'[p] = "saving" /\ mem'[p] = t /\ UNCHANGED <<disk, current, bound>>
      BY <1>11, <2>2 DEF DeviceRefused
    <3> HIDE DEF t
    <3> QED
      BY <1>1, <3>1, <3>2 DEF InStep, Fits, MaySave, Discarded
  <2> QED
    BY <2>1, <2>2
<1>12. CASE StartLogout(p)
  BY <1>1, <1>12 DEF StartLogout, InStep
<1>13. CASE CognitoForgets(p) \/ NotForgotten(p) \/ CognitoRevokes(p) \/ NotRevoked(p)
  BY <1>1, <1>13 DEF CognitoForgets, NotForgotten, CognitoRevokes, NotRevoked, InStep
<1> QED
  BY <1>2, <1>3, <1>4, <1>5, <1>6, <1>7, <1>8, <1>9, <1>10, <1>11, <1>12, <1>13 DEF Compute

(* What is saved replaces what is stored. *)
LEMMA SaveInStep ==
  ASSUME TokenInv, SequentialInv, NEW p \in Procs, Save(p)
  PROVE  disk' = mem[p] /\ (disk' # None => Fits(disk)') /\ InStep(p)'
<1>1. mem[p] # None /\ Fits(mem[p]) /\ MaySave(mem[p]) /\ disk' = Merge(disk, mem[p])
      /\ bound' = bound /\ phase'[p] \in {"idle", "forgetting"}
  BY DEF Save, Return, Goes, cognito, SequentialInv, InStep, TokenInv, TokenTypeOK
<1>2. disk' = mem[p]
  BY <1>1 DEF Merge, MaySave
<1> QED
  BY <1>1, <1>2 DEF Fits, InStep

LEMMA SequentialStep ==
  SequentialInv /\ TokenInv /\ TokenInv' /\ OneByOne /\ OneByOne' /\ [TokenNext]_tokenVars
    => SequentialInv'
<1> SUFFICES ASSUME SequentialInv, TokenInv, TokenInv', OneByOne, OneByOne', [TokenNext]_tokenVars
             PROVE  SequentialInv'
  OBVIOUS
<1>1. ASSUME NEW p \in Procs, Compute(p) \/ Save(p) \/ Clear(p) \/ LockTimesOut(p)
      PROVE  SequentialInv'
  <2>1. \A q \in Procs \ {p} : InStep(q)'
    BY <1>1, OthersAreIdle DEF InStep, TokenInv
  <2>2. (disk' # None => Fits(disk)') /\ InStep(p)'
    <3>1. CASE Compute(p)
      BY <3>1, ComputeInStep DEF TokenInv
    <3>2. CASE Save(p)
      BY <3>2, SaveInStep
    <3>3. CASE Clear(p)
      BY <3>3 DEF Clear, Goes, InStep, TokenInv, TokenTypeOK
    <3>4. CASE LockTimesOut(p)
      BY <3>4 DEF LockTimesOut, Return, Goes, cognito, SequentialInv, InStep, Fits, TokenInv, TokenTypeOK
    <3> QED
      BY <1>1, <3>1, <3>2, <3>3, <3>4
  <2> QED
    BY <2>1, <2>2 DEF SequentialInv
<1>2. CASE UNCHANGED tokenVars
  BY <1>2 DEF tokenVars, cognito, SequentialInv, InStep, Fits, MaySave, Valid
<1> QED
  BY <1>1, <1>2 DEF TokenNext

LEMMA SequentialInvariant == TokenSpec /\ []OneByOne => []SequentialInv
<1>1. TokenInit => SequentialInv
  BY DEF TokenInit, SequentialInv, InStep
<1>2. TokenSpec => []TokenInv
  BY InitKeeps, StepKeeps, PTL DEF TokenSpec
<1> QED
  BY <1>1, <1>2, SequentialStep, PTL DEF TokenSpec

(* As long as operations do not overlap, what is stored is of one login:   *)
(* a refresh token with its own device, or with none.                      *)
THEOREM OneByOneDeviceMatches == TokenSpec /\ []OneByOne => []DeviceMatchesToken
<1>1. SequentialInv => DeviceMatchesToken
  BY DEF SequentialInv, Fits, DeviceMatchesToken
<1> QED
  BY <1>1, SequentialInvariant, PTL

(* And only tokens that Cognito honours no more are thrown away after a    *)
(* refusal.                                                                *)
THEOREM OneByOneKeepsHonoured == TokenSpec /\ []OneByOne => HonouredTokensKept
<1>1. SequentialInv /\ TokenInv /\ [TokenNext]_tokenVars =>
        [(\E p \in Procs : phase[p] = "saving" /\ phase'[p] # "saving")
           => disk = None \/ Discarded(disk) \/ ~Valid(disk) \/ ~Discarded(disk')]_tokenVars
  <2> SUFFICES ASSUME SequentialInv, TokenInv, TokenNext, NEW p \in Procs,
                      phase[p] = "saving", phase'[p] # "saving"
               PROVE  disk = None \/ Discarded(disk) \/ ~Valid(disk) \/ ~Discarded(disk')
    BY DEF tokenVars
  <2>1. PICK q \in Procs : Compute(q) \/ Save(q) \/ Clear(q) \/ LockTimesOut(q)
    BY DEF TokenNext
  <2>2. q = p
    BY <2>1, ComputeIsOwn DEF Save, Clear, LockTimesOut, Return, Goes, TokenInv, TokenTypeOK
  <2>3. CASE Save(p)
    BY <2>3, SaveInStep DEF SequentialInv, InStep, MaySave
  <2>4. CASE LockTimesOut(p)
    BY <2>4 DEF LockTimesOut
  <2>5. ~Compute(p) /\ ~Clear(p)
    BY DEF Compute, StartRefresh, CognitoGrants, CognitoDenies, CallFails, ReceiveGrant, ReceiveDenial,
       Login, LoggedIn, StartDeviceAuth, DeviceAccepted, DeviceRefused, StartLogout, CognitoForgets,
       NotForgotten, CognitoRevokes, NotRevoked, Clear
  <2> QED
    BY <2>1, <2>2, <2>3, <2>4, <2>5
<1>2. TokenSpec => []TokenInv
  BY InitKeeps, StepKeeps, PTL DEF TokenSpec
<1> QED
  BY <1>1, <1>2, SequentialInvariant, PTL DEF TokenSpec, HonouredTokensKept

-----------------------------------------------------------------------------
(***************************************************************************)
(* tokens.json under its lock file: TokenStoreLocked implements TokenStore *)
(* whenever the lock excludes.                                             *)
(***************************************************************************)

(* A process has read the stored tokens only while it saves under the      *)
(* lock.                                                                   *)
ReadOnlyAtWork ==
  \A p \in Procs : read[p] # Unread => phase[p] = "saving" /\ pc[p] \in {"work", "dead"}

(* As long as it is at work, what it has read is what is stored: nobody    *)
(* else writes between its reading and its writing.  This is what the      *)
(* exclusion is needed for.                                                *)
ReadIsStored ==
  \A p \in Procs : pc[p] = "work" /\ read[p] # Unread => read[p] = disk

(* A process that has died at work may have read what is no longer stored; *)
(* it never writes.                                                        *)
LockedInv ==
  /\ TokenTypeOK
  /\ pc \in [Procs -> File!Places]
  /\ read \in [Procs -> Tokens \cup {None, Unread}]
  /\ ReadOnlyAtWork
  /\ ReadIsStored

LEMMA LockedInitially == LockedInit => LockedInv
<1> SUFFICES ASSUME LockedInit PROVE LockedInv
  OBVIOUS
<1>1. TokenTypeOK
  BY TokenInitType DEF LockedInit
<1>2. pc \in [Procs -> File!Places] /\ read = [p \in Procs |-> Unread]
  BY DEF LockedInit, File!Init, File!Places
<1> QED
  BY <1>1, <1>2 DEF LockedInv, ReadOnlyAtWork, ReadIsStored

(* Every step is one of TokenStore, or leaves its variables alone: a save  *)
(* takes effect when it writes, and a call that cannot have the lock, or   *)
(* cannot write, is one that throws.                                       *)
LEMMA LockedStep ==
  ASSUME LockedInv, File!MutualExclusion, [LockedNext]_lockedVars
  PROVE  [TokenNext]_tokenVars /\ LockedInv'
<1> USE DEF LockedInv
<1>1. ASSUME NEW p \in Procs, Elsewhere(p) PROVE [TokenNext]_tokenVars /\ LockedInv'
  <2>1. TokenNext /\ UNCHANGED <<disk, pc, read>> /\ read[p] = Unread
    BY <1>1, ComputeKeepsDisk DEF Elsewhere, TokenNext, lockVars, ReadOnlyAtWork
  <2>2. ReadOnlyAtWork' /\ ReadIsStored'
    BY <1>1, <2>1, ComputeIsOwn DEF Elsewhere, ReadOnlyAtWork, ReadIsStored
  <2> QED
    BY <2>1, <2>2, TokenStepType
<1>2. ASSUME NEW p \in Procs, StartLocking(p) \/ Locking(p)
      PROVE  [TokenNext]_tokenVars /\ LockedInv'
  <2>1. UNCHANGED tokenVars /\ UNCHANGED <<disk, phase, read>> /\ read[p] = Unread
    BY <1>2 DEF StartLocking, Locking, tokenVars, ReadOnlyAtWork, File!Enter, File!OpenCreates,
       File!OpenFails, File!WritePid, File!FindStale, File!Rename, File!Compare, File!Stat,
       File!Unlink, File!FindBusy
  <2>2. pc' \in [Procs -> File!Places] /\ \A q \in Procs : q # p => pc'[q] = pc[q]
    BY <1>2 DEF StartLocking, Locking, File!Enter, File!OpenCreates, File!OpenFails, File!WritePid,
       File!FindStale, File!Rename, File!Compare, File!Stat, File!Unlink, File!FindBusy,
       File!Goto, File!Places
  <2>3. ReadOnlyAtWork' /\ ReadIsStored'
    BY <2>1, <2>2 DEF ReadOnlyAtWork, ReadIsStored
  <2> QED
    BY <2>1, <2>2, <2>3, TokenStepType
<1>3. ASSUME NEW p \in Procs, LockingFails(p) PROVE [TokenNext]_tokenVars /\ LockedInv'
  <2>1. TokenNext
    BY <1>3 DEF LockingFails, TokenNext
  <2>2. UNCHANGED <<disk, read>> /\ read[p] = Unread
    BY <1>3 DEF LockingFails, LockTimesOut, ReadOnlyAtWork, File!FindBusy, File!WriteFails
  <2>3. pc' = [pc EXCEPT ![p] = "idle"]
    BY <1>3 DEF LockingFails, File!FindBusy, File!WriteFails, File!Goto, File!Places
  <2>4. \A q \in Procs : q # p => phase'[q] = phase[q]
    BY <1>3 DEF LockingFails, LockTimesOut, Return, Goes, TokenTypeOK
  <2>5. ReadOnlyAtWork' /\ ReadIsStored' /\ pc' \in [Procs -> File!Places]
    BY <2>2, <2>3, <2>4 DEF ReadOnlyAtWork, ReadIsStored, File!Places
  <2> QED
    BY <2>1, <2>2, <2>5, TokenStepType
<1>4. ASSUME NEW p \in Procs, ReadStored(p) PROVE [TokenNext]_tokenVars /\ LockedInv'
  <2>1. UNCHANGED tokenVars /\ UNCHANGED <<disk, phase, pc>>
    BY <1>4 DEF ReadStored, tokenVars, lockVars
  <2>2. read' = [read EXCEPT ![p] = disk] /\ disk \in Tokens \cup {None}
    BY <1>4 DEF ReadStored, TokenTypeOK
  <2>3. ReadOnlyAtWork' /\ ReadIsStored'
    BY <1>4, <2>1, <2>2 DEF ReadStored, ReadOnlyAtWork, ReadIsStored
  <2> QED
    BY <2>1, <2>2, <2>3, TokenStepType
<1>5. ASSUME NEW p \in Procs, WriteMerged(p) \/ WriteFails(p) \/ RemoveStored(p)
      PROVE  [TokenNext]_tokenVars /\ LockedInv'
  <2>1. pc[p] = "work" /\ pc' = [pc EXCEPT ![p] = "stat"]
    BY <1>5 DEF WriteMerged, WriteFails, RemoveStored, File!Work, File!Goto
  <2>2. \A q \in Procs : q # p => pc[q] # "work"
    BY <2>1 DEF File!MutualExclusion
  <2>3. TokenNext
    <3>1. CASE WriteMerged(p)
      <4>1. read[p] = disk
        BY <2>1, <3>1 DEF WriteMerged, ReadIsStored
      <4> QED
        BY <3>1, <4>1 DEF WriteMerged, TokenNext, Save
    <3> QED
      BY <1>5, <3>1 DEF WriteFails, RemoveStored, TokenNext
  <2>4. /\ read' \in [Procs -> Tokens \cup {None, Unread}]
        /\ read'[p] = Unread
        /\ \A q \in Procs : q # p => read'[q] = read[q] /\ phase'[q] = phase[q]
    BY <1>5 DEF WriteMerged, WriteFails, RemoveStored, Clear, LockTimesOut, Return, Goes,
       TokenTypeOK, ReadOnlyAtWork
  <2>5. pc' \in [Procs -> File!Places]
    BY <2>1 DEF File!Places
  <2>6. ReadOnlyAtWork' /\ ReadIsStored'
    BY <2>1, <2>2, <2>4 DEF ReadOnlyAtWork, ReadIsStored
  <2> QED
    BY <2>3, <2>4, <2>5, <2>6, TokenStepType
<1>6. ASSUME NEW p \in Procs, Dies(p) PROVE [TokenNext]_tokenVars /\ LockedInv'
  <2>1. UNCHANGED tokenVars /\ UNCHANGED <<disk, phase, read>> /\ pc' = [pc EXCEPT ![p] = "dead"]
    BY <1>6 DEF Dies, tokenVars, File!Crash, File!Goto
  <2>2. ReadOnlyAtWork' /\ ReadIsStored' /\ pc' \in [Procs -> File!Places]
    BY <2>1 DEF ReadOnlyAtWork, ReadIsStored, File!Places
  <2> QED
    BY <2>1, <2>2, TokenStepType
<1>7. ASSUME Ages \/ UNCHANGED lockedVars PROVE [TokenNext]_tokenVars /\ LockedInv'
  <2>1. UNCHANGED tokenVars /\ UNCHANGED <<disk, phase, read, pc>>
    BY <1>7 DEF Ages, File!Age, lockedVars, tokenVars, lockVars
  <2>2. ReadOnlyAtWork' /\ ReadIsStored' /\ pc' \in [Procs -> File!Places]
    BY <2>1 DEF ReadOnlyAtWork, ReadIsStored
  <2> QED
    BY <2>1, <2>2, TokenStepType
<1> QED
  BY <1>1, <1>2, <1>3, <1>4, <1>5, <1>6, <1>7 DEF LockedNext

(* Whatever crashes, fails, stalls or is reused: as long as no two         *)
(* processes are at work under the lock at the same time, save() and       *)
(* clear() are the single steps they are in TokenStore, so that what is    *)
(* proved of TokenStore holds of the code with its lock.                   *)
THEOREM StoreIsAtomic == LockedSpec /\ []File!MutualExclusion => TokenSpec
<1>1. LockedInit => TokenInit
  BY DEF LockedInit
<1> QED
  BY <1>1, LockedInitially, LockedStep, PTL DEF LockedSpec, TokenSpec

-----------------------------------------------------------------------------
(* The theorems about the lock file itself.                                *)
Lock == INSTANCE FileLockProofs

(* The lock TokenStoreLocked takes is the lock those theorems are about.   *)
LEMMA SameLock == File!Next => Lock!Next
BY DEF File!Next, File!Step, Lock!Next, Lock!Step,
       File!Enter, Lock!Enter, File!OpenCreates, Lock!OpenCreates,
       File!OpenFails, Lock!OpenFails, File!WritePid, Lock!WritePid,
       File!WriteFails, Lock!WriteFails, File!FindStale, Lock!FindStale,
       File!FindBusy, Lock!FindBusy, File!Rename, Lock!Rename,
       File!Compare, Lock!Compare, File!Work, Lock!Work,
       File!Stat, Lock!Stat, File!Unlink, Lock!Unlink,
       File!Crash, Lock!Crash, File!Age, Lock!Age,
       File!Stale, Lock!Stale, File!Available, Lock!Available, File!Linked, Lock!Linked,
       File!Remembered, Lock!Remembered, File!Holds, Lock!Holds, File!Goto, Lock!Goto,
       File!file, Lock!file, File!faults, Lock!faults

(* What the processes do to the lock file is what FileLock lets them do.   *)
LEMMA LockIsFile == LockedSpec => Lock!Spec
<1>1. LockedInit => Lock!Init
  BY DEF LockedInit, File!Init, Lock!Init
<1>2. [LockedNext]_lockedVars => [Lock!Next]_(Lock!vars)
  <2>1. LockedNext => File!Next \/ UNCHANGED lockVars
    BY DEF LockedNext, lockedVars, lockVars, Elsewhere, StartLocking, Locking, LockingFails, ReadStored,
     WriteMerged, WriteFails, RemoveStored, Dies, Ages, File!Next, File!Step, File!vars, File!file, File!faults
  <2> QED
    BY <2>1, SameLock DEF lockVars, lockedVars, Lock!vars, Lock!file, Lock!faults
<1> QED
  BY <1>1, <1>2, PTL DEF LockedSpec, Lock!Spec

(* While nothing crashes, fails or stalls, the lock does exclude, and      *)
(* save() and clear() are atomic for any number of processes and inodes.   *)
THEOREM CalmStoreIsAtomic == ASSUME Lock!Calm PROVE LockedSpec => TokenSpec
<1>1. Lock!Spec => []Lock!MutualExclusion
  BY Lock!Exclusion, LockAssumption
<1>2. Lock!MutualExclusion => File!MutualExclusion
  BY DEF Lock!MutualExclusion, File!MutualExclusion
<1> QED
  BY <1>1, <1>2, LockIsFile, StoreIsAtomic, PTL

(* The daemon and one command: either may die at any system call; another  *)
(* process may have died before with the lock in its hands, or the writing *)
(* of a pid fail once.                                                     *)
THEOREM TwoStoresAreAtomic == ASSUME Lock!TwoAtATime PROVE LockedSpec => TokenSpec
<1>1. Lock!Spec => []Lock!MutualExclusion
  BY Lock!TwoExclude, LockAssumption
<1>2. Lock!MutualExclusion => File!MutualExclusion
  BY DEF Lock!MutualExclusion, File!MutualExclusion
<1> QED
  BY <1>1, <1>2, LockIsFile, StoreIsAtomic, PTL

-----------------------------------------------------------------------------
(***************************************************************************)
(* config.json, for any number of names, devices and remotes. Every        *)
(* operation is a Change: it replaces the copy in memory, removes only     *)
(* names it is asked to remove and keeps a default only for an entry that  *)
(* is there.                                                               *)
(***************************************************************************)

LockDangles(c) == c.defaultLock # Unset /\ c.devices[c.defaultLock] = Unset
RemoteDangles(c) == c.defaultRemote # Unset /\ c.remotes[c.defaultRemote] = Unset

(* A default of m that names nothing is that of c and names nothing there. *)
DefaultsKept(c, m) ==
  /\ LockDangles(m) => LockDangles(c) /\ m.defaultLock = c.defaultLock
  /\ RemoteDangles(m) => RemoteDangles(c) /\ m.defaultRemote = c.defaultRemote

(* What was known at the last save and is not in memory was asked for.     *)
Accounted(s) ==
  memory[s] # Unset =>
    /\ \A n \in known[s].devices : memory[s].devices[n] = Unset => n \in asked[s]
    /\ \A k \in known[s].remotes : memory[s].remotes[k] # Unset

ConfigInv ==
  /\ ConfigTypeOK
  /\ \A s \in Stores : Accounted(s)

(* Of the names that are taken out, none is that of a Hub3 to which a      *)
(* remote in the copy of s refers.                                         *)
SparesHub3s(s, gone) ==
  \A n \in gone : memory[s].devices[n] \in Hub3s => n \notin HubsOfRemotes(memory[s])

(* The copy of s becomes m, and gone is what s was asked to remove.        *)
Change(s, m, gone) ==
  /\ memory[s] # Unset
  /\ m \in Configs
  /\ gone \subseteq Names
  /\ DefaultsKept(memory[s], m)
  /\ \A n \in Names : memory[s].devices[n] # Unset /\ m.devices[n] = Unset => n \in gone
  /\ \A k \in RemoteNames : memory[s].remotes[k] # Unset => m.remotes[k] # Unset
  /\ SparesHub3s(s, gone)
  /\ SaveConfig(s, m)
  /\ Asked(s, gone)

------------------------------------------------------------------------------
LEMMA KeysOfType ==
  ASSUME NEW c \in Configs PROVE KeysOf(c) \in Keys
BY DEF KeysOf, Keys

(* The file after a save is a configuration.                               *)
LEMMA MergeType ==
  ASSUME NEW d \in Configs, NEW m \in Configs, NEW k \in Keys
  PROVE  MergeConfigData(d, m, k) \in Configs
<1>1. UnionDeleting(d.devices, m.devices, k.devices) \in [Names -> Devices \cup {Unset}]
  BY DEF UnionDeleting, Configs
<1>2. UnionDeleting(d.remotes, m.remotes, k.remotes) \in [RemoteNames -> RemoteEntries \cup {Unset}]
  BY DEF UnionDeleting, Configs
<1>3. QED BY <1>1, <1>2 DEF MergeConfigData, Configs

LEMMA MergeKeeps ==
  ASSUME NEW d \in Configs, NEW m \in Configs, NEW k \in Keys
  PROVE  /\ \A n \in Names : m.devices[n] # Unset =>
                MergeConfigData(d, m, k).devices[n] # Unset
         /\ \A r \in RemoteNames : m.remotes[r] # Unset =>
                MergeConfigData(d, m, k).remotes[r] # Unset
         /\ \A n \in Names : d.devices[n] # Unset /\ MergeConfigData(d, m, k).devices[n] = Unset =>
                m.devices[n] = Unset /\ n \in k.devices
         /\ \A r \in RemoteNames : d.remotes[r] # Unset /\ MergeConfigData(d, m, k).remotes[r] = Unset =>
                m.remotes[r] = Unset /\ r \in k.remotes
BY DEF MergeConfigData, UnionDeleting, Configs

LEMMA MergeDefaults ==
  ASSUME NEW d \in Configs, NEW m \in Configs, NEW k \in Keys
  PROVE  DefaultsKept(m, MergeConfigData(d, m, k))
<1>1. /\ MergeConfigData(d, m, k).defaultLock = m.defaultLock
      /\ MergeConfigData(d, m, k).defaultRemote = m.defaultRemote
  BY DEF MergeConfigData
<1>2. m.defaultLock \in Names \cup {Unset} /\ m.defaultRemote \in RemoteNames \cup {Unset}
  BY DEF Configs
<1>3. QED BY <1>1, <1>2, MergeKeeps DEF DefaultsKept, LockDangles, RemoteDangles

LEMMA KeptIsSubset ==
  ASSUME NEW c, NEW m, DefaultsKept(c, m)
  PROVE  DanglingIn(m) \subseteq DanglingIn(c)
<1>1. ASSUME NEW x PROVE x \in DanglingIn(m) =>
        \/ LockDangles(m) /\ x = <<"lock", m.defaultLock>>
        \/ RemoteDangles(m) /\ x = <<"remote", m.defaultRemote>>
  BY DEF DanglingIn, LockDangles, RemoteDangles
<1>2. LockDangles(c) => <<"lock", c.defaultLock>> \in DanglingIn(c)
  BY DEF DanglingIn, LockDangles
<1>3. RemoteDangles(c) => <<"remote", c.defaultRemote>> \in DanglingIn(c)
  BY DEF DanglingIn, RemoteDangles
<1> QED BY <1>1, <1>2, <1>3 DEF DefaultsKept

------------------------------------------------------------------------------
(* A Change preserves the invariant, removes from the file only what its   *)
(* process was asked to remove, and leaves no default behind.              *)
LEMMA ChangePreserves ==
  ASSUME ConfigInv,
         NEW s \in Stores, NEW m, NEW gone, Change(s, m, gone)
  PROVE  ConfigInv'
<1> USE DEF ConfigInv, ConfigTypeOK, Change, SaveConfig
<1>a. /\ memory' = [memory EXCEPT ![s] = m]
      /\ m \in Configs /\ known[s] \in Keys
      /\ \A t \in Stores : asked'[t] = (IF t = s THEN gone ELSE {}) \cup
                                       {n \in asked[t] : known[t] # KeysOf(memory[t])}
  BY DEF Asked
<1>b. asked' \in [Stores -> SUBSET Names]
  BY DEF Asked
<1>c. ASSUME NEW t \in Stores, NEW n \in Names,
             n \in asked[t], n \in known[t].devices, memory[t].devices[n] = Unset
      PROVE  n \in asked'[t]
  <2>1. n \notin KeysOf(memory[t]).devices BY <1>c DEF KeysOf
  <2>2. known[t] # KeysOf(memory[t]) BY <1>c, <2>1
  <2> QED BY <1>a, <1>c, <2>2
<1>d. \A t \in Stores : known[t] \in Keys
  OBVIOUS
<1>e. \A t \in Stores \ {s} : known'[t] = known[t] => Accounted(t)'
  <2> SUFFICES ASSUME NEW t \in Stores \ {s}, known'[t] = known[t] PROVE Accounted(t)'
    OBVIOUS
  <2>1. memory'[t] = memory[t] /\ Accounted(t) BY <1>a
  <2> QED BY <1>c, <1>d, <2>1 DEF Accounted, Keys
<1>1. CASE Saved(s, m)
  <2>1. known' = [known EXCEPT ![s] = KeysOf(m)]
    BY <1>1 DEF Saved
  <2>2. stored' \in Configs
    BY <1>1, <1>a, MergeType DEF Saved
  <2>3. ConfigTypeOK'
    BY <1>a, <1>b, <2>1, <2>2, KeysOfType
  <2>5. Accounted(s)'
    BY <1>a, <2>1 DEF Accounted, KeysOf
  <2>6. QED BY <1>e, <2>1, <2>3, <2>5
<1>2. CASE NotSaved(s)
  <2>1. ConfigTypeOK'
    BY <1>2, <1>a, <1>b DEF NotSaved
  <2>2. \A n \in known[s].devices : m.devices[n] = Unset => n \in asked'[s]
    <3> SUFFICES ASSUME NEW n \in known[s].devices, m.devices[n] = Unset
                 PROVE  n \in asked'[s]
      OBVIOUS
    <3>0. n \in Names BY <1>a DEF Keys
    <3>1. CASE memory[s].devices[n] # Unset
      BY <3>0, <3>1, <1>a
    <3>2. CASE memory[s].devices[n] = Unset
      BY <3>0, <3>2, <1>c DEF Accounted
    <3>3. QED BY <3>1, <3>2
  <2>3. \A k \in known[s].remotes : m.remotes[k] # Unset
    BY <1>a DEF Accounted, Keys
  <2>4. Accounted(s)'
    BY <1>2, <1>a, <2>2, <2>3 DEF NotSaved, Accounted
  <2>5. QED BY <1>2, <1>e, <2>1, <2>4 DEF NotSaved
<1>3. QED BY <1>1, <1>2

LEMMA ChangeRemovesAsked ==
  ASSUME ConfigInv, NEW s \in Stores, NEW m, NEW gone, Change(s, m, gone),
         stored # Broken, stored' # Broken
  PROVE  /\ \A n \in Names : stored.devices[n] # Unset /\ stored'.devices[n] = Unset
                               => known'[s] # known[s] /\ n \in asked'[s]
         /\ \A k \in RemoteNames : stored.remotes[k] # Unset => stored'.remotes[k] # Unset
<1> USE DEF ConfigInv, ConfigTypeOK, Change, SaveConfig
<1>a. /\ m \in Configs /\ known[s] \in Keys /\ stored \in Configs
      /\ asked'[s] = gone \cup {n \in asked[s] : known[s] # KeysOf(memory[s])}
  BY DEF Asked
<1>1. CASE NotSaved(s)
  BY <1>1 DEF NotSaved
<1>2. CASE Saved(s, m)
  <2>1. stored' = MergeConfigData(stored, m, known[s]) /\ known'[s] = KeysOf(m)
    BY <1>2 DEF Saved
  <2>2. ASSUME NEW n \in Names, stored.devices[n] # Unset, stored'.devices[n] = Unset
        PROVE  known'[s] # known[s] /\ n \in asked'[s]
    <3>1. m.devices[n] = Unset /\ n \in known[s].devices
      BY <1>a, <2>1, <2>2, MergeKeeps
    <3>2. known'[s] # known[s]
      <4>1. n \notin KeysOf(m).devices BY <3>1 DEF KeysOf
      <4>2. QED BY <2>1, <3>1, <4>1
    <3> SUFFICES n \in asked'[s]
      BY <3>2
    <3>3. CASE memory[s].devices[n] # Unset
      BY <1>a, <3>1, <3>3
    <3>4. CASE memory[s].devices[n] = Unset
      <4>1. n \in asked[s] BY <3>1, <3>4 DEF Accounted
      <4>2. n \notin KeysOf(memory[s]).devices BY <3>4 DEF KeysOf
      <4>3. known[s] # KeysOf(memory[s]) BY <3>1, <4>2
      <4>4. QED BY <1>a, <4>1, <4>3
    <3>5. QED BY <3>3, <3>4
  <2>3. ASSUME NEW k \in RemoteNames, stored.remotes[k] # Unset
        PROVE  stored'.remotes[k] # Unset
    <3>1. SUFFICES ASSUME stored'.remotes[k] = Unset PROVE FALSE
      OBVIOUS
    <3>2. m.remotes[k] = Unset /\ k \in known[s].remotes
      BY <1>a, <2>1, <2>3, <3>1, MergeKeeps
    <3>3. QED BY <3>2 DEF Accounted
  <2>4. QED BY <2>2, <2>3
<1>3. QED BY <1>1, <1>2

LEMMA ChangeKeepsDefaults ==
  ASSUME ConfigInv, NEW s \in Stores, NEW m, NEW gone, Change(s, m, gone)
  PROVE  Dangling' \subseteq Dangling
<1> USE DEF ConfigInv, ConfigTypeOK, Change, SaveConfig
<1>a. /\ m \in Configs /\ known[s] \in Keys /\ memory[s] \in Configs
      /\ memory' = [memory EXCEPT ![s] = m]
  OBVIOUS
<1>1. DanglingIn(m) \subseteq DanglingIn(memory[s])
  BY KeptIsSubset
<1>2. DanglingIn(memory[s]) \subseteq Dangling
  BY <1>a, NoConfigAssumption DEF Dangling
<1>3. ASSUME stored' # stored PROVE DanglingIn(stored') \subseteq DanglingIn(m)
  <2>1. Saved(s, m) BY <1>3 DEF NotSaved
  <2>2. CASE stored = Broken BY <2>1, <2>2 DEF Saved
  <2>3. CASE stored # Broken BY <1>a, <2>1, <2>3, MergeDefaults, KeptIsSubset DEF Saved
  <2> QED BY <2>2, <2>3
<1>4. ASSUME stored \notin {Broken, Unset} PROVE DanglingIn(stored) \subseteq Dangling
  BY <1>4 DEF Dangling
<1>5. \A t \in Stores : memory[t] \notin {Broken, Unset} => DanglingIn(memory[t]) \subseteq Dangling
  BY DEF Dangling
<1> QED
  <2> SUFFICES ASSUME NEW c \in ({stored'} \cup {memory'[t] : t \in Stores}) \ {Broken, Unset}
               PROVE  DanglingIn(c) \subseteq Dangling
    BY DEF Dangling
  <2>1. CASE c = stored'
    BY <1>1, <1>2, <1>3, <1>4, <2>1
  <2>2. CASE \E t \in Stores : c = memory'[t]
    BY <1>a, <1>1, <1>2, <1>5, <2>2
  <2> QED BY <2>1, <2>2
------------------------------------------------------------------------------
(* The operations are Changes.                                             *)
LEMMA LoadedIsConfig ==
  ASSUME ConfigInv, NEW s \in Stores, Loaded(s)
  PROVE  memory[s] \in Configs
BY DEF ConfigInv, ConfigTypeOK, Loaded

LEMMA AddIsChange ==
  ASSUME ConfigInv, NEW s \in Stores, NEW n \in Names,
         \/ \E d \in Locks : AddLock(s, n, d)
         \/ \E d \in Hub3s : AddHub3(s, n, d)
  PROVE  \E m, gone : Change(s, m, gone)
<1> DEFINE old == memory[s]
<1>1. CASE \E d \in Locks : AddLock(s, n, d)
  <2>1. PICK d \in Locks : AddLock(s, n, d) BY <1>1
  <2> DEFINE m == [old EXCEPT !.devices[n] = d,
                              !.defaultLock = IF old.defaultLock = Unset THEN n ELSE old.defaultLock]
  <2>a. Loaded(s) /\ SaveConfig(s, m) /\ Asked(s, {}) BY <2>1, Zenon DEF AddLock
  <2>2. old \in Configs BY <2>a, LoadedIsConfig
  <2>3. d # Unset BY ConfigAssumption
  <2>4. m \in Configs BY <2>2 DEF Configs, Devices
  <2>5. /\ \A k \in Names : old.devices[k] # Unset => m.devices[k] # Unset
        /\ m.remotes = old.remotes /\ m.defaultRemote = old.defaultRemote
        /\ m.devices[n] # Unset
        /\ m.defaultLock = IF old.defaultLock = Unset THEN n ELSE old.defaultLock
    BY <2>2, <2>3 DEF Configs
  <2>6. DefaultsKept(old, m) BY <2>2, <2>5 DEF DefaultsKept, LockDangles, RemoteDangles, Configs
  <2> HIDE DEF m
  <2>7. Change(s, m, {}) BY <2>a, <2>4, <2>5, <2>6 DEF Change, SparesHub3s, Loaded
  <2>8. QED BY <2>7
<1>2. CASE \E d \in Hub3s : AddHub3(s, n, d)
  <2>1. PICK d \in Hub3s : AddHub3(s, n, d) BY <1>2
  <2> DEFINE m == [old EXCEPT !.devices[n] = d]
  <2>a. Loaded(s) /\ SaveConfig(s, m) /\ Asked(s, {}) BY <2>1, Zenon DEF AddHub3
  <2>2. old \in Configs BY <2>a, LoadedIsConfig
  <2>3. d # Unset BY ConfigAssumption
  <2>4. m \in Configs BY <2>2 DEF Configs, Devices
  <2>5. /\ \A k \in Names : old.devices[k] # Unset => m.devices[k] # Unset
        /\ m.remotes = old.remotes /\ m.defaultRemote = old.defaultRemote
        /\ m.defaultLock = old.defaultLock
    BY <2>2, <2>3 DEF Configs
  <2>6. DefaultsKept(old, m) BY <2>2, <2>5 DEF DefaultsKept, LockDangles, RemoteDangles, Configs
  <2> HIDE DEF m
  <2>7. Change(s, m, {}) BY <2>a, <2>4, <2>5, <2>6 DEF Change, SparesHub3s, Loaded
  <2>8. QED BY <2>7
<1>3. QED BY <1>1, <1>2

(* A change of the remotes and of the default remote alone.                *)
LEMMA RemotesChange ==
  ASSUME ConfigInv, NEW s \in Stores, Loaded(s),
         NEW placed \in [RemoteNames -> RemoteEntries \cup {Unset}],
         NEW default \in RemoteNames \cup {Unset},
         \A k \in RemoteNames : memory[s].remotes[k] # Unset => placed[k] # Unset,
         \/ default = memory[s].defaultRemote
         \/ default # Unset /\ placed[default] # Unset,
         SaveConfig(s, WithRemotes(memory[s], placed, default)),
         Asked(s, {})
  PROVE  Change(s, WithRemotes(memory[s], placed, default), {})
<1> DEFINE old == memory[s]
           m == WithRemotes(old, placed, default)
<1>1. old \in Configs BY LoadedIsConfig
<1>2. m \in Configs BY <1>1 DEF Configs, WithRemotes
<1>3. m.devices = old.devices /\ m.remotes = placed /\ m.defaultLock = old.defaultLock /\ m.defaultRemote = default
  BY <1>1 DEF Configs, WithRemotes
<1>4. DefaultsKept(old, m)
  BY <1>1, <1>3 DEF DefaultsKept, LockDangles, RemoteDangles
<1>5. QED BY <1>2, <1>3, <1>4 DEF Change, SparesHub3s, Loaded

(* Placing the remotes of a list leaves every entry, and takes only names  *)
(* of remotes that the list has.                                           *)
LEMMA PlacedKeeps ==
  ASSUME NEW c \in Configs, NEW list \in SUBSET Remotes,
         NEW at \in Places(c, list), NEW hub3 \in [list -> Names]
  PROVE  /\ Placed(c, at, hub3) \in [RemoteNames -> RemoteEntries \cup {Unset}]
         /\ \A k \in RemoteNames : c.remotes[k] # Unset => Placed(c, at, hub3)[k] # Unset
<1>1. DOMAIN at = list BY DEF Places
<1>2. ASSUME NEW k \in RemoteNames, \E r \in list : at[r] = k
      PROVE  Placed(c, at, hub3)[k] \in RemoteEntries
  <2> DEFINE r == CHOOSE r \in list : at[r] = k
  <2>1. r \in list BY <1>2
  <2>2. Placed(c, at, hub3)[k] = [is |-> r, hub3 |-> hub3[r]]
    BY <1>1, <1>2 DEF Placed
  <2> QED BY <2>1, <2>2 DEF RemoteEntries
<1>3. ASSUME NEW k \in RemoteNames, ~ \E r \in list : at[r] = k
      PROVE  Placed(c, at, hub3)[k] = c.remotes[k]
  BY <1>1, <1>3 DEF Placed
<1>4. \A k \in RemoteNames : Placed(c, at, hub3)[k] \in RemoteEntries \cup {Unset}
  BY <1>2, <1>3 DEF Configs
<1>5. Placed(c, at, hub3) = [k \in RemoteNames |-> Placed(c, at, hub3)[k]]
  BY DEF Placed
<1> QED BY <1>2, <1>3, <1>4, <1>5, NoConfigAssumption

LEMMA PlacingIsChange ==
  ASSUME ConfigInv, NEW s \in Stores, Loaded(s), NEW list \in SUBSET Remotes,
         NEW at \in Places(memory[s], list), NEW hub3 \in [list -> Names],
         PlaceRemotes(s, at, hub3)
  PROVE  \E default :
           Change(s, WithRemotes(memory[s], Placed(memory[s], at, hub3), default), {})
<1> DEFINE old == memory[s]
           placed == Placed(old, at, hub3)
<1>a. old \in Configs BY LoadedIsConfig
<1>1. PICK default \in Defaults(old, placed) :
        SaveConfig(s, WithRemotes(old, placed, default))
  BY Zenon DEF PlaceRemotes
<1>2. Asked(s, {}) BY Zenon DEF PlaceRemotes
<1>3. /\ placed \in [RemoteNames -> RemoteEntries \cup {Unset}]
      /\ \A k \in RemoteNames : old.remotes[k] # Unset => placed[k] # Unset
  BY <1>a, PlacedKeeps
<1> HIDE DEF placed
<1>4. /\ default \in RemoteNames \cup {Unset}
      /\ default = old.defaultRemote \/ (default # Unset /\ placed[default] # Unset)
  BY <1>a, <1>1, ConfigAssumption DEF Defaults, Configs
<1> QED BY <1>1, <1>2, <1>3, <1>4, RemotesChange DEF placed

LEMMA RemoteIsChange ==
  ASSUME ConfigInv, NEW s \in Stores,
         \/ \E k \in RemoteNames, r \in Remotes, n \in Names : AddRemote(s, k, r, n)
         \/ \E list \in SUBSET Remotes, n \in Names : SyncRemotesFromServer(s, list, n)
         \/ \E list \in SUBSET Remotes : \E hub3 \in [list -> Names] : SyncRemotes(s, hub3)
         \/ \E k \in RemoteNames : SetDefaultRemote(s, k)
  PROVE  \E m, gone : Change(s, m, gone)
<1> DEFINE old == memory[s]
<1>0. Loaded(s) BY Zenon DEF AddRemote, SyncRemotesFromServer, SyncRemotes, SetDefaultRemote
<1>a. old \in Configs BY <1>0, LoadedIsConfig
<1>1. CASE \E k \in RemoteNames, r \in Remotes, n \in Names : AddRemote(s, k, r, n)
  <2>1. PICK k \in RemoteNames, r \in Remotes, n \in Names : AddRemote(s, k, r, n) BY <1>1
  <2> DEFINE new == [is |-> r, hub3 |-> n]
             placed == [old.remotes EXCEPT ![k] = new]
             default == IF old.defaultRemote = Unset THEN k ELSE old.defaultRemote
  <2>2. new \in RemoteEntries /\ new # Unset /\ k # Unset
    BY ConfigAssumption, NoConfigAssumption DEF RemoteEntries
  <2> HIDE DEF new
  <2>3. placed \in [RemoteNames -> RemoteEntries \cup {Unset}] /\ default \in RemoteNames \cup {Unset}
    BY <1>a, <2>2 DEF Configs
  <2>4. \A j \in RemoteNames : old.remotes[j] # Unset => placed[j] # Unset
    BY <1>a, <2>2 DEF Configs
  <2>5. default = old.defaultRemote \/ (default # Unset /\ placed[default] # Unset)
    BY <1>a, <2>2 DEF Configs
  <2>7. SaveConfig(s, WithRemotes(old, placed, default)) /\ Asked(s, {})
    BY <2>1, Zenon DEF AddRemote, new
  <2> HIDE DEF placed, default
  <2>8. QED BY <1>0, <2>3, <2>4, <2>5, <2>7, RemotesChange
<1>2. CASE \E list \in SUBSET Remotes, n \in Names : SyncRemotesFromServer(s, list, n)
  <2>1. PICK list \in SUBSET Remotes, n \in Names : SyncRemotesFromServer(s, list, n) BY <1>2
  <2> DEFINE new == {r \in list : Having(old, r) = {}}
  <2>2. PICK at \in Places(old, new) : PlaceRemotes(s, at, [r \in new |-> n])
    BY <2>1 DEF SyncRemotesFromServer
  <2>3. new \in SUBSET Remotes /\ [r \in new |-> n] \in [new -> Names]
    OBVIOUS
  <2> HIDE DEF new
  <2>4. QED BY <1>0, <2>2, <2>3, PlacingIsChange
<1>3. CASE \E list \in SUBSET Remotes : \E hub3 \in [list -> Names] : SyncRemotes(s, hub3)
  <2>1. PICK list \in SUBSET Remotes : \E hub3 \in [list -> Names] : SyncRemotes(s, hub3) BY <1>3
  <2>2. PICK hub3 \in [list -> Names] : SyncRemotes(s, hub3) BY <2>1
  <2>3. PICK at \in Places(old, DOMAIN hub3) : PlaceRemotes(s, at, hub3)
    BY <2>2 DEF SyncRemotes
  <2>4. DOMAIN hub3 = list OBVIOUS
  <2>5. QED BY <1>0, <2>3, <2>4, PlacingIsChange
<1>4. CASE \E k \in RemoteNames : SetDefaultRemote(s, k)
  <2>1. PICK k \in RemoteNames : SetDefaultRemote(s, k) BY <1>4
  <2>2. [old EXCEPT !.defaultRemote = k] = WithRemotes(old, old.remotes, k)
    BY <1>a DEF Configs, WithRemotes
  <2>3. old.remotes \in [RemoteNames -> RemoteEntries \cup {Unset}] /\ k # Unset
    BY <1>a, ConfigAssumption DEF Configs
  <2>4. SaveConfig(s, WithRemotes(old, old.remotes, k)) /\ Asked(s, {}) /\ old.remotes[k] # Unset
    BY <2>1, <2>2, Zenon DEF SetDefaultRemote
  <2>5. QED BY <1>0, <2>3, <2>4, RemotesChange
<1>5. QED BY <1>1, <1>2, <1>3, <1>4

(* Names taken out together with a default that was one of them, from a    *)
(* copy to which names were added before.                                  *)
LEMMA WithoutIsChange ==
  ASSUME ConfigInv, NEW s \in Stores, Loaded(s), NEW grown \in Configs, DefaultsKept(memory[s], grown),
         \A n \in Names : memory[s].devices[n] # Unset => grown.devices[n] # Unset,
         grown.remotes = memory[s].remotes,
         NEW gone \in SUBSET Names, SparesHub3s(s, gone),
         SaveConfig(s, Without(grown, gone)), Asked(s, gone)
  PROVE  \E m, asks : Change(s, m, asks)
<1> DEFINE m == Without(grown, gone)
<1> DEFINE kept == [n \in Names |-> IF n \in gone THEN Unset ELSE grown.devices[n]]
           default == IF grown.defaultLock \in gone THEN Unset ELSE grown.defaultLock
<1>0. m = [grown EXCEPT !.devices = kept, !.defaultLock = default]
  BY DEF Without, Configs
<1>1. /\ m.devices = kept /\ m.defaultLock = default
      /\ m.remotes = grown.remotes /\ m.defaultRemote = grown.defaultRemote
      /\ m = [devices |-> kept, remotes |-> grown.remotes,
              defaultLock |-> default, defaultRemote |-> grown.defaultRemote]
  BY <1>0 DEF Configs
<1>2. m \in Configs BY <1>1 DEF Configs
<1>3. DefaultsKept(memory[s], m) BY <1>1 DEF DefaultsKept, LockDangles, RemoteDangles, Configs
<1>4. Change(s, m, gone) BY <1>1, <1>2, <1>3 DEF Change, SparesHub3s, Loaded
<1>5. QED BY <1>4

LEMMA AddedKeeps ==
  ASSUME NEW m \in Configs, NEW list \in SUBSET Devices, NEW name \in NewNames(m, list)
  PROVE  /\ Added(m, name) \in [Names -> Devices \cup {Unset}]
         /\ \A n \in Names : m.devices[n] # Unset => Added(m, name)[n] = m.devices[n]
         /\ \A d \in DOMAIN name : name[d] \in Names /\ Added(m, name)[name[d]] # Unset
<1>0. DOMAIN name \subseteq Devices /\ \A d \in DOMAIN name : name[d] \in Names
  BY DEF NewNames, Free
<1>1. ASSUME NEW n \in Names, \E d \in DOMAIN name : name[d] = n
      PROVE  Added(m, name)[n] \in Devices
  <2>1. (CHOOSE d \in DOMAIN name : name[d] = n) \in DOMAIN name BY <1>1
  <2>2. QED BY <1>0, <1>1, <2>1 DEF Added
<1>2. ASSUME NEW n \in Names, ~ \E d \in DOMAIN name : name[d] = n
      PROVE  Added(m, name)[n] = m.devices[n]
  BY <1>2 DEF Added
<1>3. Unset \notin Devices BY ConfigAssumption DEF Devices
<1>4. \A n \in Names : Added(m, name)[n] \in Devices \cup {Unset}
  BY <1>1, <1>2 DEF Configs
<1>5. Added(m, name) = [n \in Names |-> Added(m, name)[n]]
  BY DEF Added
<1>6. \A n \in Names : m.devices[n] # Unset => Added(m, name)[n] = m.devices[n]
  BY <1>2 DEF NewNames, Free
<1>7. QED BY <1>0, <1>1, <1>3, <1>4, <1>5, <1>6

LEMMA RemovalIsChange ==
  ASSUME ConfigInv, NEW s \in Stores,
         \/ \E n \in Names : RemoveLock(s, n)
         \/ \E prune \in BOOLEAN, list \in SUBSET Locks : SyncLocks(s, list, prune)
         \/ \E prune \in BOOLEAN, list \in SUBSET Hub3s : SyncHub3s(s, list, prune)
  PROVE  \E m, gone : Change(s, m, gone)
<1> DEFINE old == memory[s]
<1>0. Loaded(s) BY Zenon DEF RemoveLock, SyncLocks, SyncHub3s
<1>a. old \in Configs BY <1>0, LoadedIsConfig
<1>1. CASE \E n \in Names : RemoveLock(s, n)
  BY <1>0, <1>1, <1>a, WithoutIsChange, ConfigAssumption DEF RemoveLock, SparesHub3s, DefaultsKept
<1>2. CASE \E prune \in BOOLEAN, list \in SUBSET Locks : SyncLocks(s, list, prune)
  <2>1. PICK prune \in BOOLEAN, list \in SUBSET Locks : SyncLocks(s, list, prune) BY <1>2
  <2>2. PICK name \in NewNames(old, list) :
        \E first \in IF old.defaultLock # Unset \/ DOMAIN name = {} THEN {old.defaultLock}
                     ELSE {name[d] : d \in DOMAIN name} :
          LET grown == [old EXCEPT !.devices = Added(old, name), !.defaultLock = first]
              gone  == {n \in Names : prune /\ grown.devices[n] \in Locks \ list}
          IN  Asked(s, gone) /\ SaveConfig(s, Without(grown, gone))
    BY <2>1, Zenon DEF SyncLocks
  <2>3. PICK first \in IF old.defaultLock # Unset \/ DOMAIN name = {} THEN {old.defaultLock}
                      ELSE {name[d] : d \in DOMAIN name} :
          LET grown == [old EXCEPT !.devices = Added(old, name), !.defaultLock = first]
              gone  == {n \in Names : prune /\ grown.devices[n] \in Locks \ list}
          IN  Asked(s, gone) /\ SaveConfig(s, Without(grown, gone))
    BY <2>2, Zenon
  <2> DEFINE grown == [old EXCEPT !.devices = Added(old, name), !.defaultLock = first]
             gone  == {n \in Names : prune /\ grown.devices[n] \in Locks \ list}
  <2>4. /\ Added(old, name) \in [Names -> Devices \cup {Unset}]
        /\ \A n \in Names : old.devices[n] # Unset => Added(old, name)[n] = old.devices[n]
        /\ \A d \in DOMAIN name : name[d] \in Names /\ Added(old, name)[name[d]] # Unset
    BY <1>a, AddedKeeps DEF Devices
  <2>5. /\ first \in Names \cup {Unset}
        /\ first = old.defaultLock \/ Added(old, name)[first] # Unset
    BY <1>a, <2>3, <2>4 DEF Configs
  <2>6. grown \in Configs /\ grown.devices = Added(old, name) /\ grown.remotes = old.remotes
        /\ grown.defaultLock = first /\ grown.defaultRemote = old.defaultRemote
    BY <1>a, <2>4, <2>5 DEF Configs
  <2>7. DefaultsKept(old, grown)
    BY <1>a, <2>4, <2>5, <2>6 DEF DefaultsKept, LockDangles, RemoteDangles, Configs
  <2>8. gone \in SUBSET Names /\ SaveConfig(s, Without(grown, gone)) /\ Asked(s, gone)
    BY <2>3
  <2>9. SparesHub3s(s, gone)
    <3> SUFFICES ASSUME NEW n \in gone, old.devices[n] \in Hub3s PROVE FALSE
      BY DEF SparesHub3s
    <3>1. n \in Names /\ grown.devices[n] \in Locks /\ old.devices[n] # Unset
      BY ConfigAssumption
    <3> QED BY <2>4, <2>6, <3>1, ConfigAssumption
  <2> HIDE DEF grown, gone
  <2>10. QED BY <1>0, <2>4, <2>6, <2>7, <2>8, <2>9, WithoutIsChange
<1>3. CASE \E prune \in BOOLEAN, list \in SUBSET Hub3s : SyncHub3s(s, list, prune)
  <2>1. PICK prune \in BOOLEAN, list \in SUBSET Hub3s : SyncHub3s(s, list, prune) BY <1>3
  <2>2. PICK name \in NewNames(old, list) :
          LET grown == [old EXCEPT !.devices = Added(old, name)]
              gone  == {n \in Names : /\ prune /\ grown.devices[n] \in Hub3s \ list
                                      /\ n \notin HubsOfRemotes(old)}
          IN  Asked(s, gone) /\ SaveConfig(s, Without(grown, gone))
    BY <2>1 DEF SyncHub3s
  <2> DEFINE grown == [old EXCEPT !.devices = Added(old, name)]
             gone  == {n \in Names : /\ prune /\ grown.devices[n] \in Hub3s \ list
                                     /\ n \notin HubsOfRemotes(old)}
  <2>4. /\ Added(old, name) \in [Names -> Devices \cup {Unset}]
        /\ \A n \in Names : old.devices[n] # Unset => Added(old, name)[n] = old.devices[n]
    BY <1>a, AddedKeeps DEF Devices
  <2>6. grown \in Configs /\ grown.devices = Added(old, name) /\ grown.remotes = old.remotes
        /\ grown.defaultLock = old.defaultLock /\ grown.defaultRemote = old.defaultRemote
    BY <1>a, <2>4 DEF Configs
  <2>7. DefaultsKept(old, grown)
    BY <1>a, <2>4, <2>6 DEF DefaultsKept, LockDangles, RemoteDangles, Configs
  <2>8. gone \in SUBSET Names /\ SaveConfig(s, Without(grown, gone)) /\ Asked(s, gone)
    BY <2>2
  <2>9. SparesHub3s(s, gone)
    BY DEF SparesHub3s
  <2> HIDE DEF grown, gone
  <2>10. QED BY <1>0, <2>4, <2>6, <2>7, <2>8, <2>9, WithoutIsChange
<1>4. QED BY <1>1, <1>2, <1>3

LEMMA OperateIsChange ==
  ASSUME ConfigInv, NEW s \in Stores, Operate(s)
  PROVE  \E m, gone : Change(s, m, gone)
<1>1. CASE \E n \in Names : SetDefaultLock(s, n)
  <2>1. PICK n \in Names : SetDefaultLock(s, n) BY <1>1
  <2> DEFINE old == memory[s]
             m == [old EXCEPT !.defaultLock = n]
  <2>2. old \in Configs /\ old.devices[n] # Unset
    BY <2>1, LoadedIsConfig, ConfigAssumption DEF SetDefaultLock
  <2>3. m \in Configs /\ m.devices = old.devices /\ m.remotes = old.remotes
        /\ m.defaultLock = n /\ m.defaultRemote = old.defaultRemote
    BY <2>2 DEF Configs
  <2>4. DefaultsKept(old, m) BY <2>2, <2>3 DEF DefaultsKept, LockDangles, RemoteDangles
  <2>5. Change(s, m, {}) BY <2>1, <2>2, <2>3, <2>4 DEF Change, SparesHub3s, SetDefaultLock, Loaded
  <2>6. QED BY <2>5
<1>2. CASE SaveOther(s)
  <2>1. memory[s] \in Configs BY <1>2, LoadedIsConfig DEF SaveOther
  <2>2. Change(s, memory[s], {})
    BY <1>2, <2>1 DEF Change, SparesHub3s, SaveOther, Loaded, DefaultsKept
  <2>3. QED BY <2>2
<1>3. QED
  BY <1>1, <1>2, AddIsChange, RemoteIsChange, RemovalIsChange DEF Operate

------------------------------------------------------------------------------
LEMMA InitInv == ConfigInit => ConfigInv
<1> SUFFICES ASSUME ConfigInit PROVE ConfigInv
  OBVIOUS
<1>1. PICK locks \in [Names -> Locks \cup {Unset}], hub3s \in [Names -> Hub3s \cup {Unset}],
           remotes \in [RemoteNames -> RemoteEntries \cup {Unset}] :
        \E keptLocks \in FirstOfEach(locks), keptHub3s \in FirstOfEach(hub3s),
           chosen \in {Unset} \cup {n \in Names : locks[n] # Unset},
           remote \in {Unset} \cup {k \in RemoteNames : remotes[k] # Unset} :
          /\ \A k \in RemoteNames : remotes[k] # Unset => hub3s[remotes[k].hub3] # Unset
          /\ stored = [devices |-> MigrateV1toV2(keptLocks, keptHub3s), remotes |-> remotes,
                       defaultLock |-> chosen, defaultRemote |-> remote]
  BY Zenon DEF ConfigInit
<1>2. PICK keptLocks \in FirstOfEach(locks), keptHub3s \in FirstOfEach(hub3s),
           chosen \in {Unset} \cup {n \in Names : locks[n] # Unset},
           remote \in {Unset} \cup {k \in RemoteNames : remotes[k] # Unset} :
        /\ \A k \in RemoteNames : remotes[k] # Unset => hub3s[remotes[k].hub3] # Unset
        /\ stored = [devices |-> MigrateV1toV2(keptLocks, keptHub3s), remotes |-> remotes,
                     defaultLock |-> chosen, defaultRemote |-> remote]
  BY <1>1
<1>3. /\ \A n \in Names : keptLocks[n] \in Locks \cup {Unset}
      /\ \A n \in Names : keptHub3s[n] \in Hub3s \cup {Unset}
  BY DEF FirstOfEach
<1>4. MigrateV1toV2(keptLocks, keptHub3s) \in [Names -> Devices \cup {Unset}]
  BY <1>3 DEF MigrateV1toV2, Devices
<1>5. stored \in Configs
  BY <1>2, <1>4 DEF Configs
<1>6. memory \in [Stores -> Configs \cup {Unset}] /\ known \in [Stores -> Keys]
      /\ asked \in [Stores -> SUBSET Names] /\ \A s \in Stores : memory[s] = Unset
  BY DEF ConfigInit, Keys
<1>7. QED BY <1>5, <1>6 DEF ConfigInv, ConfigTypeOK, Accounted

LEMMA LoadPreserves ==
  ASSUME ConfigInv, NEW s \in Stores, Load(s) PROVE ConfigInv' /\ Dangling' \subseteq Dangling
<1> USE DEF ConfigInv, ConfigTypeOK, Load
<1>1. stored \in Configs OBVIOUS
<1>2. ConfigTypeOK' BY <1>1, KeysOfType
<1>4. \A t \in Stores \ {s} : Accounted(t)' BY DEF Accounted
<1>5. Accounted(s)' BY <1>1 DEF Accounted, KeysOf
<1>6. \A t \in Stores : memory'[t] = IF t = s THEN stored ELSE memory[t]
  OBVIOUS
<1>7. ({stored'} \cup {memory'[t] : t \in Stores}) \subseteq {stored} \cup {memory[t] : t \in Stores}
  BY <1>6
<1>8. QED BY <1>2, <1>4, <1>5, <1>7 DEF Dangling

LEMMA ExitPreserves ==
  ASSUME ConfigInv, NEW s \in Stores, Exit(s) PROVE ConfigInv' /\ Dangling' \subseteq Dangling
<1> USE DEF ConfigInv, ConfigTypeOK, Exit
<1>1. ConfigTypeOK' BY DEF Keys
<1>3. \A t \in Stores \ {s} : Accounted(t)' BY DEF Accounted
<1>4. Accounted(s)' BY DEF Accounted
<1>5. \A t \in Stores : memory'[t] = IF t = s THEN Unset ELSE memory[t]
  OBVIOUS
<1>6. ({stored'} \cup {memory'[t] : t \in Stores}) \ {Unset} \subseteq {stored} \cup {memory[t] : t \in Stores}
  BY <1>5
<1>7. QED BY <1>1, <1>3, <1>4, <1>6 DEF Dangling

LEMMA NextPreserves ==
  ConfigInv /\ [ConfigNext]_configVars => ConfigInv' /\ Dangling' \subseteq Dangling
<1> SUFFICES ASSUME ConfigInv, [ConfigNext]_configVars PROVE ConfigInv' /\ Dangling' \subseteq Dangling
  OBVIOUS
<1>1. CASE UNCHANGED configVars
  <2>1. ConfigInv'
    BY <1>1 DEF configVars, ConfigInv, ConfigTypeOK, Accounted
  <2>2. Dangling' = Dangling
    BY <1>1 DEF configVars, Dangling
  <2> QED BY <2>1, <2>2
<1>2. CASE \E s \in Stores : Load(s)
  BY <1>2, LoadPreserves
<1>3. CASE \E s \in Stores : Operate(s)
  BY <1>3, OperateIsChange, ChangePreserves, ChangeKeepsDefaults
<1>4. CASE \E s \in Stores : Exit(s)
  BY <1>4, ExitPreserves
<1>5. CASE Damage
  <2>1. ConfigInv'
    BY <1>5 DEF Damage, ConfigInv, ConfigTypeOK, Accounted
  <2>2. ({stored'} \cup {memory'[t] : t \in Stores}) \ {Broken}
          \subseteq {stored} \cup {memory[t] : t \in Stores}
    BY <1>5 DEF Damage
  <2> QED BY <2>1, <2>2 DEF Dangling
<1>6. QED BY <1>1, <1>2, <1>3, <1>4, <1>5 DEF ConfigNext

(* In every reachable state each copy accounts for what it knew.           *)
LEMMA ConfigInvariant == ConfigSpec => []ConfigInv
<1>1. QED BY InitInv, NextPreserves, PTL DEF ConfigSpec

(* The file, the copies and the baselines have their types.                *)
THEOREM ConfigTypeCorrect == ConfigSpec => []ConfigTypeOK
<1>1. ConfigInv => ConfigTypeOK BY DEF ConfigInv
<1>2. QED BY <1>1, ConfigInvariant, PTL

(* However the saves of any number of processes mix and fail, no step      *)
(* leaves a default in the file without its entry: what dangles did so     *)
(* before (mergeConfigData, removeLock and the pruning).                   *)
THEOREM DefaultsAlwaysExist == ConfigSpec => DefaultsExist
<1>1. ConfigInv /\ [ConfigNext]_configVars => [\A default \in Dangling' : default \in Dangling]_configVars
  BY NextPreserves
<1>2. QED BY <1>1, ConfigInvariant, PTL DEF ConfigSpec, DefaultsExist

(* So EveryDefaultExists, which is not true of ConfigSpec, is true if the  *)
(* configuration had no such default to begin with.                        *)
THEOREM SoundDefaultsStay == ConfigSpec /\ EveryDefaultExists => []EveryDefaultExists
<1>1. ConfigInit /\ EveryDefaultExists => Dangling = {}
  <2> SUFFICES ASSUME ConfigInit, EveryDefaultExists,
                      NEW c \in ({stored} \cup {memory[t] : t \in Stores}) \ {Broken, Unset}
               PROVE  DanglingIn(c) = {}
    BY DEF Dangling
  <2>1. c = stored /\ stored # Broken BY DEF ConfigInit
  <2> QED BY <2>1 DEF EveryDefaultExists
<1>2. ConfigInv /\ Dangling = {} /\ [ConfigNext]_configVars => (Dangling = {})'
  BY NextPreserves
<1>3. ConfigInv /\ Dangling = {} => EveryDefaultExists
  <2> SUFFICES ASSUME ConfigInv, Dangling = {}, stored # Broken, NEW x \in DanglingIn(stored) PROVE FALSE
    BY DEF EveryDefaultExists
  <2>1. stored \in {stored, Unset} \ {Broken, Unset}
    BY NoConfigAssumption DEF ConfigInv, ConfigTypeOK
  <2>2. x \in Dangling BY <2>1 DEF Dangling
  <2> QED BY <2>2
<1>4. QED BY <1>1, <1>2, <1>3, ConfigInvariant, PTL DEF ConfigSpec

(* A name leaves the file only in a save of a process that was itself      *)
(* asked to remove it, and no name of a remote leaves it (mergeConfigData, *)
(* rule 1).                                                                *)
THEOREM NothingGetsLost == ConfigSpec => OnlyAskedIsRemoved
<1> DEFINE Loss ==
      stored # Broken /\ stored' # Broken =>
        /\ \A n \in Names : stored.devices[n] # Unset /\ stored'.devices[n] = Unset
                              => \E s \in Stores : known'[s] # known[s] /\ n \in asked'[s]
        /\ \A k \in RemoteNames :
              stored.remotes[k] # Unset => stored'.remotes[k] # Unset
<1>1. ConfigInv /\ [ConfigNext]_configVars => [Loss]_configVars
  <2> SUFFICES ASSUME ConfigInv, ConfigNext, stored # Broken, stored' # Broken PROVE Loss
    OBVIOUS
  <2>1. CASE \E s \in Stores : Operate(s)
    BY <2>1, OperateIsChange, ChangeRemovesAsked
  <2>2. CASE stored' = stored
    BY <2>2
  <2>3. QED BY <2>1, <2>2 DEF ConfigNext, Load, Exit, Damage
<1>2. QED BY <1>1, ConfigInvariant, PTL DEF ConfigSpec, OnlyAskedIsRemoved

------------------------------------------------------------------------------
(* Processes that share the file may prune a Hub3 from under a remote that *)
(* another has added, and bring back what another has removed.  While only *)
(* one at a time has the configuration in memory, and its saves succeed,   *)
(* it does neither: what it has loaded is what is stored.                  *)
Alone == \A s, t \in Stores : Loaded(s) /\ Loaded(t) => s = t

UpToDate ==
  stored # Broken =>
    \A s \in Stores : Loaded(s) => memory[s] = stored /\ known[s] = KeysOf(stored)

LEMMA MergeAlone ==
  ASSUME NEW d \in Configs, NEW m \in Configs
  PROVE  MergeConfigData(d, m, KeysOf(d)) = m
<1>1. UnionDeleting(d.devices, m.devices, KeysOf(d).devices) = m.devices
  BY DEF UnionDeleting, KeysOf, Configs
<1>2. UnionDeleting(d.remotes, m.remotes, KeysOf(d).remotes) = m.remotes
  BY DEF UnionDeleting, KeysOf, Configs
<1> QED
  BY <1>1, <1>2 DEF MergeConfigData, Configs

LEMMA AloneSaves ==
  ASSUME Unlucky = {}, ConfigInv, UpToDate, NEW s \in Stores, NEW m \in Configs,
         memory[s] # Unset, SaveConfig(s, m)
  PROVE  stored' = m /\ memory'[s] = m /\ known'[s] = KeysOf(m)
<1>1. Saved(s, m) /\ memory'[s] = m
  BY DEF SaveConfig, ConfigInv, ConfigTypeOK
<1>2. known'[s] = KeysOf(m)
  BY <1>1 DEF Saved, ConfigInv, ConfigTypeOK
<1>3. CASE stored = Broken
  BY <1>1, <1>2, <1>3 DEF Saved
<1>4. CASE stored # Broken
  BY <1>1, <1>2, <1>4, MergeAlone DEF Saved, UpToDate, Loaded, ConfigInv, ConfigTypeOK
<1> QED
  BY <1>3, <1>4

LEMMA UpToDateStep ==
  ASSUME Unlucky = {}
  PROVE  UpToDate /\ ConfigInv /\ Alone /\ Alone' /\ [ConfigNext]_configVars => UpToDate'
<1> SUFFICES ASSUME UpToDate, ConfigInv, Alone, Alone', [ConfigNext]_configVars PROVE UpToDate'
  OBVIOUS
<1>1. ASSUME NEW s \in Stores, Load(s) PROVE UpToDate'
  BY <1>1 DEF Load, UpToDate, Alone, Loaded, KeysOf, ConfigInv, ConfigTypeOK
<1>2. ASSUME NEW s \in Stores, Operate(s) PROVE UpToDate'
  <2>1. PICK m, gone : Change(s, m, gone)
    BY <1>2, OperateIsChange
  <2>2. stored' = m /\ memory'[s] = m /\ known'[s] = KeysOf(m)
    BY <2>1, AloneSaves DEF Change
  <2>3. \A t \in Stores : t # s => ~Loaded(t)'
    BY <2>1, <2>2, NoConfigAssumption DEF Change, Alone, Loaded
  <2> QED
    BY <2>2, <2>3 DEF UpToDate, KeysOf
<1>3. ASSUME NEW s \in Stores, Exit(s) PROVE UpToDate'
  BY <1>3 DEF Exit, UpToDate, Loaded, KeysOf, ConfigInv, ConfigTypeOK
<1>4. CASE Damage \/ UNCHANGED configVars
  BY <1>4 DEF Damage, configVars, UpToDate, Loaded, KeysOf
<1> QED
  BY <1>1, <1>2, <1>3, <1>4 DEF ConfigNext

LEMMA AloneIsUpToDate ==
  ASSUME Unlucky = {} PROVE ConfigSpec /\ []Alone => []UpToDate
<1>1. ConfigInit => UpToDate
  BY DEF ConfigInit, UpToDate, Loaded
<1> QED
  BY <1>1, UpToDateStep, ConfigInvariant, PTL DEF ConfigSpec

(* A process that is alone with the configuration prunes no Hub3 to which  *)
(* a remote in the file refers (syncHub3sFromDevices).                     *)
THEOREM AlonePruningSpares ==
  ASSUME Unlucky = {} PROVE ConfigSpec /\ []Alone => PruningSparesHub3s
<1> DEFINE Spared ==
      stored # Broken /\ stored' # Broken =>
        \A n \in HubsOfRemotes(stored) :
          stored.devices[n] \in Hub3s => stored'.devices[n] # Unset
<1>1. ConfigInv /\ UpToDate /\ [ConfigNext]_configVars => [Spared]_configVars
  <2> SUFFICES ASSUME ConfigInv, UpToDate, ConfigNext, stored # Broken, stored' # Broken,
                      NEW n \in HubsOfRemotes(stored), stored.devices[n] \in Hub3s,
                      stored'.devices[n] = Unset
               PROVE  FALSE
    OBVIOUS
  <2>0. n \in Names
    BY DEF HubsOfRemotes, KeysOf, ConfigInv, ConfigTypeOK, Configs, RemoteEntries
  <2>1. ASSUME NEW s \in Stores, Operate(s) PROVE FALSE
    <3>1. PICK m, gone : Change(s, m, gone)
      BY <2>1, OperateIsChange
    <3>2. stored' = m /\ memory[s] = stored
      BY <3>1, AloneSaves DEF Change, UpToDate, Loaded
    <3> QED
      BY <2>0, <3>1, <3>2, ConfigAssumption DEF Change, SparesHub3s
  <2>2. stored' # stored
    BY ConfigAssumption
  <2> QED
    BY <2>1, <2>2 DEF ConfigNext, Load, Exit, Damage
<1> QED
  BY <1>1, ConfigInvariant, AloneIsUpToDate, PTL DEF ConfigSpec, PruningSparesHub3s

(* Nor does a sync of it replace a remote that is in the file              *)
(* (syncRemotesFromServer, uniqueName).                                    *)
THEOREM AloneSyncingKeeps ==
  ASSUME Unlucky = {} PROVE ConfigSpec /\ []Alone => SyncingKeepsRemotes
<1> DEFINE Kept ==
      \A s \in Stores, list \in SUBSET Remotes, n \in Names :
        SyncRemotesFromServer(s, list, n) /\ stored # Broken
          => RemotesIn(stored) \subseteq RemotesIn(stored')
<1>1. ConfigInv /\ UpToDate /\ [ConfigNext]_configVars => [Kept]_configVars
  <2> SUFFICES ASSUME ConfigInv, UpToDate, NEW s \in Stores, NEW list \in SUBSET Remotes,
                      NEW n \in Names, SyncRemotesFromServer(s, list, n), stored # Broken,
                      NEW k \in KeysOf(stored).remotes
               PROVE  stored.remotes[k].is \in RemotesIn(stored')
    BY DEF RemotesIn
  <2> DEFINE new == {r \in list : Having(memory[s], r) = {}}
             hub3 == [r \in new |-> n]
  <2>1. Loaded(s) BY DEF SyncRemotesFromServer
  <2>2. PICK at \in Places(memory[s], new) : PlaceRemotes(s, at, hub3)
    BY DEF SyncRemotesFromServer
  <2>3. new \in SUBSET Remotes /\ hub3 \in [new -> Names]
    OBVIOUS
  <2>4. \A r \in new : Having(memory[s], r) = {}
    OBVIOUS
  <2> HIDE DEF new, hub3
  <2>5. memory[s] = stored /\ stored \in Configs
    BY <2>1 DEF UpToDate, ConfigInv, ConfigTypeOK
  <2>6. PICK default : Change(s, WithRemotes(stored, Placed(stored, at, hub3), default), {})
    BY <2>1, <2>2, <2>3, <2>5, PlacingIsChange
  <2> DEFINE m == WithRemotes(stored, Placed(stored, at, hub3), default)
  <2>a. m \in Configs /\ memory[s] # Unset /\ SaveConfig(s, m)
    BY <2>6 DEF Change
  <2>b. m.remotes = Placed(stored, at, hub3)
    BY <2>5 DEF Configs, WithRemotes
  <2> HIDE DEF m
  <2>7. stored'.remotes = Placed(stored, at, hub3)
    BY <2>a, <2>b, AloneSaves
  <2>8. k \in RemoteNames /\ stored.remotes[k] # Unset
    BY DEF KeysOf
  <2>9. DOMAIN at = new /\ \A r \in new : at[r] # k
    BY <2>2, <2>4, <2>5, <2>8 DEF Places
  <2>10. stored'.remotes[k] = stored.remotes[k]
    BY <2>7, <2>8, <2>9 DEF Placed
  <2> QED
    BY <2>8, <2>10 DEF RemotesIn, KeysOf
<1> QED
  BY <1>1, ConfigInvariant, AloneIsUpToDate, PTL DEF ConfigSpec, SyncingKeepsRemotes

(* Nor does a save of it that changes nothing bring back what is gone from *)
(* the file.                                                               *)
THEOREM AloneRemovedStaysRemoved ==
  ASSUME Unlucky = {} PROVE ConfigSpec /\ []Alone => RemovedStaysRemoved
<1> DEFINE Stays ==
      \A s \in Stores : SaveOther(s) /\ stored # Broken =>
        \A n \in Names : stored.devices[n] = Unset => stored'.devices[n] = Unset
<1>1. ConfigInv /\ UpToDate /\ [ConfigNext]_configVars => [Stays]_configVars
  <2> SUFFICES ASSUME ConfigInv, UpToDate, NEW s \in Stores, SaveOther(s), stored # Broken
               PROVE  stored' = stored
    OBVIOUS
  <2>1. memory[s] = stored /\ stored \in Configs
    BY DEF SaveOther, UpToDate, ConfigInv, ConfigTypeOK
  <2> QED
    BY <2>1, AloneSaves, NoConfigAssumption DEF SaveOther, Loaded
<1> QED
  BY <1>1, ConfigInvariant, AloneIsUpToDate, PTL DEF ConfigSpec, RemovedStaysRemoved

-----------------------------------------------------------------------------
(***************************************************************************)
(* AWS credentials. What keeps a signature from expiring on its way is     *)
(* that the credentials outlast the attempts that are left: one tick for   *)
(* each, and one for the current attempt if it has not seen any.           *)
(***************************************************************************)

Left(r) == MaxRetries - r.attempt + (IF r.slow THEN 0 ELSE 1)

Outlasts == \A c \in Callers :
              request[c].at = "sending" => request[c].expires > time + Left(request[c])

AwsInv == AwsTypeOK /\ Outlasts

(* The types hold at first. *)
LEMMA AwsInitially == AwsInit => AwsInv
  BY AwsAssumption DEF AwsInit, AwsInv, AwsTypeOK, Outlasts, Known, NoFlight, Idle

Flights == [stage : {"none", "token", "id", "creds"}, id : Known,
            again : BOOLEAN, attempt : 0 .. MaxRetries]

(* What the steps of a refresh make of its record.                         *)
LEMMA FlightUpdates ==
  ASSUME NEW f \in Flights, NEW i \in Known, NEW n \in 0 .. MaxRetries,
         NEW s \in {"none", "token", "id", "creds"}
  PROVE  /\ [f EXCEPT !.stage = s, !.id = i, !.attempt = n] \in Flights
         /\ [f EXCEPT !.stage = s, !.again = TRUE, !.attempt = n] \in Flights
<1> DEFINE A == [f EXCEPT !.stage = s] B == [A EXCEPT !.id = i] C == [A EXCEPT !.again = TRUE]
<1>1. A \in Flights
  BY DEF Flights
<1>2. B \in Flights /\ C \in Flights
  <2> HIDE DEF A
  <2> QED BY <1>1 DEF Flights
<1>3. [B EXCEPT !.attempt = n] \in Flights /\ [C EXCEPT !.attempt = n] \in Flights
  <2> HIDE DEF B, C
  <2> QED BY <1>2 DEF Flights
<1> QED BY <1>3

(* A step that leaves the requests and the clock alone need only keep the  *)
(* types of what it changes.                                               *)
LEMMA RequestsKept ==
  ASSUME AwsInv, UNCHANGED <<time, request>>, identity' \in Known, flight' \in Flights,
         cached' \in 0 .. MaxTime + Life, persisted' \in [id : Known, expires : 0 .. MaxTime + Life]
  PROVE  AwsInv'
<1>1. AwsTypeOK'
  BY DEF AwsInv, AwsTypeOK, Flights
<1>2. Outlasts'
  BY DEF AwsInv, Outlasts, Left
<1> QED BY <1>1, <1>2 DEF AwsInv

Requests == [at : {"idle", "waiting", "sending"}, expires : 0 .. MaxTime + Life,
             attempt : 0 .. MaxRetries, slow : BOOLEAN]

(* What a tick makes of the record of a request.                           *)
LEMMA RequestUpdates ==
  ASSUME NEW r \in Requests
  PROVE  /\ [r EXCEPT !.slow = TRUE] \in Requests
         /\ [r EXCEPT !.slow = TRUE].at = r.at
         /\ [r EXCEPT !.slow = TRUE].expires = r.expires
         /\ [r EXCEPT !.slow = TRUE].attempt = r.attempt
         /\ [r EXCEPT !.slow = TRUE].slow
         /\ [r EXCEPT !.slow = FALSE] \in Requests
         /\ [r EXCEPT !.slow = FALSE].at = r.at
         /\ [r EXCEPT !.slow = FALSE].expires = r.expires
         /\ [r EXCEPT !.slow = FALSE].attempt = r.attempt
         /\ ~[r EXCEPT !.slow = FALSE].slow
<1>1. /\ [r EXCEPT !.slow = TRUE] \in Requests
      /\ [r EXCEPT !.slow = FALSE] \in Requests
  BY DEF Requests
<1> QED BY <1>1 DEF Requests

(* And another attempt. *)
LEMMA AttemptUpdates ==
  ASSUME NEW r \in Requests, NEW n \in 0 .. MaxRetries
  PROVE  /\ [r EXCEPT !.attempt = n] \in Requests
         /\ [r EXCEPT !.attempt = n].at = r.at
         /\ [r EXCEPT !.attempt = n].expires = r.expires
         /\ [r EXCEPT !.attempt = n].attempt = n
  BY DEF Requests

(* A signature made with fit credentials outlasts all its attempts.        *)
LEMMA FitOutlasts ==
  ASSUME AwsTypeOK, NEW e \in 0 .. MaxTime + Life, Fit(e)
  PROVE  Signed(e).expires > time + Left(Signed(e))
  BY AwsAssumption DEF AwsTypeOK, Fit, Signed, Left

(* A request of the type of requests, as the initial ones and the signed.  *)
LEMMA SignedType ==
  ASSUME NEW e \in 0 .. MaxTime + Life
  PROVE  /\ Signed(e) \in [at : {"idle", "waiting", "sending"}, expires : 0 .. MaxTime + Life,
                           attempt : 0 .. MaxRetries, slow : BOOLEAN]
         /\ Idle \in [at : {"idle", "waiting", "sending"}, expires : 0 .. MaxTime + Life,
                           attempt : 0 .. MaxRetries, slow : BOOLEAN]
  BY AwsAssumption DEF Signed, Idle

(* The rejection of a refresh keeps the invariant. *)
LEMMA RejectedKeeps ==
  ASSUME AwsInv, Rejected, UNCHANGED <<time, cached, persisted>>, identity' \in Known
  PROVE  AwsInv'
<1>1. AwsTypeOK'
  BY AwsAssumption DEF AwsInv, AwsTypeOK, Rejected, NoFlight, Idle, Known
<1>2. Outlasts'
  BY DEF AwsInv, AwsTypeOK, Outlasts, Rejected, Idle, Left
<1> QED BY <1>1, <1>2 DEF AwsInv

(* Every step keeps the invariant. *)
LEMMA AwsStep == AwsInv /\ [AwsNext]_awsVars => AwsInv'
<1> SUFFICES ASSUME AwsInv, [AwsNext]_awsVars PROVE AwsInv'
  OBVIOUS
<1> USE AwsAssumption
<1>1. CASE TokenArrives
  <2>1. flight' \in Flights
    <3>1. flight \in Flights /\ identity \in Known /\ 0 \in 0 .. MaxRetries
      BY DEF AwsInv, AwsTypeOK, Flights
    <3>2. (IF identity = "none" THEN "id" ELSE "creds") \in {"none", "token", "id", "creds"}
      OBVIOUS
    <3> QED BY <1>1, <3>1, <3>2, FlightUpdates DEF TokenArrives
  <2> QED BY <1>1, <2>1, RequestsKept DEF TokenArrives, AwsInv, AwsTypeOK
<1>2. CASE AttemptFails
  <2>1. CASE flight.attempt < MaxRetries
    BY <1>2, <2>1 DEF AttemptFails, TryAgain, AwsInv, AwsTypeOK, Outlasts, Left
  <2>2. CASE ~(flight.attempt < MaxRetries)
    BY <1>2, <2>2, RejectedKeeps DEF AttemptFails, TryAgain, AwsInv, AwsTypeOK
  <2> QED BY <2>1, <2>2
<1>3. CASE PoolCallFails
  BY <1>3, RejectedKeeps DEF PoolCallFails, AwsInv, AwsTypeOK
<1>4. CASE IdArrives
  <2>1. flight' \in Flights
    <3>1. flight \in Flights /\ "live" \in Known /\ 0 \in 0 .. MaxRetries
      BY DEF AwsInv, AwsTypeOK, Flights, Known
    <3> QED BY <1>4, <3>1, FlightUpdates DEF IdArrives
  <2> QED BY <1>4, <2>1, RequestsKept DEF IdArrives, AwsInv, AwsTypeOK
<1>5. CASE CredentialsArrive
  <2>1. time + Life \in 0 .. MaxTime + Life
    BY DEF AwsInv, AwsTypeOK
  <2>2. Fit(time + Life)
    BY DEF AwsInv, AwsTypeOK, Fit
  <2>3. AwsTypeOK'
    BY <1>5, <2>1, SignedType DEF CredentialsArrive, AwsInv, AwsTypeOK, NoFlight, Known
  <2>4. Outlasts'
    <3> SUFFICES ASSUME NEW c \in Callers
                 PROVE  (request[c].at = "sending"
                           => request[c].expires > time + Left(request[c]))'
      BY DEF Outlasts
    <3>1. CASE request[c].at = "waiting"
      BY <1>5, <2>1, <2>2, <3>1, FitOutlasts DEF CredentialsArrive, AwsInv, AwsTypeOK, Left
    <3>2. CASE request[c].at # "waiting"
      BY <1>5, <3>2 DEF CredentialsArrive, AwsInv, AwsTypeOK, Outlasts, Left
    <3> QED BY <3>1, <3>2
  <2> QED BY <2>3, <2>4 DEF AwsInv
<1>6. CASE Unknown
  <2>1. CASE flight.again
    BY <1>6, <2>1, RejectedKeeps DEF Unknown, AwsInv, AwsTypeOK
  <2>2. CASE ~flight.again
    <3>1. flight' \in Flights /\ identity' \in Known
      <4>1. flight \in Flights /\ "none" \in Known /\ 0 \in 0 .. MaxRetries
        BY DEF AwsInv, AwsTypeOK, Flights, Known
      <4> QED BY <1>6, <2>2, <4>1, FlightUpdates DEF Unknown
    <3> QED BY <1>6, <2>2, <3>1, RequestsKept DEF Unknown, AwsInv, AwsTypeOK
  <2> QED BY <2>1, <2>2
<1>7. CASE ClearCache
  <2>1. /\ identity' \in Known /\ flight' \in Flights /\ cached' \in 0 .. MaxTime + Life
        /\ persisted' \in [id : Known, expires : 0 .. MaxTime + Life]
    BY <1>7 DEF ClearCache, AwsInv, AwsTypeOK, Flights, Known
  <2> QED BY <1>7, <2>1, RequestsKept DEF ClearCache
<1>8. CASE Restart
  <2>1. AwsTypeOK'
    BY <1>8, SignedType, 0 \in 0 .. MaxTime + Life DEF Restart, AwsInv, AwsTypeOK, NoFlight, Known
  <2>2. Outlasts'
    BY <1>8 DEF Restart, Outlasts, Idle
  <2> QED BY <2>1, <2>2 DEF AwsInv
<1>9. CASE PoolDrops
  <2>1. identity' \in Known /\ flight' \in Flights
    BY <1>9 DEF PoolDrops, AwsInv, AwsTypeOK, Flights, Known
  <2>2. persisted' \in [id : Known, expires : 0 .. MaxTime + Life]
    BY <1>9 DEF PoolDrops, AwsInv, AwsTypeOK, Known
  <2> QED BY <1>9, <2>1, <2>2, RequestsKept DEF PoolDrops, AwsInv, AwsTypeOK
<1>10. CASE Tick
  <2>0. ASSUME NEW c \in Callers
        PROVE  /\ request[c] \in Requests /\ request'[c] \in Requests
               /\ request'[c].at = request[c].at
               /\ request'[c].expires = request[c].expires
               /\ request'[c].attempt = request[c].attempt
               /\ request[c].at = "sending" => ~request[c].slow /\ request'[c].slow
    <3>1. request[c] \in Requests
      BY DEF AwsInv, AwsTypeOK, Requests
    <3>2. request'[c] = [request[c] EXCEPT !.slow = request[c].at = "sending"]
      BY <1>10 DEF Tick
    <3>3. ~request[c].slow
      BY <1>10 DEF Tick
    <3>4. CASE request[c].at = "sending"
      <4>1. request'[c] = [request[c] EXCEPT !.slow = TRUE]
        BY <3>2, <3>4
      <4> QED BY <3>1, <3>3, <4>1, RequestUpdates
    <3>5. CASE request[c].at # "sending"
      <4>1. request'[c] = [request[c] EXCEPT !.slow = FALSE]
        BY <3>2, <3>5
      <4> QED BY <3>1, <3>5, <4>1, RequestUpdates
    <3> QED BY <3>4, <3>5
  <2>1. AwsTypeOK'
    <3>1. request' \in [Callers -> Requests]
      <4>1. request' = [c \in Callers |-> request'[c]]
        BY <1>10, Zenon DEF Tick
      <4> QED BY <2>0, <4>1
    <3> QED BY <1>10, <3>1 DEF Tick, AwsInv, AwsTypeOK, Requests
  <2>2. Outlasts'
    <3> SUFFICES ASSUME NEW c \in Callers, (request[c].at = "sending")'
                 PROVE  (request[c].expires > time + Left(request[c]))'
      BY DEF Outlasts
    <3>1. request[c].expires > time + Left(request[c])
      BY <2>0 DEF AwsInv, Outlasts
    <3>2. time' = time + 1 /\ time \in Nat
      BY <1>10 DEF Tick, AwsInv, AwsTypeOK
    <3> QED BY <2>0, <3>1, <3>2 DEF Left, Requests
  <2> QED BY <2>1, <2>2 DEF AwsInv
<1>11. ASSUME NEW c \in Callers, GetCredentials(c) PROVE AwsInv'
  <2>1. CASE Fit(cached)
    <3>1. AwsTypeOK'
      BY <1>11, <2>1, SignedType DEF GetCredentials, AwsInv, AwsTypeOK
    <3>2. Outlasts'
      BY <1>11, <2>1, FitOutlasts DEF GetCredentials, AwsInv, AwsTypeOK, Outlasts, Left
    <3> QED BY <3>1, <3>2 DEF AwsInv
  <2>2. CASE ~Fit(cached)
    BY <1>11, <2>2 DEF GetCredentials, AwsInv, AwsTypeOK, Outlasts, Left
  <2> QED BY <2>1, <2>2
<1>12. ASSUME NEW c \in Callers, SendAgain(c) PROVE AwsInv'
  <2> DEFINE r == request[c] s == [[r EXCEPT !.attempt = @ + 1] EXCEPT !.slow = FALSE]
  <2>1. r \in Requests /\ r.attempt + 1 \in 0 .. MaxRetries /\ r.at = "sending"
    BY <1>12 DEF SendAgain, AwsInv, AwsTypeOK, Requests
  <2>2. /\ s \in Requests /\ s.at = r.at /\ s.expires = r.expires
        /\ s.attempt = r.attempt + 1 /\ ~s.slow
    <3> DEFINE q == [r EXCEPT !.attempt = @ + 1]
    <3>1. q \in Requests /\ q.at = r.at /\ q.expires = r.expires /\ q.attempt = r.attempt + 1
      <4> HIDE DEF r
      <4> QED BY <2>1, AttemptUpdates
    <3>2. /\ [q EXCEPT !.slow = FALSE] \in Requests
          /\ [q EXCEPT !.slow = FALSE].at = q.at
          /\ [q EXCEPT !.slow = FALSE].expires = q.expires
          /\ [q EXCEPT !.slow = FALSE].attempt = q.attempt
          /\ ~[q EXCEPT !.slow = FALSE].slow
      <4> HIDE DEF q
      <4> QED BY <3>1, RequestUpdates
    <3> QED BY <3>1, <3>2
  <2>3. request' = [request EXCEPT ![c] = s]
    BY <1>12 DEF SendAgain, AwsInv, AwsTypeOK
  <2>4. AwsTypeOK'
    <3> HIDE DEF s
    <3> QED BY <1>12, <2>2, <2>3 DEF SendAgain, AwsInv, AwsTypeOK, Requests
  <2>5. Outlasts'
    <3> SUFFICES ASSUME NEW d \in Callers, (request[d].at = "sending")'
                 PROVE  (request[d].expires > time + Left(request[d]))'
      BY DEF Outlasts
    <3> HIDE DEF s
    <3>1. CASE d = c
      <4>1. request'[d] = s /\ time' = time
        BY <1>12, <2>3, <3>1 DEF SendAgain, AwsInv, AwsTypeOK
      <4>2. r.expires > time + Left(r)
        BY <2>1 DEF AwsInv, Outlasts
      <4>3. s.expires > time + Left(s)
        BY <2>1, <2>2, <4>2 DEF Left, Requests, AwsInv, AwsTypeOK
      <4> QED BY <4>1, <4>3 DEF Left
    <3>2. CASE d # c
      BY <1>12, <2>3, <3>2 DEF SendAgain, AwsInv, AwsTypeOK, Outlasts, Left
    <3> QED BY <3>1, <3>2
  <2> QED BY <2>4, <2>5 DEF AwsInv
<1>13. ASSUME NEW c \in Callers, SendEnds(c) PROVE AwsInv'
  BY <1>13 DEF SendEnds, AwsInv, AwsTypeOK, Outlasts, Left, Idle
<1>14. CASE UNCHANGED awsVars
  BY <1>14 DEF awsVars, AwsInv, AwsTypeOK, Outlasts, Left
<1> QED BY <1>1, <1>2, <1>3, <1>4, <1>5, <1>6, <1>7, <1>8, <1>9, <1>10,
           <1>11, <1>12, <1>13, <1>14 DEF AwsNext

(* What outlasts its attempts has not expired. *)
LEMMA AwsInvImplies == AwsInv => SignedLive
  BY AwsAssumption DEF AwsInv, AwsTypeOK, Outlasts, SignedLive, Left

(* However many requests and whatever the limits, as long as the margin    *)
(* covers the attempts: no request is under way with expired credentials.  *)
THEOREM SignaturesLive == AwsSpec => []SignedLive
<1>1. AwsSpec => []AwsInv
  BY AwsInitially, AwsStep, PTL DEF AwsSpec
<1> QED BY <1>1, AwsInvImplies, PTL
=============================================================================
