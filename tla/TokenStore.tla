----------------------------- MODULE TokenStore -----------------------------
(***************************************************************************)
(* The tokens.json shared by the serve daemon and the CLI: FileTokenStore  *)
(* with its merge rules (packages/core/src/tokens.js) and the operations   *)
(* of packages/core/src/auth.js that load it, talk to Cognito and save.    *)
(* Here save() and clear() are one step, which is what their file lock is  *)
(* for; TokenStoreLocked shows when the lock delivers that.                *)
(*                                                                         *)
(* A set of tokens is abstracted to its refresh token, named by the login  *)
(* it comes from and how often it was rotated; the device it carries,      *)
(* named by the login that confirmed it; and tokenFreshnessMs.  That is    *)
(* the exp of its idToken, a time ahead of the lastRefresh written next to *)
(* it: Cognito's clock, in seconds, at the moment it issued the token.     *)
(* Tokens issued in the same second are equally fresh.                     *)
(***************************************************************************)
EXTENDS Integers

CONSTANTS
  Procs,      \* processes that share the file
  Rotation,   \* whether Cognito rotates refresh tokens
  MaxLogins,  \* bound of the model
  MaxClock,   \* bound of the model: seconds
  None

ASSUME TokenFlagAssumption  == Rotation \in BOOLEAN
ASSUME TokenBoundAssumption == MaxLogins \in Nat /\ MaxClock \in Nat

VARIABLES
  disk,     \* the contents of tokens.json, or None
  mem,      \* the tokens a process has loaded or is about to save
  out,      \* the tokens that a logout in progress loaded first, or None
  phase,    \* what each process is doing
  current,  \* Cognito: the valid rotation of each login, -1 once revoked
  bound,    \* Cognito: the device each login was made with
  logins,   \* Cognito: how many logins there have been
  clock     \* Cognito: the second in which it last issued tokens

cognito   == <<current, bound, logins>>
tokenVars == <<disk, mem, out, phase, cognito, clock>>

Logins == 1 .. MaxLogins

(* login = 0: idToken, accessToken, refreshToken and lastRefresh are null. *)
(* device = 0: the device fields are null.                                 *)
Tokens ==
  {t \in [login : 0 .. MaxLogins, rotation : Nat, fresh : 0 .. MaxClock,
          device : 0 .. MaxLogins] : t.login = 0 <=> t.fresh = 0}

ASSUME TokenNoneAssumption == None \notin Tokens

Phases == {"idle", "calling", "granted", "denied", "saving", "verifying",
           "forgetting", "revoking", "clearing"}

Discarded(t) == t.login = 0

TokenTypeOK ==
  /\ disk \in Tokens \cup {None}
  /\ mem \in [Procs -> Tokens \cup {None}]
  /\ out \in [Procs -> Tokens \cup {None}]
  /\ phase \in [Procs -> Phases]
  /\ current \in [Logins -> Nat \cup {-1}]
  /\ bound \in [Logins -> 0 .. MaxLogins]
  /\ logins \in 0 .. MaxLogins
  /\ clock \in 0 .. MaxClock
  /\ \A p \in Procs :
       /\ phase[p] \in {"calling", "granted", "denied", "saving", "verifying"} => mem[p] # None
       /\ phase[p] \in {"calling", "granted", "denied"} => ~Discarded(mem[p])
       /\ phase[p] \in {"forgetting", "revoking", "clearing"} => out[p] # None

TokenInit ==
  /\ disk = None
  /\ mem = [p \in Procs |-> None]
  /\ out = [p \in Procs |-> None]
  /\ phase = [p \in Procs |-> "idle"]
  /\ current = [l \in Logins |-> -1]
  /\ bound = [l \in Logins |-> 0]
  /\ logins = 0
  /\ clock = 0

(* Process p goes to a place with tokens t in memory. *)
Goes(p, place, t) ==
  /\ phase' = [phase EXCEPT ![p] = place]
  /\ mem' = [mem EXCEPT ![p] = t]

(* Where a call of getValidIdToken or save() returns to: logout goes on    *)
(* whatever became of it.                                                  *)
Return(p) == Goes(p, IF out[p] = None THEN "idle" ELSE "forgetting", None)

-----------------------------------------------------------------------------
(* mergeStoredTokens: what save(t) leaves on a disk that holds d.          *)
IncomingWins(d, t) == t  \* faulty: the save of before there was a merge

Merge(d, t) ==
  IF d = None \/ Discarded(t) \/ d.fresh <= t.fresh
  THEN t
  ELSE [d EXCEPT !.device = t.device]

-----------------------------------------------------------------------------
(* getValidIdToken, when the stored idToken is about to expire.            *)

(* Up to the await of InitiateAuth.                                        *)
StartRefresh(p) ==
  /\ phase[p] = "idle" /\ disk # None /\ ~Discarded(disk)
  /\ Goes(p, "calling", disk)
  /\ UNCHANGED <<disk, out, cognito, clock>>

(* Cognito: REFRESH_TOKEN_AUTH with a refresh token and a device key.      *)
Valid(t) == current[t.login] = t.rotation /\ t.device = bound[t.login]

(* The second in which Cognito answers, in a model of MaxClock of them. *)
Now == {clock, clock + 1} \cap 0 .. MaxClock

(* The tokens t with what Cognito issued in their place. *)
Renewed(t, rotation, now) ==
  [login |-> t.login, rotation |-> rotation, fresh |-> now, device |-> t.device]

(* A refresh is asked for when the idToken is about to expire, seconds     *)
(* after it was issued at the least.                                       *)
CognitoGrants(p) ==
  /\ phase[p] = "calling" /\ Valid(mem[p])
  /\ \E now \in Now :
       /\ now > mem[p].fresh
       /\ clock' = now
       /\ LET next == IF Rotation THEN mem[p].rotation + 1 ELSE mem[p].rotation
          IN  /\ current' = [current EXCEPT ![mem[p].login] = next]
              /\ Goes(p, "granted", Renewed(mem[p], next, now))
  /\ UNCHANGED <<disk, out, bound, logins>>

CognitoDenies(p) ==
  /\ phase[p] = "calling" /\ ~Valid(mem[p])
  /\ phase' = [phase EXCEPT ![p] = "denied"]
  /\ UNCHANGED <<disk, mem, out, cognito, clock>>

(* Any other failure of the call, also after Cognito has answered, is      *)
(* thrown to the caller and nothing is saved.                              *)
CallFails(p) ==
  /\ phase[p] \in {"calling", "granted"}
  /\ Return(p)
  /\ UNCHANGED <<disk, out, cognito, clock>>

(* The response arrives: its tokens replace the loaded ones, and save() is *)
(* called.                                                                 *)
GrantKeepsRefreshToken(p) ==  \* faulty: the rotated refresh token is not taken
  /\ phase[p] = "granted"
  /\ Goes(p, "saving", IF Rotation THEN [mem[p] EXCEPT !.rotation = @ - 1] ELSE mem[p])
  /\ UNCHANGED <<disk, out, cognito, clock>>

ReceiveGrant(p) ==
  /\ phase[p] = "granted"
  /\ phase' = [phase EXCEPT ![p] = "saving"]
  /\ UNCHANGED <<disk, mem, out, cognito, clock>>

(* NotAuthorized: the tokens are discarded, the device is kept.            *)
ReceiveDenial(p) ==
  /\ phase[p] = "denied"
  /\ Goes(p, "saving", [login |-> 0, rotation |-> 0, fresh |-> 0, device |-> mem[p].device])
  /\ UNCHANGED <<disk, out, cognito, clock>>

-----------------------------------------------------------------------------
(* loginVerify.                                                            *)

(* Cognito accepts: save() is called with the tokens of a new login made   *)
(* with device d, of which `stored' is saved.                              *)
LoggedIn(p, d, stored) ==
  /\ logins < MaxLogins
  /\ logins' = logins + 1
  /\ \E now \in Now \ {0} :
       /\ clock' = now
       /\ Goes(p, "saving", [login |-> logins + 1, rotation |-> 0, fresh |-> now,
                             device |-> stored])
  /\ current' = [current EXCEPT ![logins + 1] = 0]
  /\ bound' = [bound EXCEPT ![logins + 1] = d]
  /\ UNCHANGED <<disk, out>>

(* With a device of its own, stored only if ConfirmDevice succeeded.       *)
Login(p) ==
  /\ phase[p] = "idle"
  /\ \E stored \in {0, logins + 1} : LoggedIn(p, logins + 1, stored)

(* DEVICE_SRP_AUTH with the stored device, up to its await.                *)
StartDeviceAuth(p) ==
  /\ phase[p] = "idle" /\ disk # None /\ disk.device # 0
  /\ Goes(p, "verifying", disk)
  /\ UNCHANGED <<disk, out, cognito, clock>>

DeviceAccepted(p) ==
  /\ phase[p] = "verifying"
  /\ LoggedIn(p, mem[p].device, mem[p].device)

(* The device is refused: what is stored by now is saved without it.       *)
DeviceRefused(p) ==
  /\ phase[p] = "verifying"
  /\ IF disk = None THEN Goes(p, "idle", None)
     ELSE Goes(p, "saving", [disk EXCEPT !.device = 0])
  /\ UNCHANGED <<disk, out, cognito, clock>>

-----------------------------------------------------------------------------
(* logout: getValidIdToken if there is a device, ForgetDevice, RevokeToken *)
(* and clear(), each in spite of the failure of those before it.           *)

StartLogout(p) ==
  /\ phase[p] = "idle" /\ disk # None
  /\ out' = [out EXCEPT ![p] = disk]
  /\ \/ Goes(p, "forgetting", None)
     \/ disk.device # 0 /\ ~Discarded(disk) /\ Goes(p, "calling", disk)
  /\ UNCHANGED <<disk, cognito, clock>>

(* ForgetDevice ends the logins made with the device.                      *)
CognitoForgets(p) ==
  /\ phase[p] = "forgetting" /\ out[p].device # 0
  /\ current' = [l \in Logins |-> IF bound[l] = out[p].device THEN -1 ELSE current[l]]
  /\ phase' = [phase EXCEPT ![p] = "revoking"]
  /\ UNCHANGED <<disk, mem, out, bound, logins, clock>>

NotForgotten(p) ==
  /\ phase[p] = "forgetting"
  /\ phase' = [phase EXCEPT ![p] = "revoking"]
  /\ UNCHANGED <<disk, mem, out, cognito, clock>>

(* The refresh token to revoke is read again, for it may have rotated.     *)
CognitoRevokes(p) ==
  /\ phase[p] = "revoking"
  /\ LET t == IF disk = None \/ Discarded(disk) THEN out[p] ELSE disk
     IN  /\ ~Discarded(t)
         /\ current' = IF current[t.login] = t.rotation
                       THEN [current EXCEPT ![t.login] = -1] ELSE current
  /\ phase' = [phase EXCEPT ![p] = "clearing"]
  /\ UNCHANGED <<disk, mem, out, bound, logins, clock>>

NotRevoked(p) ==
  /\ phase[p] = "revoking"
  /\ phase' = [phase EXCEPT ![p] = "clearing"]
  /\ UNCHANGED <<disk, mem, out, cognito, clock>>

-----------------------------------------------------------------------------
(* FileTokenStore.save, and clear, with which logout ends.                 *)

Save(p) ==
  /\ phase[p] = "saving"
  /\ disk' = Merge(disk, mem[p])
  /\ Return(p)
  /\ UNCHANGED <<out, cognito, clock>>

Clear(p) ==
  /\ phase[p] = "clearing"
  /\ disk' = None
  /\ out' = [out EXCEPT ![p] = None]
  /\ Goes(p, "idle", None)
  /\ UNCHANGED <<cognito, clock>>

(* The lock cannot be had in time: save() or clear() throws.               *)
LockTimesOut(p) ==
  /\ \/ phase[p] = "saving" /\ Return(p) /\ UNCHANGED out
     \/ /\ phase[p] = "clearing"
        /\ out' = [out EXCEPT ![p] = None]
        /\ Goes(p, "idle", None)
  /\ UNCHANGED <<disk, cognito, clock>>

(* Everything but the operations on the file. *)
Compute(p) ==
  \/ StartRefresh(p) \/ CognitoGrants(p) \/ CognitoDenies(p) \/ CallFails(p)
  \/ ReceiveGrant(p) \/ ReceiveDenial(p)
  \/ Login(p) \/ StartDeviceAuth(p) \/ DeviceAccepted(p) \/ DeviceRefused(p)
  \/ StartLogout(p) \/ CognitoForgets(p) \/ NotForgotten(p)
  \/ CognitoRevokes(p) \/ NotRevoked(p)

TokenNext == \E p \in Procs : Compute(p) \/ Save(p) \/ Clear(p) \/ LockTimesOut(p)

TokenSpec == TokenInit /\ [][TokenNext]_tokenVars

-----------------------------------------------------------------------------
(* Saved tokens are never replaced by older ones, whatever snapshot the    *)
(* process that saves was working from; they are only renewed, discarded   *)
(* after a refusal, or removed.                                            *)
NoRollback ==
  [][disk # None /\ disk' # None =>
       Discarded(disk') \/ disk'.fresh >= disk.fresh]_disk

(* Within one login the stored refresh token only moves forward: a token   *)
(* that Cognito has rotated out does not come back.                        *)
RotationsAdvance ==
  [][disk # None /\ disk' # None /\ ~Discarded(disk) /\ disk'.login = disk.login
       => disk'.rotation >= disk.rotation]_disk

(* The tokens of a login there are, on disk or in a process' memory. *)
Copies == {t \in {disk} \cup {mem[p] : p \in Procs} : t # None /\ t.login # 0}

CopiesOrdered ==
  \A s, t \in Copies : s.login = t.login =>
    IF Rotation THEN s.rotation < t.rotation <=> s.fresh < t.fresh
                ELSE s.rotation = t.rotation

CopiesKnown ==
  \A t \in Copies : /\ t.login <= logins /\ t.fresh <= clock
                    /\ current[t.login] # -1 => t.rotation <= current[t.login]

(* Of two copies of the tokens of a login, the fresher one is the one with *)
(* the later refresh token, and none is later than the one Cognito         *)
(* accepts: the freshness may decide which copy to keep.                   *)
FresherIsLater == CopiesOrdered /\ CopiesKnown

(* The stored refresh token is stored with the device it was issued to,    *)
(* or with none.                                                           *)
DeviceMatchesToken ==
  disk # None => Discarded(disk) \/ disk.device \in {0, bound[disk.login]}

(* A refresh token that Cognito still honours is not thrown away because   *)
(* another process was refused with the one it replaced.                   *)
HonouredTokensKept ==
  [][(\E p \in Procs : phase[p] = "saving" /\ phase'[p] # "saving")
       => disk = None \/ Discarded(disk) \/ ~Valid(disk) \/ ~Discarded(disk')]_tokenVars
=============================================================================
