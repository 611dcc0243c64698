----------------------------- MODULE LoginDialogue -----------------------------
(***************************************************************************)
(* Signing in: `sesame login` and `sesame verify` (loginInitiate and       *)
(* loginVerify of packages/core/src/auth.js), several processes of them,   *)
(* beside processes that refresh the tokens, and Cognito's challenges.     *)
(*                                                                         *)
(* login leaves the session of a challenge in a file, and mails a code;    *)
(* verify, often another process, answers with the code and with the       *)
(* device stored beside the last tokens.  Cognito then asks for a proof of *)
(* that device, or grants tokens with a new device, which is to be         *)
(* confirmed.  Everything between two awaits is one step: save() and       *)
(* clear() are serialised by the lock (TokenStoreLocked).  What the tokens *)
(* are worth is TokenStore's; here they are there or not, and the user and *)
(* the device stored with them count.                                      *)
(*                                                                         *)
(* Sessions and devices that nobody names any more are used again, so that *)
(* people may go on signing in without end.                                *)
(***************************************************************************)
EXTENDS Integers, FiniteSets

CONSTANTS
  Users, Procs, Daemons,
  Sessions,   \* Cognito's sessions: two more than Procs
  Devices,    \* the devices: two more than Procs and Daemons
  Nothing

ASSUME LoginAssumption ==
  /\ Nothing \notin Devices
  /\ IsFiniteSet(Procs) /\ IsFiniteSet(Daemons) /\ IsFiniteSet(Sessions) /\ IsFiniteSet(Devices)
  /\ Cardinality(Sessions) > Cardinality(Procs) + 1
  /\ Cardinality(Devices) > Cardinality(Procs) + Cardinality(Daemons) + 1

VARIABLES
  file,      \* tokens.json: Nothing, or the user, the device and whether there are tokens
  pend,      \* the file of the pending login: Nothing, or its user and its session
  at,        \* what each process is awaiting
  run,       \* the login a process carries on, or Nothing
  held,      \* the device a process answers with or confirms
  snap,      \* the tokens a daemon refreshes, or Nothing
  challenge,     \* Cognito: what a session waits for
  standing,  \* Cognito: what it knows of a device
  owner      \* Cognito: the user a device was given to

cliVars   == <<pend, at, run, held>>
poolVars  == <<challenge, standing, owner>>
loginVars == <<file, cliVars, snap, poolVars>>

Stored == [user : Users, device : Devices \cup {Nothing}, tokens : BOOLEAN]

LoginTypeOK ==
  /\ file \in Stored \cup {Nothing}
  /\ pend \in [user : Users, session : Sessions] \cup {Nothing}
  /\ at \in [Procs -> {"idle", "initiating", "answering", "proving", "confirming"}]
  /\ run \in [Procs -> [user : Users, session : Sessions \cup {Nothing}] \cup {Nothing}]
  /\ held \in [Procs -> Devices \cup {Nothing}]
  /\ snap \in [Daemons -> Stored \cup {Nothing}]
  /\ challenge \in [Sessions -> {"code", "device", "spent"}]
  /\ standing \in [Devices -> {"given", "confirmed", "forgotten"}]
  /\ owner \in [Devices -> Users \cup {Nothing}]

SessionNamed(s) ==
  s \in {l.session : l \in ({pend} \cup {run[p] : p \in Procs}) \ {Nothing}}

DeviceNamed(d) ==
  \/ d \in {held[p] : p \in Procs}
  \/ d \in {t.device : t \in ({file} \cup {snap[r] : r \in Daemons}) \ {Nothing}}

(* Nobody has signed in yet, or somebody is. *)
LoginInit ==
  /\ file \in {Nothing} \cup [user : Users, device : Devices, tokens : {TRUE}]
  /\ pend = Nothing
  /\ at = [p \in Procs |-> "idle"]
  /\ run = [p \in Procs |-> Nothing]
  /\ held = [p \in Procs |-> Nothing]
  /\ snap = [r \in Daemons |-> Nothing]
  /\ challenge = [s \in Sessions |-> "spent"]
  /\ standing = [d \in Devices |-> IF DeviceNamed(d) THEN "confirmed" ELSE "forgotten"]
  /\ owner = [d \in Devices |-> IF DeviceNamed(d) THEN file.user ELSE Nothing]

NewSession == CHOOSE s \in Sessions : ~SessionNamed(s)
NewDevice  == CHOOSE d \in Devices : ~DeviceNamed(d)

(* What Cognito keeps: of sessions and devices nobody names, nothing. *)
Cognito(challenges, standings, owners) ==
  /\ challenge' = [s \in Sessions |-> IF SessionNamed(s)' THEN challenges[s] ELSE "spent"]
  /\ standing' = [d \in Devices |-> IF DeviceNamed(d)' THEN standings[d] ELSE "forgotten"]
  /\ owner' = [d \in Devices |-> IF DeviceNamed(d)' THEN owners[d] ELSE Nothing]

Returns(p) ==
  /\ at' = [at EXCEPT ![p] = "idle"]
  /\ run' = [run EXCEPT ![p] = Nothing]
  /\ held' = [held EXCEPT ![p] = Nothing]

-----------------------------------------------------------------------------
(* loginInitiate, up to InitiateAuth; and from its answer, by way of       *)
(* PASSWORD_VERIFIER or without, to savePending.                           *)
LoginInitiate(p, u) ==
  /\ at[p] = "idle"
  /\ at' = [at EXCEPT ![p] = "initiating"]
  /\ run' = [run EXCEPT ![p] = [user |-> u, session |-> Nothing]]
  /\ UNCHANGED <<file, pend, held, snap>>
  /\ Cognito(challenge, standing, owner)

SavePending(p) ==
  /\ at[p] = "initiating"
  /\ pend' = [user |-> run[p].user, session |-> NewSession]
  /\ Returns(p)
  /\ UNCHANGED <<file, snap>>
  /\ Cognito([challenge EXCEPT ![NewSession] = "code"], standing, owner)

(* loginVerify, up to the answer to CUSTOM_CHALLENGE. *)
LoginVerify(p) ==
  /\ at[p] = "idle" /\ pend # Nothing
  /\ at' = [at EXCEPT ![p] = "answering"]
  /\ run' = [run EXCEPT ![p] = pend]
  /\ held' = [held EXCEPT ![p] =
       IF file # Nothing /\ file.user = pend.user THEN file.device ELSE Nothing]
  /\ UNCHANGED <<file, pend, snap>>
  /\ Cognito(challenge, standing, owner)

Awaits(p, what) == at[p] = "answering" /\ challenge[run[p].session] = what

(* A wrong code: a new session in place of the old one, which is kept for  *)
(* the next try, or the end of them.                                       *)
WrongCode(p) ==
  /\ Awaits(p, "code")
  /\ pend' = [run[p] EXCEPT !.session = NewSession]
  /\ Returns(p)
  /\ UNCHANGED <<file, snap>>
  /\ Cognito([challenge EXCEPT ![NewSession] = "code"], standing, owner)

NoMoreTries(p) ==
  /\ Awaits(p, "code")
  /\ Returns(p)
  /\ UNCHANGED <<file, pend, snap>>
  /\ Cognito([challenge EXCEPT ![run[p].session] = "spent"], standing, owner)

(* The right code, without a device Cognito knows: tokens, and a new       *)
(* device to be confirmed.                                                 *)
NewDeviceMetadata(p) ==
  /\ Awaits(p, "code")
  /\ held[p] \notin {d \in Devices : standing[d] # "forgotten"}
  /\ held' = [held EXCEPT ![p] = NewDevice]
  /\ at' = [at EXCEPT ![p] = "confirming"]
  /\ UNCHANGED <<file, pend, run, snap>>
  /\ Cognito([challenge EXCEPT ![run[p].session] = "spent"],
             [standing EXCEPT ![NewDevice] = "given"],
             [owner EXCEPT ![NewDevice] = run[p].user])

(* The right code, with a device: DEVICE_SRP_AUTH.  The device that is to  *)
(* prove itself is read anew, whosever it is by now; without one           *)
(* deviceSrpAuth throws.                                                   *)
DeviceSrpAuth(p) ==
  /\ Awaits(p, "code") /\ held[p] # Nothing
  /\ IF file = Nothing \/ file.device = Nothing
     THEN Returns(p)
     ELSE /\ at' = [at EXCEPT ![p] = "proving"]
          /\ held' = [held EXCEPT ![p] = file.device]
          /\ UNCHANGED run
  /\ UNCHANGED <<file, pend, snap>>
  /\ Cognito([challenge EXCEPT ![run[p].session] = "device"], standing, owner)

(* store.save(tokens) and clearPending() at the end of loginVerify. *)
SignedIn(p, d) ==
  /\ file' = [user |-> run[p].user, device |-> d, tokens |-> TRUE]
  /\ pend' = Nothing
  /\ Returns(p)

(* The right code, in a pool that keeps no account of devices: confirmDevice*)
(* has nothing to confirm.                                                 *)
NoDeviceMetadata(p) ==
  /\ Awaits(p, "code")
  /\ held[p] \notin {d \in Devices : standing[d] # "forgotten"}
  /\ SignedIn(p, Nothing)
  /\ UNCHANGED snap
  /\ Cognito([challenge EXCEPT ![run[p].session] = "spent"], standing, owner)

ConfirmOrNot(p) ==  \* faulty: a failure of ConfirmDevice is swallowed
  /\ at[p] = "confirming"
  /\ SignedIn(p, held[p])
  /\ UNCHANGED snap
  /\ \E standings \in {standing, [standing EXCEPT ![held[p]] = "confirmed"]} :
       Cognito(challenge, standings, owner)

(* confirmDevice: once Cognito has confirmed the device, it is stored. *)
ConfirmDevice(p) ==
  /\ at[p] = "confirming"
  /\ SignedIn(p, held[p])
  /\ UNCHANGED snap
  /\ Cognito(challenge, [standing EXCEPT ![held[p]] = "confirmed"], owner)

Proves(p) ==
  /\ standing[held[p]] = "confirmed" /\ owner[held[p]] = run[p].user
  /\ challenge[run[p].session] = "device"

DeviceProved(p) ==
  /\ at[p] = "proving" /\ Proves(p)
  /\ SignedIn(p, held[p])
  /\ UNCHANGED snap
  /\ Cognito([challenge EXCEPT ![run[p].session] = "spent"], standing, owner)

StaleDeviceStays(p) ==  \* faulty: only the login begins again
  /\ at[p] = "proving" /\ ~Proves(p)
  /\ at' = [at EXCEPT ![p] = "initiating"]
  /\ run' = [run EXCEPT ![p].session = Nothing]
  /\ held' = [held EXCEPT ![p] = Nothing]
  /\ UNCHANGED <<file, pend, snap>>
  /\ Cognito(challenge, standing, owner)

(* NotAuthorizedException for the proof: the stored device is discarded,   *)
(* and the login begins again without one.                                 *)
StaleDevice(p) ==
  /\ at[p] = "proving" /\ ~Proves(p)
  /\ file' = IF file = Nothing THEN Nothing ELSE [file EXCEPT !.device = Nothing]
  /\ at' = [at EXCEPT ![p] = "initiating"]
  /\ run' = [run EXCEPT ![p].session = Nothing]
  /\ held' = [held EXCEPT ![p] = Nothing]
  /\ UNCHANGED <<pend, snap>>
  /\ Cognito(challenge, standing, owner)

(* A call fails, before or after Cognito has done what it asks for; or     *)
(* Cognito refuses a session it has ended.                                 *)
CallFails(p) ==
  /\ at[p] # "idle"
  /\ Returns(p)
  /\ UNCHANGED <<file, pend, snap>>
  /\ \E challenges \in {challenge} \cup {[challenge EXCEPT ![s] = "spent"] :
                                  s \in {run[p].session} \ {Nothing}} :
       Cognito(challenges, standing, owner)

-----------------------------------------------------------------------------
(* The other operations on the file, whose steps are those of TokenStore.  *)

HasTokens == file # Nothing /\ file.tokens

(* getValidIdToken, up to REFRESH_TOKEN_AUTH, for tokens with a device or  *)
(* without one.                                                            *)
Refresh(r) ==
  /\ snap[r] = Nothing /\ HasTokens
  /\ snap' = [snap EXCEPT ![r] = file]
  /\ UNCHANGED <<file, cliVars>>
  /\ Cognito(challenge, standing, owner)

(* A refusal stores the user and the device it was loaded with, without    *)
(* tokens.  So does a grant, with the fresher of its tokens and the disk's.*)
(* Cognito grants nothing for a device it does not know as confirmed.      *)
RefreshSaves(r) ==
  /\ snap[r] # Nothing
  /\ \E granted \in BOOLEAN :
       /\ granted => snap[r].device \notin {d \in Devices : standing[d] # "confirmed"}
       /\ file' = [snap[r] EXCEPT !.tokens = granted]
  /\ snap' = [snap EXCEPT ![r] = Nothing]
  /\ UNCHANGED cliVars
  /\ Cognito(challenge, standing, owner)

RefreshFails(r) ==
  /\ snap[r] # Nothing
  /\ snap' = [snap EXCEPT ![r] = Nothing]
  /\ UNCHANGED <<file, cliVars>>
  /\ Cognito(challenge, standing, owner)

(* clear() and clearPending() at the end of logout, whatever is stored.    *)
(* Its refresh and its ForgetDevice, awaited before, are those of a daemon *)
(* and of another client.                                                  *)
Logout ==
  /\ file' = Nothing /\ pend' = Nothing
  /\ UNCHANGED <<at, run, held, snap>>
  /\ Cognito(challenge, standing, owner)

(* A device is removed by a logout or by another client of the account.    *)
ForgetDevice(d) ==
  /\ standing[d] = "confirmed"
  /\ UNCHANGED <<file, cliVars, snap>>
  /\ Cognito(challenge, [standing EXCEPT ![d] = "forgotten"], owner)

-----------------------------------------------------------------------------
Verifies(p) ==
  \/ LoginVerify(p) \/ WrongCode(p) \/ NoMoreTries(p)
  \/ NewDeviceMetadata(p) \/ NoDeviceMetadata(p)
  \/ DeviceSrpAuth(p) \/ ConfirmDevice(p) \/ DeviceProved(p) \/ StaleDevice(p)

LoginNext ==
  \/ \E p \in Procs : \/ \E u \in Users : LoginInitiate(p, u)
                      \/ SavePending(p) \/ Verifies(p) \/ CallFails(p)
  \/ \E r \in Daemons : Refresh(r) \/ RefreshSaves(r) \/ RefreshFails(r)
  \/ Logout
  \/ \E d \in Devices : ForgetDevice(d)

CodeAwaited == pend # Nothing /\ challenge[pend.session] = "code"

(* People without tokens go on signing in, type the right code at last     *)
(* (logouts do not come before it every time), and a call that is made     *)
(* again and again succeeds at last.                                       *)
LoginFairness ==
  \A p \in Procs :
    /\ SF_loginVars(~HasTokens /\ ~CodeAwaited /\ \E u \in Users : LoginInitiate(p, u))
    /\ WF_loginVars(CallFails(p))
    /\ SF_loginVars(SavePending(p))
    /\ SF_loginVars(CodeAwaited /\ LoginVerify(p))
    /\ SF_loginVars(NewDeviceMetadata(p) \/ DeviceSrpAuth(p))
    /\ SF_loginVars(ConfirmDevice(p))
    /\ SF_loginVars(DeviceProved(p) \/ StaleDevice(p))

LoginSpec == LoginInit /\ [][LoginNext]_loginVars /\ LoginFairness

-----------------------------------------------------------------------------
(* A device in tokens.json is one that Cognito confirmed, for the user     *)
(* stored beside it: a device that was only given, or is another user's,   *)
(* would make every refresh fail.  Whoever signs in, fails half-way,       *)
(* refreshes or logs out in between.                                       *)
StoredDeviceServes ==
  file # Nothing /\ file.device # Nothing =>
    standing[file.device] \in {"confirmed", "forgotten"} /\ owner[file.device] = file.user

(* Whoever has no tokens and goes on signing in gets them: neither a       *)
(* device that was revoked, nor a wrong code, nor a call that failed       *)
(* half-way, nor logouts that remove the pending login under a verify shut *)
(* the account's owner out for good.                                       *)
LoginEnds == ~HasTokens ~> HasTokens
=============================================================================
