----------------------------- MODULE Os2Session -----------------------------
(***************************************************************************)
(* One SesameOS2BleSession (packages/core/src/ble/os2/session.js):         *)
(* connect() and register() of an OS2 device, the server that each of them *)
(* may wait for, their timers, and the loss of the link at any moment.     *)
(*                                                                         *)
(* A link is named by its number, which stands for the device's initial    *)
(* token.  A session key is what it is derived from: the key pair of the   *)
(* app, the token of the server, the token of the device.  Commands, the   *)
(* status and the failures of writes are as in BleSession.                 *)
(***************************************************************************)
EXTENDS Naturals, Sequences, FiniteSets

CONSTANTS
  Calls,     \* calls of connect() or register()
  None,
  MaxLinks   \* bound on the connections, a natural number

VARIABLES
  secret,     \* whether there is a _secretKey
  pc,         \* where each call is
  promise,    \* what became of the promise of its waiter
  waiter,     \* _loginWaiter, _readyWaiter and _registerWaiter: a call or None
  timers,     \* the calls whose timer of each waiter is running
  signLogin,  \* whether _signLogin is set
  signing,    \* the links whose sign payload is at the server
  loggedIn,   \* _loggedIn
  ready,      \* _readyToRegister
  token,      \* _mSesameToken, or 0
  mine,       \* the token each call of register() goes on with
  pair,       \* the call that generated _regKeyPair, or None
  cipher,     \* the session key of _cipher, or None
  result,     \* the key of which each call of register() returns the owner key
  link,       \* the number of the connection there is, or 0
  links,      \* the number of connections so far
  owner,      \* the key by which the device is enrolled, or None
  device      \* what the device is going to say

callVars   == <<pc, promise, waiter, timers>>
flagVars   == <<secret, signLogin, loggedIn, ready>>
keyVars    == <<signing, token, mine, pair, cipher, result>>
deviceVars == <<link, links, owner, device>>
vars == <<callVars, flagVars, keyVars, deviceVars>>

Waiters == {"login", "ready", "register"}
Linking == {"toLogin", "toRegister"}  \* in transport.connect()
LoginKey(n) == [pair |-> None, st |-> None, of |-> n]
RegisterKey(p, c, n) == [pair |-> p, st |-> c, of |-> n]

Init ==
  /\ secret \in BOOLEAN
  /\ pc = [c \in Calls |-> "idle"] /\ promise = [c \in Calls |-> "pending"]
  /\ waiter = [w \in Waiters |-> None] /\ timers = [w \in Waiters |-> {}]
  /\ signLogin = FALSE /\ loggedIn = FALSE /\ ready = FALSE
  /\ signing = {} /\ token = 0 /\ mine = [c \in Calls |-> 0]
  /\ pair = None /\ cipher = None /\ result = [c \in Calls |-> None]
  /\ link = 0 /\ links = 0 /\ device = <<>>
  /\ owner = IF secret THEN LoginKey(0) ELSE None

-----------------------------------------------------------------------------
(* Where a call goes on that awaits the promise which is now settled.  A   *)
(* call still in transport.connect() does not await it yet.                *)
GoesOn(place, outcome) ==
  IF place \in Linking THEN place
  ELSE IF outcome = "broken" THEN "failed"
  ELSE IF place = "ready" THEN "reads" ELSE "done"

Settle(cs, outcome) ==
  /\ promise' = [c \in Calls |-> IF c \in cs THEN outcome ELSE promise[c]]
  /\ pc' = [c \in Calls |-> IF c \in cs THEN GoesOn(pc[c], outcome) ELSE pc[c]]

(* _rejectWaiter and _resolveWaiter, on the waiters ws. *)
SettleWaiters(ws, outcome) ==
  /\ Settle({waiter[w] : w \in ws} \ {None}, outcome)
  /\ waiter' = [w \in Waiters |-> IF w \in ws THEN None ELSE waiter[w]]
  /\ timers' = [w \in Waiters |-> IF w \in ws THEN timers[w] \ {waiter[w]} ELSE timers[w]]

(* A new waiter takes the place of the one there may be. *)
KeepWaiter(c) == IF waiter["register"] = None THEN c ELSE waiter["register"]  \* faulty: the first stays
NewWaiter(c) == c

Says(frames, f) == IF link # 0 THEN Append(frames, f) ELSE frames
Busy == loggedIn \/ ready \/ \E w \in Waiters : waiter[w] # None

(* _failAllPending: whoever waits for the answer to READ IRER fails too.   *)
FailAllPending ==
  LET failing == ({waiter[w] : w \in Waiters} \ {None}) \cup {c \in Calls : pc[c] = "reads"} IN
  /\ Settle(failing, "broken")
  /\ waiter' = [w \in Waiters |-> None]
  /\ timers' = [w \in Waiters |-> timers[w] \ {waiter[w]}]
  /\ loggedIn' = FALSE /\ ready' = FALSE /\ signLogin' = FALSE

-----------------------------------------------------------------------------
(* connect() and register(), up to transport.connect(). *)
Accept(c, w) ==
  /\ pc[c] = "idle" /\ ~Busy
  /\ waiter' = [waiter EXCEPT ![w] = c]
  /\ timers' = [timers EXCEPT ![w] = @ \cup {c}]
  /\ pc' = [pc EXCEPT ![c] = IF w = "login" THEN "toLogin" ELSE "toRegister"]
  /\ UNCHANGED <<promise, secret, loggedIn, ready, keyVars, deviceVars>>

Connect(c) ==
  /\ signLogin' \in BOOLEAN /\ (secret \/ signLogin')
  /\ Accept(c, "login")

Register(c) ==
  /\ ~secret /\ Accept(c, "ready")
  /\ UNCHANGED signLogin

Refused(c) ==
  /\ pc[c] = "idle" /\ Busy
  /\ pc' = [pc EXCEPT ![c] = "failed"]
  /\ UNCHANGED <<promise, waiter, timers, flagVars, keyVars, deviceVars>>

(* The peripheral connects for a call and says its initial token.          *)
LinkUp ==
  /\ link = 0 /\ links < MaxLinks
  /\ \E c \in Calls : pc[c] \in Linking
  /\ link' = links + 1 /\ links' = links + 1
  /\ device' = <<[says |-> "initial", of |-> links + 1]>>
  /\ UNCHANGED <<callVars, flagVars, keyVars, owner>>

WaiterOf(c) == IF pc[c] = "toLogin" THEN "login" ELSE "ready"

(* transport.connect() returns; READ IRER is sent if the device is ready.  *)
Linked(c) ==
  /\ pc[c] \in Linking /\ link # 0
  /\ pc' = [pc EXCEPT ![c] = IF promise[c] = "pending" THEN WaiterOf(c)
                                                       ELSE GoesOn(WaiterOf(c), promise[c])]
  /\ IF pc'[c] = "reads"
     THEN mine' = [mine EXCEPT ![c] = token] /\ device' = Says(device, [says |-> "irer"])
     ELSE UNCHANGED <<mine, device>>
  /\ UNCHANGED <<promise, waiter, timers, flagVars, signing, token, pair, cipher, result,
                 link, links, owner>>

(* It throws: the catch block empties the waiter of its kind and clears    *)
(* its timer, whosever it is.                                              *)
LinkFails(c) ==
  /\ pc[c] \in Linking
  /\ pc' = [pc EXCEPT ![c] = "failed"]
  /\ waiter' = [waiter EXCEPT ![WaiterOf(c)] = None]
  /\ timers' = [timers EXCEPT ![WaiterOf(c)] = @ \ {waiter[WaiterOf(c)]}]
  /\ UNCHANGED <<promise, flagVars, keyVars, deviceVars>>

(* The timer of a waiter empties it, even if another call waits there now. *)
TimerFires(c, w) ==
  /\ c \in timers[w]
  /\ Settle({c}, "broken")
  /\ waiter' = [waiter EXCEPT ![w] = None]
  /\ timers' = [timers EXCEPT ![w] = @ \ {c}]
  /\ UNCHANGED <<flagVars, keyVars, deviceVars>>

-----------------------------------------------------------------------------
(* _handleInitial: register() may go on, or the login is sent or signed.   *)
HearInitial ==
  /\ device # <<>> /\ Head(device).says = "initial"
  /\ LET n == Head(device).of
         c == waiter["ready"]
     IN
     /\ token' = n
     /\ IF ~secret /\ ~signLogin
        THEN /\ ready' = TRUE
             /\ SettleWaiters({"ready"}, "kept")
             /\ IF c # None /\ pc'[c] = "reads"
                THEN mine' = [mine EXCEPT ![c] = n] /\ device' = Append(Tail(device), [says |-> "irer"])
                ELSE device' = Tail(device) /\ UNCHANGED mine
             /\ UNCHANGED <<signing, cipher>>
        ELSE /\ cipher' = LoginKey(n)
             /\ IF signLogin THEN signing' = signing \cup {n} /\ device' = Tail(device)
                ELSE /\ \E by \in {"login", "publish"} :
                          device' = Append(Tail(device), [says |-> by, of |-> LoginKey(n)])
                     /\ UNCHANGED signing
             /\ UNCHANGED <<callVars, ready, mine>>
  /\ UNCHANGED <<secret, signLogin, loggedIn, pair, result, link, links, owner>>

(* A token that is missing or not of four bytes. *)
HearBadInitial ==
  /\ device # <<>> /\ Head(device).says = "initial"
  /\ SettleWaiters({"login", "ready"}, "broken")
  /\ device' = Tail(device)
  /\ UNCHANGED <<flagVars, keyVars, link, links, owner>>

(* _loginViaServer, when signLogin returns: the login is sent on whatever  *)
(* link there is; or it throws, or returns too short a signature.          *)
ServerSigns(n) ==
  /\ n \in signing
  /\ signing' = signing \ {n}
  /\ device' = Says(device, [says |-> "login", of |-> LoginKey(n)])
  /\ UNCHANGED <<callVars, flagVars, token, mine, pair, cipher, result, link, links, owner>>

ServerRefuses(n) ==
  /\ n \in signing
  /\ signing' = signing \ {n}
  /\ SettleWaiters({"login"}, "broken")
  /\ UNCHANGED <<flagVars, token, mine, pair, cipher, result, deviceVars>>

(* _handleLoginResponse, in plain: the device accepts what is signed for   *)
(* the token of this link.                                                 *)
HearLogin ==
  /\ device # <<>> /\ Head(device).says = "login"
  /\ LET accepted == Head(device).of = LoginKey(link) IN
     /\ SettleWaiters({"login"}, IF accepted THEN "kept" ELSE "broken")
     /\ loggedIn' = (loggedIn \/ (waiter["login"] # None /\ accepted))
  /\ device' = Tail(device)
  /\ UNCHANGED <<secret, signLogin, ready, keyVars, link, links, owner>>

(* The answer to READ IRER, if it is one of success and of 16 bytes: a key *)
(* pair is generated, and the server is asked.                             *)
HearIrer ==
  /\ device # <<>> /\ Head(device).says = "irer"
  /\ device' = Tail(device)
  /\ IF \E c \in Calls : pc[c] = "reads"
     THEN LET c == CHOOSE d \in Calls : pc[d] = "reads" IN
          \/ pc' = [pc EXCEPT ![c] = "asks"] /\ pair' = c
          \/ pc' = [pc EXCEPT ![c] = "failed"] /\ UNCHANGED pair
     ELSE UNCHANGED <<pc, pair>>
  /\ UNCHANGED <<promise, waiter, timers, flagVars, signing, token, mine, cipher, result,
                 link, links, owner>>

IrerTimesOut(c) ==
  /\ pc[c] = "reads"
  /\ pc' = [pc EXCEPT ![c] = "failed"]
  /\ UNCHANGED <<promise, waiter, timers, flagVars, keyVars, deviceVars>>

(* registerServer() returns, whatever became of the link meanwhile: the    *)
(* keys are derived with the key pair that the session has by now, and     *)
(* REGISTRATION is sent with the public key that the server was asked for. *)
(* A device that has no owner takes it, or does not.                       *)
ServerRegisters(c) ==
  LET key == RegisterKey(pair, c, mine[c])
      its == RegisterKey(c, c, link)
  IN
  /\ pc[c] = "asks"
  /\ cipher' = key /\ result' = [result EXCEPT ![c] = key]
  /\ waiter' = [waiter EXCEPT !["register"] = NewWaiter(c)]
  /\ timers' = [timers EXCEPT !["register"] = @ \cup {c}]
  /\ promise' = [promise EXCEPT ![c] = "pending"]
  /\ pc' = [pc EXCEPT ![c] = "register"]
  /\ \/ /\ link # 0 /\ owner = None
        /\ owner' = its
        /\ device' = Append(device, [says |-> "publish", of |-> its])
     \/ UNCHANGED <<owner, device>>
  /\ UNCHANGED <<flagVars, signing, token, mine, pair, link, links>>

ServerDeclines(c) ==
  /\ pc[c] = "asks"
  /\ pc' = [pc EXCEPT ![c] = "failed"]
  /\ UNCHANGED <<promise, waiter, timers, flagVars, keyVars, deviceVars>>

(* _handleLoginPublish, of a publish that _cipher can decipher; after it   *)
(* the rest of register().                                                 *)
HearPublish ==
  /\ device # <<>> /\ Head(device).says = "publish"
  /\ LET w == IF waiter["register"] # None THEN "register" ELSE "login" IN
     IF Head(device).of = cipher /\ waiter[w] # None
     THEN /\ SettleWaiters({w}, "kept")
          /\ loggedIn' = TRUE
          /\ IF w = "register" THEN ready' = FALSE /\ secret' = TRUE
                               ELSE UNCHANGED <<ready, secret>>
     ELSE UNCHANGED <<callVars, loggedIn, ready, secret>>
  /\ device' = Tail(device)
  /\ UNCHANGED <<signLogin, keyVars, link, links, owner>>

(* The device does not answer. *)
Silent ==
  /\ device # <<>>
  /\ device' = Tail(device)
  /\ UNCHANGED <<callVars, flagVars, keyVars, link, links, owner>>

(* _handleTransportDisconnect, or disconnect(). *)
Lost ==
  /\ link # 0
  /\ link' = 0 /\ device' = <<>>
  /\ FailAllPending
  /\ UNCHANGED <<secret, keyVars, links, owner>>

Next ==
  \/ \E c \in Calls :
       \/ Connect(c) \/ Register(c) \/ Refused(c) \/ Linked(c) \/ LinkFails(c)
       \/ IrerTimesOut(c) \/ ServerRegisters(c) \/ ServerDeclines(c)
       \/ \E w \in Waiters : TimerFires(c, w)
  \/ LinkUp \/ HearInitial \/ HearBadInitial \/ HearLogin \/ HearIrer \/ HearPublish \/ Silent \/ Lost
  \/ \E n \in signing : ServerSigns(n) \/ ServerRefuses(n)

Spec == Init /\ [][Next]_vars

-----------------------------------------------------------------------------
Enrolled == {c \in Calls : pc[c] = "done" /\ result[c] # None}

(* Whatever calls overlap on one session, and over however many links:     *)
(* when a register() has returned, the owner key by which the device is    *)
(* enrolled was given to a caller, who can open the device with it.        *)
OwnerKeyAgrees == Enrolled # {} => \E c \in Enrolled : result[c] = owner

(* Hoped for: that every register() that returns gives that key, also when *)
(* another call has enrolled the device while it was waiting for the       *)
(* server.                                                                 *)
EachKeyAgrees == \A c \in Enrolled : result[c] = owner

(* A connect() that returns is one whose login the device of this link has *)
(* accepted, and the cipher is the one that the device uses.               *)
CipherFits ==
  loggedIn => cipher = LoginKey(link) \/ cipher = owner
=============================================================================
