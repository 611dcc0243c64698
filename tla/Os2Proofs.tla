----------------------------- MODULE Os2Proofs -----------------------------
(***************************************************************************)
(* Any number of calls of connect() and register() on one OS2 session      *)
(* (Os2Session), over any number of links: the owner key of an enrolled    *)
(* device is not lost; and on the first link the session has the cipher of *)
(* the device, and each register() the key of its own enrolment.           *)
(***************************************************************************)
EXTENDS Os2Session, SequenceTheorems, TLAPS

Places == {"idle", "toLogin", "toRegister", "login", "ready", "reads", "asks", "register",
           "done", "failed"}

Keys == [pair : Calls \cup {None}, st : Calls \cup {None}, of : Nat]

Frames == [says : {"initial"}, of : Nat] \cup [says : {"irer"}]
            \cup [says : {"login", "publish"}, of : Keys]

(* Nobody, and no key. *)
NoneApart == None \notin Calls /\ None \notin Keys

TypeOK ==
  /\ pc \in [Calls -> Places]
  /\ promise \in [Calls -> {"pending", "kept", "broken"}]
  /\ waiter \in [Waiters -> Calls \cup {None}]
  /\ timers \in [Waiters -> SUBSET Calls]
  /\ secret \in BOOLEAN /\ signLogin \in BOOLEAN /\ loggedIn \in BOOLEAN /\ ready \in BOOLEAN
  /\ signing \subseteq Nat /\ token \in Nat /\ mine \in [Calls -> Nat]
  /\ pair \in Calls \cup {None}
  /\ cipher \in Keys \cup {None} /\ owner \in Keys \cup {None}
  /\ result \in [Calls -> Keys \cup {None}]
  /\ link \in Nat /\ links \in Nat
  /\ device \in Seq(Frames)

(* Where a call may be that a waiter stands for. *)
PlacesOf(w) ==
  {p \in Places : \/ w = "login" /\ p \in {"toLogin", "login"}
                  \/ w = "ready" /\ p \in {"toRegister", "ready"}
                  \/ w = "register" /\ p = "register"}

(* A waiter and a timer are of a call that is not settled; keys are        *)
(* derived by register() only.                                             *)
Awaiting ==
  /\ \A w \in Waiters, c \in Calls :
       waiter[w] = c => pc[c] \in PlacesOf(w) /\ promise[c] = "pending"
  /\ \A w \in Waiters : \A c \in timers[w] :
       pc[c] = "failed" \/ (pc[c] \in PlacesOf(w) /\ promise[c] = "pending")
  /\ \A c \in Calls : /\ result[c] # None => pc[c] \in {"register", "done", "failed"}
                      /\ pc[c] = "idle" => promise[c] = "pending"

Publishes(frames, k) ==
  \A i \in 1 .. Len(frames) : frames[i].says = "publish" => frames[i].of = k

(* As long as nothing is registered, what the device publishes is under    *)
(* the key it was enrolled by, which is not one of a login.                *)
Unregistered ==
  ~secret =>
    /\ Enrolled = {}
    /\ owner # None => owner.pair \in Calls
    /\ Publishes(device, owner)
    /\ owner = None => \A i \in 1 .. Len(device) : device[i].says # "publish"
    /\ \A c \in Calls : waiter["register"] = c =>
         cipher = result[c] \/ (cipher # None /\ cipher.pair = None)

(* Where a call of register() may be. *)
Registering == {"toRegister", "ready", "reads", "asks", "register"}

(* Once something is, it is by a call that has the key; or it always was.  *)
Registered ==
  secret =>
    \/ \E c \in Enrolled : result[c] = owner
    \/ \A c \in Calls : /\ result[c] = None
                        /\ pc[c] \notin Registering

OwnerInv == TypeOK /\ Awaiting /\ Unregistered /\ Registered

-----------------------------------------------------------------------------
(***************************************************************************)
(* Types.                                                                  *)
(***************************************************************************)

LEMMA HeadOfDevice ==
  ASSUME TypeOK, device # <<>>
  PROVE  /\ Head(device) \in Frames /\ Tail(device) \in Seq(Frames)
         /\ Head(device).says = "initial" => Head(device).of \in Nat
         /\ Head(device).says \in {"login", "publish"} => Head(device).of \in Keys
<1>1. Head(device) \in Frames /\ Tail(device) \in Seq(Frames)
  BY HeadTailProperties DEF TypeOK
<1> QED BY <1>1 DEF Frames

LEMMA KeyTypes ==
  ASSUME NEW n \in Nat
  PROVE  /\ LoginKey(n) \in Keys
         /\ \A p \in Calls \cup {None}, c \in Calls : RegisterKey(p, c, n) \in Keys
BY DEF LoginKey, RegisterKey, Keys

LEMMA FrameTypes ==
  /\ [says |-> "irer"] \in Frames
  /\ \A n \in Nat : [says |-> "initial", of |-> n] \in Frames
  /\ \A k \in Keys : /\ [says |-> "login", of |-> k] \in Frames
                     /\ [says |-> "publish", of |-> k] \in Frames
BY DEF Frames

LEMMA SettleTypes ==
  ASSUME TypeOK, NEW cs, NEW o \in {"kept", "broken"}, Settle(cs, o)
  PROVE  pc' \in [Calls -> Places] /\ promise' \in [Calls -> {"pending", "kept", "broken"}]
<1>1. \A p \in Places : GoesOn(p, o) \in Places
  BY DEF GoesOn, Places
<1> QED BY <1>1 DEF Settle, TypeOK

LEMMA SettleWaitersTypes ==
  ASSUME TypeOK, NEW ws, NEW o \in {"kept", "broken"}, SettleWaiters(ws, o)
  PROVE  /\ pc' \in [Calls -> Places] /\ promise' \in [Calls -> {"pending", "kept", "broken"}]
         /\ waiter' \in [Waiters -> Calls \cup {None}] /\ timers' \in [Waiters -> SUBSET Calls]
<1>1. Settle({waiter[w] : w \in ws} \ {None}, o)
  BY DEF SettleWaiters
<1>2. waiter' \in [Waiters -> Calls \cup {None}] /\ timers' \in [Waiters -> SUBSET Calls]
  BY DEF SettleWaiters, TypeOK
<1> QED BY <1>1, <1>2, SettleTypes

LEMMA TypeInit == Init => TypeOK
<1> SUFFICES ASSUME Init PROVE TypeOK
  OBVIOUS
<1>1. <<>> \in Seq(Frames)
  OBVIOUS
<1>2. owner \in Keys \cup {None}
  BY KeyTypes DEF Init, LoginKey, Keys
<1> QED BY <1>1, <1>2 DEF Init, TypeOK, Places

LEMMA SaysTypes ==
  ASSUME NEW frames \in Seq(Frames), NEW f \in Frames
  PROVE  Append(frames, f) \in Seq(Frames) /\ Says(frames, f) \in Seq(Frames)
BY DEF Says

LEMMA TypeStep ==
  ASSUME TypeOK, [Next]_vars
  PROVE  TypeOK'
<1>1. ASSUME NEW c \in Calls, NEW w \in {"login", "ready"}, Accept(c, w), signLogin' \in BOOLEAN
      PROVE  TypeOK'
  <2>1. waiter' \in [Waiters -> Calls \cup {None}] /\ timers' \in [Waiters -> SUBSET Calls]
        /\ pc' \in [Calls -> Places]
    BY <1>1 DEF Accept, TypeOK, Waiters, Places
  <2> QED BY <1>1, <2>1 DEF Accept, TypeOK, keyVars, deviceVars
<1>2. ASSUME NEW c \in Calls, Connect(c) PROVE TypeOK'
  BY <1>1, <1>2 DEF Connect
<1>3. ASSUME NEW c \in Calls, Register(c) PROVE TypeOK'
  <2>1. Accept(c, "ready") /\ signLogin' \in BOOLEAN
    BY <1>3 DEF Register, TypeOK
  <2> QED BY <1>1, <2>1
<1>4. ASSUME NEW c \in Calls, Refused(c) PROVE TypeOK'
  BY <1>4 DEF Refused, TypeOK, flagVars, keyVars, deviceVars, Places
<1>5. ASSUME NEW c \in Calls, Linked(c) PROVE TypeOK'
  <2>1. pc' \in [Calls -> Places]
    BY <1>5 DEF Linked, TypeOK, Places, GoesOn, WaiterOf
  <2>2. [says |-> "irer"] \in Frames
    BY FrameTypes
  <2>3. mine' \in [Calls -> Nat] /\ device' \in Seq(Frames)
    BY <1>5, <2>2, SaysTypes DEF Linked, TypeOK
  <2> QED BY <1>5, <2>1, <2>3 DEF Linked, TypeOK, flagVars
<1>6. ASSUME NEW c \in Calls, LinkFails(c) PROVE TypeOK'
  <2>1. WaiterOf(c) \in Waiters
    BY DEF WaiterOf, Waiters
  <2>2. waiter' \in [Waiters -> Calls \cup {None}] /\ timers' \in [Waiters -> SUBSET Calls]
        /\ pc' \in [Calls -> Places]
    BY <1>6, <2>1 DEF LinkFails, TypeOK, Places
  <2> QED BY <1>6, <2>2 DEF LinkFails, TypeOK, flagVars, keyVars, deviceVars
<1>7. ASSUME NEW c \in Calls, IrerTimesOut(c) \/ ServerDeclines(c) PROVE TypeOK'
  BY <1>7 DEF IrerTimesOut, ServerDeclines, TypeOK, flagVars, keyVars, deviceVars, Places
<1>8. ASSUME NEW c \in Calls, ServerRegisters(c) PROVE TypeOK'
  <2>1. RegisterKey(pair, c, mine[c]) \in Keys /\ RegisterKey(c, c, link) \in Keys
    BY KeyTypes DEF TypeOK
  <2>2. /\ cipher' \in Keys /\ result' \in [Calls -> Keys \cup {None}] /\ owner' \in Keys \cup {None}
    BY <1>8, <2>1 DEF ServerRegisters, TypeOK
  <2>3. [says |-> "publish", of |-> RegisterKey(c, c, link)] \in Frames
    BY <2>1, FrameTypes
  <2>4. device' \in Seq(Frames)
    BY <1>8, <2>3, SaysTypes DEF ServerRegisters, TypeOK
  <2>5. waiter' \in [Waiters -> Calls \cup {None}] /\ timers' \in [Waiters -> SUBSET Calls]
        /\ pc' \in [Calls -> Places] /\ promise' \in [Calls -> {"pending", "kept", "broken"}]
    BY <1>8 DEF ServerRegisters, NewWaiter, TypeOK, Waiters, Places
  <2> QED BY <1>8, <2>2, <2>4, <2>5 DEF ServerRegisters, TypeOK, flagVars
<1>9. ASSUME NEW c \in Calls, NEW w \in Waiters, TimerFires(c, w) PROVE TypeOK'
  <2>1. pc' \in [Calls -> Places] /\ promise' \in [Calls -> {"pending", "kept", "broken"}]
    BY <1>9, SettleTypes DEF TimerFires
  <2>2. waiter' \in [Waiters -> Calls \cup {None}] /\ timers' \in [Waiters -> SUBSET Calls]
    BY <1>9 DEF TimerFires, TypeOK
  <2> QED BY <1>9, <2>1, <2>2 DEF TimerFires, TypeOK, flagVars, keyVars, deviceVars
<1>10. CASE LinkUp
  <2>0. links + 1 \in Nat
    BY DEF TypeOK
  <2>1. [says |-> "initial", of |-> links + 1] \in Frames
    BY <2>0, FrameTypes
  <2>2. device' \in Seq(Frames)
    BY <1>10, <2>1 DEF LinkUp
  <2> QED BY <1>10, <2>0, <2>2 DEF LinkUp, TypeOK, callVars, flagVars, keyVars
<1>11. CASE HearInitial
  <2> DEFINE n == Head(device).of
             c == waiter["ready"]
             rest == Tail(device)
  <2>1. n \in Nat /\ rest \in Seq(Frames) /\ token' = n
        /\ UNCHANGED <<secret, signLogin, loggedIn, pair, result, link, links, owner>>
    BY <1>11, HeadOfDevice DEF HearInitial
  <2>2. /\ [says |-> "irer"] \in Frames /\ LoginKey(n) \in Keys
        /\ [says |-> "login", of |-> LoginKey(n)] \in Frames
        /\ [says |-> "publish", of |-> LoginKey(n)] \in Frames
    <3> HIDE DEF n
    <3>1. LoginKey(n) \in Keys
      BY <2>1, KeyTypes
    <3> QED BY <3>1, FrameTypes
  <2>3. c \in Calls \cup {None}
    BY DEF TypeOK, Waiters
  <2>4. CASE ~secret /\ ~signLogin
    <3>1. /\ ready' = TRUE /\ SettleWaiters({"ready"}, "kept") /\ UNCHANGED <<signing, cipher>>
          /\ \/ c # None /\ mine' = [mine EXCEPT ![c] = n] /\ device' = Append(rest, [says |-> "irer"])
             \/ device' = rest /\ UNCHANGED mine
      BY <1>11, <2>4 DEF HearInitial
    <3> HIDE DEF n, rest
    <3>2. Append(rest, [says |-> "irer"]) \in Seq(Frames)
      BY <2>1, <2>2, SaysTypes
    <3>3. mine' \in [Calls -> Nat] /\ device' \in Seq(Frames)
      BY <2>1, <3>1, <3>2 DEF TypeOK
    <3> QED BY <2>1, <3>1, <3>3, SettleWaitersTypes DEF TypeOK
  <2>5. CASE ~(~secret /\ ~signLogin)
    <3>1. /\ cipher' = LoginKey(n) /\ UNCHANGED <<callVars, ready, mine>>
          /\ \/ signing' = signing \cup {n} /\ device' = rest
             \/ /\ \E by \in {"login", "publish"} :
                     device' = Append(rest, [says |-> by, of |-> LoginKey(n)])
                /\ UNCHANGED signing
      BY <1>11, <2>5 DEF HearInitial
    <3> HIDE DEF n, rest
    <3>2. \A by \in {"login", "publish"} : Append(rest, [says |-> by, of |-> LoginKey(n)]) \in Seq(Frames)
      BY <2>1, <2>2, SaysTypes
    <3>3. device' \in Seq(Frames)
      BY <2>1, <3>1, <3>2
    <3>4. cipher' \in Keys /\ signing' \subseteq Nat
      BY <2>1, <2>2, <3>1 DEF TypeOK
    <3> QED BY <2>1, <3>1, <3>3, <3>4 DEF TypeOK, callVars
  <2> QED BY <2>4, <2>5
<1>12. CASE HearBadInitial
  BY <1>12, HeadOfDevice, SettleWaitersTypes DEF HearBadInitial, TypeOK, flagVars, keyVars
<1>13. ASSUME NEW n \in signing, ServerSigns(n) PROVE TypeOK'
  <2>1. [says |-> "login", of |-> LoginKey(n)] \in Frames
    <3>1. n \in Nat
      BY DEF TypeOK
    <3>2. LoginKey(n) \in Keys
      BY <3>1, KeyTypes
    <3> QED BY <3>2, FrameTypes
  <2>2. device' \in Seq(Frames)
    BY <1>13, <2>1, SaysTypes DEF ServerSigns, TypeOK
  <2> QED BY <1>13, <2>2 DEF ServerSigns, TypeOK, callVars, flagVars
<1>14. ASSUME NEW n \in signing, ServerRefuses(n) PROVE TypeOK'
  BY <1>14, SettleWaitersTypes DEF ServerRefuses, TypeOK, flagVars, deviceVars
<1>15. CASE HearLogin
  <2> DEFINE accepted == Head(device).of = LoginKey(link)
  <2>1. SettleWaiters({"login"}, IF accepted THEN "kept" ELSE "broken")
        /\ loggedIn' = (loggedIn \/ (waiter["login"] # None /\ accepted))
        /\ device' = Tail(device) /\ device # <<>>
        /\ UNCHANGED <<secret, signLogin, ready, keyVars, link, links, owner>>
    BY <1>15 DEF HearLogin
  <2>2. loggedIn' \in BOOLEAN /\ (IF accepted THEN "kept" ELSE "broken") \in {"kept", "broken"}
    BY <2>1 DEF TypeOK
  <2> QED BY <2>1, <2>2, HeadOfDevice, SettleWaitersTypes DEF TypeOK, keyVars
<1>16. CASE HearIrer
  <2>1. pc' \in [Calls -> Places] /\ pair' \in Calls \cup {None}
    <3>1. CASE \E c \in Calls : pc[c] = "reads"
      <4> DEFINE c == CHOOSE d \in Calls : pc[d] = "reads"
      <4>1. c \in Calls
        BY <3>1
      <4>2. \/ pc' = [pc EXCEPT ![c] = "asks"] /\ pair' = c
            \/ pc' = [pc EXCEPT ![c] = "failed"] /\ UNCHANGED pair
        BY <1>16, <3>1 DEF HearIrer
      <4> HIDE DEF c
      <4> QED BY <4>1, <4>2 DEF TypeOK, Places
    <3>2. CASE ~\E c \in Calls : pc[c] = "reads"
      BY <1>16, <3>2 DEF HearIrer, TypeOK
    <3> QED BY <3>1, <3>2
  <2> QED BY <1>16, <2>1, HeadOfDevice DEF HearIrer, TypeOK, flagVars
<1>17. CASE HearPublish
  <2> DEFINE w == IF waiter["register"] # None THEN "register" ELSE "login"
  <2>1. /\ device' = Tail(device) /\ device # <<>>
        /\ UNCHANGED <<signLogin, keyVars, link, links, owner>>
        /\ \/ /\ SettleWaiters({w}, "kept") /\ loggedIn' = TRUE
              /\ ready' \in {FALSE, ready} /\ secret' \in {TRUE, secret}
           \/ UNCHANGED <<callVars, loggedIn, ready, secret>>
    BY <1>17 DEF HearPublish
  <2> HIDE DEF w
  <2>2. /\ pc' \in [Calls -> Places] /\ promise' \in [Calls -> {"pending", "kept", "broken"}]
        /\ waiter' \in [Waiters -> Calls \cup {None}] /\ timers' \in [Waiters -> SUBSET Calls]
        /\ loggedIn' \in BOOLEAN /\ ready' \in BOOLEAN /\ secret' \in BOOLEAN
    <3>1. CASE SettleWaiters({w}, "kept") /\ loggedIn' = TRUE
                 /\ ready' \in {FALSE, ready} /\ secret' \in {TRUE, secret}
      BY <3>1, SettleWaitersTypes DEF TypeOK
    <3>2. CASE UNCHANGED <<callVars, loggedIn, ready, secret>>
      BY <3>2 DEF TypeOK, callVars
    <3> QED BY <2>1, <3>1, <3>2
  <2> QED BY <2>1, <2>2, HeadOfDevice DEF TypeOK, keyVars
<1>18. CASE Silent
  BY <1>18, HeadOfDevice DEF Silent, TypeOK, callVars, flagVars, keyVars
<1>19. CASE Lost
  <2> DEFINE failing == ({waiter[w] : w \in Waiters} \ {None}) \cup {c \in Calls : pc[c] = "reads"}
  <2>1. /\ Settle(failing, "broken") /\ waiter' = [w \in Waiters |-> None]
        /\ timers' = [w \in Waiters |-> timers[w] \ {waiter[w]}]
        /\ loggedIn' = FALSE /\ ready' = FALSE /\ signLogin' = FALSE
        /\ link' = 0 /\ device' = <<>> /\ UNCHANGED <<secret, keyVars, links, owner>>
    BY <1>19 DEF Lost, FailAllPending
  <2> HIDE DEF failing
  <2>2. pc' \in [Calls -> Places] /\ promise' \in [Calls -> {"pending", "kept", "broken"}]
    BY <2>1, SettleTypes
  <2>3. <<>> \in Seq(Frames)
    OBVIOUS
  <2> QED BY <2>1, <2>2, <2>3 DEF TypeOK, keyVars
<1>20. CASE UNCHANGED vars
  BY <1>20 DEF vars, callVars, flagVars, keyVars, deviceVars, TypeOK
<1> QED
  BY <1>2, <1>3, <1>4, <1>5, <1>6, <1>7, <1>8, <1>9, <1>10, <1>11, <1>12,
     <1>13, <1>14, <1>15, <1>16, <1>17, <1>18, <1>19, <1>20 DEF Next

-----------------------------------------------------------------------------
(***************************************************************************)
(* Waiters, timers and results.                                            *)
(***************************************************************************)

LEMMA PlacesDiffer ==
  /\ \A v, w \in Waiters : PlacesOf(v) \cap PlacesOf(w) # {} => v = w
  /\ \A w \in Waiters : PlacesOf(w) \cap {"idle", "reads", "asks", "done", "failed"} = {}
BY DEF Waiters, PlacesOf

(* How a call goes on is the same for all that settles promises. *)
Onward(ws, o) ==
  \A c \in Calls :
    \/ pc'[c] = pc[c]
    \/ pc[c] = "reads" /\ pc'[c] = "failed"
    \/ \E w \in ws : waiter[w] = c /\ pc'[c] = GoesOn(pc[c], o)

LEMMA SettleAwaits ==
  ASSUME NoneApart, TypeOK, Awaiting, NEW cs \in SUBSET Calls, NEW ws \in SUBSET Waiters,
         NEW o \in {"kept", "broken"}, Settle(cs, o),
         \A w \in ws : waiter[w] # None => waiter[w] \in cs,
         \A c \in cs : (\E w \in ws : waiter[w] = c) \/ (pc[c] = "reads" /\ o = "broken"),
         waiter' = [w \in Waiters |-> IF w \in ws THEN None ELSE waiter[w]],
         timers' = [w \in Waiters |-> IF w \in ws THEN timers[w] \ {waiter[w]} ELSE timers[w]],
         UNCHANGED result
  PROVE  Awaiting' /\ Onward(ws, o)
<1>1. /\ None \notin Calls
      /\ \A c \in Calls : /\ promise'[c] = IF c \in cs THEN o ELSE promise[c]
                          /\ pc'[c] = IF c \in cs THEN GoesOn(pc[c], o) ELSE pc[c]
  BY DEF NoneApart, Settle
<1>2. ASSUME NEW w \in Waiters, NEW c \in Calls, waiter'[w] = c
      PROVE  pc'[c] \in PlacesOf(w) /\ promise'[c] = "pending"
  <2>1. w \notin ws /\ waiter[w] = c
    BY <1>1, <1>2
  <2>2. pc[c] \in PlacesOf(w) /\ promise[c] = "pending"
    BY <2>1 DEF Awaiting
  <2>3. c \notin cs
    <3> SUFFICES ASSUME NEW v \in ws, waiter[v] = c PROVE FALSE
      BY <2>2, PlacesDiffer
    <3>1. pc[c] \in PlacesOf(v)
      BY DEF Awaiting
    <3> QED BY <2>1, <2>2, <3>1, PlacesDiffer
  <2> QED BY <1>1, <2>2, <2>3
<1>3. ASSUME NEW w \in Waiters, NEW c \in timers'[w]
      PROVE  pc'[c] = "failed" \/ (pc'[c] \in PlacesOf(w) /\ promise'[c] = "pending")
  <2>1. c \in timers[w] /\ c \in Calls /\ ~(w \in ws /\ waiter[w] = c)
    BY <1>3 DEF TypeOK
  <2>2. pc[c] = "failed" \/ (pc[c] \in PlacesOf(w) /\ promise[c] = "pending")
    BY <2>1 DEF Awaiting
  <2>3. c \notin cs
    <3> SUFFICES ASSUME NEW v \in ws, waiter[v] = c PROVE FALSE
      BY <2>2, PlacesDiffer
    <3>1. pc[c] \in PlacesOf(v)
      BY <2>1 DEF Awaiting
    <3> QED BY <2>1, <2>2, <3>1, PlacesDiffer
  <2> QED BY <1>1, <2>1, <2>2, <2>3
<1>4. ASSUME NEW c \in Calls
      PROVE  /\ result'[c] # None => pc'[c] \in {"register", "done", "failed"}
             /\ pc'[c] = "idle" => promise'[c] = "pending"
  <2>1. /\ result[c] # None => pc[c] \in {"register", "done", "failed"}
        /\ pc[c] = "idle" => promise[c] = "pending"
    BY DEF Awaiting
  <2>2. c \in cs => pc[c] # "idle"
    <3> SUFFICES ASSUME NEW v \in ws, waiter[v] = c PROVE pc[c] # "idle"
      OBVIOUS
    <3> QED BY PlacesDiffer DEF Awaiting
  <2> QED BY <1>1, <2>1, <2>2 DEF GoesOn, Linking
<1>5. Onward(ws, o)
  BY <1>1 DEF Onward, GoesOn, Linking
<1> QED BY <1>2, <1>3, <1>4, <1>5 DEF Awaiting

LEMMA SettleWaitersAwaits ==
  ASSUME NoneApart, TypeOK, Awaiting, NEW ws \in SUBSET Waiters, NEW o \in {"kept", "broken"},
         SettleWaiters(ws, o), UNCHANGED result
  PROVE  Awaiting' /\ Onward(ws, o)
<1> DEFINE cs == {waiter[w] : w \in ws} \ {None}
<1>1. cs \in SUBSET Calls
  BY DEF TypeOK
<1>2. /\ Settle(cs, o)
      /\ waiter' = [w \in Waiters |-> IF w \in ws THEN None ELSE waiter[w]]
      /\ timers' = [w \in Waiters |-> IF w \in ws THEN timers[w] \ {waiter[w]} ELSE timers[w]]
  BY DEF SettleWaiters
<1>3. /\ \A w \in ws : waiter[w] # None => waiter[w] \in cs
      /\ \A c \in cs : \E w \in ws : waiter[w] = c
  OBVIOUS
<1> HIDE DEF cs
<1> QED BY <1>1, <1>2, <1>3, SettleAwaits

LEMMA LostAwaits ==
  ASSUME NoneApart, TypeOK, Awaiting, Lost
  PROVE  Awaiting' /\ Onward(Waiters, "broken")
<1> DEFINE cs == ({waiter[w] : w \in Waiters} \ {None}) \cup {c \in Calls : pc[c] = "reads"}
<1>1. cs \in SUBSET Calls
  BY DEF TypeOK
<1>2. /\ Settle(cs, "broken") /\ UNCHANGED result
      /\ waiter' = [w \in Waiters |-> None]
      /\ timers' = [w \in Waiters |-> timers[w] \ {waiter[w]}]
  BY DEF Lost, FailAllPending, keyVars
<1>3. /\ \A w \in Waiters : waiter[w] # None => waiter[w] \in cs
      /\ \A c \in cs : (\E w \in Waiters : waiter[w] = c) \/ pc[c] = "reads"
  OBVIOUS
<1> HIDE DEF cs
<1>4. /\ waiter' = [w \in Waiters |-> IF w \in Waiters THEN None ELSE waiter[w]]
      /\ timers' = [w \in Waiters |-> IF w \in Waiters THEN timers[w] \ {waiter[w]} ELSE timers[w]]
  BY <1>2
<1> QED BY <1>1, <1>2, <1>3, <1>4, SettleAwaits

(* The timer of a call that is waiting, or has failed, fails it. *)
LEMMA TimerAwaits ==
  ASSUME NoneApart, TypeOK, Awaiting, NEW c \in Calls, NEW w \in Waiters, TimerFires(c, w)
  PROVE  /\ Awaiting'
         /\ \A d \in Calls : pc'[d] = pc[d] \/ (d = c /\ pc'[d] = GoesOn(pc[d], "broken"))
<1>1. /\ c \in timers[w] /\ None \notin Calls /\ UNCHANGED result
      /\ waiter' = [waiter EXCEPT ![w] = None] /\ timers' = [timers EXCEPT ![w] = @ \ {c}]
      /\ \A d \in Calls : /\ promise'[d] = IF d = c THEN "broken" ELSE promise[d]
                          /\ pc'[d] = IF d = c THEN GoesOn(pc[d], "broken") ELSE pc[d]
  BY DEF NoneApart, TimerFires, Settle, keyVars
<1>2. pc[c] = "failed" \/ (pc[c] \in PlacesOf(w) /\ promise[c] = "pending")
  BY <1>1 DEF Awaiting
<1>3. ASSUME NEW v \in Waiters, NEW d \in Calls, waiter'[v] = d
      PROVE  pc'[d] \in PlacesOf(v) /\ promise'[d] = "pending"
  <2>1. v # w /\ waiter[v] = d
    BY <1>1, <1>3 DEF TypeOK
  <2>2. pc[d] \in PlacesOf(v) /\ promise[d] = "pending"
    BY <2>1 DEF Awaiting
  <2>3. d # c
    BY <1>2, <2>1, <2>2, PlacesDiffer
  <2> QED BY <1>1, <2>2, <2>3
<1>4. ASSUME NEW v \in Waiters, NEW d \in timers'[v]
      PROVE  pc'[d] = "failed" \/ (pc'[d] \in PlacesOf(v) /\ promise'[d] = "pending")
  <2>1. d \in timers[v] /\ d \in Calls /\ ~(v = w /\ d = c)
    BY <1>1, <1>4 DEF TypeOK
  <2>2. pc[d] = "failed" \/ (pc[d] \in PlacesOf(v) /\ promise[d] = "pending")
    BY <2>1 DEF Awaiting
  <2>3. CASE d # c
    BY <1>1, <2>1, <2>2, <2>3
  <2>4. CASE d = c
    <3>1. pc[c] = "failed"
      BY <1>2, <2>1, <2>2, <2>4, PlacesDiffer
    <3>2. pc'[c] = GoesOn(pc[c], "broken")
      BY <1>1
    <3>3. GoesOn("failed", "broken") = "failed"
      BY DEF GoesOn, Linking
    <3> QED BY <2>4, <3>1, <3>2, <3>3
  <2> QED BY <2>3, <2>4
<1>5. ASSUME NEW d \in Calls
      PROVE  /\ result'[d] # None => pc'[d] \in {"register", "done", "failed"}
             /\ pc'[d] = "idle" => promise'[d] = "pending"
  <2>1. /\ result[d] # None => pc[d] \in {"register", "done", "failed"}
        /\ pc[d] = "idle" => promise[d] = "pending"
    BY DEF Awaiting
  <2> QED BY <1>1, <1>2, <2>1, PlacesDiffer DEF GoesOn, Linking
<1> QED BY <1>1, <1>3, <1>4, <1>5 DEF Awaiting

(* A step that leaves the promises, and moves the call c to p. *)
LEMMA MoveAwaits ==
  ASSUME NoneApart, TypeOK, Awaiting, NEW c \in Calls, NEW p \in {"reads", "asks", "login", "ready", "done", "failed"},
         UNCHANGED <<promise, result>>, pc' = [pc EXCEPT ![c] = p],
         \A w \in Waiters : waiter'[w] \in {waiter[w], None} /\ timers'[w] \subseteq timers[w],
         pc[c] \notin {"idle", "failed"}, result[c] = None,
         \A w \in Waiters : waiter'[w] = c => p \in PlacesOf(w),
         \A w \in Waiters : c \in timers'[w] => p = "failed" \/ p \in PlacesOf(w)
  PROVE  Awaiting'
<1>1. None \notin Calls /\ \A d \in Calls : pc'[d] = IF d = c THEN p ELSE pc[d]
  BY DEF NoneApart, TypeOK
<1>2. ASSUME NEW w \in Waiters, NEW d \in Calls, waiter'[w] = d
      PROVE  pc'[d] \in PlacesOf(w) /\ promise'[d] = "pending"
  <2>1. waiter[w] = d
    BY <1>1, <1>2
  <2> QED BY <1>1, <1>2, <2>1 DEF Awaiting
<1>3. ASSUME NEW w \in Waiters, NEW d \in timers'[w]
      PROVE  pc'[d] = "failed" \/ (pc'[d] \in PlacesOf(w) /\ promise'[d] = "pending")
  <2>1. d \in timers[w] /\ d \in Calls
    BY <1>3 DEF TypeOK
  <2>2. pc[d] = "failed" \/ (pc[d] \in PlacesOf(w) /\ promise[d] = "pending")
    BY <2>1 DEF Awaiting
  <2>3. CASE d # c
    BY <1>1, <2>1, <2>2, <2>3
  <2>4. CASE d = c
    <3>1. pc'[c] = p
      BY <1>1
    <3>2. p = "failed" \/ p \in PlacesOf(w)
      BY <1>3, <2>4
    <3>3. pc[c] # "failed" => promise'[c] = "pending"
      BY <2>2, <2>4
    <3> QED BY <2>4, <3>1, <3>2, <3>3
  <2> QED BY <2>3, <2>4
<1>4. \A d \in Calls : /\ result'[d] # None => pc'[d] \in {"register", "done", "failed"}
                       /\ pc'[d] = "idle" => promise'[d] = "pending"
  BY <1>1 DEF Awaiting
<1> QED BY <1>2, <1>3, <1>4 DEF Awaiting

LEMMA AwaitingStep ==
  ASSUME NoneApart, TypeOK, Awaiting, [Next]_vars
  PROVE  Awaiting'
<1>1. None \notin Calls
  BY DEF NoneApart
<1>2. ASSUME NEW c \in Calls, NEW w \in {"login", "ready"}, Accept(c, w) PROVE Awaiting'
  <2> DEFINE p == IF w = "login" THEN "toLogin" ELSE "toRegister"
  <2>1. /\ pc[c] = "idle" /\ UNCHANGED <<promise, result>> /\ promise[c] = "pending"
        /\ waiter' = [waiter EXCEPT ![w] = c] /\ timers' = [timers EXCEPT ![w] = @ \cup {c}]
        /\ pc' = [pc EXCEPT ![c] = p] /\ result[c] = None
    BY <1>2 DEF Accept, keyVars, Awaiting
  <2>2. p \in PlacesOf(w) /\ p # "idle" /\ w \in Waiters
    BY DEF PlacesOf, Waiters, Places
  <2> HIDE DEF p
  <2>3. \A d \in Calls : pc'[d] = IF d = c THEN p ELSE pc[d]
    BY <2>1 DEF TypeOK
  <2>4. ASSUME NEW v \in Waiters
        PROVE  waiter[v] # c /\ c \notin timers[v]
    BY <2>1, PlacesDiffer DEF Awaiting
  <2>5. ASSUME NEW v \in Waiters, NEW d \in Calls, waiter'[v] = d
        PROVE  pc'[d] \in PlacesOf(v) /\ promise'[d] = "pending"
    <3>1. CASE v = w
      BY <2>1, <2>2, <2>3, <2>5, <3>1 DEF TypeOK
    <3>2. CASE v # w
      <4>1. waiter[v] = d /\ d # c
        BY <2>1, <2>4, <2>5, <3>2 DEF TypeOK
      <4> QED BY <2>1, <2>3, <4>1 DEF Awaiting
    <3> QED BY <3>1, <3>2
  <2>6. ASSUME NEW v \in Waiters, NEW d \in timers'[v]
        PROVE  pc'[d] = "failed" \/ (pc'[d] \in PlacesOf(v) /\ promise'[d] = "pending")
    <3>1. timers'[v] = IF v = w THEN timers[v] \cup {c} ELSE timers[v]
      BY <2>1 DEF TypeOK
    <3>2. CASE d = c
      <4>1. v = w
        BY <2>4, <2>6, <3>1, <3>2
      <4> QED BY <2>1, <2>2, <2>3, <3>2, <4>1
    <3>3. CASE d # c
      <4>1. d \in timers[v] /\ d \in Calls
        BY <2>6, <3>1, <3>3 DEF TypeOK
      <4> QED BY <2>1, <2>3, <3>3, <4>1 DEF Awaiting
    <3> QED BY <3>2, <3>3
  <2>7. \A d \in Calls : /\ result'[d] # None => pc'[d] \in {"register", "done", "failed"}
                         /\ pc'[d] = "idle" => promise'[d] = "pending"
    BY <2>1, <2>2, <2>3 DEF Awaiting
  <2> QED BY <2>5, <2>6, <2>7 DEF Awaiting
<1>3. ASSUME NEW c \in Calls, Connect(c) \/ Register(c) PROVE Awaiting'
  BY <1>2, <1>3 DEF Connect, Register
<1>4. ASSUME NEW c \in Calls, Refused(c) PROVE Awaiting'
  <2>1. /\ pc[c] = "idle" /\ pc' = [pc EXCEPT ![c] = "failed"]
        /\ UNCHANGED <<promise, waiter, timers, result>>
    BY <1>4 DEF Refused, keyVars
  <2>2. \A d \in Calls : pc'[d] = IF d = c THEN "failed" ELSE pc[d]
    BY <2>1 DEF TypeOK
  <2>3. \A v \in Waiters : waiter[v] # c /\ c \notin timers[v]
    BY <2>1, PlacesDiffer DEF Awaiting
  <2>4. \A v \in Waiters : timers[v] \subseteq Calls
    BY DEF TypeOK
  <2> QED BY <2>1, <2>2, <2>3, <2>4 DEF Awaiting
<1>5. ASSUME NEW c \in Calls, Linked(c) PROVE Awaiting'
  <2> DEFINE p == IF promise[c] = "pending" THEN WaiterOf(c) ELSE GoesOn(WaiterOf(c), promise[c])
  <2>1. /\ pc[c] \in Linking /\ pc' = [pc EXCEPT ![c] = p]
        /\ UNCHANGED <<promise, waiter, timers, result>>
    BY <1>5 DEF Linked
  <2>2. pc[c] \notin {"idle", "failed"} /\ result[c] = None
    BY <2>1 DEF Linking, Awaiting
  <2>3. promise[c] \in {"pending", "kept", "broken"}
    BY DEF TypeOK
  <2>4. p \in {"login", "ready", "reads", "done", "failed"}
    BY <2>3 DEF WaiterOf, GoesOn, Linking
  <2>5. ASSUME NEW w \in Waiters, pc[c] \in PlacesOf(w), promise[c] = "pending" PROVE p \in PlacesOf(w)
    BY <2>1, <2>5 DEF PlacesOf, WaiterOf, Places, Linking
  <2> HIDE DEF p
  <2>6. \A w \in Waiters : waiter[w] = c => p \in PlacesOf(w)
    BY <2>5 DEF Awaiting
  <2>7. \A w \in Waiters : c \in timers[w] => p = "failed" \/ p \in PlacesOf(w)
    BY <2>2, <2>5 DEF Awaiting
  <2>8. \A w \in Waiters : waiter'[w] \in {waiter[w], None} /\ timers'[w] \subseteq timers[w]
    BY <2>1
  <2>9. \A w \in Waiters : /\ waiter'[w] = c => p \in PlacesOf(w)
                           /\ c \in timers'[w] => p = "failed" \/ p \in PlacesOf(w)
    BY <2>1, <2>6, <2>7
  <2>10. PICK q \in {"reads", "asks", "login", "ready", "done", "failed"} : p = q
    BY <2>4
  <2>11. /\ UNCHANGED <<promise, result>> /\ pc' = [pc EXCEPT ![c] = q]
         /\ \A w \in Waiters : /\ waiter'[w] = c => q \in PlacesOf(w)
                               /\ c \in timers'[w] => q = "failed" \/ q \in PlacesOf(w)
    BY <2>1, <2>9, <2>10
  <2>12. /\ \A w \in Waiters : waiter'[w] = c => q \in PlacesOf(w)
         /\ \A w \in Waiters : c \in timers'[w] => q = "failed" \/ q \in PlacesOf(w)
    BY <2>11
  <2>13. pc[c] \notin {"idle", "failed"} /\ result[c] = None
    BY <2>2
  <2> HIDE <2>1, <2>2
  <2> QED BY <2>8, <2>11, <2>12, <2>13, MoveAwaits
<1>6. ASSUME NEW c \in Calls, LinkFails(c) PROVE Awaiting'
  <2> DEFINE w == WaiterOf(c)
  <2>1. /\ pc[c] \in Linking /\ pc' = [pc EXCEPT ![c] = "failed"]
        /\ waiter' = [waiter EXCEPT ![w] = None]
        /\ timers' = [timers EXCEPT ![w] = @ \ {waiter[w]}]
        /\ UNCHANGED <<promise, result>>
    BY <1>6 DEF LinkFails, keyVars
  <2>2. pc[c] \notin {"idle", "failed"} /\ result[c] = None /\ w \in Waiters
    BY <2>1 DEF Linking, Awaiting, WaiterOf, Waiters
  <2>3. \A v \in Waiters : pc[c] \in PlacesOf(v) => v = w
    BY <2>1 DEF PlacesOf, WaiterOf, Linking, Waiters
  <2> HIDE DEF w
  <2>4. /\ \A v \in Waiters : waiter'[v] \in {waiter[v], None} /\ timers'[v] \subseteq timers[v]
        /\ waiter'[w] = None
    BY <2>1, <2>2 DEF TypeOK
  <2>5. \A v \in Waiters : waiter'[v] # c
    <3> SUFFICES ASSUME NEW v \in Waiters, waiter'[v] = c PROVE FALSE
      OBVIOUS
    <3>1. waiter[v] = c
      BY <1>1, <2>4
    <3> QED BY <1>1, <2>3, <2>4, <3>1 DEF Awaiting
  <2> QED BY <2>1, <2>2, <2>4, <2>5, MoveAwaits
<1>7. ASSUME NEW c \in Calls, NEW p \in {"asks", "failed"}, pc[c] \in {"reads", "asks"},
             pc' = [pc EXCEPT ![c] = p], UNCHANGED <<promise, result, waiter, timers>>
      PROVE  Awaiting'
  <2>1. result[c] = None
    BY <1>7 DEF Awaiting
  <2>2. \A w \in Waiters : waiter[w] # c /\ c \notin timers[w]
    BY <1>7, PlacesDiffer DEF Awaiting
  <2> QED BY <1>7, <2>1, <2>2, MoveAwaits
<1>8. ASSUME NEW c \in Calls, IrerTimesOut(c) \/ ServerDeclines(c) PROVE Awaiting'
  BY <1>7, <1>8 DEF IrerTimesOut, ServerDeclines, keyVars
<1>9. ASSUME NEW c \in Calls, ServerRegisters(c) PROVE Awaiting'
  <2>1. /\ pc[c] = "asks" /\ pc' = [pc EXCEPT ![c] = "register"]
        /\ waiter' = [waiter EXCEPT !["register"] = c]
        /\ timers' = [timers EXCEPT !["register"] = @ \cup {c}]
        /\ promise' = [promise EXCEPT ![c] = "pending"]
        /\ \E k : result' = [result EXCEPT ![c] = k]
    BY <1>9 DEF ServerRegisters, NewWaiter
  <2>2. \A w \in Waiters : waiter[w] # c /\ c \notin timers[w]
    BY <2>1, PlacesDiffer DEF Awaiting
  <2>3. /\ \A d \in Calls : d # c => /\ pc'[d] = pc[d] /\ promise'[d] = promise[d]
                                     /\ result'[d] = result[d]
        /\ pc'[c] = "register" /\ promise'[c] = "pending"
    BY <2>1 DEF TypeOK
  <2>4. "register" \in PlacesOf("register") /\ "register" \in Waiters
    BY DEF PlacesOf, Waiters, Places
  <2>5. ASSUME NEW v \in Waiters
        PROVE  /\ waiter'[v] = IF v = "register" THEN c ELSE waiter[v]
               /\ timers'[v] = IF v = "register" THEN timers[v] \cup {c} ELSE timers[v]
               /\ timers[v] \subseteq Calls
    BY <2>1 DEF TypeOK
  <2>6. ASSUME NEW v \in Waiters, NEW d \in Calls, waiter'[v] = d
        PROVE  pc'[d] \in PlacesOf(v) /\ promise'[d] = "pending"
    <3>1. CASE v = "register"
      BY <2>3, <2>4, <2>5, <2>6, <3>1
    <3>2. CASE v # "register"
      <4>1. waiter[v] = d /\ d # c
        BY <2>2, <2>5, <2>6, <3>2
      <4> QED BY <2>3, <4>1 DEF Awaiting
    <3> QED BY <3>1, <3>2
  <2>7. ASSUME NEW v \in Waiters, NEW d \in timers'[v]
        PROVE  pc'[d] = "failed" \/ (pc'[d] \in PlacesOf(v) /\ promise'[d] = "pending")
    <3>1. CASE d = c
      <4>1. v = "register"
        BY <2>2, <2>5, <2>7, <3>1
      <4> QED BY <2>3, <2>4, <3>1, <4>1
    <3>2. CASE d # c
      <4>1. d \in timers[v] /\ d \in Calls
        BY <2>5, <2>7, <3>2
      <4> QED BY <2>3, <3>2, <4>1 DEF Awaiting
    <3> QED BY <3>1, <3>2
  <2>8. \A d \in Calls : /\ result'[d] # None => pc'[d] \in {"register", "done", "failed"}
                         /\ pc'[d] = "idle" => promise'[d] = "pending"
    BY <2>3 DEF Awaiting
  <2> QED BY <2>6, <2>7, <2>8 DEF Awaiting
<1>10. ASSUME UNCHANGED <<callVars, result>> PROVE Awaiting'
  BY <1>10 DEF callVars, Awaiting
<1>11. CASE LinkUp \/ Silent \/ (\E n \in signing : ServerSigns(n)) \/ UNCHANGED vars
  BY <1>10, <1>11 DEF LinkUp, Silent, ServerSigns, vars, keyVars
<1>12. CASE HearInitial
  <2>1. UNCHANGED result /\ (SettleWaiters({"ready"}, "kept") \/ UNCHANGED callVars)
    BY <1>12 DEF HearInitial
  <2> QED BY <1>10, <2>1, SettleWaitersAwaits DEF Waiters
<1>13. CASE HearBadInitial \/ (\E n \in signing : ServerRefuses(n))
  <2>1. UNCHANGED result /\ \E ws \in SUBSET Waiters : SettleWaiters(ws, "broken")
    BY <1>13 DEF HearBadInitial, ServerRefuses, keyVars, Waiters
  <2> QED BY <2>1, SettleWaitersAwaits
<1>14. CASE HearLogin
  <2>1. UNCHANGED result /\ \E o \in {"kept", "broken"} : SettleWaiters({"login"}, o)
    BY <1>14 DEF HearLogin, keyVars
  <2> QED BY <2>1, SettleWaitersAwaits DEF Waiters
<1>15. CASE HearIrer
  <2>1. UNCHANGED <<promise, result, waiter, timers>>
    BY <1>15 DEF HearIrer
  <2>2. CASE \E c \in Calls : pc[c] = "reads"
    <3> DEFINE c == CHOOSE d \in Calls : pc[d] = "reads"
    <3>1. c \in Calls /\ pc[c] = "reads"
      BY <2>2
    <3>2. \E p \in {"asks", "failed"} : pc' = [pc EXCEPT ![c] = p]
      BY <1>15, <2>2 DEF HearIrer
    <3> HIDE DEF c
    <3> QED BY <1>7, <2>1, <3>1, <3>2
  <2>3. CASE ~\E c \in Calls : pc[c] = "reads"
    <3>1. UNCHANGED pc
      BY <1>15, <2>3 DEF HearIrer
    <3> QED BY <1>10, <2>1, <3>1 DEF callVars
  <2> QED BY <2>2, <2>3
<1>16. CASE HearPublish
  <2>1. UNCHANGED result /\ ((\E w \in Waiters : SettleWaiters({w}, "kept")) \/ UNCHANGED callVars)
    BY <1>16 DEF HearPublish, keyVars, Waiters
  <2> QED BY <1>10, <2>1, SettleWaitersAwaits
<1> QED
  BY <1>3, <1>4, <1>5, <1>6, <1>8, <1>9, <1>11, <1>12, <1>13, <1>14, <1>15, <1>16,
     LostAwaits, TimerAwaits DEF Next

-----------------------------------------------------------------------------
(***************************************************************************)
(* The owner key.                                                          *)
(***************************************************************************)

(* No call returns that has derived keys, and no call begins to register   *)
(* what is registered.                                                     *)
NoneReturns ==
  \A c \in Calls : /\ result[c] # None => (pc'[c] = "done" <=> pc[c] = "done")
                   /\ secret /\ pc'[c] \in Registering => pc[c] \in Registering

(* The device publishes nothing else. *)
NothingNew ==
  \A i \in 1 .. Len(device') :
    device'[i].says = "publish" => \E j \in 1 .. Len(device) : device[j] = device'[i]

LEMMA Quiet ==
  ASSUME OwnerInv, UNCHANGED <<secret, owner, result>>, NoneReturns, ~secret => NothingNew,
         \A c \in Calls : waiter'["register"] = c => waiter["register"] = c,
         cipher' = cipher \/ (cipher' # None /\ cipher'.pair = None)
  PROVE  Unregistered' /\ Registered'
<1>1. Enrolled' = Enrolled
  BY DEF Enrolled, NoneReturns
<1>2. Unregistered'
  <2> SUFFICES ASSUME ~secret
               PROVE  /\ Enrolled' = {}
                      /\ owner' # None => owner'.pair \in Calls
                      /\ Publishes(device', owner')
                      /\ owner' = None => \A i \in 1 .. Len(device') : device'[i].says # "publish"
                      /\ \A c \in Calls : waiter'["register"] = c =>
                           cipher' = result'[c] \/ (cipher' # None /\ cipher'.pair = None)
    BY DEF Unregistered
  <2>1. Unregistered /\ NothingNew
    BY DEF OwnerInv
  <2>2. Publishes(device', owner')
    BY <2>1 DEF Unregistered, Publishes, NothingNew
  <2>3. owner' = None => \A i \in 1 .. Len(device') : device'[i].says # "publish"
    BY <2>1 DEF Unregistered, NothingNew
  <2>4. ASSUME NEW c \in Calls, waiter'["register"] = c
        PROVE  cipher' = result'[c] \/ (cipher' # None /\ cipher'.pair = None)
    BY <2>1, <2>4 DEF Unregistered
  <2> QED BY <1>1, <2>1, <2>2, <2>3, <2>4 DEF Unregistered
<1>3. Registered'
  BY <1>1 DEF OwnerInv, Registered, NoneReturns
<1> QED BY <1>2, <1>3

LEMMA OnwardQuiet ==
  ASSUME TypeOK, Awaiting, NEW ws \in SUBSET Waiters, NEW o \in {"kept", "broken"}, Onward(ws, o),
         "register" \notin ws \/ o = "broken"
  PROVE  NoneReturns
<1> SUFFICES ASSUME NEW c \in Calls
             PROVE  /\ result[c] # None => (pc'[c] = "done" <=> pc[c] = "done")
                    /\ secret /\ pc'[c] \in Registering => pc[c] \in Registering
  BY DEF NoneReturns
<1>1. CASE pc'[c] = pc[c]
  BY <1>1
<1>2. CASE pc[c] = "reads" /\ pc'[c] = "failed"
  BY <1>2 DEF Registering
<1>3. ASSUME NEW w \in ws, waiter[w] = c, pc'[c] = GoesOn(pc[c], o)
      PROVE  /\ result[c] # None => (pc'[c] = "done" <=> pc[c] = "done")
             /\ secret /\ pc'[c] \in Registering => pc[c] \in Registering
  <2>1. pc[c] \in PlacesOf(w) /\ pc[c] # "done"
    BY <1>3, PlacesDiffer DEF Awaiting
  <2>2. result[c] # None => pc[c] = "register"
    BY <2>1, PlacesDiffer DEF Awaiting
  <2>3. pc[c] = "register" => o = "broken"
    BY <2>1 DEF PlacesOf, Waiters
  <2>4. pc'[c] \in Registering => pc[c] \in Registering
    BY <1>3 DEF GoesOn, Linking, Registering
  <2>5. pc[c] = "register" => pc'[c] = "failed"
    BY <1>3, <2>3 DEF GoesOn, Linking
  <2> QED BY <2>1, <2>2, <2>4, <2>5
<1> QED BY <1>1, <1>2, <1>3 DEF Onward

LEMMA NothingNewFacts ==
  ASSUME TypeOK
  PROVE  /\ device' = device => NothingNew
         /\ device' = <<>> => NothingNew
         /\ device # <<>> /\ device' = Tail(device) => NothingNew
         /\ \A f \in Frames : f.says # "publish" /\ device' \in {Append(device, f), Says(device, f)}
                                => NothingNew
         /\ \A f \in Frames : f.says # "publish" /\ device # <<>> /\ device' = Append(Tail(device), f)
                                => NothingNew
<1>1. device \in Seq(Frames)
  BY DEF TypeOK
<1>2. device' = device => NothingNew
  BY DEF NothingNew
<1>3. device' = <<>> => NothingNew
  <2>1. Len(<<>>) = 0
    OBVIOUS
  <2> QED BY <2>1 DEF NothingNew
<1>4. ASSUME device # <<>>
      PROVE  /\ Tail(device) \in Seq(Frames)
             /\ \A i \in 1 .. Len(Tail(device)) : \E j \in 1 .. Len(device) : device[j] = Tail(device)[i]
  <2>1. /\ Tail(device) \in Seq(Frames) /\ Len(Tail(device)) = Len(device) - 1 /\ Len(device) \in Nat
        /\ \A i \in 1 .. Len(Tail(device)) : Tail(device)[i] = device[i + 1]
    BY <1>1, <1>4, HeadTailProperties
  <2>2. \A i \in 1 .. Len(Tail(device)) : i + 1 \in 1 .. Len(device)
    BY <2>1
  <2> QED BY <2>1, <2>2
<1>5. device # <<>> /\ device' = Tail(device) => NothingNew
  BY <1>4 DEF NothingNew
<1>6. ASSUME NEW s \in Seq(Frames), NEW f \in Frames, f.says # "publish", device' = Append(s, f),
             \A i \in 1 .. Len(s) : \E j \in 1 .. Len(device) : device[j] = s[i]
      PROVE  NothingNew
  <2> SUFFICES ASSUME NEW i \in 1 .. Len(device'), device'[i].says = "publish"
               PROVE  \E j \in 1 .. Len(device) : device[j] = device'[i]
    BY DEF NothingNew
  <2>1. /\ Len(device') = Len(s) + 1 /\ Len(s) \in Nat /\ device'[Len(s) + 1] = f
        /\ \A k \in 1 .. Len(s) : device'[k] = s[k]
    BY <1>6, AppendProperties
  <2>2. i \in 1 .. Len(s)
    <3>1. i = Len(s) + 1 \/ i \in 1 .. Len(s)
      BY <2>1
    <3> QED BY <1>6, <2>1, <3>1
  <2> QED BY <1>6, <2>1, <2>2
<1>7. ASSUME NEW f \in Frames, f.says # "publish", device' \in {Append(device, f), Says(device, f)}
      PROVE  NothingNew
  <2>1. device' = Append(device, f) \/ device' = device
    BY <1>7 DEF Says
  <2> QED BY <1>1, <1>2, <1>6, <1>7, <2>1
<1>8. ASSUME NEW f \in Frames, f.says # "publish", device # <<>>, device' = Append(Tail(device), f)
      PROVE  NothingNew
  BY <1>4, <1>6, <1>8
<1> QED BY <1>2, <1>3, <1>5, <1>7, <1>8

(* The server's answer to a registration. *)
LEMMA RegistersStep ==
  ASSUME NoneApart, OwnerInv, NEW c \in Calls, ServerRegisters(c)
  PROVE  Unregistered' /\ Registered'
<1> DEFINE key == RegisterKey(pair, c, mine[c])
           its == RegisterKey(c, c, link)
<1>1. /\ pc[c] = "asks" /\ cipher' = key /\ result' = [result EXCEPT ![c] = key]
      /\ waiter' = [waiter EXCEPT !["register"] = c] /\ pc' = [pc EXCEPT ![c] = "register"]
      /\ UNCHANGED secret
      /\ \/ owner = None /\ owner' = its /\ device' = Append(device, [says |-> "publish", of |-> its])
         \/ UNCHANGED <<owner, device>>
  BY DEF ServerRegisters, NewWaiter, flagVars
<1>2. its \in Keys /\ its.pair = c
  BY KeyTypes DEF OwnerInv, TypeOK, RegisterKey
<1> HIDE DEF key, its
<1>3. /\ \A d \in Calls : d # c => pc'[d] = pc[d] /\ result'[d] = result[d]
      /\ pc'[c] = "register" /\ result'[c] = key
      /\ waiter'["register"] = c
  BY <1>1 DEF OwnerInv, TypeOK, Waiters
<1>4. Unregistered'
  <2> SUFFICES ASSUME ~secret
               PROVE  /\ Enrolled' = {}
                      /\ owner' # None => owner'.pair \in Calls
                      /\ Publishes(device', owner')
                      /\ owner' = None => \A i \in 1 .. Len(device') : device'[i].says # "publish"
                      /\ \A d \in Calls : waiter'["register"] = d =>
                           cipher' = result'[d] \/ (cipher' # None /\ cipher'.pair = None)
    BY <1>1 DEF Unregistered
  <2>1. Enrolled = {} /\ (owner # None => owner.pair \in Calls) /\ Publishes(device, owner)
        /\ (owner = None => \A i \in 1 .. Len(device) : device[i].says # "publish")
    BY DEF OwnerInv, Unregistered
  <2>2. Enrolled' = {}
    BY <1>3, <2>1 DEF Enrolled
  <2>3. \A d \in Calls : waiter'["register"] = d => cipher' = result'[d]
    BY <1>1, <1>3
  <2>4. CASE owner = None /\ owner' = its /\ device' = Append(device, [says |-> "publish", of |-> its])
    <3> DEFINE f == [says |-> "publish", of |-> its]
    <3>1. f \in Frames /\ device \in Seq(Frames) /\ f.says = "publish" /\ f.of = its
      BY <1>2, FrameTypes DEF OwnerInv, TypeOK
    <3>2. device' = Append(device, f)
      BY <2>4
    <3> HIDE DEF f
    <3>3. /\ Len(device') = Len(device) + 1 /\ Len(device) \in Nat /\ device'[Len(device) + 1] = f
          /\ \A k \in 1 .. Len(device) : device'[k] = device[k]
      BY <3>1, <3>2, AppendProperties
    <3>4. \A i \in 1 .. Len(device') : i = Len(device) + 1 \/ i \in 1 .. Len(device)
      BY <3>3
    <3>5. Publishes(device', owner')
      BY <2>1, <2>4, <3>1, <3>3, <3>4 DEF Publishes
    <3>6. owner' # None /\ owner'.pair \in Calls
      BY <1>2, <2>4 DEF NoneApart
    <3> QED BY <2>2, <2>3, <3>5, <3>6
  <2>5. CASE UNCHANGED <<owner, device>>
    BY <2>1, <2>2, <2>3, <2>5
  <2> QED BY <1>1, <2>4, <2>5
<1>5. Registered'
  <2> SUFFICES ASSUME secret PROVE \E d \in Enrolled' : result'[d] = owner'
    BY <1>1 DEF Registered
  <2>1. PICK d \in Enrolled : result[d] = owner
    BY <1>1 DEF OwnerInv, Registered, Registering
  <2>2. d \in Calls /\ d # c /\ pc[d] = "done" /\ result[d] # None
    BY <1>1, <2>1 DEF Enrolled
  <2>3. UNCHANGED owner
    BY <1>1, <2>1, <2>2
  <2> QED BY <1>3, <2>1, <2>2, <2>3 DEF Enrolled
<1> QED BY <1>4, <1>5

LEMMA PublishStep ==
  ASSUME NoneApart, OwnerInv, HearPublish, waiter["register"] # None, Head(device).of = cipher
  PROVE  Unregistered' /\ Registered'
<1> DEFINE c == waiter["register"]
<1>1. /\ c \in Calls /\ pc[c] = "register"
      /\ waiter["register"] = c
  <2>1. c \in Calls /\ "register" \in Waiters
    BY DEF OwnerInv, TypeOK, Waiters
  <2>2. pc[c] \in PlacesOf("register")
    BY <2>1 DEF OwnerInv, Awaiting
  <2> QED BY <2>1, <2>2 DEF PlacesOf
<1>2. /\ SettleWaiters({"register"}, "kept") /\ secret' = TRUE
      /\ UNCHANGED <<owner, result>> /\ device # <<>> /\ Head(device).says = "publish"
  BY DEF HearPublish, keyVars
<1> HIDE DEF c
<1>3. Settle({c}, "kept")
  <2>1. {waiter[w] : w \in {"register"}} \ {None} = {c}
    BY <1>1 DEF NoneApart
  <2> QED BY <1>2, <2>1 DEF SettleWaiters
<1>4. \A d \in Calls : pc'[d] = IF d = c THEN "done" ELSE pc[d]
  BY <1>1, <1>3 DEF Settle, GoesOn, Linking
<1>5. Unregistered'
  BY <1>2 DEF Unregistered
<1>6. CASE ~secret
  <2>1. Head(device) = device[1] /\ 1 \in 1 .. Len(device)
    <3>1. device \in Seq(Frames)
      BY DEF OwnerInv, TypeOK
    <3>2. Len(device) \in Nat \ {0}
      BY <1>2, <3>1, EmptySeq
    <3> QED BY <1>2, <3>1, <3>2
  <2>2. device[1].says = "publish" /\ device[1].of = cipher
    BY <1>2, <2>1
  <2>3. Unregistered
    BY DEF OwnerInv
  <2>4. device[1].of = owner
    BY <1>6, <2>1, <2>2, <2>3 DEF Unregistered, Publishes
  <2>5. owner # None
    BY <1>6, <2>1, <2>2, <2>3 DEF Unregistered
  <2>6. owner.pair \in Calls
    BY <1>6, <2>3, <2>5 DEF Unregistered
  <2>7. cipher = result[c]
    <3>1. cipher = result[c] \/ (cipher # None /\ cipher.pair = None)
      BY <1>1, <1>6, <2>3 DEF Unregistered
    <3>2. cipher.pair # None
      BY <2>2, <2>4, <2>6 DEF NoneApart
    <3> QED BY <3>1, <3>2
  <2>8. c \in Enrolled' /\ result'[c] = owner'
    BY <1>1, <1>2, <1>4, <2>2, <2>4, <2>5, <2>7 DEF Enrolled
  <2> QED BY <1>5, <2>8 DEF Registered
<1>7. CASE secret
  <2>1. PICK d \in Enrolled : result[d] = owner
    BY <1>1, <1>7 DEF OwnerInv, Registered, Registering
  <2>2. d \in Enrolled' /\ result'[d] = owner'
    BY <1>2, <1>4, <2>1 DEF Enrolled
  <2> QED BY <1>5, <2>2 DEF Registered
<1> QED BY <1>6, <1>7

LEMMA OwnerStep ==
  ASSUME NoneApart, OwnerInv, [Next]_vars
  PROVE  Unregistered' /\ Registered'
<1> USE DEF OwnerInv
<1>1. \A d \in Calls : /\ result[d] # None => pc[d] \in {"register", "done", "failed"}
                       /\ d # None
  BY DEF Awaiting, NoneApart
<1>2. ASSUME NEW ws \in SUBSET Waiters, NEW o \in {"kept", "broken"}, SettleWaiters(ws, o),
             UNCHANGED result, "register" \notin ws \/ o = "broken"
      PROVE  NoneReturns /\ \A c \in Calls : waiter'["register"] = c => waiter["register"] = c
  <2>1. Onward(ws, o)
    BY <1>2, SettleWaitersAwaits
  <2>2. NoneReturns
    BY <1>2, <2>1, OnwardQuiet
  <2>3. waiter'["register"] \in {waiter["register"], None}
    BY <1>2 DEF SettleWaiters, Waiters
  <2> QED BY <1>1, <2>2, <2>3
<1>3. ASSUME NEW c \in Calls, NEW p, pc' = [pc EXCEPT ![c] = p], result[c] = None,
             secret /\ p \in Registering => pc[c] \in Registering
      PROVE  NoneReturns
  <2>1. \A d \in Calls : pc'[d] = IF d = c THEN p ELSE pc[d]
    BY <1>3 DEF TypeOK
  <2> QED BY <1>3, <2>1 DEF NoneReturns
<1>4. UNCHANGED pc => NoneReturns
  BY DEF NoneReturns
<1>5. ASSUME NEW c \in Calls, Connect(c) \/ Register(c) PROVE Unregistered' /\ Registered'
  <2>1. PICK w \in {"login", "ready"} : Accept(c, w) /\ (w = "ready" => ~secret)
    BY <1>5 DEF Connect, Register
  <2>2. pc[c] = "idle" /\ UNCHANGED <<secret, keyVars, deviceVars>>
        /\ pc' = [pc EXCEPT ![c] = IF w = "login" THEN "toLogin" ELSE "toRegister"]
        /\ waiter' = [waiter EXCEPT ![w] = c]
    BY <2>1 DEF Accept
  <2>3. NoneReturns
    BY <1>1, <1>3, <2>1, <2>2 DEF Registering
  <2>4. waiter'["register"] = waiter["register"]
    BY <2>2 DEF TypeOK, Waiters
  <2> QED BY <2>2, <2>3, <2>4, Quiet, NothingNewFacts DEF keyVars, deviceVars
<1>6. ASSUME NEW c \in Calls, Refused(c) \/ IrerTimesOut(c) \/ ServerDeclines(c)
      PROVE  Unregistered' /\ Registered'
  <2>1. /\ pc[c] \in {"idle", "reads", "asks"} /\ pc' = [pc EXCEPT ![c] = "failed"]
        /\ UNCHANGED <<waiter, flagVars, keyVars, deviceVars>>
    BY <1>6 DEF Refused, IrerTimesOut, ServerDeclines
  <2>2. NoneReturns
    BY <1>1, <1>3, <2>1 DEF Registering
  <2> QED BY <2>1, <2>2, Quiet, NothingNewFacts DEF flagVars, keyVars, deviceVars
<1>7. ASSUME NEW c \in Calls, Linked(c) PROVE Unregistered' /\ Registered'
  <2> DEFINE p == IF promise[c] = "pending" THEN WaiterOf(c) ELSE GoesOn(WaiterOf(c), promise[c])
  <2>1. /\ pc[c] \in Linking /\ pc' = [pc EXCEPT ![c] = p]
        /\ device' = Says(device, [says |-> "irer"]) \/ UNCHANGED device
        /\ UNCHANGED <<waiter, flagVars, cipher, result, owner>>
    BY <1>7 DEF Linked
  <2>2. p \in Registering => pc[c] \in Registering
    BY <2>1 DEF Linking, WaiterOf, GoesOn, Registering
  <2> HIDE DEF p
  <2>3. NoneReturns
    BY <1>1, <1>3, <2>1, <2>2 DEF Linking
  <2>4. NothingNew
    BY <2>1, NothingNewFacts, FrameTypes
  <2> QED BY <2>1, <2>3, <2>4, Quiet DEF flagVars
<1>8. ASSUME NEW c \in Calls, LinkFails(c) PROVE Unregistered' /\ Registered'
  <2>1. /\ pc[c] \in Linking /\ pc' = [pc EXCEPT ![c] = "failed"]
        /\ waiter' = [waiter EXCEPT ![WaiterOf(c)] = None]
        /\ UNCHANGED <<flagVars, keyVars, deviceVars>>
    BY <1>8 DEF LinkFails
  <2>2. NoneReturns
    BY <1>1, <1>3, <2>1 DEF Registering, Linking
  <2>3. waiter'["register"] = waiter["register"]
    BY <2>1 DEF TypeOK, Waiters, WaiterOf
  <2> QED BY <2>1, <2>2, <2>3, Quiet, NothingNewFacts DEF flagVars, keyVars, deviceVars
<1>9. ASSUME NEW c \in Calls, NEW w \in Waiters, TimerFires(c, w) PROVE Unregistered' /\ Registered'
  <2>1. /\ \A d \in Calls : pc'[d] = pc[d] \/ (d = c /\ pc'[d] = GoesOn(pc[d], "broken"))
        /\ UNCHANGED <<flagVars, keyVars, deviceVars>>
        /\ waiter' = [waiter EXCEPT ![w] = None] /\ c \in timers[w]
    BY <1>9, TimerAwaits DEF TimerFires
  <2>2. pc[c] = "failed" \/ pc[c] \in PlacesOf(w)
    BY <2>1 DEF Awaiting
  <2>3. pc[c] # "done" /\ GoesOn(pc[c], "broken") \in {pc[c], "failed"}
    BY <2>2, PlacesDiffer DEF GoesOn
  <2>4. NoneReturns
    BY <2>1, <2>3 DEF NoneReturns, Registering
  <2>5. waiter'["register"] \in {waiter["register"], None}
    BY <2>1 DEF TypeOK, Waiters
  <2> QED BY <1>1, <2>1, <2>4, <2>5, Quiet, NothingNewFacts DEF flagVars, keyVars, deviceVars
<1>10. CASE LinkUp
  <2>1. UNCHANGED <<callVars, flagVars, keyVars, owner>>
        /\ device' = <<[says |-> "initial", of |-> links + 1]>>
    BY <1>10 DEF LinkUp
  <2>2. NothingNew
    BY <2>1 DEF NothingNew
  <2> QED BY <1>4, <2>1, <2>2, Quiet DEF callVars, flagVars, keyVars
<1>11. CASE HearInitial
  <2> DEFINE n == Head(device).of
  <2>1. device # <<>> /\ UNCHANGED <<secret, result, owner>>
    BY <1>11 DEF HearInitial
  <2>2. CASE ~secret /\ ~signLogin
    <3>1. /\ SettleWaiters({"ready"}, "kept") /\ UNCHANGED cipher
          /\ device' = Append(Tail(device), [says |-> "irer"]) \/ device' = Tail(device)
      BY <1>11, <2>2 DEF HearInitial
    <3>2. NothingNew
      BY <2>1, <3>1, NothingNewFacts, FrameTypes
    <3> QED BY <1>2, <2>1, <3>1, <3>2, Quiet DEF Waiters
  <2>3. CASE ~(~secret /\ ~signLogin)
    <3>1. /\ cipher' = LoginKey(n) /\ UNCHANGED callVars
          /\ ~secret => device' = Tail(device)
      BY <1>11, <2>3 DEF HearInitial
    <3>2. n \in Nat
      BY <1>11, HeadOfDevice DEF HearInitial
    <3> HIDE DEF n
    <3>3. LoginKey(n) # None /\ LoginKey(n).pair = None
      BY <3>2, KeyTypes DEF NoneApart, LoginKey
    <3>4. ~secret => NothingNew
      BY <2>1, <3>1, NothingNewFacts
    <3> QED BY <1>4, <2>1, <3>1, <3>3, <3>4, Quiet DEF callVars
  <2> QED BY <2>2, <2>3
<1>12. CASE HearBadInitial
  <2>1. /\ SettleWaiters({"login", "ready"}, "broken") /\ device # <<>> /\ device' = Tail(device)
        /\ UNCHANGED <<flagVars, keyVars, owner>>
    BY <1>12 DEF HearBadInitial
  <2> QED BY <1>2, <2>1, Quiet, NothingNewFacts DEF flagVars, keyVars, Waiters
<1>13. ASSUME NEW n \in signing, ServerSigns(n) PROVE Unregistered' /\ Registered'
  <2>1. /\ device' = Says(device, [says |-> "login", of |-> LoginKey(n)])
        /\ UNCHANGED <<callVars, flagVars, cipher, result, owner>>
    BY <1>13 DEF ServerSigns
  <2>2. n \in Nat
    BY DEF TypeOK
  <2>3. LoginKey(n) \in Keys
    BY <2>2, KeyTypes
  <2>4. NothingNew
    BY <2>1, <2>3, NothingNewFacts, FrameTypes
  <2> QED BY <1>4, <2>1, <2>4, Quiet DEF callVars, flagVars
<1>14. ASSUME NEW n \in signing, ServerRefuses(n) PROVE Unregistered' /\ Registered'
  <2>1. /\ SettleWaiters({"login"}, "broken")
        /\ UNCHANGED <<flagVars, cipher, result, deviceVars>>
    BY <1>14 DEF ServerRefuses
  <2> QED BY <1>2, <2>1, Quiet, NothingNewFacts DEF flagVars, deviceVars, Waiters
<1>15. CASE HearLogin
  <2>1. PICK o \in {"kept", "broken"} : SettleWaiters({"login"}, o)
    BY <1>15 DEF HearLogin
  <2>2. device # <<>> /\ device' = Tail(device) /\ UNCHANGED <<secret, keyVars, owner>>
    BY <1>15 DEF HearLogin
  <2> QED BY <1>2, <2>1, <2>2, Quiet, NothingNewFacts DEF keyVars, Waiters
<1>16. CASE HearIrer
  <2>1. /\ device # <<>> /\ device' = Tail(device)
        /\ UNCHANGED <<waiter, flagVars, cipher, result, owner>>
    BY <1>16 DEF HearIrer
  <2>2. NoneReturns
    <3>1. CASE \E c \in Calls : pc[c] = "reads"
      <4> DEFINE c == CHOOSE d \in Calls : pc[d] = "reads"
      <4>1. c \in Calls /\ pc[c] = "reads"
        BY <3>1
      <4>2. pc' = [pc EXCEPT ![c] = "asks"] \/ pc' = [pc EXCEPT ![c] = "failed"]
        BY <1>16, <3>1 DEF HearIrer
      <4> HIDE DEF c
      <4>3. result[c] = None /\ pc[c] \in Registering
        BY <1>1, <4>1 DEF Registering
      <4> QED BY <1>3, <4>1, <4>2, <4>3
    <3>2. CASE ~\E c \in Calls : pc[c] = "reads"
      BY <1>4, <1>16, <3>2 DEF HearIrer
    <3> QED BY <3>1, <3>2
  <2> QED BY <2>1, <2>2, Quiet, NothingNewFacts DEF flagVars
<1>17. CASE HearPublish
  <2>1. device # <<>> /\ device' = Tail(device) /\ UNCHANGED <<keyVars, owner>>
    BY <1>17 DEF HearPublish
  <2>2. CASE waiter["register"] # None /\ Head(device).of = cipher
    BY <1>17, <2>2, PublishStep
  <2>3. CASE ~(waiter["register"] # None /\ Head(device).of = cipher)
    <3>1. UNCHANGED secret /\ (SettleWaiters({"login"}, "kept") \/ UNCHANGED callVars)
      BY <1>17, <2>3 DEF HearPublish
    <3>2. NoneReturns /\ \A c \in Calls : waiter'["register"] = c => waiter["register"] = c
      BY <1>2, <1>4, <2>1, <3>1 DEF callVars, keyVars, Waiters
    <3> QED BY <2>1, <3>1, <3>2, Quiet, NothingNewFacts DEF keyVars
  <2> QED BY <2>2, <2>3
<1>18. CASE Silent
  <2>1. device # <<>> /\ device' = Tail(device) /\ UNCHANGED <<callVars, flagVars, keyVars, owner>>
    BY <1>18 DEF Silent
  <2> QED BY <1>4, <2>1, Quiet, NothingNewFacts DEF callVars, flagVars, keyVars
<1>19. CASE Lost
  <2>1. /\ device' = <<>> /\ UNCHANGED <<secret, keyVars, owner>>
        /\ waiter' = [w \in Waiters |-> None]
    BY <1>19 DEF Lost, FailAllPending
  <2>2. NoneReturns
    BY <1>19, LostAwaits, OnwardQuiet
  <2>3. waiter'["register"] = None
    BY <2>1 DEF Waiters
  <2> QED BY <1>1, <2>1, <2>2, <2>3, Quiet, NothingNewFacts DEF keyVars
<1>20. CASE UNCHANGED vars
  BY <1>4, <1>20, Quiet, NothingNewFacts DEF vars, callVars, flagVars, keyVars, deviceVars
<1> QED
  BY <1>5, <1>6, <1>7, <1>8, <1>9, <1>10, <1>11, <1>12, <1>13, <1>14, <1>15, <1>16, <1>17,
     <1>18, <1>19, <1>20, RegistersStep DEF Next

LEMMA OwnerInvInit ==
  ASSUME NoneApart, Init
  PROVE  OwnerInv
<1>1. TypeOK
  BY TypeInit
<1>2. Awaiting
  BY DEF Init, Awaiting, NoneApart
<1>3. Unregistered
  <2>1. Enrolled = {} /\ Len(device) = 0
    BY DEF Init, Enrolled
  <2> QED BY <2>1 DEF Init, Unregistered, Publishes, Waiters, NoneApart
<1>4. Registered
  BY DEF Init, Registered, Registering
<1> QED BY <1>1, <1>2, <1>3, <1>4 DEF OwnerInv

(* Every variable keeps its type, for any number of calls and of links.    *)
THEOREM Os2TypeCorrect == Spec => []TypeOK
<1>1. Init => TypeOK
  BY TypeInit
<1>2. TypeOK /\ [Next]_vars => TypeOK'
  BY TypeStep
<1> QED BY <1>1, <1>2, PTL DEF Spec

(* Whatever calls of connect() and register() overlap on an OS2 session,   *)
(* and however often the link is lost: when a register() has returned, the *)
(* owner key of the device was given to a caller.                          *)
THEOREM OwnerKeyIsKept ==
  ASSUME NoneApart
  PROVE  Spec => []OwnerKeyAgrees
<1>1. Init => OwnerInv
  BY OwnerInvInit
<1>2. OwnerInv /\ [Next]_vars => OwnerInv'
  BY TypeStep, AwaitingStep, OwnerStep DEF OwnerInv
<1>3. OwnerInv => OwnerKeyAgrees
  BY DEF OwnerInv, Unregistered, Registered, OwnerKeyAgrees, Enrolled
<1> QED BY <1>1, <1>2, <1>3, PTL DEF Spec
-----------------------------------------------------------------------------
(***************************************************************************)
(* The session key.  On a later link, what was begun on an earlier one may *)
(* leave a cipher that the device does not use; on the first link nothing  *)
(* can: either it is for logins, or it is for one registration.            *)
(***************************************************************************)

Has(what) == \E i \in 1 .. Len(device) : device[i].says = what

(* The calls that go on with a registration, up to the server's answer. *)
Going ==
  {c \in Calls : pc[c] \in {"reads", "asks"} \/ (pc[c] = "toRegister" /\ promise[c] = "kept")}

(* What the device is going to say is about the link there is. *)
OfThisLink ==
  /\ link \in {0, links}
  /\ link = 0 => device = <<>> /\ ~loggedIn
  /\ \A i \in 1 .. Len(device) :
       /\ device[i].says = "initial" => i = 1 /\ device[i].of = link
       /\ device[i].says = "publish" => device[i].of \in {LoginKey(link), owner}

(* No key is there yet, and no login is under way. *)
NoLogin == cipher = None /\ signing = {} /\ ~Has("login") /\ ~loggedIn

Unheard == Has("initial") \/ links = 0

FirstLink ==
  /\ Unheard => NoLogin /\ Going = {}
  /\ Going # {} => NoLogin
  /\ \A c, d \in Going : c = d
  /\ Has("login") \/ signing # {} => cipher = LoginKey(1) /\ signing \subseteq {1}
  /\ \A c \in Calls : result[c] # None => cipher = result[c] /\ result[c].st = c
  /\ CipherFits /\ EachKeyAgrees

SessionInv == TypeOK /\ Awaiting /\ OfThisLink /\ (links <= 1 => FirstLink)

(* A step after which the device is going to say the same, less what it    *)
(* has said, and f.                                                        *)
SaysLess(f) ==
  \/ device' \in {device, Append(device, f), Says(device, f)}
  \/ device # <<>> /\ device' \in {Tail(device), Append(Tail(device), f)}

LEMMA SaysLessFacts ==
  ASSUME TypeOK, OfThisLink, NEW f \in Frames, SaysLess(f), f.says # "initial"
  PROVE  /\ \A i \in 1 .. Len(device') :
              \/ device'[i] = f
              \/ \E j \in 1 .. Len(device) : /\ device[j] = device'[i]
                                             /\ device[j].says = "initial" => i = 1
         /\ Has("initial")' => Has("initial")
         /\ Has("login")' /\ f.says # "login" => Has("login")
<1>1. device \in Seq(Frames)
  BY DEF TypeOK
<1>2. ASSUME NEW s \in Seq(Frames)
      PROVE  \A i \in 1 .. Len(Append(s, f)) :
               Append(s, f)[i] = f \/ (i \in 1 .. Len(s) /\ Append(s, f)[i] = s[i])
  <2>1. /\ Len(Append(s, f)) = Len(s) + 1 /\ Len(s) \in Nat /\ Append(s, f)[Len(s) + 1] = f
        /\ \A i \in 1 .. Len(s) : Append(s, f)[i] = s[i]
    BY AppendProperties
  <2>2. \A i \in 1 .. Len(s) + 1 : i = Len(s) + 1 \/ i \in 1 .. Len(s)
    BY <2>1
  <2> QED BY <2>1, <2>2
<1>3. CASE device' \in {device, Append(device, f), Says(device, f)}
  <2>1. \A i \in 1 .. Len(device') :
          device'[i] = f \/ (i \in 1 .. Len(device) /\ device'[i] = device[i])
    BY <1>1, <1>2, <1>3 DEF Says
  <2>2. \A i \in 1 .. Len(device) : device[i].says = "initial" => i = 1
    BY DEF OfThisLink
  <2> QED BY <2>1, <2>2 DEF Has
<1>4. CASE device # <<>> /\ device' \in {Tail(device), Append(Tail(device), f)}
  <2>1. /\ Tail(device) \in Seq(Frames) /\ Len(Tail(device)) = Len(device) - 1 /\ Len(device) \in Nat
        /\ \A i \in 1 .. Len(Tail(device)) : Tail(device)[i] = device[i + 1]
    BY <1>1, <1>4, HeadTailProperties
  <2>2. \A i \in 1 .. Len(Tail(device)) : i + 1 \in 1 .. Len(device) /\ i + 1 # 1
    BY <2>1
  <2>3. \A i \in 1 .. Len(Tail(device)) :
          \E j \in 1 .. Len(device) : device[j] = Tail(device)[i] /\ device[j].says # "initial"
    BY <2>1, <2>2 DEF OfThisLink
  <2>4. \A i \in 1 .. Len(device') :
          device'[i] = f \/ (i \in 1 .. Len(Tail(device)) /\ device'[i] = Tail(device)[i])
    BY <1>2, <1>4, <2>1
  <2> QED BY <2>3, <2>4 DEF Has
<1> QED BY <1>3, <1>4 DEF SaysLess

LEMMA SaidOnce ==
  ASSUME TypeOK, OfThisLink, NEW f \in Frames, f.says # "initial",
         device # <<>>, device' \in {Tail(device), Append(Tail(device), f)}
  PROVE  ~Has("initial")'
<1>1. device \in Seq(Frames)
  BY DEF TypeOK
<1>2. /\ Tail(device) \in Seq(Frames) /\ Len(Tail(device)) = Len(device) - 1 /\ Len(device) \in Nat
      /\ \A i \in 1 .. Len(Tail(device)) : Tail(device)[i] = device[i + 1]
  BY <1>1, HeadTailProperties
<1>3. \A i \in 1 .. Len(Tail(device)) : i + 1 \in 1 .. Len(device) /\ i + 1 # 1
  BY <1>2
<1>4. \A i \in 1 .. Len(Tail(device)) : Tail(device)[i].says # "initial"
  BY <1>2, <1>3 DEF OfThisLink
<1>5. \A i \in 1 .. Len(device') :
        device'[i] = f \/ (i \in 1 .. Len(Tail(device)) /\ device'[i] = Tail(device)[i])
  <2>1. CASE device' = Tail(device)
    BY <2>1
  <2>2. CASE device' = Append(Tail(device), f)
    <3>1. /\ Len(device') = Len(Tail(device)) + 1 /\ Len(Tail(device)) \in Nat
          /\ device'[Len(Tail(device)) + 1] = f
          /\ \A i \in 1 .. Len(Tail(device)) : device'[i] = Tail(device)[i]
      BY <1>2, <2>2, AppendProperties
    <3>2. \A i \in 1 .. Len(Tail(device)) + 1 : i = Len(Tail(device)) + 1 \/ i \in 1 .. Len(Tail(device))
      BY <3>1
    <3> QED BY <3>1, <3>2
  <2> QED BY <2>1, <2>2
<1> QED BY <1>4, <1>5 DEF Has

LEMMA LinkKeeps ==
  ASSUME NoneApart, TypeOK, OfThisLink, NEW f \in Frames, SaysLess(f), f.says # "initial",
         f.says = "publish" => f.of \in {LoginKey(link), owner'},
         UNCHANGED <<link, links>>, owner' = owner \/ owner = None,
         link = 0 => device' = <<>> /\ ~loggedIn'
  PROVE  OfThisLink'
<1> SUFFICES ASSUME NEW i \in 1 .. Len(device')
             PROVE  /\ device'[i].says = "initial" => i = 1 /\ device'[i].of = link
                    /\ device'[i].says = "publish" => device'[i].of \in {LoginKey(link), owner'}
  BY DEF OfThisLink, LoginKey
<1>1. CASE device'[i] = f
  BY <1>1
<1>2. ASSUME NEW j \in 1 .. Len(device), device[j] = device'[i], device[j].says = "initial" => i = 1
      PROVE  /\ device'[i].says = "initial" => i = 1 /\ device'[i].of = link
             /\ device'[i].says = "publish" => device'[i].of \in {LoginKey(link), owner'}
  <2>1. device[j] \in Frames
    BY DEF TypeOK
  <2>2. device[j].says = "publish" => device[j].of # None
    BY <2>1 DEF Frames, NoneApart
  <2> QED BY <1>2, <2>2 DEF OfThisLink
<1> QED BY <1>1, <1>2, SaysLessFacts

(* Most steps begin nothing, and end no registration that has a key. *)
NothingBegins == Going' \subseteq Going /\ Enrolled' \subseteq Enrolled

LEMMA FirstKeeps ==
  ASSUME FirstLink, UNCHANGED <<links, cipher, result>>, signing' \subseteq signing, Going' \subseteq Going,
         Has("initial")' => Has("initial"),
         Has("login")' => Has("login") \/ signing # {},
         loggedIn' => loggedIn \/ Has("login") \/ cipher # None,
         CipherFits', EachKeyAgrees'
  PROVE  FirstLink'
<1>1. Unheard' => Unheard
  BY DEF Unheard
<1>2. NoLogin => NoLogin'
  BY DEF NoLogin
<1>3. Going' # {} => Going # {}
  OBVIOUS
<1>4. \A c, d \in Going' : c = d
  BY DEF FirstLink
<1>5. Has("login")' \/ signing' # {} => cipher' = LoginKey(1)' /\ signing' \subseteq {1}
  BY DEF FirstLink, LoginKey
<1> QED BY <1>1, <1>2, <1>3, <1>4, <1>5 DEF FirstLink

LEMMA SettleGoing ==
  ASSUME TypeOK, Awaiting, NEW cs \in SUBSET Calls, NEW o \in {"kept", "broken"}, Settle(cs, o),
         UNCHANGED result
  PROVE  /\ o = "broken" => NothingBegins
         /\ (\A c \in cs : pc[c] \in {"toLogin", "login"}) => NothingBegins
         /\ (\A c \in cs : pc[c] = "register") => Going' \subseteq Going
         /\ (\A c \in cs : pc[c] \in {"toRegister", "ready"}) => Enrolled' \subseteq Enrolled
<1>1. \A c \in Calls : /\ promise'[c] = IF c \in cs THEN o ELSE promise[c]
                       /\ pc'[c] = IF c \in cs THEN GoesOn(pc[c], o) ELSE pc[c]
  BY DEF Settle
<1>2. ASSUME \A c \in cs : o = "broken" \/ pc[c] \in {"toLogin", "login", "register"}
      PROVE  Going' \subseteq Going
  <2> SUFFICES ASSUME NEW c \in Calls,
                      pc'[c] \in {"reads", "asks"} \/ (pc'[c] = "toRegister" /\ promise'[c] = "kept")
               PROVE  c \in Going
    BY DEF Going
  <2>1. c \notin cs
    BY <1>1, <1>2 DEF GoesOn, Linking
  <2> QED BY <1>1, <2>1 DEF Going
<1>3. ASSUME \A c \in cs : o = "broken" \/ pc[c] \in {"toLogin", "login", "toRegister", "ready"}
      PROVE  Enrolled' \subseteq Enrolled
  <2> SUFFICES ASSUME NEW c \in Calls, pc'[c] = "done", result[c] # None PROVE pc[c] = "done"
    BY DEF Enrolled
  <2>1. pc[c] \in {"register", "done", "failed"}
    BY DEF Awaiting
  <2> QED BY <1>1, <1>3, <2>1 DEF GoesOn, Linking
<1> QED BY <1>2, <1>3 DEF NothingBegins

LEMMA SettleWaitersGoing ==
  ASSUME NoneApart, TypeOK, Awaiting, NEW ws \in SUBSET Waiters, NEW o \in {"kept", "broken"},
         SettleWaiters(ws, o), UNCHANGED result
  PROVE  /\ o = "broken" \/ ws = {"login"} => NothingBegins
         /\ ws = {"register"} => Going' \subseteq Going
         /\ ws = {"ready"} => Enrolled' \subseteq Enrolled
<1> DEFINE cs == {waiter[w] : w \in ws} \ {None}
<1>1. cs \in SUBSET Calls /\ Settle(cs, o)
  BY DEF TypeOK, SettleWaiters
<1>2. ASSUME NEW c \in cs PROVE \E w \in ws : pc[c] \in PlacesOf(w)
  <2>1. PICK w \in ws : waiter[w] = c
    OBVIOUS
  <2> QED BY <1>1, <2>1 DEF Awaiting
<1> HIDE DEF cs
<1> QED BY <1>1, <1>2, SettleGoing DEF PlacesOf

LEMMA MoveGoing ==
  ASSUME TypeOK, NEW c \in Calls, NEW p, pc' = [pc EXCEPT ![c] = p], UNCHANGED <<promise, result>>,
         p \in {"reads", "asks"} => c \in Going,
         p = "toRegister" => promise[c] # "kept",
         p = "done" => result[c] = None
  PROVE  NothingBegins
<1>1. \A d \in Calls : pc'[d] = IF d = c THEN p ELSE pc[d]
  BY DEF TypeOK
<1> QED BY <1>1 DEF NothingBegins, Going, Enrolled

(* HearInitial: the one step that begins a login or a registration. *)
LEMMA InitialFirst ==
  ASSUME NoneApart, SessionInv, HearInitial
  PROVE  OfThisLink' /\ (links' <= 1 => FirstLink')
<1> DEFINE n == Head(device).of
<1> USE DEF SessionInv
<1>1. /\ device # <<>> /\ device[1] = Head(device) /\ 1 \in 1 .. Len(device) /\ Head(device).says = "initial"
      /\ UNCHANGED <<secret, signLogin, loggedIn, pair, result, link, links, owner>>
  BY DEF HearInitial, TypeOK
<1>2. n = link /\ link # 0 /\ link = links /\ Has("initial") /\ links \in Nat
  BY <1>1 DEF OfThisLink, Has, TypeOK
<1>3. PICK f \in Frames : /\ device' \in {Tail(device), Append(Tail(device), f)}
                          /\ f.says # "initial"
                          /\ f.says = "publish" => f.of = LoginKey(n)
                          /\ ~secret /\ ~signLogin => f.says # "login"
  <2>1. n \in Nat
    BY <1>2
  <2>2. LoginKey(n) \in Keys
    BY <2>1, KeyTypes
  <2>3. \E f \in {[says |-> "irer"], [says |-> "login", of |-> LoginKey(n)],
                  [says |-> "publish", of |-> LoginKey(n)]} :
          /\ device' \in {Tail(device), Append(Tail(device), f)}
          /\ ~secret /\ ~signLogin => f.says # "login"
    BY DEF HearInitial
  <2> QED BY <2>2, <2>3, FrameTypes
<1> HIDE DEF n
<1>4. SaysLess(f)
  BY <1>1, <1>3 DEF SaysLess
<1>5. OfThisLink'
  BY <1>1, <1>2, <1>3, <1>4, LinkKeeps
<1>6. ~Has("initial")'
  BY <1>1, <1>3, SaidOnce
<1>7. ASSUME links <= 1 PROVE FirstLink'
  <2>1. links = 1 /\ NoLogin /\ Going = {}
    BY <1>2, <1>7 DEF FirstLink, Unheard
  <2>2. ~Unheard'
    BY <1>1, <1>2, <1>6 DEF Unheard
  <2>3. CipherFits' /\ \A c \in Calls : result'[c] = None
    BY <1>1, <1>7, <2>1 DEF NoLogin, CipherFits, FirstLink
  <2>4. CASE ~secret /\ ~signLogin
    <3>1. SettleWaiters({"ready"}, "kept") /\ UNCHANGED <<signing, cipher>>
      BY <2>4 DEF HearInitial
    <3>2. \A c \in Going' : c = waiter["ready"]
      <4> SUFFICES ASSUME NEW c \in Calls, c # waiter["ready"],
                          pc'[c] \in {"reads", "asks"} \/ (pc'[c] = "toRegister" /\ promise'[c] = "kept")
                   PROVE  c \in Going
        BY <2>1 DEF Going
      <4>1. pc'[c] = pc[c] /\ promise'[c] = promise[c]
        BY <3>1 DEF SettleWaiters, Settle
      <4> QED BY <4>1 DEF Going
    <3>3. ~Has("login")'
      BY <1>3, <1>4, <2>1, <2>4, SaysLessFacts DEF NoLogin
    <3>4. NoLogin'
      BY <1>1, <2>1, <3>1, <3>3 DEF NoLogin
    <3> QED BY <2>2, <2>3, <3>2, <3>4 DEF FirstLink, NoLogin, EachKeyAgrees, Enrolled
  <2>5. CASE ~(~secret /\ ~signLogin)
    <3>1. cipher' = LoginKey(n) /\ signing' \subseteq signing \cup {n} /\ UNCHANGED callVars
      BY <2>5 DEF HearInitial, n
    <3>2. Going' = {}
      BY <2>1, <3>1 DEF Going, callVars
    <3>3. cipher' = LoginKey(1) /\ signing' \subseteq {1}
      BY <1>2, <2>1, <3>1 DEF NoLogin
    <3> QED BY <2>2, <2>3, <3>2, <3>3 DEF FirstLink, LoginKey, EachKeyAgrees, Enrolled
  <2> QED BY <2>4, <2>5
<1> QED BY <1>1, <1>5, <1>7

(* registerServer() returns: it was the only registration under way. *)
LEMMA RegistersFirst ==
  ASSUME NoneApart, SessionInv, NEW c \in Calls, ServerRegisters(c)
  PROVE  OfThisLink' /\ (links' <= 1 => FirstLink')
<1> USE DEF SessionInv
<1> DEFINE its == RegisterKey(c, c, link)
           f == [says |-> "publish", of |-> its]
<1>1. /\ pc[c] = "asks" /\ pc' = [pc EXCEPT ![c] = "register"]
      /\ promise' = [promise EXCEPT ![c] = "pending"]
      /\ cipher' = RegisterKey(pair, c, mine[c])
      /\ result' = [result EXCEPT ![c] = RegisterKey(pair, c, mine[c])]
      /\ UNCHANGED <<flagVars, signing, link, links>>
      /\ \/ link # 0 /\ owner = None /\ owner' = its /\ device' = Append(device, f)
         \/ UNCHANGED <<owner, device>>
  BY DEF ServerRegisters
<1>2. f \in Frames /\ f.says = "publish" /\ f.of = its
  BY KeyTypes, FrameTypes DEF TypeOK
<1>3. OfThisLink' /\ (Has("initial")' => Has("initial")) /\ (Has("login")' => Has("login"))
  <2>1. CASE link # 0 /\ owner = None /\ owner' = its /\ device' = Append(device, f)
    <3> HIDE DEF f, its
    <3>1. SaysLess(f)
      BY <2>1 DEF SaysLess
    <3>2. OfThisLink'
      BY <1>1, <1>2, <2>1, <3>1, LinkKeeps
    <3> QED BY <1>2, <3>1, <3>2, SaysLessFacts
  <2>2. CASE UNCHANGED <<owner, device>>
    BY <1>1, <2>2 DEF OfThisLink, Has, LoginKey, flagVars
  <2> QED BY <1>1, <2>1, <2>2
<1>4. ASSUME links <= 1 PROVE FirstLink'
  <2>1. NoLogin /\ Going \subseteq {c} /\ ~Unheard
    BY <1>1, <1>4 DEF FirstLink, Going
  <2>2. Going' = {}
    <3>1. \A d \in Calls : /\ pc'[d] = IF d = c THEN "register" ELSE pc[d]
                           /\ d # c => promise'[d] = promise[d]
      BY <1>1 DEF TypeOK
    <3> QED BY <2>1, <3>1 DEF Going
  <2>3. ~Unheard' /\ ~Has("login")' /\ signing' = {} /\ ~loggedIn'
    BY <1>1, <1>3, <2>1 DEF Unheard, NoLogin, flagVars
  <2>4. /\ cipher' = result'[c] /\ result'[c].st = c /\ pc'[c] # "done"
        /\ \A d \in Calls : d # c => result'[d] = None
    BY <1>1, <1>4, <2>1 DEF FirstLink, NoLogin, RegisterKey, TypeOK
  <2> QED BY <2>2, <2>3, <2>4 DEF FirstLink, CipherFits, EachKeyAgrees, Enrolled
<1> QED BY <1>1, <1>3, <1>4

LEMMA SessionStep ==
  ASSUME NoneApart, SessionInv, [Next]_vars
  PROVE  OfThisLink' /\ (links' <= 1 => FirstLink')
<1> USE DEF SessionInv
<1>1. ASSUME UNCHANGED <<signing, cipher, result, owner, link, links, loggedIn>>, NothingBegins,
             NEW f \in Frames, SaysLess(f), f.says \notin {"initial", "publish", "login"},
             link = 0 => device' = <<>>
      PROVE  OfThisLink' /\ (links' <= 1 => FirstLink')
  <2>1. OfThisLink'
    BY <1>1, LinkKeeps DEF OfThisLink
  <2>2. FirstLink => CipherFits' /\ EachKeyAgrees'
    BY <1>1 DEF FirstLink, CipherFits, LoginKey, NothingBegins, EachKeyAgrees
  <2> QED BY <1>1, <2>1, <2>2, FirstKeeps, SaysLessFacts DEF NothingBegins
<1>2. ASSUME UNCHANGED <<keyVars, deviceVars, loggedIn>>, NothingBegins
      PROVE  OfThisLink' /\ (links' <= 1 => FirstLink')
  <2>1. SaysLess([says |-> "irer"])
    BY <1>2 DEF SaysLess, deviceVars
  <2> QED BY <1>1, <1>2, <2>1, FrameTypes DEF OfThisLink, keyVars, deviceVars
<1>3. ASSUME device # <<>>, device' = Tail(device), NothingBegins,
             UNCHANGED <<signing, cipher, result, owner, link, links, loggedIn>>
      PROVE  OfThisLink' /\ (links' <= 1 => FirstLink')
  <2>1. SaysLess([says |-> "irer"])
    BY <1>3 DEF SaysLess
  <2> QED BY <1>1, <1>3, <2>1, FrameTypes DEF OfThisLink
<1>4. ASSUME NEW c \in Calls, Connect(c) \/ Register(c)
      PROVE  OfThisLink' /\ (links' <= 1 => FirstLink')
  <2>1. PICK w \in {"login", "ready"} : Accept(c, w)
    BY <1>4 DEF Connect, Register
  <2>2. promise[c] = "pending"
    BY <2>1 DEF Accept, Awaiting
  <2>3. NothingBegins
    BY <2>1, <2>2, MoveGoing DEF Accept, keyVars
  <2> QED BY <1>2, <2>1, <2>3 DEF Accept
<1>5. ASSUME NEW c \in Calls, Refused(c) \/ IrerTimesOut(c) \/ ServerDeclines(c) \/ LinkFails(c)
      PROVE  OfThisLink' /\ (links' <= 1 => FirstLink')
  <2>1. pc' = [pc EXCEPT ![c] = "failed"] /\ UNCHANGED <<promise, flagVars, keyVars, deviceVars>>
    BY <1>5 DEF Refused, IrerTimesOut, ServerDeclines, LinkFails
  <2>2. NothingBegins
    BY <2>1, MoveGoing DEF keyVars
  <2> QED BY <1>2, <2>1, <2>2 DEF flagVars
<1>6. ASSUME NEW c \in Calls, Linked(c)
      PROVE  OfThisLink' /\ (links' <= 1 => FirstLink')
  <2> DEFINE p == IF promise[c] = "pending" THEN WaiterOf(c) ELSE GoesOn(WaiterOf(c), promise[c])
  <2>1. /\ pc[c] \in Linking /\ pc' = [pc EXCEPT ![c] = p] /\ link # 0
        /\ device' = Says(device, [says |-> "irer"]) \/ UNCHANGED device
        /\ UNCHANGED <<promise, flagVars, signing, cipher, result, link, links, owner>>
    BY <1>6 DEF Linked
  <2>2. promise[c] \in {"pending", "kept", "broken"}
    BY DEF TypeOK
  <2>3. /\ p \notin {"asks", "toRegister"}
        /\ p = "reads" => pc[c] = "toRegister" /\ promise[c] = "kept"
        /\ result[c] = None
    BY <2>1, <2>2 DEF WaiterOf, GoesOn, Linking, Awaiting
  <2> HIDE DEF p
  <2>4. NothingBegins
    BY <2>1, <2>3, MoveGoing DEF Going
  <2>5. SaysLess([says |-> "irer"])
    BY <2>1 DEF SaysLess
  <2> QED BY <1>1, <2>1, <2>4, <2>5, FrameTypes DEF flagVars
<1>7. ASSUME NEW c \in Calls, NEW w \in Waiters, TimerFires(c, w)
      PROVE  OfThisLink' /\ (links' <= 1 => FirstLink')
  <2>1. NothingBegins
    BY <1>7, SettleGoing DEF TimerFires, keyVars
  <2> QED BY <1>2, <1>7, <2>1 DEF TimerFires, flagVars
<1>8. CASE LinkUp
  <2> DEFINE f == [says |-> "initial", of |-> links + 1]
  <2>1. /\ link = 0 /\ link' = links + 1 /\ links' = links + 1 /\ device' = <<f>> /\ links \in Nat
        /\ f.says = "initial" /\ f.of = links + 1
        /\ UNCHANGED <<callVars, flagVars, keyVars, owner>>
    BY <1>8 DEF LinkUp, TypeOK
  <2> HIDE DEF f
  <2>2. Len(device') = 1 /\ device'[1] = f
    BY <2>1
  <2>3. OfThisLink'
    BY <2>1, <2>2 DEF OfThisLink
  <2>4. ASSUME links' <= 1 PROVE FirstLink'
    <3>1. links = 0 /\ FirstLink
      BY <2>1, <2>4
    <3>2. NoLogin /\ Going = {}
      BY <3>1 DEF FirstLink, Unheard
    <3>3. NoLogin' /\ Going' = {}
      BY <2>1, <2>2, <3>2 DEF NoLogin, Going, Has, callVars, flagVars, keyVars
    <3>4. \A c \in Calls : result'[c] = None
      BY <2>1, <3>1, <3>2 DEF FirstLink, NoLogin, keyVars
    <3> QED BY <3>3, <3>4 DEF FirstLink, NoLogin, CipherFits, EachKeyAgrees, Enrolled
  <2> QED BY <2>3, <2>4
<1>9. CASE HearBadInitial
  <2>1. NothingBegins
    BY <1>9, SettleWaitersGoing DEF HearBadInitial, Waiters, keyVars
  <2> QED BY <1>3, <1>9, <2>1 DEF HearBadInitial, flagVars, keyVars
<1>10. ASSUME NEW n \in signing, ServerSigns(n)
       PROVE  OfThisLink' /\ (links' <= 1 => FirstLink')
  <2> DEFINE f == [says |-> "login", of |-> LoginKey(n)]
  <2>1. /\ signing' \subseteq signing /\ device' = Says(device, f)
        /\ UNCHANGED <<callVars, flagVars, cipher, result, link, links, owner>>
    BY <1>10 DEF ServerSigns
  <2>2. n \in Nat
    BY DEF TypeOK
  <2>3. f \in Frames /\ f.says = "login"
    BY <2>2, KeyTypes, FrameTypes
  <2> HIDE DEF f
  <2>4. SaysLess(f)
    BY <2>1 DEF SaysLess
  <2>5. link = 0 => device' = <<>> /\ ~loggedIn'
    BY <2>1 DEF Says, OfThisLink, flagVars
  <2>6. OfThisLink'
    BY <2>1, <2>3, <2>4, <2>5, LinkKeeps
  <2>7. NothingBegins
    BY <2>1 DEF NothingBegins, Going, Enrolled, callVars
  <2>8. FirstLink => CipherFits' /\ EachKeyAgrees'
    BY <2>1, <2>7 DEF FirstLink, CipherFits, LoginKey, flagVars, NothingBegins, EachKeyAgrees
  <2>9. Has("initial")' => Has("initial")
    BY <2>3, <2>4, SaysLessFacts
  <2> QED BY <2>1, <2>6, <2>7, <2>8, <2>9, FirstKeeps DEF flagVars, NothingBegins
<1>11. ASSUME NEW n \in signing, ServerRefuses(n)
       PROVE  OfThisLink' /\ (links' <= 1 => FirstLink')
  <2>1. /\ SettleWaiters({"login"}, "broken") /\ signing' \subseteq signing
        /\ UNCHANGED <<flagVars, cipher, result, link, links, owner, device>>
    BY <1>11 DEF ServerRefuses, deviceVars
  <2>2. NothingBegins
    BY <2>1, SettleWaitersGoing DEF Waiters, keyVars
  <2>3. OfThisLink' /\ (FirstLink => CipherFits' /\ EachKeyAgrees')
    BY <2>1, <2>2 DEF OfThisLink, FirstLink, CipherFits, LoginKey, flagVars, NothingBegins, EachKeyAgrees
  <2>4. (Has("initial")' => Has("initial")) /\ (Has("login")' => Has("login"))
    BY <2>1 DEF Has
  <2> QED BY <2>1, <2>2, <2>3, <2>4, FirstKeeps DEF flagVars, NothingBegins
<1>12. CASE HearLogin
  <2> DEFINE accepted == Head(device).of = LoginKey(link)
  <2>1. /\ device # <<>> /\ device' = Tail(device) /\ device[1] = Head(device)
        /\ 1 \in 1 .. Len(device) /\ Head(device).says = "login"
        /\ SettleWaiters({"login"}, IF accepted THEN "kept" ELSE "broken")
        /\ loggedIn' = (loggedIn \/ (waiter["login"] # None /\ accepted))
        /\ UNCHANGED <<keyVars, link, links, owner>>
    BY <1>12 DEF HearLogin, TypeOK
  <2> HIDE DEF accepted
  <2>2. NothingBegins
    BY <2>1, SettleWaitersGoing DEF Waiters, keyVars
  <2>3. SaysLess([says |-> "irer"])
    BY <2>1 DEF SaysLess
  <2>4. OfThisLink'
    BY <2>1, <2>3, LinkKeeps, FrameTypes DEF OfThisLink
  <2>5. Has("login") /\ link # 0 /\ link = links /\ links \in Nat
    BY <2>1 DEF Has, OfThisLink, TypeOK
  <2>6. (Has("initial")' => Has("initial")) /\ (Has("login")' => Has("login"))
    BY <2>3, <2>5, SaysLessFacts, FrameTypes
  <2>7. FirstLink /\ links <= 1 => CipherFits' /\ EachKeyAgrees'
    <3>1. links <= 1 => link = 1
      BY <2>5
    <3> QED BY <2>1, <2>2, <2>5, <3>1 DEF FirstLink, CipherFits, LoginKey, keyVars, NothingBegins, EachKeyAgrees
  <2> QED BY <2>1, <2>2, <2>4, <2>5, <2>6, <2>7, FirstKeeps DEF keyVars, NothingBegins
<1>13. CASE HearIrer
  <2>1. /\ device # <<>> /\ device' = Tail(device)
        /\ UNCHANGED <<promise, flagVars, signing, cipher, result, link, links, owner>>
    BY <1>13 DEF HearIrer
  <2>2. NothingBegins
    <3>1. CASE \E c \in Calls : pc[c] = "reads"
      <4> DEFINE c == CHOOSE d \in Calls : pc[d] = "reads"
      <4>1. c \in Calls /\ pc[c] = "reads"
        BY <3>1
      <4>2. \E p \in {"asks", "failed"} : pc' = [pc EXCEPT ![c] = p]
        BY <1>13, <3>1 DEF HearIrer
      <4> HIDE DEF c
      <4> QED BY <2>1, <4>1, <4>2, MoveGoing DEF Going
    <3>2. CASE ~\E c \in Calls : pc[c] = "reads"
      BY <1>13, <2>1, <3>2 DEF HearIrer, NothingBegins, Going, Enrolled
    <3> QED BY <3>1, <3>2
  <2> QED BY <1>3, <2>1, <2>2 DEF flagVars
<1>14. CASE HearPublish
  <2>1. /\ device # <<>> /\ device' = Tail(device) /\ device[1] = Head(device)
        /\ 1 \in 1 .. Len(device) /\ Head(device).says = "publish"
        /\ UNCHANGED <<keyVars, link, links, owner>>
    BY <1>14 DEF HearPublish, TypeOK
  <2>2. Going' \subseteq Going
    <3>1. (\E w \in {"login", "register"} : SettleWaiters({w}, "kept")) \/ UNCHANGED callVars
      BY <1>14 DEF HearPublish
    <3> QED BY <2>1, <3>1, SettleWaitersGoing DEF Waiters, NothingBegins, Going, callVars, keyVars
  <2>3. SaysLess([says |-> "irer"])
    BY <2>1 DEF SaysLess
  <2>4. link # 0
    BY <2>1 DEF OfThisLink
  <2>5. OfThisLink'
    BY <2>1, <2>3, <2>4, LinkKeeps, FrameTypes
  <2>6. (Has("initial")' => Has("initial")) /\ (Has("login")' => Has("login"))
    BY <2>3, SaysLessFacts, FrameTypes
  <2>7. loggedIn' => loggedIn \/ Head(device).of = cipher
    BY <1>14 DEF HearPublish
  <2>8. Head(device).of # None /\ Head(device).of \in {LoginKey(link), owner}
    BY <2>1, HeadOfDevice DEF OfThisLink, NoneApart
  <2>9. FirstLink => CipherFits'
    BY <2>1, <2>7, <2>8 DEF FirstLink, CipherFits, LoginKey, keyVars
  <2>10. FirstLink => EachKeyAgrees'
    <3> SUFFICES ASSUME FirstLink, NEW c \in Calls, pc'[c] = "done", result[c] # None
                 PROVE  result[c] = owner
      BY <2>1 DEF EachKeyAgrees, Enrolled, keyVars
    <3>1. cipher = result[c] /\ result[c].st = c /\ c # None
      BY DEF FirstLink, NoneApart
    <3>2. result[c] # LoginKey(link)
      BY <3>1 DEF LoginKey
    <3>3. CASE Head(device).of = cipher
      BY <2>8, <3>1, <3>2, <3>3
    <3>4. CASE Head(device).of # cipher
      BY <1>14, <3>4 DEF HearPublish, callVars, FirstLink, EachKeyAgrees, Enrolled
    <3> QED BY <3>3, <3>4
  <2> QED BY <2>1, <2>2, <2>5, <2>6, <2>7, <2>8, <2>9, <2>10, FirstKeeps DEF keyVars, NothingBegins
<1>15. CASE Silent
  <2>1. NothingBegins
    BY <1>15 DEF Silent, NothingBegins, Going, Enrolled, callVars, keyVars
  <2> QED BY <1>3, <1>15, <2>1 DEF Silent, flagVars, keyVars
<1>16. CASE Lost
  <2> DEFINE failing == ({waiter[w] : w \in Waiters} \ {None}) \cup {c \in Calls : pc[c] = "reads"}
  <2>1. /\ failing \in SUBSET Calls /\ Settle(failing, "broken") /\ ~loggedIn' /\ link' = 0
        /\ device' = <<>> /\ UNCHANGED <<keyVars, links>>
    BY <1>16 DEF Lost, FailAllPending, TypeOK
  <2> HIDE DEF failing
  <2>2. NothingBegins
    BY <2>1, SettleGoing DEF keyVars
  <2>3. Len(device') = 0
    BY <2>1
  <2>4. FirstLink => EachKeyAgrees'
    <3>1. owner' = owner
      BY <1>16 DEF Lost
    <3> QED BY <2>1, <2>2, <3>1 DEF FirstLink, NothingBegins, EachKeyAgrees, keyVars
  <2>5. OfThisLink' /\ CipherFits' /\ ~Has("initial")' /\ ~Has("login")'
    BY <2>1, <2>3 DEF OfThisLink, CipherFits, Has
  <2> QED BY <2>1, <2>2, <2>4, <2>5, FirstKeeps DEF keyVars, NothingBegins
<1>17. CASE UNCHANGED vars
  <2>1. NothingBegins
    BY <1>17 DEF vars, callVars, keyVars, NothingBegins, Going, Enrolled
  <2> QED BY <1>2, <1>17, <2>1 DEF vars, flagVars
<1> QED
  BY <1>4, <1>5, <1>6, <1>7, <1>8, <1>9, <1>10, <1>11, <1>12, <1>13, <1>14, <1>15, <1>16, <1>17,
     InitialFirst, RegistersFirst DEF Next

(* Until the link is up for a second time, whatever calls overlap and      *)
(* whatever times out: a session that is logged in has the cipher that the *)
(* device uses, and each register() that returns gives the owner key by    *)
(* which the device is enrolled.                                           *)
THEOREM FirstLinkAgrees ==
  ASSUME NoneApart
  PROVE  Spec => [](links <= 1 => CipherFits /\ EachKeyAgrees)
<1>1. Init => SessionInv
  <2> SUFFICES ASSUME Init PROVE SessionInv
    OBVIOUS
  <2>1. TypeOK /\ Awaiting
    BY OwnerInvInit DEF OwnerInv
  <2>2. device = <<>> /\ Len(device) = 0 /\ links = 0 /\ link = 0 /\ Going = {} /\ NoLogin
        /\ \A c \in Calls : result[c] = None
    BY DEF Init, Going, NoLogin, Has
  <2> QED BY <2>1, <2>2 DEF SessionInv, OfThisLink, FirstLink, NoLogin, CipherFits, EachKeyAgrees,
                            Enrolled, Has
<1>2. SessionInv /\ [Next]_vars => SessionInv'
  BY TypeStep, AwaitingStep, SessionStep DEF SessionInv
<1>3. SessionInv => (links <= 1 => CipherFits /\ EachKeyAgrees)
  BY DEF SessionInv, FirstLink
<1> QED BY <1>1, <1>2, <1>3, PTL DEF Spec
=============================================================================
