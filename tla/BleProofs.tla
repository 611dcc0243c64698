----------------------------- MODULE BleProofs ------------------------------
(***************************************************************************)
(* One BLE session (BleSession), for any number of calls, requests, items  *)
(* and connections: its types, the requests that wait only on a live link  *)
(* (FailFast), the responses that meet their own requests (OwnResponse),   *)
(* the key of the first connection (KeyFitsConnection), and the first call *)
(* (AwaitedIsWaiter).  The frames under it (BleFrames), of any number and  *)
(* length: what arrives whole is read (WholeIsRead).  And the OS2 session  *)
(* that MCBleReuse puts beside it: what Os2Proofs has proved of it.        *)
(***************************************************************************)
EXTENDS MCBleReuse, BleFrames, SequenceFacts

-----------------------------------------------------------------------------
(* Frames.                                                                 *)

InitialOf(n)     == [says |-> "initial", of |-> n]
LoginOf(n)       == [says |-> "login", of |-> n]
Registration     == [says |-> "registration"]
ResponseTo(r, i) == [says |-> "response", to |-> r, item |-> i]

LEMMA FramesAre ==
  /\ \A n \in 1 .. MaxConns : InitialOf(n) \in Frames /\ LoginOf(n) \in Frames
  /\ Registration \in Frames
  /\ \A r \in Requests, i \in Items : ResponseTo(r, i) \in Frames
<1>1. \A n \in 1 .. MaxConns : /\ InitialOf(n) \in [says : {"initial", "login"}, of : 1..MaxConns]
                               /\ LoginOf(n) \in [says : {"initial", "login"}, of : 1..MaxConns]
  BY DEF InitialOf, LoginOf
<1>2. Registration \in [says : {"registration"}]
  BY DEF Registration
<1>3. \A r \in Requests, i \in Items :
        ResponseTo(r, i) \in [says : {"response"}, to : Requests, item : Items]
  BY DEF ResponseTo
<1> QED BY <1>1, <1>2, <1>3, Zenon DEF Frames

LEMMA FrameIs ==
  ASSUME NEW f \in Frames
  PROVE  /\ f.says \in {"initial", "login", "registration", "response"}
         /\ f.says = "initial" => f.of \in 1 .. MaxConns /\ f = InitialOf(f.of)
         /\ f.says = "login" => f.of \in 1 .. MaxConns /\ f = LoginOf(f.of)
         /\ f.says = "registration" => f = Registration
         /\ f.says = "response" => /\ f.to \in Requests /\ f.item \in Items
                                   /\ f = ResponseTo(f.to, f.item)
<1>1. CASE f \in [says : {"initial", "login"}, of : 1..MaxConns]
  BY <1>1 DEF InitialOf, LoginOf
<1>2. CASE f \in [says : {"registration"}]
  BY <1>2 DEF Registration
<1>3. CASE f \in [says : {"response"}, to : Requests, item : Items]
  BY <1>3 DEF ResponseTo
<1> QED BY <1>1, <1>2, <1>3 DEF Frames

LEMMA FramesDiffer ==
  /\ \A n, m : InitialOf(n) # LoginOf(m) /\ (LoginOf(n) = LoginOf(m) => n = m)
  /\ \A n : InitialOf(n) # Registration /\ LoginOf(n) # Registration
  /\ \A r, i : /\ ResponseTo(r, i) # Registration
               /\ \A n : ResponseTo(r, i) # InitialOf(n) /\ ResponseTo(r, i) # LoginOf(n)
               /\ \A s, j : ResponseTo(r, i) = ResponseTo(s, j) => r = s /\ i = j
<1>1. /\ \A n : InitialOf(n).says = "initial" /\ LoginOf(n).says = "login" /\ LoginOf(n).of = n
      /\ Registration.says = "registration"
      /\ \A r, i : ResponseTo(r, i).says = "response" /\ ResponseTo(r, i).to = r
                   /\ ResponseTo(r, i).item = i
  BY DEF InitialOf, LoginOf, Registration, ResponseTo
<1>2. \A n, m : LoginOf(n) = LoginOf(m) => n = m
  BY <1>1
<1>3. \A r, i, s, j : ResponseTo(r, i) = ResponseTo(s, j) => r = s /\ i = j
  BY <1>1
<1>4. /\ \A n, m : InitialOf(n) # LoginOf(m)
      /\ \A n : InitialOf(n) # Registration /\ LoginOf(n) # Registration
  BY <1>1
<1>5. \A r, i : /\ ResponseTo(r, i) # Registration
                /\ \A n : ResponseTo(r, i) # InitialOf(n) /\ ResponseTo(r, i) # LoginOf(n)
  BY <1>1
<1> QED BY <1>2, <1>3, <1>4, <1>5

-----------------------------------------------------------------------------
(* Types.                                                                  *)

(* TypeOK in three parts: the calls, the flags, and the rest with what it  *)
(* says of the queues, which are sequences.                                *)
CallsOK ==
  /\ pc \in [Calls -> Places]
  /\ promise \in [Calls -> {"pending", "kept", "broken"}]
  /\ waiter \in [Waiters -> Calls \cup {None}] /\ timers \in [Waiters -> SUBSET Calls]
  /\ attached \subseteq Calls

FlagsOK ==
  /\ secret \in BOOLEAN /\ signLogin \in BOOLEAN /\ loggedIn \in BOOLEAN /\ ready \in BOOLEAN
  /\ dropped \in BOOLEAN /\ stuck \in BOOLEAN /\ link \in BOOLEAN

DataOK ==
  /\ signing \subseteq 1 .. MaxConns /\ token \in 0 .. MaxConns /\ key \in 0 .. MaxConns
  /\ conns \in 0 .. MaxConns /\ serverSecret \in [Calls -> 0 .. MaxConns]
  /\ pending \in [Items -> Seq(Requests)]
  /\ request \in [Requests -> {"idle", "waiting", "answered", "failed"}]
  /\ crossed \subseteq Items /\ astray \subseteq Items
  /\ device \in Seq(Frames)
  /\ ~link => device = <<>> /\ attached = {}

BleInv0 == CallsOK /\ FlagsOK /\ DataOK

LEMMA TypesImply == BleInv0 => TypeOK
<1> SUFFICES ASSUME BleInv0 PROVE TypeOK
  OBVIOUS
<1>1. {secret, signLogin, loggedIn, ready, dropped, stuck, link} \subseteq BOOLEAN
  BY DEF BleInv0, FlagsOK
<1>2. /\ DOMAIN pending = Items
      /\ \A i \in Items : Range(pending[i]) \subseteq Requests
  BY DEF BleInv0, DataOK, Range
<1>3. Range(device) \subseteq Frames
  BY DEF BleInv0, DataOK, Range
<1>4. {token, key, conns} \subseteq 0 .. MaxConns
  BY DEF BleInv0, DataOK
<1> QED BY <1>1, <1>2, <1>3, <1>4 DEF BleInv0, CallsOK, DataOK, TypeOK

LEMMA InitTypes == Init => BleInv0
<1> SUFFICES ASSUME Init PROVE BleInv0
  OBVIOUS
<1>1. CallsOK
  BY DEF Init, CallsOK, Places
<1>2. FlagsOK
  BY DEF Init, FlagsOK
<1>3. DataOK
  <2>1. <<>> \in Seq(Requests) /\ <<>> \in Seq(Frames)
    OBVIOUS
  <2> QED BY <2>1, ConnsAssumption DEF Init, DataOK
<1> QED BY <1>1, <1>2, <1>3 DEF BleInv0

(* What settling promises makes of the calls.                              *)
LEMMA GoesOnType ==
  ASSUME NEW p \in Places, NEW o \in {"kept", "broken"}
  PROVE  GoesOn(p, o) \in Places
BY DEF GoesOn, Places, Linking

LEMMA SettleTypes ==
  ASSUME CallsOK, NEW cs, NEW o \in {"kept", "broken"}, Settle(cs, o)
  PROVE  pc' \in [Calls -> Places] /\ promise' \in [Calls -> {"pending", "kept", "broken"}]
<1>1. \A c \in Calls : (IF c \in cs THEN GoesOn(pc[c], o) ELSE pc[c]) \in Places
  BY GoesOnType DEF CallsOK
<1>2. \A c \in Calls : (IF c \in cs THEN o ELSE promise[c]) \in {"pending", "kept", "broken"}
  BY DEF CallsOK
<1> QED BY <1>1, <1>2 DEF Settle

LEMMA SettleWaitersTypes ==
  ASSUME CallsOK, NEW ws \in SUBSET Waiters, NEW o \in {"kept", "broken"}, SettleWaiters(ws, o),
         attached' \subseteq Calls
  PROVE  CallsOK'
<1>1. pc' \in [Calls -> Places] /\ promise' \in [Calls -> {"pending", "kept", "broken"}]
  BY SettleTypes DEF SettleWaiters
<1>2. waiter' \in [Waiters -> Calls \cup {None}]
  BY DEF SettleWaiters, CallsOK
<1>3. timers' \in [Waiters -> SUBSET Calls]
  <2>1. \A w \in Waiters : (IF w \in ws THEN timers[w] \ {waiter[w]} ELSE timers[w]) \in SUBSET Calls
    BY DEF CallsOK
  <2> QED BY <2>1 DEF SettleWaiters
<1> QED BY <1>1, <1>2, <1>3 DEF CallsOK

(* A frame that is written is the device's last, or is not there.          *)
LEMMA WrittenIs ==
  ASSUME NEW s \in Seq(Frames), NEW f \in Frames
  PROVE  Written(s, f) \in Seq(Frames)
BY DEF Written

(* Who the head is.                                                        *)
LEMMA DeviceHead ==
  ASSUME DataOK, device # <<>>
  PROVE  Head(device) \in Frames /\ Tail(device) \in Seq(Frames) /\ link
<1>1. device \in Seq(Frames) /\ (~link => device = <<>>)
  BY DEF DataOK
<1> QED BY <1>1, TailFacts

LEMMA CallsTypes ==
  ASSUME BleInv0, [Next]_vars
  PROVE  CallsOK'
<1> USE DEF BleInv0
<1>1. ASSUME NEW c \in Calls, NEW w \in {"login", "ready"}, Accept(c, w) PROVE CallsOK'
  BY <1>1 DEF Accept, CallsOK, Places, Waiters
<1>2. ASSUME NEW c \in Calls, Refused(c) PROVE CallsOK'
  BY <1>2 DEF Refused, CallsOK, Places, linkVars
<1>3. ASSUME NEW c \in Calls, Linked(c) PROVE CallsOK'
  <2>1. pc'[c] \in Places /\ pc' = [pc EXCEPT ![c] = pc'[c]]
    <3>1. \A o \in {"kept", "broken"} : GoesOn(WaiterOf(c), o) \in Places /\ WaiterOf(c) \in Places
      BY GoesOnType DEF WaiterOf, Places
    <3>2. (IF promise[c] = "pending" THEN WaiterOf(c) ELSE GoesOn(WaiterOf(c), promise[c])) \in Places
      BY <3>1 DEF CallsOK
    <3> QED BY <1>3, <3>2 DEF Linked, CallsOK
  <2> QED BY <1>3, <2>1 DEF Linked, CallsOK
<1>4. ASSUME NEW c \in Calls, LinkFails(c) PROVE CallsOK'
  <2>1. WaiterOf(c) \in Waiters
    BY DEF WaiterOf, Waiters
  <2> QED BY <1>4, <2>1 DEF LinkFails, CallsOK, Places
<1>5. ASSUME NEW c \in Calls, Enrolled(c) PROVE CallsOK'
  BY <1>5 DEF Enrolled, CallsOK, Places, Waiters
<1>6. CASE LinkUp
  BY <1>6 DEF LinkUp, CallsOK, callVars
<1>7. ASSUME NEW c \in Calls, NEW w \in Waiters, WaiterTimesOut(c, w) PROVE CallsOK'
  <2>1. pc' \in [Calls -> Places] /\ promise' \in [Calls -> {"pending", "kept", "broken"}]
    BY <1>7, SettleTypes DEF WaiterTimesOut
  <2> QED BY <1>7, <2>1 DEF WaiterTimesOut, CallsOK, linkVars
<1>8. ASSUME NEW ws \in SUBSET Waiters, NEW o \in {"kept", "broken"}, SettleWaiters(ws, o), UNCHANGED attached
      PROVE  CallsOK'
  BY <1>8, SettleWaitersTypes DEF CallsOK
<1>9. ASSUME UNCHANGED callVars, attached' \subseteq Calls PROVE CallsOK'
  BY <1>9 DEF callVars, CallsOK
<1>10. ASSUME HandleDisconnect \/ FailAllPending, attached' \in {attached, {}} PROVE CallsOK'
  <2>1. CASE FailAllPending
    BY <1>10, <2>1, SettleWaitersTypes DEF FailAllPending, CallsOK
  <2> QED BY <1>9, <1>10, <2>1 DEF HandleDisconnect, CallsOK
<1>11. CASE HearInitial
  BY <1>8, <1>9, <1>11 DEF HearInitial, Waiters, CallsOK
<1>12. CASE HearBadInitial
  BY <1>8, <1>12 DEF HearBadInitial, Waiters
<1>13. CASE HearLogin
  BY <1>8, <1>13 DEF HearLogin, Waiters
<1>14. CASE HearRegistration
  BY <1>8, <1>14 DEF HearRegistration, Waiters
<1>15. ASSUME NEW n \in signing, ServerSigns(n) \/ ServerRefuses(n) PROVE CallsOK'
  BY <1>8, <1>9, <1>15 DEF ServerSigns, ServerRefuses, Waiters, CallsOK, linkVars
<1>16. ASSUME HearResponse \/ Silent \/ UNCHANGED vars
              \/ \E r \in Requests : RequestTimesOut(r) \/ \E i \in Items : Request(r, i)
       PROVE  CallsOK'
  BY <1>9, <1>16 DEF HearResponse, Silent, RequestTimesOut, Request, vars, linkVars, CallsOK
<1>17. CASE Lost \/ WriteFails \/ Disconnect
  BY <1>10, <1>17 DEF Lost, WriteFails, Disconnect
<1>18. ASSUME NEW c \in Calls, Connect(c) \/ Register(c) PROVE CallsOK'
  BY <1>1, <1>18 DEF Connect, Register
<1> QED BY <1>2, <1>3, <1>4, <1>5, <1>6, <1>7, <1>11, <1>12, <1>13, <1>14, <1>15, <1>16, <1>17, <1>18
     DEF Next

LEMMA FlagsTypes ==
  ASSUME FlagsOK, [Next]_vars
  PROVE  FlagsOK'
<1>1. ASSUME NEW c \in Calls, Connect(c) \/ Register(c) \/ Refused(c) \/ Linked(c) \/ LinkFails(c)
      PROVE  FlagsOK'
  BY <1>1 DEF Connect, Register, Refused, Linked, LinkFails, Accept, FlagsOK, stateVars, linkVars
<1>2. ASSUME ChainAfterWrite PROVE stuck' \in BOOLEAN
  BY <1>2 DEF ChainAfterWrite
<1>3. ASSUME NEW c \in Calls, Enrolled(c) PROVE FlagsOK'
  BY <1>2, <1>3 DEF Enrolled, FlagsOK, stateVars
<1>4. CASE LinkUp
  BY <1>4 DEF LinkUp, FlagsOK, stateVars
<1>5. ASSUME NEW c \in Calls, NEW w \in Waiters, WaiterTimesOut(c, w) PROVE FlagsOK'
  BY <1>5 DEF WaiterTimesOut, FlagsOK, stateVars, linkVars
<1>6. CASE HearInitial
  <2>1. stuck' \in BOOLEAN
    BY <1>2, <1>6 DEF HearInitial, FlagsOK
  <2>2. ready' \in BOOLEAN
    BY <1>6 DEF HearInitial, FlagsOK
  <2> QED BY <1>6, <2>1, <2>2 DEF HearInitial, FlagsOK
<1>7. CASE HearBadInitial
  BY <1>7 DEF HearBadInitial, FlagsOK, stateVars
<1>8. CASE HearLogin
  <2>1. loggedIn' \in BOOLEAN
    BY <1>8 DEF HearLogin
  <2> QED BY <1>8, <2>1 DEF HearLogin, FlagsOK
<1>9. CASE HearRegistration
  <2>1. secret' \in BOOLEAN /\ loggedIn' \in BOOLEAN /\ ready' \in BOOLEAN
    BY <1>9 DEF HearRegistration, FlagsOK, stateVars
  <2> QED BY <1>9, <2>1 DEF HearRegistration, FlagsOK
<1>10. ASSUME NEW n \in signing, ServerSigns(n) \/ ServerRefuses(n) PROVE FlagsOK'
  BY <1>2, <1>10 DEF ServerSigns, ServerRefuses, FlagsOK, stateVars, linkVars
<1>11. ASSUME NEW r \in Requests, NEW i \in Items, Request(r, i) PROVE FlagsOK'
  <2>1. stuck' \in BOOLEAN
    BY <1>2, <1>11 DEF Request, FlagsOK
  <2> QED BY <1>11, <2>1 DEF Request, FlagsOK, stateVars
<1>12. ASSUME HearResponse \/ Silent \/ UNCHANGED vars \/ \E r \in Requests : RequestTimesOut(r)
       PROVE  FlagsOK'
  BY <1>12 DEF HearResponse, Silent, RequestTimesOut, vars, linkVars, stateVars, FlagsOK
<1>13. CASE Lost \/ WriteFails \/ Disconnect
  <2>1. /\ loggedIn' \in BOOLEAN /\ ready' \in BOOLEAN /\ signLogin' \in BOOLEAN
        /\ dropped' \in BOOLEAN
    BY <1>13 DEF Lost, WriteFails, Disconnect, HandleDisconnect, FailAllPending, FlagsOK, stateVars
  <2>2. stuck' \in BOOLEAN /\ link' \in BOOLEAN /\ secret' \in BOOLEAN
    BY <1>13 DEF Lost, WriteFails, Disconnect, FlagsOK
  <2> QED BY <2>1, <2>2 DEF FlagsOK
<1> QED BY <1>1, <1>3, <1>4, <1>5, <1>6, <1>7, <1>8, <1>9, <1>10, <1>11, <1>12, <1>13 DEF Next

LEMMA HeadIs ==
  ASSUME DataOK, device # <<>>
  PROVE  /\ Head(device) \in Frames /\ Tail(device) \in Seq(Frames) /\ link
         /\ Head(device).says = "initial" => Head(device).of \in 1 .. MaxConns
         /\ Head(device).says = "response" => Head(device).item \in Items
BY DeviceHead, FrameIs

(* The device says what it has said, or a frame more.                      *)
LEMMA DeviceTypes ==
  ASSUME BleInv0, [Next]_vars
  PROVE  device' \in Seq(Frames) /\ (~link' => device' = <<>> /\ attached' = {})
<1> USE DEF BleInv0
<1>1. /\ device \in Seq(Frames) /\ (~link => device = <<>> /\ attached = {})
      /\ signing \subseteq 1 .. MaxConns /\ <<>> \in Seq(Frames)
  BY DEF DataOK
<1>2. ASSUME UNCHANGED <<device, link, attached>>
      PROVE  device' \in Seq(Frames) /\ (~link' => device' = <<>> /\ attached' = {})
  BY <1>1, <1>2
<1>3. ASSUME device # <<>>, device' \in Seq(Frames), link' = link
      PROVE  device' \in Seq(Frames) /\ (~link' => device' = <<>> /\ attached' = {})
  BY <1>1, <1>3
<1>4. ASSUME NEW f \in Frames, device' = Written(device, f), UNCHANGED <<link, attached>>
      PROVE  device' \in Seq(Frames) /\ (~link' => device' = <<>> /\ attached' = {})
  BY <1>1, <1>4, WrittenIs DEF Written, Writable
<1>5. ASSUME NEW c \in Calls, Connect(c) \/ Register(c) \/ Refused(c)
      PROVE  device' \in Seq(Frames) /\ (~link' => device' = <<>> /\ attached' = {})
  BY <1>2, <1>5 DEF Connect, Register, Refused, Accept, linkVars
<1>6. ASSUME NEW c \in Calls, Linked(c) \/ LinkFails(c)
      PROVE  device' \in Seq(Frames) /\ (~link' => device' = <<>> /\ attached' = {})
  <2>1. UNCHANGED <<device, link>> /\ attached' \subseteq attached
    BY <1>6 DEF Linked, LinkFails
  <2> QED BY <1>1, <2>1
<1>7. ASSUME NEW c \in Calls, Enrolled(c)
      PROVE  device' \in Seq(Frames) /\ (~link' => device' = <<>> /\ attached' = {})
  <2>1. device' = Written(device, Registration) /\ UNCHANGED <<link, attached>>
    BY <1>7 DEF Enrolled, Registration
  <2> QED BY <1>4, <2>1, FramesAre
<1>8. CASE LinkUp
  <2>1. conns + 1 \in 1 .. MaxConns
    <3>1. conns \in 0 .. MaxConns /\ conns < MaxConns
      BY <1>8 DEF LinkUp, DataOK
    <3> QED BY <3>1, ConnsAssumption
  <2>2. device' = <<InitialOf(conns + 1)>> /\ link'
    BY <1>8 DEF LinkUp, InitialOf
  <2>3. InitialOf(conns + 1) \in Frames
    BY <2>1, FramesAre
  <2> QED BY <2>2, <2>3
<1>9. ASSUME NEW c \in Calls, NEW w \in Waiters, WaiterTimesOut(c, w)
      PROVE  device' \in Seq(Frames) /\ (~link' => device' = <<>> /\ attached' = {})
  BY <1>2, <1>9 DEF WaiterTimesOut, linkVars
<1>10. CASE HearInitial
  <2>1. /\ device # <<>> /\ link' = link /\ Tail(device) \in Seq(Frames)
        /\ LoginOf(Head(device).of) \in Frames
        /\ device' \in {Tail(device), Written(Tail(device), LoginOf(Head(device).of))}
    BY <1>10, HeadIs, FramesAre DEF HearInitial, LoginOf
  <2> QED BY <1>3, <2>1, WrittenIs
<1>11. ASSUME device # <<>>, device' = Tail(device), link' = link
       PROVE  device' \in Seq(Frames) /\ (~link' => device' = <<>> /\ attached' = {})
  BY <1>3, <1>11, HeadIs
<1>12. CASE HearBadInitial \/ HearLogin \/ HearRegistration \/ HearResponse \/ Silent
  BY <1>11, <1>12 DEF HearBadInitial, HearLogin, HearRegistration, HearResponse, Silent
<1>13. ASSUME NEW n \in signing, ServerSigns(n) \/ ServerRefuses(n)
       PROVE  device' \in Seq(Frames) /\ (~link' => device' = <<>> /\ attached' = {})
  BY <1>1, <1>2, <1>4, <1>13, FramesAre DEF ServerSigns, ServerRefuses, linkVars, LoginOf
<1>14. ASSUME NEW r \in Requests, RequestTimesOut(r)
       PROVE  device' \in Seq(Frames) /\ (~link' => device' = <<>> /\ attached' = {})
  BY <1>2, <1>14 DEF RequestTimesOut, linkVars
<1>15. ASSUME NEW r \in Requests, NEW i \in Items, Request(r, i)
       PROVE  device' \in Seq(Frames) /\ (~link' => device' = <<>> /\ attached' = {})
  <2>1. ResponseTo(r, i) \in Frames
    BY FramesAre
  <2>2. /\ UNCHANGED <<link, attached>>
        /\ device' = device \/ device' = Written(device, ResponseTo(r, i))
    BY <1>15 DEF Request, ResponseTo
  <2> QED BY <1>2, <1>4, <2>1, <2>2
<1>16. CASE Lost \/ Disconnect
  BY <1>1, <1>16 DEF Lost, Disconnect
<1>17. CASE WriteFails
  <2>1. PICK k \in 0 .. (Len(device) - 1) : device' = SubSeq(device, 1, k)
    BY <1>17 DEF WriteFails
  <2>2. link /\ link' = link /\ Len(device) \in Nat
    BY <1>1, <1>17 DEF WriteFails, Writable
  <2>3. SubSeq(device, 1, k) \in Seq(Frames)
    BY <1>1, <2>2, PartFacts
  <2> QED BY <2>1, <2>2, <2>3
<1>18. CASE UNCHANGED vars
  BY <1>2, <1>18 DEF vars, linkVars
<1> QED BY <1>5, <1>6, <1>7, <1>8, <1>9, <1>10, <1>12, <1>13, <1>14, <1>15, <1>16, <1>17, <1>18
     DEF Next

LEMMA KeyTypes ==
  ASSUME BleInv0, [Next]_vars
  PROVE  /\ signing' \subseteq 1 .. MaxConns /\ token' \in 0 .. MaxConns /\ key' \in 0 .. MaxConns
         /\ conns' \in 0 .. MaxConns /\ serverSecret' \in [Calls -> 0 .. MaxConns]
<1> DEFINE Typed == /\ signing' \subseteq 1 .. MaxConns /\ token' \in 0 .. MaxConns
                    /\ key' \in 0 .. MaxConns /\ conns' \in 0 .. MaxConns
                    /\ serverSecret' \in [Calls -> 0 .. MaxConns]
<1> SUFFICES Typed
  OBVIOUS
<1> USE DEF BleInv0
<1>1. /\ signing \subseteq 1 .. MaxConns /\ token \in 0 .. MaxConns /\ key \in 0 .. MaxConns
      /\ conns \in 0 .. MaxConns /\ serverSecret \in [Calls -> 0 .. MaxConns]
      /\ 1 .. MaxConns \subseteq 0 .. MaxConns /\ MaxConns \in Nat
  BY ConnsAssumption DEF DataOK
<1>2. ASSUME UNCHANGED <<keyVars, conns>> PROVE Typed
  BY <1>1, <1>2 DEF keyVars
<1>3. ASSUME NEW c \in Calls, Linked(c) PROVE Typed
  BY <1>1, <1>3 DEF Linked
<1>4. CASE LinkUp
  <2>1. conns < MaxConns /\ conns' = conns + 1 /\ UNCHANGED keyVars
    BY <1>4 DEF LinkUp
  <2>2. conns' \in 0 .. MaxConns
    BY <1>1, <2>1
  <2> QED BY <1>1, <2>1, <2>2 DEF keyVars
<1>5. CASE HearInitial
  <2> DEFINE n == Head(device).of
  <2>1. n \in 1 .. MaxConns
    BY <1>5, HeadIs DEF HearInitial
  <2>2. /\ token' = n /\ conns' = conns /\ signing' \in {signing, signing \cup {n}} /\ key' \in {key, n}
    BY <1>5 DEF HearInitial
  <2>3. \/ serverSecret' = serverSecret
        \/ serverSecret' = [c \in Calls |-> IF c = waiter["ready"] THEN n ELSE serverSecret[c]]
    BY <1>5 DEF HearInitial
  <2> HIDE DEF n
  <2>4. serverSecret' \in [Calls -> 0 .. MaxConns]
    BY <1>1, <2>1, <2>3
  <2> QED BY <1>1, <2>1, <2>2, <2>4
<1>6. CASE HearRegistration
  <2>1. key' = key \/ (waiter["register"] # None /\ key' = serverSecret[waiter["register"]])
    BY <1>6 DEF HearRegistration
  <2>2. waiter["register"] # None => waiter["register"] \in Calls
    BY DEF CallsOK, Waiters
  <2>3. key' \in 0 .. MaxConns
    BY <1>1, <2>1, <2>2
  <2> QED BY <1>1, <1>6, <2>3 DEF HearRegistration
<1>7. ASSUME NEW n \in signing, ServerSigns(n) \/ ServerRefuses(n) PROVE Typed
  BY <1>1, <1>7 DEF ServerSigns, ServerRefuses, linkVars
<1>8. ASSUME NEW c \in Calls, Connect(c) \/ Register(c) \/ Refused(c) \/ LinkFails(c) \/ Enrolled(c)
      PROVE  Typed
  BY <1>2, <1>8 DEF Connect, Register, Refused, Accept, LinkFails, Enrolled, linkVars
<1>9. ASSUME NEW c \in Calls, NEW w \in Waiters, WaiterTimesOut(c, w) PROVE Typed
  BY <1>2, <1>9 DEF WaiterTimesOut, linkVars
<1>10. CASE HearBadInitial \/ HearLogin \/ HearResponse \/ Silent
  BY <1>2, <1>10 DEF HearBadInitial, HearLogin, HearResponse, Silent
<1>11. ASSUME NEW r \in Requests, RequestTimesOut(r) \/ \E i \in Items : Request(r, i) PROVE Typed
  BY <1>2, <1>11 DEF RequestTimesOut, Request, linkVars
<1>12. CASE Lost \/ WriteFails \/ Disconnect
  BY <1>2, <1>12 DEF Lost, WriteFails, Disconnect
<1>13. CASE UNCHANGED vars
  BY <1>2, <1>13 DEF vars, linkVars
<1> QED BY <1>3, <1>4, <1>5, <1>6, <1>7, <1>8, <1>9, <1>10, <1>11, <1>12, <1>13 DEF Next

LEMMA RequestTypes ==
  ASSUME BleInv0, [Next]_vars
  PROVE  /\ pending' \in [Items -> Seq(Requests)]
         /\ request' \in [Requests -> {"idle", "waiting", "answered", "failed"}]
         /\ crossed' \subseteq Items /\ astray' \subseteq Items
<1> DEFINE Typed == /\ pending' \in [Items -> Seq(Requests)]
                    /\ request' \in [Requests -> {"idle", "waiting", "answered", "failed"}]
                    /\ crossed' \subseteq Items /\ astray' \subseteq Items
<1> SUFFICES Typed
  OBVIOUS
<1> USE DEF BleInv0
<1>1. /\ pending \in [Items -> Seq(Requests)]
      /\ request \in [Requests -> {"idle", "waiting", "answered", "failed"}]
      /\ crossed \subseteq Items /\ astray \subseteq Items
  BY DEF DataOK
<1>2. ASSUME UNCHANGED requestVars PROVE Typed
  BY <1>1, <1>2 DEF requestVars
<1>3. CASE HearResponse
  <2> DEFINE i == Head(device).item
  <2>1. i \in Items /\ pending[i] \in Seq(Requests)
    BY <1>1, <1>3, HeadIs DEF HearResponse
  <2>2. CASE pending[i] = <<>>
    BY <1>2, <1>3, <2>2 DEF HearResponse
  <2>3. CASE pending[i] # <<>>
    <3>1. Head(pending[i]) \in Requests /\ Tail(pending[i]) \in Seq(Requests)
      BY <2>1, <2>3, TailFacts
    <3>2. /\ pending' = [pending EXCEPT ![i] = Tail(@)] /\ astray' = astray
          /\ crossed' \subseteq crossed \cup {i}
          /\ \E o \in {"answered", "failed"} : request' = [request EXCEPT ![Head(pending[i])] = o]
      BY <1>3, <2>3 DEF HearResponse
    <3> HIDE DEF i
    <3>3. pending' \in [Items -> Seq(Requests)]
      BY <1>1, <2>1, <3>1, <3>2
    <3>4. request' \in [Requests -> {"idle", "waiting", "answered", "failed"}]
      BY <1>1, <3>1, <3>2
    <3> QED BY <1>1, <2>1, <3>2, <3>3, <3>4
  <2> QED BY <2>2, <2>3
<1>4. ASSUME NEW r \in Requests, RequestTimesOut(r) PROVE Typed
  <2>1. PICK i \in Items : \E j \in 1 .. Len(pending[i]) :
          /\ pending' = Dequeued(i, j) /\ astray' = astray \cup {i}
    BY <1>4 DEF RequestTimesOut
  <2>2. PICK j \in 1 .. Len(pending[i]) : pending' = Dequeued(i, j)
    BY <2>1
  <2>3. RemoveAt(pending[i], j) \in Seq(Requests)
    BY <1>1, RemoveAtFacts
  <2>4. pending' \in [Items -> Seq(Requests)]
    BY <1>1, <2>2, <2>3 DEF Dequeued
  <2> QED BY <1>1, <1>4, <2>1, <2>4 DEF RequestTimesOut
<1>5. ASSUME NEW r \in Requests, NEW i \in Items, Request(r, i) PROVE Typed
  <2>1. pending' = pending \/ pending' = [pending EXCEPT ![i] = Append(@, r)]
    BY <1>5 DEF Request
  <2>2. Append(pending[i], r) \in Seq(Requests)
    BY <1>1
  <2>3. pending' \in [Items -> Seq(Requests)]
    BY <1>1, <2>1, <2>2
  <2>4. /\ request' \in [Requests -> {"idle", "waiting", "answered", "failed"}]
        /\ crossed' = crossed /\ astray' \in {astray, astray \cup {i}}
    BY <1>1, <1>5 DEF Request
  <2> QED BY <1>1, <2>3, <2>4
<1>6. ASSUME FailAllPending \/ HandleDisconnect PROVE Typed
  <2>1. CASE FailAllPending
    <3>1. <<>> \in Seq(Requests)
      OBVIOUS
    <3>2. \A r \in Requests : (IF r \in Waiting THEN "failed" ELSE request[r])
                                 \in {"idle", "waiting", "answered", "failed"}
      BY <1>1
    <3> QED BY <1>1, <2>1, <3>1, <3>2 DEF FailAllPending
  <2> QED BY <1>2, <1>6, <2>1 DEF HandleDisconnect
<1>7. CASE Lost \/ WriteFails \/ Disconnect
  BY <1>6, <1>7 DEF Lost, WriteFails, Disconnect
<1>8. ASSUME NEW c \in Calls, \/ Connect(c) \/ Register(c) \/ Refused(c)
                              \/ Linked(c) \/ LinkFails(c) \/ Enrolled(c)
      PROVE  Typed
  BY <1>2, <1>8 DEF Connect, Register, Refused, Accept, Linked, LinkFails, Enrolled
<1>9. ASSUME NEW c \in Calls, NEW w \in Waiters, WaiterTimesOut(c, w) PROVE Typed
  BY <1>2, <1>9 DEF WaiterTimesOut
<1>10. CASE LinkUp \/ HearInitial \/ HearBadInitial \/ HearLogin \/ HearRegistration
  BY <1>2, <1>10 DEF LinkUp, HearInitial, HearBadInitial, HearLogin, HearRegistration
<1>11. ASSUME NEW n \in signing, ServerSigns(n) \/ ServerRefuses(n) PROVE Typed
  BY <1>2, <1>11 DEF ServerSigns, ServerRefuses
<1>12. CASE Silent
  <2>1. astray' \subseteq Items /\ UNCHANGED <<pending, request, crossed>>
    BY <1>1, <1>12 DEF Silent
  <2> QED BY <1>1, <2>1
<1>13. CASE UNCHANGED vars
  BY <1>2, <1>13 DEF vars
<1> QED BY <1>3, <1>4, <1>5, <1>7, <1>8, <1>9, <1>10, <1>11, <1>12, <1>13 DEF Next

LEMMA StepTypes == BleInv0 /\ [Next]_vars => BleInv0'
<1> SUFFICES ASSUME BleInv0, [Next]_vars PROVE BleInv0'
  OBVIOUS
<1>1. CallsOK' /\ FlagsOK'
  BY CallsTypes, FlagsTypes DEF BleInv0
<1>2. DataOK'
  BY DeviceTypes, KeyTypes, RequestTypes DEF DataOK
<1> QED BY <1>1, <1>2 DEF BleInv0

(* Whatever the link, the timers, the server and the device do, a session  *)
(* (SesameBleSession of session.js) is in a state of its type, and where   *)
(* there is no link nothing is under way.                                  *)
THEOREM BleTypeCorrect == Spec => []TypeOK
BY InitTypes, StepTypes, TypesImply, PTL DEF Spec

-----------------------------------------------------------------------------
(* Registrations.  A call of register() is past its enrolment once its     *)
(* REGISTRATION is written; it then has a serverSecret for good.           *)

Past(c) == serverSecret[c] # 0 /\ pc[c] \in {"register", "done", "failed"}

OnePast == \E c \in Calls : Past(c)
TwoPast == \E c, d \in Calls : c # d /\ Past(c) /\ Past(d)

(* Whoever is waited for has come that far. *)
Role(c) ==
  /\ waiter["login"] = c => pc[c] \in {"toLogin", "login", "done", "failed"}
  /\ waiter["register"] = c => Past(c)
  /\ pc[c] = "enrol" \/ (pc[c] = "toRegister" /\ promise[c] = "kept") => serverSecret[c] # 0
  /\ pc[c] = "idle" => promise[c] # "kept"

Roles == /\ \A c \in Calls : Role(c)
         /\ token = 0 => \A c \in Calls : serverSecret[c] = 0

LEMMA GoesOnWhere ==
  ASSUME NEW p \in Places, NEW o \in {"kept", "broken"}
  PROVE  \/ GoesOn(p, o) = p /\ p \in {"toLogin", "toRegister"}
         \/ GoesOn(p, o) \in {"done", "failed"}
         \/ p = "ready" /\ o = "kept" /\ GoesOn(p, o) = "enrol"
<1>1. CASE p \in {"toLogin", "toRegister"}
  BY <1>1 DEF GoesOn, Linking
<1>2. CASE p \notin {"toLogin", "toRegister"} /\ o = "broken"
  BY <1>2 DEF GoesOn, Linking
<1>3. CASE p \notin {"toLogin", "toRegister"} /\ o = "kept"
  BY <1>3 DEF GoesOn, Linking
<1> QED BY <1>1, <1>2, <1>3

(* What settling leaves as it was. *)
LEMMA SettledRoles ==
  ASSUME BleInv0, Roles, NEW cs, NEW o \in {"kept", "broken"}, Settle(cs, o),
         \A w \in {"login", "register"} : waiter'[w] \in {waiter[w], None},
         \A c \in cs \cap Calls : o = "kept" /\ pc[c] \in {"ready", "toRegister"} => serverSecret'[c] # 0,
         \A c \in Calls : serverSecret[c] # 0 => serverSecret'[c] # 0,
         token' = 0 => \A c \in Calls : serverSecret'[c] = 0
  PROVE  Roles' /\ \A c \in Calls : Past(c) => Past(c)'
<1>1. ASSUME NEW c \in Calls
      PROVE  \/ pc'[c] = pc[c] /\ promise'[c] = promise[c] /\ c \notin cs
             \/ c \in cs /\ pc'[c] = GoesOn(pc[c], o) /\ promise'[c] = o
  BY DEF Settle
<1>2. ASSUME NEW c \in Calls, Past(c) PROVE Past(c)'
  <2>1. pc[c] \in Places /\ pc'[c] \in {pc[c], GoesOn(pc[c], o)}
    BY <1>1 DEF BleInv0, CallsOK
  <2> QED BY <1>2, <2>1, GoesOnWhere DEF Past
<1>3. ASSUME NEW c \in Calls PROVE Role(c)'
  <2>1. Role(c) /\ pc[c] \in Places
    BY DEF Roles, BleInv0, CallsOK
  <2>2. waiter'["login"] = c => waiter["login"] = c
    BY CallsAssumption
  <2>3. waiter'["register"] = c => waiter["register"] = c
    BY CallsAssumption
  <2>4. CASE pc'[c] = pc[c] /\ promise'[c] = promise[c]
    BY <1>2, <2>1, <2>2, <2>3, <2>4 DEF Role
  <2>5. CASE c \in cs /\ pc'[c] = GoesOn(pc[c], o) /\ promise'[c] = o
    <3>1. waiter'["login"] = c => pc'[c] \in {"toLogin", "login", "done", "failed"}
      BY <2>1, <2>2, <2>5, GoesOnWhere DEF Role
    <3>2. waiter'["register"] = c => Past(c)'
      BY <1>2, <2>1, <2>3 DEF Role
    <3>3. pc'[c] # "idle"
      BY <2>1, <2>5, GoesOnWhere
    <3>4. pc'[c] = "enrol" \/ (pc'[c] = "toRegister" /\ promise'[c] = "kept") => serverSecret'[c] # 0
      BY <2>1, <2>5, GoesOnWhere
    <3> QED BY <3>1, <3>2, <3>3, <3>4 DEF Role
  <2> QED BY <1>1, <2>4, <2>5
<1> QED BY <1>2, <1>3 DEF Roles

LEMMA WaitersRoles ==
  ASSUME BleInv0, Roles, NEW ws \in SUBSET Waiters, NEW o \in {"kept", "broken"}, SettleWaiters(ws, o),
         o = "kept" => "ready" \notin ws, UNCHANGED <<serverSecret, token>>
  PROVE  Roles' /\ \A c \in Calls : Past(c) => Past(c)'
<1>1. \A w \in {"login", "register"} : waiter'[w] \in {waiter[w], None}
  BY DEF SettleWaiters, Waiters
<1>2. ASSUME NEW c \in ({waiter[w] : w \in ws} \ {None}) \cap Calls,
             o = "kept", pc[c] \in {"ready", "toRegister"}
      PROVE  serverSecret'[c] # 0
  <2>1. PICK w \in {"login", "register"} : waiter[w] = c
    BY <1>2 DEF Waiters
  <2> QED BY <1>2, <2>1 DEF Roles, Role, Past
<1>3. token' = 0 => \A c \in Calls : serverSecret'[c] = 0
  BY DEF Roles
<1> QED BY <1>1, <1>2, <1>3, SettledRoles DEF SettleWaiters

(* Every step keeps the roles, and what is past stays past.                *)
LEMMA StepRoles ==
  ASSUME BleInv0, Roles, [Next]_vars
  PROVE  Roles' /\ \A c \in Calls : Past(c) => Past(c)'
<1> DEFINE Kept == Roles' /\ \A c \in Calls : Past(c) => Past(c)'
<1> SUFFICES Kept
  OBVIOUS
<1> USE DEF BleInv0
<1>1. ASSUME UNCHANGED <<pc, promise, waiter, serverSecret, token>> PROVE Kept
  BY <1>1 DEF Roles, Role, Past
<1>2. ASSUME NEW c \in Calls, NEW d \in Calls, d # c,
             pc'[d] = pc[d], promise'[d] = promise[d], serverSecret'[d] = serverSecret[d],
             \A w \in {"login", "register"} : waiter'[w] \in {waiter[w], None, c}
      PROVE  Role(d)' /\ (Past(d) => Past(d)')
  <2>1. \A w \in {"login", "register"} : waiter'[w] = d => waiter[w] = d
    BY <1>2, CallsAssumption
  <2>2. Past(d)' <=> Past(d)
    BY <1>2 DEF Past
  <2> QED BY <1>2, <2>1, <2>2 DEF Roles, Role
<1>3. ASSUME NEW c \in Calls, Role(c)', Past(c) => Past(c)',
             \A d \in Calls : d # c => /\ pc'[d] = pc[d] /\ promise'[d] = promise[d]
                                       /\ serverSecret'[d] = serverSecret[d],
             \A w \in {"login", "register"} : waiter'[w] \in {waiter[w], None, c},
             token' = 0 => \A d \in Calls : serverSecret'[d] = 0
      PROVE  Kept
  <2>1. \A d \in Calls : Role(d)' /\ (Past(d) => Past(d)')
    BY <1>2, <1>3
  <2> QED BY <1>3, <2>1 DEF Roles
<1>4. ASSUME NEW c \in Calls PROVE Role(c) /\ pc[c] \in Places /\ serverSecret[c] \in 0 .. MaxConns
  BY DEF Roles, CallsOK, DataOK
<1>5. token' = token /\ serverSecret' = serverSecret => (token' = 0 => \A d \in Calls : serverSecret'[d] = 0)
  BY DEF Roles
<1>6. ASSUME NEW c \in Calls, Connect(c) \/ Register(c) PROVE Kept
  <2>1. PICK w \in {"login", "ready"} :
          /\ waiter' = [waiter EXCEPT ![w] = c]
          /\ pc' = [pc EXCEPT ![c] = IF w = "login" THEN "toLogin" ELSE "toRegister"]
          /\ pc[c] = "idle" /\ UNCHANGED <<promise, serverSecret, token>>
    BY <1>6 DEF Connect, Register, Accept, keyVars
  <2>2. /\ pc'[c] = (IF w = "login" THEN "toLogin" ELSE "toRegister")
        /\ \A d \in Calls : d # c => pc'[d] = pc[d]
        /\ waiter'["login"] = c => w = "login" \/ waiter["login"] = c
        /\ waiter'["register"] = waiter["register"] /\ waiter'["login"] \in {waiter["login"], c}
    BY <2>1 DEF CallsOK, Waiters
  <2>3. Role(c)' /\ (Past(c) => Past(c)')
    BY <1>4, <2>1, <2>2 DEF Role, Past
  <2> QED BY <1>3, <1>5, <2>1, <2>2, <2>3
<1>7. ASSUME NEW c \in Calls, Refused(c) PROVE Kept
  <2>1. /\ pc[c] = "idle" /\ pc'[c] = "failed" /\ \A d \in Calls : d # c => pc'[d] = pc[d]
        /\ UNCHANGED <<promise, waiter, serverSecret, token>>
    BY <1>7 DEF Refused, CallsOK, keyVars
  <2>2. Role(c)' /\ (Past(c) => Past(c)')
    BY <1>4, <2>1 DEF Role, Past
  <2> QED BY <1>3, <1>5, <2>1, <2>2
<1>8. ASSUME NEW c \in Calls, LinkFails(c) PROVE Kept
  <2>1. /\ pc[c] \in Linking /\ pc'[c] = "failed" /\ \A d \in Calls : d # c => pc'[d] = pc[d]
        /\ UNCHANGED <<promise, serverSecret, token>>
        /\ \A w \in {"login", "register"} : waiter'[w] \in {waiter[w], None}
    BY <1>8 DEF LinkFails, CallsOK, keyVars, Waiters
  <2>2. Role(c)' /\ (Past(c) => Past(c)')
    <3>1. waiter'["register"] # c /\ ~Past(c)
      BY <1>4, <2>1, CallsAssumption DEF Role, Past, Linking
    <3> QED BY <2>1, <3>1 DEF Role
  <2> QED BY <1>3, <1>5, <2>1, <2>2
<1>9. ASSUME NEW c \in Calls, Linked(c) PROVE Kept
  <2>1. /\ pc[c] \in Linking
        /\ pc'[c] = (IF promise[c] = "pending" THEN WaiterOf(c) ELSE GoesOn(WaiterOf(c), promise[c]))
        /\ serverSecret'[c] = (IF pc'[c] = "enrol" THEN token ELSE serverSecret[c])
        /\ \A d \in Calls : d # c => pc'[d] = pc[d] /\ serverSecret'[d] = serverSecret[d]
        /\ UNCHANGED <<promise, waiter, token>>
    BY <1>9 DEF Linked, CallsOK, DataOK
  <2>2. promise[c] \in {"pending", "kept", "broken"} /\ WaiterOf(c) \in Places \ Linking
    BY DEF CallsOK, WaiterOf, Places, Linking
  <2>3. /\ pc[c] = "toLogin" => pc'[c] \in {"login", "done", "failed"}
        /\ pc[c] = "toRegister" => pc'[c] \in {"ready", "enrol", "failed", "done"}
        /\ pc'[c] = "enrol" => promise[c] = "kept" /\ pc[c] = "toRegister"
    BY <2>1, <2>2, GoesOnWhere DEF WaiterOf, Linking
  <2>4. pc'[c] = "enrol" => serverSecret[c] # 0 /\ token # 0
    BY <1>4, <2>3 DEF Role, Roles
  <2>5. Role(c)' /\ (Past(c) => Past(c)')
    <3>1. waiter["register"] # c /\ ~Past(c)
      BY <1>4, <2>1 DEF Role, Past, Linking
    <3>2. waiter["login"] = c => pc[c] = "toLogin"
      BY <1>4, <2>1 DEF Role, Linking
    <3> QED BY <2>1, <2>3, <2>4, <3>1, <3>2 DEF Role, Linking
  <2>6. token' = 0 => \A d \in Calls : serverSecret'[d] = 0
    BY <2>1, <2>4 DEF Roles
  <2> QED BY <1>3, <2>1, <2>5, <2>6
<1>10. ASSUME NEW c \in Calls, Enrolled(c) PROVE Kept
  <2>1. /\ pc[c] = "enrol" /\ pc'[c] = "register" /\ promise'[c] = "pending"
        /\ \A d \in Calls : d # c => pc'[d] = pc[d] /\ promise'[d] = promise[d]
        /\ waiter'["register"] = c /\ waiter'["login"] = waiter["login"]
        /\ UNCHANGED <<serverSecret, token>>
    BY <1>10 DEF Enrolled, CallsOK, Waiters, keyVars
  <2>2. serverSecret[c] # 0 /\ waiter["login"] # c /\ ~Past(c)
    BY <1>4, <2>1 DEF Role, Past
  <2>3. Role(c)'
    BY <2>1, <2>2 DEF Role, Past
  <2> QED BY <1>3, <1>5, <2>1, <2>2, <2>3
<1>11. ASSUME NEW c \in Calls, NEW w \in Waiters, WaiterTimesOut(c, w) PROVE Kept
  <2>1. /\ Settle({c}, "broken") /\ UNCHANGED <<serverSecret, token>>
        /\ \A v \in {"login", "register"} : waiter'[v] \in {waiter[v], None}
    BY <1>11 DEF WaiterTimesOut, CallsOK, keyVars, Waiters
  <2> QED BY <1>5, <2>1, SettledRoles
<1>12. ASSUME NEW ws \in SUBSET Waiters, NEW o \in {"kept", "broken"}, SettleWaiters(ws, o),
              o = "kept" => "ready" \notin ws, UNCHANGED <<serverSecret, token>>
       PROVE  Kept
  BY <1>12, WaitersRoles
<1>13. CASE HearInitial
  <2> DEFINE n == Head(device).of
  <2>1. n \in 1 .. MaxConns
    BY <1>13, HeadIs DEF HearInitial
  <2>2. token' = n
    BY <1>13 DEF HearInitial
  <2>3. CASE ~secret
    <3>1. /\ SettleWaiters({"ready"}, "kept")
          /\ serverSecret' = [c \in Calls |-> IF c = waiter["ready"] THEN n ELSE serverSecret[c]]
      BY <1>13, <2>3 DEF HearInitial
    <3> HIDE DEF n
    <3>2. \A w \in {"login", "register"} : waiter'[w] \in {waiter[w], None}
      BY <3>1 DEF SettleWaiters, Waiters
    <3>3. /\ \A c \in Calls : serverSecret[c] # 0 => serverSecret'[c] # 0
          /\ \A c \in ({waiter[w] : w \in {"ready"}} \ {None}) \cap Calls : serverSecret'[c] # 0
      BY <2>1, <3>1
    <3>4. token' # 0
      BY <2>1, <2>2
    <3> QED BY <3>1, <3>2, <3>3, <3>4, SettledRoles DEF SettleWaiters
  <2>4. CASE secret
    <3>1. UNCHANGED <<pc, promise, waiter, serverSecret>>
      BY <1>13, <2>4 DEF HearInitial, callVars
    <3> HIDE DEF n
    <3>2. Roles'
      BY <2>1, <2>2, <3>1 DEF Roles, Role, Past
    <3>3. \A c \in Calls : Past(c) => Past(c)'
      BY <3>1 DEF Past
    <3> QED BY <3>2, <3>3
  <2> QED BY <2>3, <2>4
<1>14. CASE HearBadInitial
  BY <1>12, <1>14 DEF HearBadInitial, Waiters, keyVars
<1>15. CASE HearLogin
  BY <1>12, <1>15 DEF HearLogin, Waiters, keyVars
<1>16. CASE HearRegistration
  BY <1>12, <1>16 DEF HearRegistration, Waiters
<1>17. ASSUME NEW n \in signing, ServerSigns(n) \/ ServerRefuses(n) PROVE Kept
  <2>1. CASE ServerSigns(n)
    BY <1>1, <2>1 DEF ServerSigns, callVars
  <2>2. CASE ServerRefuses(n)
    BY <1>12, <2>2 DEF ServerRefuses, Waiters
  <2> QED BY <1>17, <2>1, <2>2
<1>18. ASSUME FailAllPending \/ HandleDisconnect, UNCHANGED keyVars PROVE Kept
  <2>1. CASE FailAllPending
    BY <1>12, <1>18, <2>1 DEF FailAllPending, keyVars
  <2> QED BY <1>1, <1>18, <2>1 DEF HandleDisconnect, callVars, keyVars
<1>19. CASE Lost \/ WriteFails \/ Disconnect
  BY <1>18, <1>19 DEF Lost, WriteFails, Disconnect
<1>20. CASE LinkUp \/ HearResponse \/ Silent \/ UNCHANGED vars
  BY <1>1, <1>20 DEF LinkUp, HearResponse, Silent, vars, callVars, keyVars
<1>21. ASSUME NEW r \in Requests, RequestTimesOut(r) \/ \E i \in Items : Request(r, i) PROVE Kept
  BY <1>1, <1>21 DEF RequestTimesOut, Request, callVars, keyVars
<1> QED BY <1>6, <1>7, <1>8, <1>9, <1>10, <1>11, <1>13, <1>14, <1>15, <1>16, <1>17, <1>19, <1>20, <1>21
     DEF Next

-----------------------------------------------------------------------------
(* What the device is going to say, after a step.                          *)

(* Nothing is new in it but f, which comes last. *)
Grows(f) ==
  /\ \A x : Contains(device', x) => Contains(device, x) \/ x = f
  /\ \A a, b : Precedes(device', a, b) => Precedes(device, a, b) \/ (Contains(device, a) /\ b = f)

LEMMA WrittenGrows ==
  ASSUME NEW s \in Seq(Frames), PartOf(s, device), NEW f \in Frames, device' = Written(s, f)
  PROVE  PartOf(device', device) \/ (Writable /\ Grows(f))
<1>1. CASE Writable
  <2>1. device' = Append(s, f)
    BY <1>1 DEF Written
  <2>2. /\ \A x : Contains(device', x) <=> Contains(s, x) \/ x = f
        /\ \A a, b : Precedes(device', a, b) <=> Precedes(s, a, b) \/ (Contains(s, a) /\ b = f)
    BY <2>1, AppendFacts
  <2> QED BY <1>1, <2>2 DEF PartOf, Grows
<1>2. CASE ~Writable
  BY <1>2 DEF Written
<1> QED BY <1>1, <1>2

LEMMA DeviceSteps ==
  ASSUME BleInv0, [Next]_vars
  PROVE  \/ PartOf(device', device)
         \/ LinkUp
         \/ Writable /\ \/ \E c \in Calls : Enrolled(c) /\ Grows(Registration)
                        \/ secret /\ HearInitial /\ Grows(LoginOf(Head(device).of))
                        \/ \E n \in signing : ServerSigns(n) /\ Grows(LoginOf(n))
                        \/ loggedIn /\ \E r \in Requests, i \in Items :
                                         Request(r, i) /\ Grows(ResponseTo(r, i))
<1> DEFINE Said == \/ PartOf(device', device)
                   \/ LinkUp
                   \/ Writable /\ \/ \E c \in Calls : Enrolled(c) /\ Grows(Registration)
                                  \/ secret /\ HearInitial /\ Grows(LoginOf(Head(device).of))
                                  \/ \E n \in signing : ServerSigns(n) /\ Grows(LoginOf(n))
                                  \/ loggedIn /\ \E r \in Requests, i \in Items :
                                                   Request(r, i) /\ Grows(ResponseTo(r, i))
<1> SUFFICES Said
  OBVIOUS
<1> USE DEF BleInv0
<1>1. device \in Seq(Frames)
  BY DEF DataOK
<1>2. /\ PartOf(device, device) /\ PartOf(<<>>, device)
      /\ device # <<>> => PartOf(Tail(device), device) /\ Tail(device) \in Seq(Frames)
  BY <1>1, Parts, DeviceHead
<1>3. ASSUME device' \in {device, <<>>} \/ (device # <<>> /\ device' = Tail(device)) PROVE Said
  BY <1>2, <1>3
<1>4. ASSUME NEW c \in Calls, Enrolled(c) PROVE Said
  <2>1. device' = Written(device, Registration)
    BY <1>4 DEF Enrolled, Registration
  <2>2. PartOf(device', device) \/ (Writable /\ Grows(Registration))
    BY <1>1, <1>2, <2>1, WrittenGrows, FramesAre
  <2> QED BY <1>4, <2>2
<1>5. CASE HearInitial
  <2>1. CASE ~secret \/ signLogin
    BY <1>3, <1>5, <2>1 DEF HearInitial
  <2>2. CASE secret /\ ~signLogin
    <3>1. device # <<>> /\ device' = Written(Tail(device), LoginOf(Head(device).of))
      BY <1>5, <2>2 DEF HearInitial, LoginOf
    <3>2. LoginOf(Head(device).of) \in Frames
      BY <1>5, HeadIs, FramesAre DEF HearInitial
    <3>3. PartOf(device', device) \/ (Writable /\ Grows(LoginOf(Head(device).of)))
      BY <1>2, <3>1, <3>2, WrittenGrows
    <3> QED BY <1>5, <2>2, <3>3
  <2> QED BY <2>1, <2>2
<1>6. ASSUME NEW n \in signing, ServerSigns(n) PROVE Said
  <2>1. device' = Written(device, LoginOf(n)) /\ LoginOf(n) \in Frames
    BY <1>6, FramesAre DEF ServerSigns, LoginOf, DataOK
  <2>2. PartOf(device', device) \/ (Writable /\ Grows(LoginOf(n)))
    BY <1>1, <1>2, <2>1, WrittenGrows
  <2> QED BY <1>6, <2>2
<1>7. ASSUME NEW r \in Requests, NEW i \in Items, Request(r, i) PROVE Said
  <2>1. device' = device \/ (loggedIn /\ device' = Written(device, ResponseTo(r, i)))
    BY <1>7 DEF Request, ResponseTo
  <2>2. CASE loggedIn /\ device' = Written(device, ResponseTo(r, i))
    <3>1. PartOf(device', device) \/ (Writable /\ Grows(ResponseTo(r, i)))
      BY <1>1, <1>2, <2>2, WrittenGrows, FramesAre
    <3> QED BY <1>7, <2>2, <3>1
  <2> QED BY <1>3, <2>1, <2>2
<1>8. CASE WriteFails
  <2>1. PICK k \in 0 .. (Len(device) - 1) : device' = SubSeq(device, 1, k)
    BY <1>8 DEF WriteFails
  <2>2. /\ \A x : Contains(device', x) => Contains(device, x)
        /\ \A a, b : Precedes(device', a, b) => Precedes(device, a, b)
    BY <1>1, <2>1, PartFacts
  <2> QED BY <2>2 DEF PartOf
<1>9. CASE HearBadInitial \/ HearLogin \/ HearRegistration \/ HearResponse \/ Silent
  BY <1>3, <1>9 DEF HearBadInitial, HearLogin, HearRegistration, HearResponse, Silent
<1>10. ASSUME Lost \/ Disconnect \/ UNCHANGED vars \/ \E n \in signing : ServerRefuses(n) PROVE Said
  BY <1>3, <1>10 DEF Lost, Disconnect, ServerRefuses, vars, linkVars
<1>11. ASSUME NEW c \in Calls, Connect(c) \/ Register(c) \/ Refused(c) \/ Linked(c) \/ LinkFails(c)
                               \/ \E w \in Waiters : WaiterTimesOut(c, w)
       PROVE  Said
  BY <1>3, <1>11 DEF Connect, Register, Accept, Refused, Linked, LinkFails, WaiterTimesOut, linkVars
<1>12. ASSUME NEW r \in Requests, RequestTimesOut(r) PROVE Said
  BY <1>3, <1>12 DEF RequestTimesOut, linkVars
<1> QED BY <1>4, <1>5, <1>6, <1>7, <1>8, <1>9, <1>10, <1>11, <1>12 DEF Next

-----------------------------------------------------------------------------
(* What follows the first registration.                                    *)

(* An enrolment lasts; only the token of a session not yet registered, and *)
(* heard for a call that waits for it, begins one.                         *)
LEMMA Lasting ==
  ASSUME BleInv0, Roles, [Next]_vars
  PROVE  /\ \A c \in Calls : serverSecret[c] # 0 => serverSecret'[c] # 0
         /\ secret => \A c \in Calls : serverSecret'[c] # 0 => serverSecret[c] # 0
         /\ secret => secret'
         /\ secret' => secret \/ HearRegistration
<1> DEFINE Lasts == /\ \A c \in Calls : serverSecret[c] # 0 => serverSecret'[c] # 0
                    /\ secret => \A c \in Calls : serverSecret'[c] # 0 => serverSecret[c] # 0
                    /\ secret => secret'
                    /\ secret' => secret \/ HearRegistration
<1> SUFFICES Lasts
  OBVIOUS
<1> USE DEF BleInv0
<1>1. ASSUME UNCHANGED <<secret, serverSecret>> PROVE Lasts
  BY <1>1
<1>2. ASSUME NEW c \in Calls, Connect(c) \/ Register(c) \/ Refused(c) \/ LinkFails(c) \/ Enrolled(c) PROVE Lasts
  BY <1>1, <1>2 DEF Connect, Register, Accept, Refused, LinkFails, Enrolled, keyVars
<1>3. ASSUME NEW c \in Calls, Linked(c) PROVE Lasts
  <2>1. /\ pc[c] \in Linking /\ secret' = secret /\ serverSecret \in [Calls -> 0 .. MaxConns]
        /\ pc'[c] = (IF promise[c] = "pending" THEN WaiterOf(c) ELSE GoesOn(WaiterOf(c), promise[c]))
        /\ serverSecret' = [serverSecret EXCEPT ![c] = IF pc'[c] = "enrol" THEN token ELSE @]
    BY <1>3 DEF Linked, CallsOK, DataOK
  <2>2. promise[c] \in {"pending", "kept", "broken"} /\ WaiterOf(c) \in Places \ Linking
    BY DEF CallsOK, WaiterOf, Places, Linking
  <2>3. pc'[c] = "enrol" => promise[c] = "kept" /\ pc[c] = "toRegister"
    BY <2>1, <2>2, GoesOnWhere DEF WaiterOf, Linking
  <2>4. pc'[c] = "enrol" => serverSecret[c] # 0 /\ token # 0
    BY <2>3 DEF Role, Roles
  <2>5. \A d \in Calls : serverSecret[d] # 0 <=> serverSecret'[d] # 0
    BY <2>1, <2>4
  <2> QED BY <2>1, <2>5
<1>4. ASSUME NEW c \in Calls, NEW w \in Waiters, WaiterTimesOut(c, w) PROVE Lasts
  BY <1>1, <1>4 DEF WaiterTimesOut, keyVars
<1>5. CASE HearInitial
  <2>1. Head(device).of \in 1 .. MaxConns
    BY <1>5, HeadIs DEF HearInitial
  <2>2. CASE secret
    BY <1>1, <1>5, <2>2 DEF HearInitial
  <2>3. CASE ~secret
    <3> DEFINE n == Head(device).of
    <3>1. serverSecret' = [c \in Calls |-> IF c = waiter["ready"] THEN n ELSE serverSecret[c]]
      BY <1>5, <2>3 DEF HearInitial
    <3>2. secret' = secret
      BY <1>5 DEF HearInitial
    <3>3. n # 0
      BY <2>1
    <3> QED BY <2>3, <3>1, <3>2, <3>3
  <2> QED BY <2>2, <2>3
<1>6. CASE HearRegistration
  <2>1. UNCHANGED serverSecret /\ secret' \in {secret, TRUE}
    BY <1>6 DEF HearRegistration
  <2> QED BY <1>6, <2>1 DEF FlagsOK
<1>7. ASSUME LinkUp \/ HearBadInitial \/ HearLogin \/ HearResponse \/ Silent \/ UNCHANGED vars
             \/ Lost \/ WriteFails \/ Disconnect
      PROVE  Lasts
  BY <1>1, <1>7 DEF LinkUp, HearBadInitial, HearLogin, HearResponse, Silent, vars, keyVars,
                    Lost, WriteFails, Disconnect
<1>8. ASSUME NEW n \in signing, ServerSigns(n) \/ ServerRefuses(n) PROVE Lasts
  BY <1>1, <1>8 DEF ServerSigns, ServerRefuses
<1>9. ASSUME NEW r \in Requests, RequestTimesOut(r) \/ \E i \in Items : Request(r, i) PROVE Lasts
  BY <1>1, <1>9 DEF RequestTimesOut, Request, keyVars
<1> QED BY <1>2, <1>3, <1>4, <1>5, <1>6, <1>7, <1>8, <1>9 DEF Next

(* A session that speaks to the device as its owner has a secret.          *)
Handshakes ==
  /\ loggedIn \/ signing # {} => secret
  /\ \A n : Contains(device, LoginOf(n)) => secret
  /\ \A r, i : Contains(device, ResponseTo(r, i)) => secret

LEMMA DeviceNext ==
  ASSUME BleInv0, device # <<>>
  PROVE  /\ Contains(device, Head(device))
         /\ Head(device).says = "login" => Contains(device, LoginOf(Head(device).of))
         /\ Head(device).says = "registration" =>
              /\ Contains(device, Registration)
              /\ Contains(Tail(device), Registration) => Precedes(device, Registration, Registration)
         /\ Head(device).says = "response" => Contains(device, ResponseTo(Head(device).to, Head(device).item))
<1>1. device \in Seq(Frames)
  BY DEF BleInv0, DataOK
<1>2. /\ Contains(device, Head(device)) /\ Head(device) \in Frames
      /\ \A b : Contains(Tail(device), b) => Precedes(device, Head(device), b)
  BY <1>1, TailFacts
<1> QED BY <1>2, FrameIs

(* What logs a session in. *)
LEMMA LogsIn ==
  ASSUME BleInv0, [Next]_vars, loggedIn'
  PROVE  \/ loggedIn
         \/ HearLogin /\ waiter["login"] # None /\ Head(device).of = conns
         \/ HearRegistration /\ waiter["register"] # None /\ secret'
<1> USE DEF BleInv0
<1>1. CASE HearLogin
  BY <1>1 DEF HearLogin
<1>2. CASE HearRegistration
  BY <1>2 DEF HearRegistration, stateVars
<1>3. ASSUME HearInitial \/ HearBadInitial \/ HearResponse \/ Silent PROVE loggedIn
  BY <1>3 DEF HearInitial, HearBadInitial, HearResponse, Silent, stateVars
<1>4. ASSUME NEW n \in signing, ServerSigns(n) \/ ServerRefuses(n) PROVE loggedIn
  BY <1>4 DEF ServerSigns, ServerRefuses, stateVars
<1>5. ASSUME NEW r \in Requests, RequestTimesOut(r) \/ \E i \in Items : Request(r, i) PROVE loggedIn
  BY <1>5 DEF RequestTimesOut, Request, stateVars
<1>6. CASE Lost \/ WriteFails \/ Disconnect
  BY <1>6 DEF Lost, WriteFails, Disconnect, HandleDisconnect, FailAllPending, stateVars
<1>7. ASSUME NEW c \in Calls, Connect(c) \/ Register(c) \/ Refused(c) \/ Linked(c) \/ LinkFails(c)
                              \/ Enrolled(c) \/ \E w \in Waiters : WaiterTimesOut(c, w)
      PROVE  loggedIn
  BY <1>7 DEF Connect, Register, Accept, Refused, Linked, LinkFails, Enrolled, WaiterTimesOut, stateVars
<1>8. CASE LinkUp \/ UNCHANGED vars
  BY <1>8 DEF LinkUp, vars, stateVars
<1> QED BY <1>1, <1>2, <1>3, <1>4, <1>5, <1>6, <1>7, <1>8 DEF Next

LEMMA HandshakesStep ==
  ASSUME BleInv0, Roles, Handshakes, [Next]_vars
  PROVE  Handshakes'
<1> USE DEF BleInv0
<1>1. secret => secret'
  BY Lasting
<1>2. loggedIn' => loggedIn \/ secret'
  BY <1>1, LogsIn, DeviceNext DEF HearLogin, Handshakes
<1>3. signing' # {} => signing # {} \/ secret'
  <2>1. CASE HearInitial
    BY <1>1, <2>1 DEF HearInitial
  <2>2. ASSUME NEW n \in signing PROVE signing # {}
    OBVIOUS
  <2>3. ASSUME NEW c \in Calls, Connect(c) \/ Register(c) \/ Refused(c) \/ Linked(c) \/ LinkFails(c)
                                \/ Enrolled(c) \/ \E w \in Waiters : WaiterTimesOut(c, w)
        PROVE  signing' = signing
    BY <2>3 DEF Connect, Register, Accept, Refused, Linked, LinkFails, Enrolled, WaiterTimesOut, keyVars
  <2>4. CASE LinkUp \/ UNCHANGED vars \/ HearBadInitial \/ HearLogin \/ HearRegistration \/ HearResponse
             \/ Silent \/ Lost \/ WriteFails \/ Disconnect
    BY <2>4 DEF LinkUp, vars, HearBadInitial, HearLogin, HearRegistration, HearResponse, Silent,
                Lost, WriteFails, Disconnect, keyVars
  <2>5. ASSUME NEW r \in Requests, RequestTimesOut(r) \/ \E i \in Items : Request(r, i) PROVE signing' = signing
    BY <2>5 DEF RequestTimesOut, Request, keyVars
  <2> QED BY <2>1, <2>2, <2>3, <2>4, <2>5 DEF Next
<1>4. /\ \A n : Contains(device', LoginOf(n)) => secret'
      /\ \A r, i : Contains(device', ResponseTo(r, i)) => secret'
  <2>1. CASE PartOf(device', device)
    BY <1>1, <2>1 DEF Handshakes, PartOf
  <2>2. CASE LinkUp
    <3>1. \A x : Contains(device', x) => x = InitialOf(conns + 1)
      BY <2>2 DEF LinkUp, InitialOf, Contains
    <3> QED BY <3>1, FramesDiffer
  <2>3. ASSUME NEW c \in Calls, Grows(Registration)
        PROVE  /\ \A n : Contains(device', LoginOf(n)) => secret'
               /\ \A r, i : Contains(device', ResponseTo(r, i)) => secret'
    BY <1>1, <2>3, FramesDiffer DEF Grows, Handshakes
  <2>4. ASSUME NEW f, secret, Grows(f)
        PROVE  /\ \A n : Contains(device', LoginOf(n)) => secret'
               /\ \A r, i : Contains(device', ResponseTo(r, i)) => secret'
    BY <1>1, <2>4 DEF Grows, Handshakes
  <2> QED BY <2>1, <2>2, <2>3, <2>4, DeviceSteps DEF Handshakes
<1> QED BY <1>1, <1>2, <1>3, <1>4 DEF Handshakes

(* REGISTRATION is said for a call that is past its enrolment, a second    *)
(* one for another call, and so is one that a session with a secret hears. *)
Regs ==
  /\ Contains(device, Registration) => OnePast
  /\ Precedes(device, Registration, Registration) => TwoPast
  /\ secret /\ Contains(device, Registration) => TwoPast
  /\ secret /\ Enrolling # {} => OnePast

LEMMA RegsStep ==
  ASSUME BleInv0, Roles, Regs, [Next]_vars
  PROVE  Regs'
<1> USE DEF BleInv0
<1>1. (OnePast => OnePast') /\ (TwoPast => TwoPast')
  BY StepRoles DEF OnePast, TwoPast
<1>2. HearRegistration /\ ~secret /\ secret' =>
        /\ OnePast
        /\ Contains(device', Registration) => TwoPast
  <2> SUFFICES ASSUME HearRegistration, ~secret, secret'
               PROVE  OnePast /\ (Contains(device', Registration) => TwoPast)
    OBVIOUS
  <2>1. device # <<>> /\ Head(device).says = "registration" /\ device' = Tail(device)
    BY DEF HearRegistration
  <2>2. waiter["register"] # None
    BY DEF HearRegistration
  <2>3. waiter["register"] \in Calls
    BY <2>2 DEF CallsOK, Waiters
  <2>4. Past(waiter["register"])
    BY <2>3 DEF Roles, Role
  <2> QED BY <2>1, <2>3, <2>4, DeviceNext DEF Regs, OnePast
<1>3. secret' /\ Enrolling' # {} => OnePast'
  <2>1. CASE secret
    <3>1. Enrolling' # {} => Enrolling # {}
      BY <2>1, Lasting DEF Enrolling
    <3> QED BY <1>1, <2>1, <3>1 DEF Regs
  <2>2. CASE ~secret
    BY <1>1, <1>2, <2>2, Lasting
  <2> QED BY <2>1, <2>2
<1>4. ASSUME \A x \in {Registration} : /\ Contains(device', x) => Contains(device, x)
                                       /\ Precedes(device', x, x) => Precedes(device, x, x)
      PROVE  Regs'
  <2>1. /\ Contains(device', Registration) => OnePast'
        /\ Precedes(device', Registration, Registration) => TwoPast'
    BY <1>1, <1>4 DEF Regs
  <2>2. secret' /\ Contains(device', Registration) => TwoPast'
    BY <1>1, <1>2, <1>4, Lasting DEF Regs
  <2> QED BY <1>3, <2>1, <2>2 DEF Regs
<1>5. CASE PartOf(device', device)
  BY <1>4, <1>5 DEF PartOf
<1>6. CASE LinkUp
  <2>1. device' = <<InitialOf(conns + 1)>>
    BY <1>6 DEF LinkUp, InitialOf
  <2>2. \A x : Contains(device', x) => x = InitialOf(conns + 1)
    BY <2>1 DEF Contains
  <2>3. \A a, b : ~Precedes(device', a, b)
    BY <2>1 DEF Precedes
  <2> QED BY <1>4, <2>2, <2>3, FramesDiffer
<1>7. ASSUME NEW f, f # Registration, Grows(f) PROVE Regs'
  BY <1>4, <1>7 DEF Grows
<1>8. ASSUME NEW c \in Calls, Enrolled(c), Grows(Registration) PROVE Regs'
  <2>1. /\ pc[c] = "enrol" /\ pc'[c] = "register" /\ serverSecret' = serverSecret /\ secret' = secret
    BY <1>8 DEF Enrolled, CallsOK, keyVars
  <2>2. serverSecret[c] # 0 /\ ~Past(c)
    BY <2>1 DEF Roles, Role, Past
  <2>3. Past(c)'
    BY <2>1, <2>2 DEF Past
  <2>4. OnePast => TwoPast'
    <3>1. ASSUME NEW d \in Calls, Past(d) PROVE TwoPast'
      <4>1. Past(d)' /\ d # c
        BY <2>2, <3>1, StepRoles
      <4> QED BY <2>3, <4>1 DEF TwoPast
    <3> QED BY <3>1 DEF OnePast
  <2>5. Contains(device', Registration) => OnePast'
    BY <2>3 DEF OnePast
  <2>6. Precedes(device', Registration, Registration) => TwoPast'
    BY <1>1, <1>8, <2>4 DEF Grows, Regs
  <2>7. secret' /\ Contains(device', Registration) => TwoPast'
    <3>1. secret => OnePast
      BY <2>2 DEF Regs, Enrolling
    <3> QED BY <2>1, <2>4, <3>1
  <2> QED BY <1>3, <2>5, <2>6, <2>7 DEF Regs
<1> QED BY <1>5, <1>6, <1>7, <1>8, DeviceSteps, FramesDiffer

-----------------------------------------------------------------------------
(* FailFast.                                                               *)

(* A step that does not end the link leaves the session logged in, and     *)
(* what has been given up with nobody else who waits, but for an enrolment.*)
LEMMA Ends ==
  ASSUME BleInv0, [Next]_vars
  PROVE  \/ FailAllPending /\ dropped' /\ (Lost \/ WriteFails \/ Disconnect)
         \/ dropped /\ Lost /\ UNCHANGED <<waiter, loggedIn, request>>
         \/ /\ link => link'
            /\ dropped' => dropped /\ \A w \in {"login", "ready"} : waiter'[w] \in {waiter[w], None}
            /\ waiter'["register"] \in {waiter["register"], None} \/ \E c \in Calls : Enrolled(c)
            /\ loggedIn => loggedIn'
            /\ Waiting' # {} => Waiting # {} \/ loggedIn
<1> DEFINE GoesOnAsItWas ==
             /\ link => link'
             /\ dropped' => dropped /\ \A w \in {"login", "ready"} : waiter'[w] \in {waiter[w], None}
             /\ waiter'["register"] \in {waiter["register"], None} \/ \E c \in Calls : Enrolled(c)
             /\ loggedIn => loggedIn'
             /\ Waiting' # {} => Waiting # {} \/ loggedIn
           Ended == \/ FailAllPending /\ dropped' /\ (Lost \/ WriteFails \/ Disconnect)
                    \/ dropped /\ Lost /\ UNCHANGED <<waiter, loggedIn, request>>
<1> SUFFICES Ended \/ GoesOnAsItWas
  OBVIOUS
<1> USE DEF BleInv0
<1>1. ASSUME link => link', dropped' = dropped, \A w \in Waiters : waiter'[w] \in {waiter[w], None},
             loggedIn => loggedIn', Waiting' \subseteq Waiting
      PROVE  GoesOnAsItWas
  BY <1>1 DEF Waiters
<1>2. ASSUME NEW c \in Calls, Connect(c) \/ Register(c) PROVE GoesOnAsItWas
  <2>1. PICK w \in {"login", "ready"} : Accept(c, w)
    BY <1>2 DEF Connect, Register
  <2>2. waiter'["register"] = waiter["register"]
    BY <2>1 DEF Accept, CallsOK, Waiters
  <2>3. ~dropped' /\ link' = link /\ loggedIn' = loggedIn /\ Waiting' = Waiting
    BY <2>1 DEF Accept, stateVars, requestVars, Waiting
  <2> QED BY <2>2, <2>3
<1>3. ASSUME NEW c \in Calls, Refused(c) \/ Linked(c) PROVE GoesOnAsItWas
  BY <1>1, <1>3 DEF Refused, Linked, stateVars, requestVars, linkVars, Waiting
<1>4. ASSUME NEW c \in Calls, LinkFails(c) PROVE GoesOnAsItWas
  BY <1>1, <1>4 DEF LinkFails, stateVars, requestVars, Waiting, CallsOK
<1>5. ASSUME NEW c \in Calls, Enrolled(c) PROVE GoesOnAsItWas
  <2>1. waiter'["login"] = waiter["login"] /\ waiter'["ready"] = waiter["ready"]
    BY <1>5 DEF Enrolled, CallsOK, Waiters
  <2>2. UNCHANGED <<link, dropped, loggedIn, Waiting>>
    BY <1>5 DEF Enrolled, stateVars, requestVars, Waiting
  <2> QED BY <1>5, <2>1, <2>2
<1>6. ASSUME NEW c \in Calls, NEW w \in Waiters, WaiterTimesOut(c, w) PROVE GoesOnAsItWas
  BY <1>1, <1>6 DEF WaiterTimesOut, stateVars, requestVars, linkVars, Waiting, CallsOK
<1>7. CASE LinkUp
  BY <1>1, <1>7 DEF LinkUp, callVars, stateVars, requestVars, Waiting
<1>8. CASE HearInitial
  <2>1. \A w \in Waiters : waiter'[w] \in {waiter[w], None}
    BY <1>8 DEF HearInitial, SettleWaiters, callVars
  <2> QED BY <1>1, <1>8, <2>1 DEF HearInitial, requestVars, Waiting
<1>9. CASE HearBadInitial
  BY <1>1, <1>9 DEF HearBadInitial, SettleWaiters, stateVars, requestVars, Waiting
<1>10. CASE HearLogin
  BY <1>1, <1>10 DEF HearLogin, SettleWaiters, requestVars, Waiting
<1>11. CASE HearRegistration
  <2>1. \A w \in Waiters : waiter'[w] \in {waiter[w], None}
    BY <1>11 DEF HearRegistration, SettleWaiters
  <2>2. loggedIn => loggedIn'
    BY <1>11 DEF HearRegistration, stateVars
  <2> QED BY <1>1, <1>11, <2>1, <2>2 DEF HearRegistration, requestVars, Waiting
<1>12. CASE HearResponse
  <2>1. UNCHANGED <<waiter, loggedIn, link, dropped>>
    BY <1>12 DEF HearResponse, callVars, stateVars
  <2>2. \A r \in Requests : request'[r] \in {request[r], "answered", "failed"}
    BY <1>12 DEF HearResponse, requestVars, DataOK
  <2> QED BY <1>1, <2>1, <2>2 DEF Waiting
<1>13. CASE Silent \/ UNCHANGED vars
  BY <1>1, <1>13 DEF Silent, vars, callVars, stateVars, requestVars, linkVars, Waiting
<1>14. ASSUME NEW n \in signing, ServerSigns(n) PROVE GoesOnAsItWas
  BY <1>1, <1>14 DEF ServerSigns, callVars, stateVars, requestVars, Waiting
<1>15. ASSUME NEW n \in signing, ServerRefuses(n) PROVE GoesOnAsItWas
  BY <1>1, <1>15 DEF ServerRefuses, SettleWaiters, stateVars, requestVars, linkVars, Waiting
<1>16. ASSUME NEW r \in Requests, RequestTimesOut(r) PROVE GoesOnAsItWas
  BY <1>1, <1>16 DEF RequestTimesOut, callVars, stateVars, linkVars, Waiting, DataOK
<1>17. ASSUME NEW r \in Requests, NEW i \in Items, Request(r, i) PROVE GoesOnAsItWas
  <2>1. UNCHANGED <<waiter, loggedIn, link, dropped>>
    BY <1>17 DEF Request, callVars, stateVars
  <2>2. ~loggedIn => \A q \in Requests : request'[q] \in {request[q], "failed"}
    BY <1>17 DEF Request, DataOK
  <2>3. Waiting' # {} => Waiting # {} \/ loggedIn
    BY <2>2 DEF Waiting
  <2> QED BY <2>1, <2>3
<1>18. CASE Lost \/ WriteFails \/ Disconnect
  <2>1. CASE Disconnect
    BY <2>1 DEF Disconnect
  <2>2. CASE Lost \/ WriteFails
    BY <2>2 DEF Lost, WriteFails, Writable, HandleDisconnect, callVars, stateVars, requestVars
  <2> QED BY <1>18, <2>1, <2>2
<1> QED BY <1>2, <1>3, <1>4, <1>5, <1>6, <1>7, <1>8, <1>9, <1>10, <1>11, <1>12, <1>13, <1>14, <1>15,
           <1>16, <1>17, <1>18 DEF Next

(* On a link given up nobody waits for a login, and only what a second     *)
(* call of register() has said may still be heard: by a third.             *)
Fast ==
  /\ Waiting # {} => loggedIn
  /\ loggedIn => Thrice \/ (link /\ ~dropped)
  /\ dropped => waiter["login"] = None /\ waiter["ready"] = None
  /\ dropped /\ Contains(device, Registration) => TwoPast /\ (waiter["register"] # None => Thrice)

LEMMA LostWrite ==
  ASSUME BleInv0, Handshakes, Regs, WriteFails, Contains(device', Registration)
  PROVE  TwoPast
<1>1. PICK k \in 0 .. (Len(device) - 1) :
        /\ \A j \in (k + 1) .. Len(device) : device[j].says # "initial"
        /\ device' = SubSeq(device, 1, k)
  BY DEF WriteFails
<1>2. device \in Seq(Frames) /\ Len(device) \in Nat /\ k \in Int /\ k <= Len(device)
  BY <1>1, LenProperties DEF BleInv0, DataOK
<1>3. Contains(device, Registration)
  BY <1>1, <1>2, PartFacts
<1>4. \E i \in 1 .. k : device[i] = Registration
  <2>1. /\ Len(device') = IF 1 <= k THEN k - 1 + 1 ELSE 0
        /\ \A i \in 1 .. k - 1 + 1 : device'[i] = device[1 + i - 1]
    BY <1>1, <1>2, SubSeqProperties
  <2>2. PICK i \in 1 .. Len(device') : device'[i] = Registration
    BY DEF Contains
  <2> QED BY <1>2, <2>1, <2>2
<1> DEFINE l == Len(device)
<1>5. l \in (k + 1) .. Len(device) /\ l \in 1 .. Len(device)
  BY <1>1, <1>2
<1>6. device[l] \in Frames /\ device[l].says # "initial" /\ Contains(device, device[l])
  BY <1>1, <1>2, <1>5 DEF Contains
<1>7. CASE device[l] = Registration
  <2>1. Precedes(device, Registration, Registration)
    BY <1>1, <1>4, <1>5, <1>7 DEF Precedes
  <2> QED BY <2>1 DEF Regs
<1>8. CASE device[l] # Registration
  <2>1. secret
    BY <1>6, <1>8, FrameIs DEF Handshakes
  <2> QED BY <1>3, <2>1 DEF Regs
<1> QED BY <1>7, <1>8

LEMMA FastStep ==
  ASSUME BleInv0, Roles, Handshakes, Regs, Fast, [Next]_vars
  PROVE  Fast'
<1> USE DEF BleInv0
<1>1. (TwoPast => TwoPast') /\ (Thrice => Thrice')
  <2>1. \A c \in Enrolling : c \in Enrolling'
    BY Lasting DEF Enrolling
  <2> QED BY <2>1, StepRoles DEF TwoPast, Thrice
<1>2. CASE FailAllPending /\ dropped' /\ (Lost \/ WriteFails \/ Disconnect)
  <2>1. Waiting' = {} /\ ~loggedIn' /\ \A w \in Waiters : waiter'[w] = None
    BY <1>2 DEF FailAllPending, SettleWaiters, Waiting
  <2>2. Contains(device', Registration) => TwoPast
    <3>1. CASE Lost \/ Disconnect
      BY <3>1 DEF Lost, Disconnect, Contains
    <3> QED BY <1>2, <3>1, LostWrite
  <2> QED BY <1>1, <2>1, <2>2 DEF Fast, Waiters
<1>3. CASE dropped /\ Lost /\ UNCHANGED <<waiter, loggedIn, request>>
  <2>1. ~Contains(device', Registration)
    BY <1>3 DEF Lost, Contains
  <2> QED BY <1>1, <1>3, <2>1 DEF Fast, Waiting
<1>4. CASE /\ link => link'
           /\ dropped' => dropped /\ \A w \in {"login", "ready"} : waiter'[w] \in {waiter[w], None}
           /\ waiter'["register"] \in {waiter["register"], None} \/ \E c \in Calls : Enrolled(c)
           /\ loggedIn => loggedIn'
           /\ Waiting' # {} => Waiting # {} \/ loggedIn
  <2>1. loggedIn' => Thrice' \/ (link' /\ ~dropped')
    <3>1. CASE loggedIn
      BY <1>1, <1>4, <3>1 DEF Fast
    <3>2. CASE HearLogin /\ waiter["login"] # None
      <4>1. link /\ ~dropped
        BY <3>2, HeadIs DEF HearLogin, Fast
      <4> QED BY <1>4, <4>1
    <3>3. CASE HearRegistration /\ waiter["register"] # None
      <4>1. link /\ Contains(device, Registration)
        BY <3>3, HeadIs, DeviceNext DEF HearRegistration
      <4> QED BY <1>1, <1>4, <3>3, <4>1 DEF Fast
    <3> QED BY <3>1, <3>2, <3>3, LogsIn
  <2>2. ASSUME dropped', Contains(device', Registration)
        PROVE  TwoPast' /\ (waiter'["register"] # None => Thrice')
    <3>1. dropped /\ ~Writable
      BY <1>4, <2>2 DEF Writable
    <3>2. Contains(device, Registration)
      <4>1. CASE LinkUp
        <5>1. device' = <<InitialOf(conns + 1)>>
          BY <4>1 DEF LinkUp, InitialOf
        <5>2. ~Contains(device', Registration)
          BY <5>1, FramesDiffer DEF Contains
        <5> QED BY <2>2, <5>2
      <4>2. CASE PartOf(device', device)
        BY <2>2, <4>2 DEF PartOf
      <4> QED BY <3>1, <4>1, <4>2, DeviceSteps
    <3>3. TwoPast
      BY <3>1, <3>2 DEF Fast
    <3>4. ASSUME NEW c \in Calls, Enrolled(c) PROVE Thrice
      <4>1. c \in Enrolling /\ ~Past(c)
        BY <3>4 DEF Enrolled, Enrolling, Roles, Role, Past
      <4>2. PICK d \in Calls, e \in Calls : d # e /\ Past(d) /\ Past(e)
        BY <3>3 DEF TwoPast
      <4>3. d \in Enrolling /\ e \in Enrolling /\ d # c /\ e # c
        BY <4>1, <4>2 DEF Past, Enrolling
      <4> QED BY <4>1, <4>2, <4>3 DEF Thrice
    <3>5. waiter'["register"] # None => waiter["register"] # None \/ Thrice
      BY <1>4, <3>4
    <3> QED BY <1>1, <3>1, <3>2, <3>3, <3>5 DEF Fast
  <2>3. dropped' => waiter'["login"] = None /\ waiter'["ready"] = None
    BY <1>4 DEF Fast
  <2> QED BY <1>4, <2>1, <2>2, <2>3 DEF Fast
<1> QED BY <1>2, <1>3, <1>4, Ends

FastInv == BleInv0 /\ Roles /\ Handshakes /\ Regs /\ Fast

LEMMA FastInvInit == Init => FastInv
<1> SUFFICES ASSUME Init PROVE FastInv
  OBVIOUS
<1>1. \A x : ~Contains(device, x) /\ \A y : ~Precedes(device, x, y)
  BY DEF Init, Contains, Precedes
<1>2. Roles
  BY CallsAssumption DEF Init, Roles, Role, Waiters
<1>3. Handshakes /\ Regs
  BY <1>1 DEF Init, Handshakes, Regs, Enrolling
<1>4. Fast
  BY <1>1 DEF Init, Fast, Waiting, Waiters
<1> QED BY <1>2, <1>3, <1>4, InitTypes DEF FastInv

LEMMA FastInvStep ==
  ASSUME FastInv, [Next]_vars
  PROVE  FastInv'
BY StepTypes, StepRoles, HandshakesStep, RegsStep, FastStep DEF FastInv

(* A request waits only on a session that is logged in, over a link that   *)
(* is up and not given up (_failAllPending of session.js), until a third   *)
(* call of register() has taken a token to the server (FailFast).          *)
THEOREM RequestsWaitOnALiveLink == Spec => []FailFast
<1>1. FastInv => FailFast
  BY DEF FastInv, Fast, FailFast
<1> QED BY <1>1, FastInvInit, FastInvStep, PTL DEF Spec

-----------------------------------------------------------------------------
(* OwnResponse.                                                            *)

(* What may log a session in by its connection: the initial token, while   *)
(* it has not been heard, and then what the device answers to the login    *)
(* made of it, or the login while the server signs it.                     *)
Chance(f) == f = LoginOf(conns) \/ \E n : f = InitialOf(n)
ChanceLeft == conns \in signing \/ \E f : Chance(f) /\ Contains(device, f)

(* There is never more than one. *)
OneChance ==
  /\ \A f, n : ~Precedes(device, f, InitialOf(n))
  /\ signing \subseteq 1 .. conns
  /\ \A n : Contains(device, InitialOf(n)) => n \in 1 .. conns
  /\ \A f, g : Chance(f) /\ Chance(g) => ~Precedes(device, f, g)
  /\ conns \in signing => \A f : Chance(f) => ~Contains(device, f)

LEMMA OneChanceStep ==
  ASSUME BleInv0, OneChance, [Next]_vars
  PROVE  OneChance' /\ (~LinkUp => conns' = conns /\ (ChanceLeft' => ChanceLeft))
<1> DEFINE One == OneChance' /\ (~LinkUp => conns' = conns /\ (ChanceLeft' => ChanceLeft))
<1> SUFFICES One
  OBVIOUS
<1> USE DEF BleInv0
<1>1. /\ device \in Seq(Frames) /\ conns \in 0 .. MaxConns
      /\ device # <<>> => /\ Tail(device) \in Seq(Frames) /\ PartOf(Tail(device), device)
                          /\ \A b : Contains(Tail(device), b) => Precedes(device, Head(device), b)
  BY Parts, TailFacts DEF DataOK
<1>2. ASSUME conns' = conns, signing' \subseteq signing, PartOf(device', device) PROVE One
  BY <1>2 DEF OneChance, ChanceLeft, Chance, PartOf
<1>3. ASSUME conns' = conns, signing' \subseteq signing, NEW f, Grows(f), ~Chance(f) PROVE One
  <2>1. \A g : (Chance(g)' <=> Chance(g)) /\ (Chance(g) => g # f)
    BY <1>3 DEF Chance
  <2>2. \A n : InitialOf(n) # f
    BY <1>3 DEF Chance
  <2>3. /\ \A g, n : ~Precedes(device', g, InitialOf(n))
        /\ \A n : Contains(device', InitialOf(n)) => n \in 1 .. conns'
    BY <1>3, <2>2 DEF Grows, OneChance
  <2>4. \A g, h : Chance(g)' /\ Chance(h)' => ~Precedes(device', g, h)
    BY <1>3, <2>1 DEF Grows, OneChance
  <2>5. \A g : Chance(g)' /\ Contains(device', g) => Contains(device, g)
    BY <1>3, <2>1 DEF Grows
  <2>6. ChanceLeft' => ChanceLeft
    BY <1>3, <2>1, <2>5 DEF ChanceLeft
  <2>7. signing' \subseteq 1 .. conns' /\ (conns' \in signing' => \A g : Chance(g)' => ~Contains(device', g))
    BY <1>3, <2>1, <2>5 DEF OneChance
  <2> QED BY <1>3, <2>3, <2>4, <2>6, <2>7 DEF OneChance
<1>4. CASE LinkUp
  <2>1. device' = <<InitialOf(conns + 1)>> /\ conns' = conns + 1 /\ signing' = signing
    BY <1>4 DEF LinkUp, InitialOf, keyVars
  <2>2. \A x, y : ~Precedes(device', x, y) /\ (Contains(device', x) <=> x = InitialOf(conns + 1))
    BY <2>1 DEF Precedes, Contains
  <2>3. signing' \subseteq 1 .. conns' /\ conns' \notin signing' /\ conns + 1 \in 1 .. conns'
    BY <1>1, <2>1 DEF OneChance
  <2>4. \A n : InitialOf(n) = InitialOf(conns + 1) => n = conns + 1
    <3>1. \A n : InitialOf(n).of = n
      BY DEF InitialOf
    <3> QED BY <3>1
  <2> QED BY <1>4, <2>2, <2>3, <2>4 DEF OneChance
<1>5. CASE HearInitial
  <2> DEFINE n == Head(device).of
  <2>1. /\ device # <<>> /\ Head(device) = InitialOf(n) /\ conns' = conns
        /\ \/ device' = Tail(device) /\ signing' \in {signing, signing \cup {n}}
           \/ device' = Written(Tail(device), LoginOf(n)) /\ signing' = signing
    BY <1>5, DeviceHead, FrameIs DEF HearInitial, LoginOf
  <2>2. Contains(device, InitialOf(n)) /\ LoginOf(n) \in Frames
    BY <1>5, <2>1, DeviceNext, HeadIs, FramesAre DEF HearInitial
  <2> HIDE DEF n
  <2>3. n \in 1 .. conns /\ Chance(InitialOf(n)) /\ ChanceLeft
    BY <2>2 DEF OneChance, Chance, ChanceLeft
  <2>4. \A f : Chance(f) => ~Contains(Tail(device), f)
    BY <1>1, <2>1, <2>3 DEF OneChance
  <2>5. \A m : ~Contains(Tail(device), InitialOf(m))
    BY <2>4 DEF Chance
  <2>6. CASE device' = Tail(device) /\ signing' \in {signing, signing \cup {n}}
    <3>1. /\ \A f, m : ~Precedes(device', f, InitialOf(m))
          /\ \A f, g : Chance(f)' /\ Chance(g)' => ~Precedes(device', f, g)
      BY <1>1, <2>1, <2>6 DEF OneChance, Chance, PartOf
    <3>2. \A f : Chance(f)' => ~Contains(device', f)
      BY <2>1, <2>4, <2>6 DEF Chance
    <3> QED BY <2>1, <2>3, <2>5, <2>6, <3>1, <3>2 DEF OneChance
  <2>7. CASE device' = Written(Tail(device), LoginOf(n)) /\ signing' = signing /\ Writable
    <3>1. device' = Append(Tail(device), LoginOf(n))
      BY <2>7 DEF Written
    <3>2. /\ \A x : Contains(device', x) <=> Contains(Tail(device), x) \/ x = LoginOf(n)
          /\ \A a, b : Precedes(device', a, b) <=>
                         Precedes(Tail(device), a, b) \/ (Contains(Tail(device), a) /\ b = LoginOf(n))
      BY <1>1, <2>1, <2>2, <3>1, AppendFacts
    <3>3. /\ \A f, m : ~Precedes(device', f, InitialOf(m))
          /\ \A m : ~Contains(device', InitialOf(m))
      BY <1>1, <2>1, <2>5, <3>2, FramesDiffer DEF OneChance, PartOf
    <3>4. \A f, g : Chance(f)' /\ Chance(g)' => ~Precedes(device', f, g)
      BY <1>1, <2>1, <2>4, <3>2 DEF OneChance, Chance, PartOf
    <3>5. conns \notin signing
      BY <2>2, <2>3 DEF OneChance
    <3> QED BY <2>1, <2>3, <2>7, <3>3, <3>4, <3>5 DEF OneChance
  <2>8. CASE device' = Written(Tail(device), LoginOf(n)) /\ signing' = signing /\ ~Writable
    BY <1>1, <1>2, <2>1, <2>8 DEF Written
  <2> QED BY <2>1, <2>6, <2>7, <2>8
<1>6. ASSUME NEW n \in signing, ServerSigns(n) PROVE One
  <2>1. conns' = conns /\ signing' = signing \ {n}
    BY <1>6 DEF ServerSigns
  <2>2. CASE PartOf(device', device)
    BY <1>2, <2>1, <2>2
  <2>3. CASE Grows(LoginOf(n)) /\ n # conns
    <3>1. ~Chance(LoginOf(n))
      BY <2>3, FramesDiffer DEF Chance
    <3> QED BY <1>3, <2>1, <2>3, <3>1
  <2>4. CASE Grows(LoginOf(n)) /\ n = conns
    <3>1. \A f : Chance(f) => ~Contains(device, f)
      BY <2>4 DEF OneChance
    <3>2. /\ \A f, m : ~Precedes(device', f, InitialOf(m))
          /\ \A m : ~Contains(device', InitialOf(m))
      BY <2>4, <3>1, FramesDiffer DEF OneChance, Grows, Chance
    <3>3. \A f, g : Chance(f)' /\ Chance(g)' => ~Precedes(device', f, g)
      BY <2>1, <2>4, <3>1 DEF OneChance, Grows, Chance
    <3>4. ChanceLeft /\ conns \notin signing'
      BY <2>1, <2>4 DEF ChanceLeft
    <3> QED BY <2>1, <3>2, <3>3, <3>4 DEF OneChance
  <2>5. PartOf(device', device) \/ (Writable /\ Grows(LoginOf(n)))
    <3>1. device' = Written(device, LoginOf(n)) /\ LoginOf(n) \in Frames /\ PartOf(device, device)
      BY <1>1, <1>6, FramesAre, Parts DEF ServerSigns, LoginOf, DataOK
    <3> QED BY <1>1, <3>1, WrittenGrows
  <2> QED BY <2>2, <2>3, <2>4, <2>5
<1>7. ASSUME ~LinkUp, ~HearInitial, ~\E n \in signing : ServerSigns(n) PROVE One
  <2>1. conns' = conns /\ signing' \subseteq signing
    <3>1. CASE HearBadInitial \/ HearLogin \/ HearRegistration \/ HearResponse \/ Silent \/ Lost
               \/ WriteFails \/ Disconnect \/ UNCHANGED vars
      BY <3>1 DEF HearBadInitial, HearLogin, HearRegistration, HearResponse, Silent, Lost,
                  WriteFails, Disconnect, vars, keyVars, linkVars
    <3>2. ASSUME NEW n \in signing, ServerRefuses(n) PROVE conns' = conns /\ signing' \subseteq signing
      BY <3>2 DEF ServerRefuses, linkVars
    <3>3. ASSUME NEW c \in Calls, Connect(c) \/ Register(c) \/ Refused(c) \/ Linked(c) \/ LinkFails(c)
                                  \/ Enrolled(c) \/ \E w \in Waiters : WaiterTimesOut(c, w)
          PROVE  conns' = conns /\ signing' \subseteq signing
      BY <3>3 DEF Connect, Register, Accept, Refused, Linked, LinkFails, Enrolled, WaiterTimesOut,
                  keyVars, linkVars
    <3>4. ASSUME NEW r \in Requests, RequestTimesOut(r) \/ \E i \in Items : Request(r, i)
          PROVE  conns' = conns /\ signing' \subseteq signing
      BY <3>4 DEF RequestTimesOut, Request, keyVars, linkVars
    <3> QED BY <1>7, <3>1, <3>2, <3>3, <3>4 DEF Next
  <2>2. CASE PartOf(device', device)
    BY <1>2, <2>1, <2>2
  <2>3. CASE Grows(Registration) \/ \E r, i : Grows(ResponseTo(r, i))
    <3>1. ~Chance(Registration) /\ \A r, i : ~Chance(ResponseTo(r, i))
      BY FramesDiffer DEF Chance
    <3> QED BY <1>3, <2>1, <2>3, <3>1
  <2> QED BY <1>7, <2>2, <2>3, DeviceSteps
<1> QED BY <1>4, <1>5, <1>6, <1>7

LEMMA TwiceLasts ==
  ASSUME BleInv0, Roles, [Next]_vars
  PROVE  (Twice => Twice') /\ (TwoPast => Twice) /\ (Thrice => Twice)
<1>1. \A c \in Enrolling : c \in Enrolling'
  BY Lasting DEF Enrolling
<1>2. \A c \in Calls : Past(c) => c \in Enrolling
  BY DEF Past, Enrolling
<1> QED BY <1>1, <1>2 DEF Twice, TwoPast, Thrice

(* Where it is left the session is not logged in, and was not before over  *)
(* this link.                                                              *)
Spent ==
  ~Twice /\ ChanceLeft => ~loggedIn /\ \A r, i : ~Contains(device, ResponseTo(r, i))

LEMMA SpentStep ==
  ASSUME BleInv0, Roles, Handshakes, Regs, Fast, OneChance, Spent, [Next]_vars
  PROVE  Spent'
<1> USE DEF BleInv0
<1> SUFFICES ASSUME ~Twice', ChanceLeft'
             PROVE  ~loggedIn' /\ \A r, i : ~Contains(device', ResponseTo(r, i))
  BY DEF Spent
<1>1. ~Twice /\ ~TwoPast /\ ~Thrice
  BY TwiceLasts
<1>2. CASE LinkUp
  <2>1. ~link /\ loggedIn' = loggedIn /\ device' = <<InitialOf(conns + 1)>>
    BY <1>2 DEF LinkUp, stateVars, InitialOf
  <2>2. ~loggedIn
    BY <1>1, <2>1 DEF Fast
  <2>3. \A x : Contains(device', x) => x = InitialOf(conns + 1)
    BY <2>1 DEF Contains
  <2> QED BY <2>1, <2>2, <2>3, FramesDiffer
<1>3. CASE ~LinkUp
  <2>1. ~loggedIn /\ conns' = conns /\ \A r, i : ~Contains(device, ResponseTo(r, i))
    BY <1>1, <1>3, OneChanceStep DEF Spent
  <2>2. \A r, i : ~Contains(device', ResponseTo(r, i))
    <3>1. CASE PartOf(device', device)
      BY <2>1, <3>1 DEF PartOf
    <3>2. ASSUME NEW f, \A r, i : f # ResponseTo(r, i), Grows(f)
          PROVE  \A r, i : ~Contains(device', ResponseTo(r, i))
      BY <2>1, <3>2 DEF Grows
    <3> QED BY <1>3, <2>1, <3>1, <3>2, DeviceSteps, FramesDiffer
  <2>3. ~(HearLogin /\ Head(device).of = conns)
    <3> SUFFICES ASSUME HearLogin, Head(device).of = conns PROVE FALSE
      OBVIOUS
    <3>1. /\ device # <<>> /\ device \in Seq(Frames) /\ Head(device) = LoginOf(conns)
          /\ device' = Tail(device) /\ signing' = signing
      BY DeviceHead, FrameIs DEF HearLogin, DataOK, keyVars
    <3>2. Chance(LoginOf(conns)) /\ Contains(device, LoginOf(conns))
      BY <3>1, TailFacts DEF Chance
    <3>3. \A f : Chance(f) => ~Contains(device', f)
      BY <3>1, <3>2, TailFacts DEF OneChance
    <3>4. conns \notin signing
      BY <3>2 DEF OneChance
    <3> QED BY <2>1, <3>1, <3>3, <3>4 DEF ChanceLeft, Chance
  <2>4. ~HearRegistration
    <3> SUFFICES ASSUME HearRegistration PROVE FALSE
      OBVIOUS
    <3>1. /\ device # <<>> /\ device \in Seq(Frames) /\ Contains(device, Registration)
          /\ device' = Tail(device) /\ signing' = signing
      BY DeviceNext DEF HearRegistration, DataOK
    <3>2. ~secret
      BY <1>1, <3>1 DEF Regs
    <3>3. signing = {} /\ \A n : ~Contains(device, LoginOf(n))
      BY <3>2 DEF Handshakes
    <3>4. /\ \A n : ~Contains(device', LoginOf(n))
          /\ \A n : ~Contains(device', InitialOf(n))
      BY <3>1, <3>3, TailFacts DEF OneChance
    <3> QED BY <3>1, <3>3, <3>4 DEF ChanceLeft, Chance
  <2>5. ~loggedIn'
    BY <2>1, <2>3, <2>4, LogsIn
  <2> QED BY <2>2, <2>5
<1> QED BY <1>2, <1>3

-----------------------------------------------------------------------------
(* The requests and the responses to them.                                 *)

LEMMA RequestSteps ==
  ASSUME BleInv0, [Next]_vars
  PROVE  /\ \A r \in Requests : request'[r] = "idle" => request[r] = "idle"
         /\ \A i \in Items :
              \/ pending'[i] \in {pending[i], <<>>}
              \/ pending[i] # <<>> /\ pending'[i] = Tail(pending[i])
              \/ \E j \in 1 .. Len(pending[i]) : pending'[i] = RemoveAt(pending[i], j)
              \/ loggedIn /\ \E r \in Requests : /\ pending'[i] = Append(pending[i], r)
                                                 /\ request[r] = "idle" /\ request'[r] # "idle"
<1> DEFINE Kept == \A r \in Requests : request'[r] = "idle" => request[r] = "idle"
           Queued(i) ==
              \/ pending'[i] \in {pending[i], <<>>}
              \/ pending[i] # <<>> /\ pending'[i] = Tail(pending[i])
              \/ \E j \in 1 .. Len(pending[i]) : pending'[i] = RemoveAt(pending[i], j)
              \/ loggedIn /\ \E r \in Requests : /\ pending'[i] = Append(pending[i], r)
                                                 /\ request[r] = "idle" /\ request'[r] # "idle"
           Both == Kept /\ \A i \in Items : Queued(i)
<1> SUFFICES Both
  OBVIOUS
<1> USE DEF BleInv0
<1>1. DOMAIN pending = Items /\ request \in [Requests -> {"idle", "waiting", "answered", "failed"}]
  BY DEF DataOK
<1>2. ASSUME UNCHANGED <<pending, request>> PROVE Both
  BY <1>2
<1>3. ASSUME FailAllPending \/ HandleDisconnect PROVE Both
  <2>1. CASE FailAllPending
    <3>1. /\ pending' = [i \in Items |-> <<>>]
          /\ request' = [r \in Requests |-> IF r \in Waiting THEN "failed" ELSE request[r]]
      BY <2>1 DEF FailAllPending
    <3> QED BY <1>1, <3>1
  <2> QED BY <1>2, <1>3, <2>1 DEF HandleDisconnect, requestVars
<1>4. ASSUME NEW r \in Requests, NEW i \in Items, Request(r, i) PROVE Both
  <2>1. CASE loggedIn
    <3>1. /\ request[r] = "idle" /\ request' = [request EXCEPT ![r] = "waiting"]
          /\ pending' = [pending EXCEPT ![i] = Append(@, r)]
      BY <1>4, <2>1 DEF Request
    <3>2. pending'[i] = Append(pending[i], r) /\ request'[r] # "idle"
      BY <1>1, <3>1
    <3>3. Kept
      BY <1>1, <3>1
    <3>4. \A j \in Items : j # i => pending'[j] = pending[j]
      BY <1>1, <3>1
    <3> QED BY <2>1, <3>1, <3>2, <3>3, <3>4
  <2>2. CASE ~loggedIn
    <3>1. pending' = pending /\ request' = [request EXCEPT ![r] = "failed"]
      BY <1>4, <2>2 DEF Request
    <3> QED BY <1>1, <3>1
  <2> QED BY <2>1, <2>2
<1>5. ASSUME NEW r \in Requests, RequestTimesOut(r) PROVE Both
  <2>1. PICK i \in Items : \E j \in 1 .. Len(pending[i]) : pending' = [pending EXCEPT ![i] = RemoveAt(@, j)]
    BY <1>5 DEF RequestTimesOut, Dequeued
  <2> PICK j \in 1 .. Len(pending[i]) : pending' = [pending EXCEPT ![i] = RemoveAt(@, j)]
    BY <2>1
  <2>2. pending'[i] = RemoveAt(pending[i], j) /\ \A k \in Items : k # i => pending'[k] = pending[k]
    BY <1>1
  <2>3. Kept
    BY <1>1, <1>5 DEF RequestTimesOut
  <2> QED BY <2>2, <2>3
<1>6. CASE HearResponse
  <2> DEFINE i == Head(device).item
  <2>1. i \in Items
    BY <1>6, HeadIs DEF HearResponse
  <2>2. CASE pending[i] = <<>>
    BY <1>2, <1>6, <2>2 DEF HearResponse, requestVars
  <2>3. CASE pending[i] # <<>>
    <3>1. /\ pending' = [pending EXCEPT ![i] = Tail(@)]
          /\ \E outcome \in {"answered", "failed"} :
               request' = [request EXCEPT ![Head(pending[i])] = outcome]
      BY <1>6, <2>3 DEF HearResponse
    <3> HIDE DEF i
    <3>2. pending'[i] = Tail(pending[i]) /\ \A k \in Items : k # i => pending'[k] = pending[k]
      BY <1>1, <2>1, <3>1
    <3>3. Kept
      BY <1>1, <3>1
    <3> QED BY <2>3, <3>2, <3>3
  <2> QED BY <2>2, <2>3
<1>7. CASE Lost \/ WriteFails \/ Disconnect
  BY <1>3, <1>7 DEF Lost, WriteFails, Disconnect
<1>8. CASE LinkUp \/ HearInitial \/ HearBadInitial \/ HearLogin \/ HearRegistration \/ Silent \/ UNCHANGED vars
  BY <1>2, <1>8 DEF LinkUp, HearInitial, HearBadInitial, HearLogin, HearRegistration, Silent, vars, requestVars
<1>9. ASSUME NEW n \in signing, ServerSigns(n) \/ ServerRefuses(n) PROVE Both
  BY <1>2, <1>9 DEF ServerSigns, ServerRefuses, requestVars
<1>10. ASSUME NEW c \in Calls, Connect(c) \/ Register(c) \/ Refused(c) \/ Linked(c) \/ LinkFails(c)
                               \/ Enrolled(c) \/ \E w \in Waiters : WaiterTimesOut(c, w)
       PROVE  Both
  BY <1>2, <1>10 DEF Connect, Register, Accept, Refused, Linked, LinkFails, Enrolled, WaiterTimesOut,
                     requestVars
<1> QED BY <1>4, <1>5, <1>6, <1>7, <1>8, <1>9, <1>10 DEF Next

(* A request is made once: it waits at one place, and is answered once.    *)
Single ==
  /\ ~loggedIn => \A i \in Items : pending[i] = <<>>
  /\ \A i \in Items : IsInjective(pending[i])
  /\ \A r \in Requests, i \in Items :
       Contains(pending[i], r) \/ Contains(device, ResponseTo(r, i)) => request[r] # "idle"
  /\ \A r \in Requests, i \in Items : ~Precedes(device, ResponseTo(r, i), ResponseTo(r, i))

LEMMA SingleStep ==
  ASSUME BleInv0, Single, [Next]_vars
  PROVE  Single'
<1> USE DEF BleInv0
<1>1. \A i \in Items : pending[i] \in Seq(Requests)
  BY DEF DataOK
<1>2. ASSUME ~loggedIn', NEW i \in Items PROVE pending'[i] = <<>>
  <2>1. CASE loggedIn
    <3>1. FailAllPending \/ loggedIn' = loggedIn
      BY <2>1, <1>2, Ends
    <3> QED BY <1>2, <2>1, <3>1 DEF FailAllPending
  <2>2. CASE ~loggedIn
    <3>1. pending[i] = <<>>
      BY <2>2 DEF Single
    <3> QED BY <2>2, <3>1, RequestSteps
  <2> QED BY <2>1, <2>2
<1>3. ASSUME NEW i \in Items
      PROVE  /\ IsInjective(pending'[i])
             /\ \A r \in Requests : Contains(pending'[i], r) => request'[r] # "idle"
  <2>1. /\ IsInjective(pending[i]) /\ pending[i] \in Seq(Requests)
        /\ \A r \in Requests : Contains(pending[i], r) => request'[r] # "idle"
    BY <1>1, RequestSteps DEF Single
  <2>2. CASE pending'[i] = pending[i]
    BY <2>1, <2>2
  <2>3. CASE pending'[i] = <<>>
    BY <2>3 DEF IsInjective, Contains
  <2>4. CASE pending[i] # <<>> /\ pending'[i] = Tail(pending[i])
    BY <2>1, <2>4, TailFacts
  <2>5. ASSUME NEW j \in 1 .. Len(pending[i]), pending'[i] = RemoveAt(pending[i], j)
        PROVE  /\ IsInjective(pending'[i])
               /\ \A r \in Requests : Contains(pending'[i], r) => request'[r] # "idle"
    BY <2>1, <2>5, RemoveAtFacts
  <2>6. ASSUME NEW q \in Requests, pending'[i] = Append(pending[i], q), request[q] = "idle", request'[q] # "idle"
        PROVE  /\ IsInjective(pending'[i])
               /\ \A r \in Requests : Contains(pending'[i], r) => request'[r] # "idle"
    <3>1. ~Contains(pending[i], q)
      BY <2>6 DEF Single
    <3> QED BY <2>1, <2>6, <3>1, AppendFacts
  <2> QED BY <2>2, <2>3, <2>4, <2>5, <2>6, RequestSteps
<1>4. ASSUME NEW r \in Requests, NEW i \in Items
      PROVE  /\ Contains(device', ResponseTo(r, i)) => request'[r] # "idle"
             /\ ~Precedes(device', ResponseTo(r, i), ResponseTo(r, i))
  <2> DEFINE f == ResponseTo(r, i)
  <2>1. /\ Contains(device, f) => request'[r] # "idle"
        /\ Contains(device, f) => request[r] # "idle"
        /\ ~Precedes(device, f, f)
    BY RequestSteps DEF Single
  <2>2. CASE PartOf(device', device)
    BY <2>1, <2>2 DEF PartOf
  <2>3. ASSUME NEW g, g # f, Grows(g)
        PROVE  (Contains(device', f) => request'[r] # "idle") /\ ~Precedes(device', f, f)
    BY <2>1, <2>3 DEF Grows
  <2>4. ASSUME Request(r, i), Grows(f), loggedIn
        PROVE  (Contains(device', f) => request'[r] # "idle") /\ ~Precedes(device', f, f)
    <3>1. request[r] = "idle" /\ request'[r] # "idle"
      BY <2>4 DEF Request, DataOK
    <3> QED BY <2>1, <2>4, <3>1 DEF Grows
  <2>5. CASE LinkUp
    <3>1. device' = <<InitialOf(conns + 1)>>
      BY <2>5 DEF LinkUp, InitialOf
    <3>2. ~Contains(device', f) /\ ~Precedes(device', f, f)
      BY <3>1, FramesDiffer DEF Contains, Precedes
    <3> QED BY <3>2
  <2>6. ASSUME NEW q \in Requests, NEW j \in Items, loggedIn, Request(q, j), Grows(ResponseTo(q, j))
        PROVE  (Contains(device', f) => request'[r] # "idle") /\ ~Precedes(device', f, f)
    <3>1. CASE ResponseTo(q, j) = f
      <4>1. q = r /\ j = i
        BY <3>1, FramesDiffer
      <4> QED BY <2>4, <2>6, <4>1
    <3> QED BY <2>3, <2>6, <3>1
  <2> QED BY <2>2, <2>3, <2>5, <2>6, DeviceSteps, FramesDiffer
<1> QED BY <1>2, <1>3, <1>4 DEF Single

(* The responses that are under way are to requests that wait, in the      *)
(* order in which these wait, and lack only what is behind.                *)
OrderedAt(i) ==
  /\ loggedIn => \A r \in Requests : Contains(device, ResponseTo(r, i)) => Contains(pending[i], r)
  /\ loggedIn => \A r, q \in Requests :
       Precedes(device, ResponseTo(r, i), ResponseTo(q, i)) => Precedes(pending[i], r, q)
  /\ \A r, q \in Requests : Precedes(pending[i], r, q) /\ Contains(device, ResponseTo(q, i)) =>
                              Contains(device, ResponseTo(r, i))
  /\ Writable => \A r \in Requests : Contains(pending[i], r) => Contains(device, ResponseTo(r, i))

Order == Twice \/ \A i \in Items : i \in astray \/ (i \notin crossed /\ OrderedAt(i))

(* No response is said or lost. *)
SameResponses ==
  /\ \A r, i : Contains(device', ResponseTo(r, i)) <=> Contains(device, ResponseTo(r, i))
  /\ \A r, q, i : Precedes(device', ResponseTo(r, i), ResponseTo(q, i)) =>
                    Precedes(device, ResponseTo(r, i), ResponseTo(q, i))

LEMMA OtherFrames ==
  ASSUME BleInv0, NEW f \in Frames, f.says # "response",
         \/ device' \in {device, Written(device, f)}
         \/ /\ device # <<>> /\ Head(device).says # "response"
            /\ device' \in {Tail(device), Written(Tail(device), f)}
  PROVE  SameResponses
<1> DEFINE Same(s) == /\ \A r, i : Contains(s, ResponseTo(r, i)) <=> Contains(device, ResponseTo(r, i))
                      /\ \A r, q, i : Precedes(s, ResponseTo(r, i), ResponseTo(q, i)) =>
                                        Precedes(device, ResponseTo(r, i), ResponseTo(q, i))
<1>1. device \in Seq(Frames)
  BY DEF BleInv0, DataOK
<1>2. \A r, i : ResponseTo(r, i).says = "response"
  BY DEF ResponseTo
<1>3. ASSUME device # <<>>, Head(device).says # "response" PROVE Tail(device) \in Seq(Frames) /\ Same(Tail(device))
  BY <1>1, <1>2, <1>3, TailFacts
<1>4. ASSUME NEW s \in Seq(Frames), Same(s) PROVE Same(Written(s, f))
  <2>1. CASE Writable
    <3>1. Written(s, f) = Append(s, f)
      BY <2>1 DEF Written
    <3>2. /\ \A x : Contains(Append(s, f), x) <=> Contains(s, x) \/ x = f
          /\ \A a, b : Precedes(Append(s, f), a, b) <=> Precedes(s, a, b) \/ (Contains(s, a) /\ b = f)
      BY AppendFacts
    <3>3. \A r, i : ResponseTo(r, i) # f
      BY <1>2
    <3> QED BY <1>4, <3>1, <3>2, <3>3
  <2>2. CASE ~Writable
    BY <1>4, <2>2 DEF Written
  <2> QED BY <2>1, <2>2
<1>5. \A s : device' = s /\ Same(s) => SameResponses
  BY DEF SameResponses
<1>6. Same(device)
  OBVIOUS
<1> HIDE DEF Same
<1> QED BY <1>1, <1>3, <1>4, <1>5, <1>6

(* What is left of a step, besides those that send or take a response.     *)
LEMMA OtherSteps ==
  ASSUME BleInv0, [Next]_vars
  PROVE  \/ FailAllPending /\ UNCHANGED <<crossed, astray>>
         \/ dropped /\ Lost /\ UNCHANGED <<loggedIn, requestVars>>
         \/ LinkUp \/ HearResponse \/ Silent
         \/ \E r \in Requests : RequestTimesOut(r) \/ \E i \in Items : Request(r, i)
         \/ SameResponses /\ UNCHANGED requestVars /\ (Writable' => Writable \/ ~loggedIn)
<1> DEFINE Other == SameResponses /\ UNCHANGED requestVars /\ (Writable' => Writable \/ ~loggedIn)
<1> USE DEF BleInv0
<1>1. Registration \in Frames /\ Registration.says # "response"
  BY FramesAre DEF Registration
<1>2. ASSUME UNCHANGED device PROVE SameResponses
  BY <1>1, <1>2, OtherFrames
<1>3. ASSUME UNCHANGED <<link, dropped>>, stuck => stuck' PROVE Writable' => Writable \/ ~loggedIn
  BY <1>3 DEF Writable
<1>4. ASSUME ChainAfterWrite PROVE stuck => stuck'
  BY <1>4 DEF ChainAfterWrite
<1>5. ASSUME NEW c \in Calls, Connect(c) \/ Register(c) PROVE Other
  <2>1. PICK w \in {"login", "ready"} : Accept(c, w) /\ ~Busy
    BY <1>5 DEF Connect, Register
  <2>2. ~loggedIn /\ UNCHANGED <<device, requestVars>>
    BY <2>1 DEF Accept, Busy
  <2> QED BY <1>2, <2>2
<1>6. ASSUME NEW c \in Calls, Refused(c) \/ Linked(c) \/ LinkFails(c) \/ \E w \in Waiters : WaiterTimesOut(c, w)
      PROVE  Other
  BY <1>2, <1>3, <1>6 DEF Refused, Linked, LinkFails, WaiterTimesOut, linkVars
<1>7. ASSUME NEW c \in Calls, Enrolled(c) PROVE Other
  <2>1. device' = Written(device, Registration) /\ ChainAfterWrite /\ UNCHANGED <<requestVars, link, dropped>>
    BY <1>7 DEF Enrolled, Registration
  <2>2. SameResponses
    BY <1>1, <2>1, OtherFrames
  <2> QED BY <1>3, <1>4, <2>1, <2>2
<1>8. CASE HearInitial
  <2> DEFINE f == LoginOf(Head(device).of)
  <2>1. f \in Frames /\ f.says # "response"
    BY <1>8, HeadIs, FramesAre DEF HearInitial, LoginOf
  <2>2. /\ device # <<>> /\ Head(device).says # "response" /\ UNCHANGED <<requestVars, link, dropped>>
        /\ \/ device' = Tail(device) /\ stuck' = stuck
           \/ device' = Written(Tail(device), f) /\ ChainAfterWrite
    BY <1>8 DEF HearInitial, LoginOf
  <2>3. stuck => stuck'
    BY <1>4, <2>2
  <2> HIDE DEF f
  <2>4. SameResponses
    BY <2>1, <2>2, OtherFrames
  <2> QED BY <1>3, <2>2, <2>3, <2>4
<1>9. CASE HearBadInitial \/ HearLogin \/ HearRegistration
  <2>1. /\ device # <<>> /\ Head(device).says # "response" /\ device' = Tail(device)
        /\ UNCHANGED <<requestVars, link, dropped, stuck>>
    BY <1>9 DEF HearBadInitial, HearLogin, HearRegistration
  <2>2. SameResponses
    BY <1>1, <2>1, OtherFrames
  <2> QED BY <1>3, <2>1, <2>2
<1>10. ASSUME NEW n \in signing, ServerSigns(n) PROVE Other
  <2>1. LoginOf(n) \in Frames /\ LoginOf(n).says # "response"
    BY FramesAre DEF LoginOf, DataOK
  <2>2. device' = Written(device, LoginOf(n)) /\ ChainAfterWrite /\ UNCHANGED <<requestVars, link, dropped>>
    BY <1>10 DEF ServerSigns, LoginOf
  <2>3. SameResponses
    BY <2>1, <2>2, OtherFrames
  <2> QED BY <1>3, <1>4, <2>2, <2>3
<1>11. ASSUME UNCHANGED vars \/ \E n \in signing : ServerRefuses(n) PROVE Other
  BY <1>2, <1>3, <1>11 DEF ServerRefuses, vars, linkVars
<1>12. CASE Lost \/ WriteFails \/ Disconnect
  BY <1>12 DEF Lost, WriteFails, Disconnect, Writable, HandleDisconnect, FailAllPending, stateVars
<1> QED BY <1>5, <1>6, <1>7, <1>8, <1>9, <1>10, <1>11, <1>12 DEF Next

LEMMA StaysOrdered ==
  ASSUME BleInv0, Single, NEW i \in Items, OrderedAt(i), SameResponses, pending'[i] = pending[i],
         loggedIn' => loggedIn \/ \A r \in Requests : ~Contains(device, ResponseTo(r, i)),
         Writable' => Writable \/ ~loggedIn
  PROVE  OrderedAt(i)'
<1>1. \A r, q : Precedes(device, ResponseTo(r, i), ResponseTo(q, i)) => Contains(device, ResponseTo(r, i))
  BY DEF Precedes, Contains
<1>2. ~loggedIn => \A r \in Requests : ~Contains(pending[i], r)
  BY DEF Single, Contains
<1>3. loggedIn' => \A r \in Requests : Contains(device', ResponseTo(r, i)) => Contains(pending'[i], r)
  BY DEF OrderedAt, SameResponses
<1>4. loggedIn' => \A r, q \in Requests :
        Precedes(device', ResponseTo(r, i), ResponseTo(q, i)) => Precedes(pending'[i], r, q)
  BY <1>1 DEF OrderedAt, SameResponses
<1>5. \A r, q \in Requests : Precedes(pending'[i], r, q) /\ Contains(device', ResponseTo(q, i)) =>
                               Contains(device', ResponseTo(r, i))
  BY DEF OrderedAt, SameResponses
<1>6. Writable' => \A r \in Requests : Contains(pending'[i], r) => Contains(device', ResponseTo(r, i))
  BY <1>2 DEF OrderedAt, SameResponses
<1> QED BY <1>3, <1>4, <1>5, <1>6 DEF OrderedAt

LEMMA EmptyOrdered ==
  ASSUME NEW i \in Items, pending'[i] = <<>>,
         loggedIn' => \A r \in Requests : ~Contains(device', ResponseTo(r, i))
  PROVE  OrderedAt(i)'
<1>1. \A r : ~Contains(pending'[i], r) /\ \A q : ~Precedes(pending'[i], r, q)
  BY DEF Contains, Precedes
<1>2. \A r, q : Precedes(device', ResponseTo(r, i), ResponseTo(q, i)) => Contains(device', ResponseTo(r, i))
  BY DEF Contains, Precedes
<1> QED BY <1>1, <1>2 DEF OrderedAt

(* A request joins the end, and so does what the device will say to it.    *)
LEMMA RequestOrdered ==
  ASSUME BleInv0, Single, NEW i \in Items, OrderedAt(i), i \notin astray',
         NEW r \in Requests, NEW j \in Items, Request(r, j)
  PROVE  crossed' = crossed /\ OrderedAt(i)'
<1> USE DEF BleInv0
<1>1. /\ device \in Seq(Frames) /\ pending \in [Items -> Seq(Requests)] /\ pending[i] \in Seq(Requests)
      /\ request \in [Requests -> {"idle", "waiting", "answered", "failed"}]
      /\ \A q \in Requests, k \in Items : ResponseTo(q, k) \in Frames
  BY FramesAre DEF DataOK
<1>2. crossed' = crossed /\ loggedIn' = loggedIn /\ UNCHANGED <<link, dropped>> /\ request[r] = "idle"
  BY DEF Request, stateVars
<1>3. CASE ~loggedIn
  <2>1. UNCHANGED <<pending, device, stuck>>
    BY <1>3 DEF Request
  <2> QED BY <1>2, <2>1 DEF OrderedAt, Writable
<1>4. CASE loggedIn
  <2>1. /\ pending' = [pending EXCEPT ![j] = Append(@, r)] /\ ChainAfterWrite
        /\ IF key = conns THEN device' = Written(device, ResponseTo(r, j)) ELSE device' = device /\ j # i
    BY <1>4 DEF Request, ResponseTo
  <2>2. Writable' <=> Writable
    BY <1>2, <2>1 DEF ChainAfterWrite, Writable, FlagsOK
  <2>3. CASE j # i
    <3>1. pending'[i] = pending[i]
      BY <1>1, <2>1, <2>3
    <3>2. SameResponses \/ (Writable /\ device' = Append(device, ResponseTo(r, j)))
      <4>1. device' = device => SameResponses
        BY DEF SameResponses
      <4> QED BY <2>1, <4>1 DEF Written
    <3>3. CASE SameResponses
      BY <1>2, <1>4, <2>2, <3>1, <3>3, StaysOrdered
    <3>4. CASE device' = Append(device, ResponseTo(r, j))
      <4>1. /\ \A x : Contains(device', x) <=> Contains(device, x) \/ x = ResponseTo(r, j)
            /\ \A a, b : Precedes(device', a, b) <=>
                           Precedes(device, a, b) \/ (Contains(device, a) /\ b = ResponseTo(r, j))
        BY <1>1, <3>4, AppendFacts
      <4>2. \A q : ResponseTo(q, i) # ResponseTo(r, j)
        BY <2>3, FramesDiffer
      <4> QED BY <1>2, <2>2, <3>1, <4>1, <4>2 DEF OrderedAt
    <3> QED BY <1>2, <3>2, <3>3, <3>4
  <2>4. CASE j = i
    <3>1. pending'[i] = Append(pending[i], r) /\ device' = Written(device, ResponseTo(r, i))
      BY <1>1, <2>1, <2>4
    <3>2. /\ \A q : Contains(pending'[i], q) <=> Contains(pending[i], q) \/ q = r
          /\ \A p, q : Precedes(pending'[i], p, q) <=> Precedes(pending[i], p, q) \/ (Contains(pending[i], p) /\ q = r)
      BY <1>1, <3>1, AppendFacts
    <3>3. ~Contains(pending[i], r) /\ ~Contains(device, ResponseTo(r, i))
      BY <1>2 DEF Single
    <3>4. \A p, q : Precedes(pending[i], p, q) => Contains(pending[i], q)
      BY DEF Precedes, Contains
    <3>5. CASE Writable
      <4>1. device' = Append(device, ResponseTo(r, i))
        BY <3>1, <3>5 DEF Written
      <4>2. /\ \A x : Contains(device', x) <=> Contains(device, x) \/ x = ResponseTo(r, i)
            /\ \A a, b : Precedes(device', a, b) <=>
                           Precedes(device, a, b) \/ (Contains(device, a) /\ b = ResponseTo(r, i))
        BY <1>1, <4>1, AppendFacts
      <4>3. \A q : ResponseTo(q, i) = ResponseTo(r, i) => q = r
        BY FramesDiffer
      <4>4. \A q \in Requests : Contains(device', ResponseTo(q, i)) <=> Contains(pending'[i], q)
        BY <1>4, <3>2, <3>5, <4>2, <4>3 DEF OrderedAt
      <4>5. \A p, q \in Requests :
              Precedes(device', ResponseTo(p, i), ResponseTo(q, i)) => Precedes(pending'[i], p, q)
        BY <1>4, <3>2, <4>2, <4>3 DEF OrderedAt
      <4>6. \A p, q \in Requests : Precedes(pending'[i], p, q) => Contains(device', ResponseTo(p, i))
        BY <3>2, <3>4, <3>5, <4>2, <4>4 DEF OrderedAt, Precedes, Contains
      <4> QED BY <1>2, <4>4, <4>5, <4>6 DEF OrderedAt
    <3>6. CASE ~Writable
      <4>1. device' = device
        BY <3>1, <3>6 DEF Written
      <4> QED BY <1>2, <1>4, <2>2, <3>2, <3>3, <3>6, <4>1 DEF OrderedAt
    <3> QED BY <1>2, <3>5, <3>6
  <2> QED BY <2>3, <2>4
<1> QED BY <1>3, <1>4

(* What is heard is the response to the request that waits first.          *)
LEMMA ResponseOrdered ==
  ASSUME BleInv0, Single, NEW i \in Items, OrderedAt(i), i \notin crossed, HearResponse
  PROVE  i \notin crossed' /\ OrderedAt(i)'
<1> USE DEF BleInv0
<1> DEFINE t == Head(device).to
           j == Head(device).item
<1>1. /\ device # <<>> /\ device \in Seq(Frames) /\ pending \in [Items -> Seq(Requests)]
      /\ pending[i] \in Seq(Requests) /\ crossed \subseteq Items
      /\ device' = Tail(device) /\ UNCHANGED <<loggedIn, link, dropped, stuck>>
  BY DEF HearResponse, DataOK, stateVars
<1>2. t \in Requests /\ j \in Items /\ Head(device) = ResponseTo(t, j)
  BY <1>1, HeadIs, FrameIs DEF HearResponse
<1>3. CASE pending[j] = <<>>
  <2>1. UNCHANGED <<pending, crossed>>
    BY <1>3 DEF HearResponse, requestVars
  <2>2. \A r, q : /\ Contains(device', ResponseTo(r, q)) => Contains(device, ResponseTo(r, q))
                  /\ \A p : Precedes(device', ResponseTo(r, q), ResponseTo(p, q)) =>
                            Precedes(device, ResponseTo(r, q), ResponseTo(p, q))
    BY <1>1, TailFacts
  <2>3. CASE j = i
    <3>1. ~loggedIn
      <4>1. Contains(device, ResponseTo(t, i)) /\ ~Contains(pending[i], t)
        BY <1>1, <1>2, <1>3, <2>3, TailFacts DEF Contains
      <4> QED BY <1>2, <4>1 DEF OrderedAt
    <3>2. pending'[i] = <<>> /\ ~loggedIn'
      BY <1>1, <1>3, <2>1, <2>3, <3>1
    <3> QED BY <2>1, <3>2, EmptyOrdered
  <2>4. CASE j # i
    <3>1. \A r : Contains(device, ResponseTo(r, i)) => Contains(device', ResponseTo(r, i))
      <4>1. \A r : ResponseTo(r, i) # Head(device)
        BY <1>2, <2>4, FramesDiffer
      <4> QED BY <1>1, <4>1, TailFacts
    <3> QED BY <1>1, <2>1, <2>2, <3>1 DEF OrderedAt, Writable
  <2> QED BY <2>3, <2>4
<1>4. CASE pending[j] # <<>>
  <2>1. /\ pending' = [pending EXCEPT ![j] = Tail(@)]
        /\ crossed' = crossed \cup IF Head(pending[j]) = t THEN {} ELSE {j}
    BY <1>4 DEF HearResponse
  <2>2. loggedIn
    BY <1>2, <1>4 DEF Single
  <2> HIDE DEF t, j
  <2>3. /\ \A x : Contains(device, x) <=> Contains(device', x) \/ x = Head(device)
        /\ \A a, b : Precedes(device', a, b) => Precedes(device, a, b)
        /\ \A b : Contains(device', b) => Precedes(device, Head(device), b)
    BY <1>1, TailFacts
  <2>4. CASE j # i
    <3>1. pending'[i] = pending[i] /\ i \notin crossed'
      BY <1>1, <1>2, <2>1, <2>4
    <3>2. \A r : ResponseTo(r, i) # Head(device)
      BY <1>2, <2>4, FramesDiffer
    <3>3. \A r : Contains(device', ResponseTo(r, i)) <=> Contains(device, ResponseTo(r, i))
      BY <2>3, <3>2
    <3>4. \A r, q : Precedes(device', ResponseTo(r, i), ResponseTo(q, i)) =>
                    Precedes(device, ResponseTo(r, i), ResponseTo(q, i))
      BY <2>3
    <3> QED BY <1>1, <3>1, <3>3, <3>4 DEF OrderedAt, Writable
  <2>5. CASE j = i
    <3> DEFINE h == Head(pending[i])
               p == pending[i]
    <3>1. /\ p \in Seq(Requests) /\ p # <<>> /\ pending'[i] = Tail(p) /\ IsInjective(p)
          /\ h \in Requests
      BY <1>1, <1>2, <1>4, <2>1, <2>5 DEF Single
    <3> HIDE DEF p
    <3>2. /\ \A x : Contains(p, x) <=> Contains(Tail(p), x) \/ x = Head(p)
          /\ ~Contains(Tail(p), Head(p))
          /\ \A a, b : Precedes(Tail(p), a, b) => Precedes(p, a, b)
          /\ \A b : Contains(Tail(p), b) => Precedes(p, Head(p), b)
          /\ \A a, b : Precedes(p, a, b) /\ a # Head(p) => Precedes(Tail(p), a, b)
          /\ \A a, b : Precedes(Tail(p), a, b) => Contains(Tail(p), a)
          /\ \A a : ~Precedes(p, a, Head(p))
      <4>1. \A a, b : Precedes(Tail(p), a, b) => Contains(Tail(p), a)
        BY DEF Precedes, Contains
      <4> QED BY <3>1, <4>1, TailFacts, HeadFacts
    <3>3. h = t
      <4> SUFFICES ASSUME h # t PROVE FALSE
        OBVIOUS
      <4>1. Contains(p, t)
        BY <1>2, <2>2, <2>3, <2>5 DEF OrderedAt, p
      <4>2. Precedes(p, h, t)
        BY <3>2, <4>1 DEF p
      <4>3. Contains(device, ResponseTo(h, i))
        BY <1>2, <2>3, <2>5, <3>1, <4>2 DEF OrderedAt, p
      <4>4. ResponseTo(h, i) # Head(device)
        BY <1>2, FramesDiffer
      <4>5. Precedes(device, ResponseTo(t, i), ResponseTo(h, i))
        BY <1>2, <2>3, <2>5, <4>3, <4>4
      <4>6. Precedes(p, t, h)
        BY <1>2, <2>2, <3>1, <4>5 DEF OrderedAt, p
      <4> QED BY <3>2, <4>6 DEF p
    <3>4. i \notin crossed'
      BY <2>1, <2>5, <3>3
    <3>5. \A r \in Requests : Contains(device', ResponseTo(r, i)) => r # h
      <4>1. ~Precedes(device, ResponseTo(t, i), ResponseTo(t, i))
        BY <1>2 DEF Single
      <4> QED BY <1>2, <2>3, <2>5, <3>3, <4>1
    <3>6. \A r : Contains(device, ResponseTo(r, i)) /\ r # h => Contains(device', ResponseTo(r, i))
      <4>1. \A r : r # h => ResponseTo(r, i) # Head(device)
        BY <1>2, <3>3, FramesDiffer
      <4> QED BY <2>3, <4>1
    <3>7. \A r \in Requests : Contains(device', ResponseTo(r, i)) => Contains(pending'[i], r)
      BY <2>2, <2>3, <3>1, <3>2, <3>5 DEF OrderedAt, p
    <3>8. \A r, q \in Requests :
            Precedes(device', ResponseTo(r, i), ResponseTo(q, i)) => Precedes(pending'[i], r, q)
      <4>1. \A r, q : Precedes(device', ResponseTo(r, i), ResponseTo(q, i)) => Contains(device', ResponseTo(r, i))
        BY DEF Precedes, Contains
      <4> QED BY <2>2, <2>3, <3>1, <3>2, <3>5, <4>1 DEF OrderedAt, p
    <3>9. \A r, q \in Requests : Precedes(pending'[i], r, q) /\ Contains(device', ResponseTo(q, i)) =>
                                   Contains(device', ResponseTo(r, i))
      <4> SUFFICES ASSUME NEW r \in Requests, NEW q \in Requests, Precedes(pending'[i], r, q),
                          Contains(device', ResponseTo(q, i))
                   PROVE  Contains(device', ResponseTo(r, i))
        OBVIOUS
      <4>1. Precedes(pending[i], r, q) /\ r # h
        BY <3>1, <3>2 DEF p
      <4>2. Contains(device, ResponseTo(r, i))
        BY <2>3, <4>1 DEF OrderedAt
      <4> QED BY <3>6, <4>1, <4>2
    <3>10. Writable' => \A r \in Requests : Contains(pending'[i], r) => Contains(device', ResponseTo(r, i))
      <4> SUFFICES ASSUME Writable, NEW r \in Requests, Contains(pending'[i], r)
                   PROVE  Contains(device', ResponseTo(r, i))
        BY <1>1 DEF Writable
      <4>1. Contains(pending[i], r) /\ r # h
        BY <3>1, <3>2 DEF p
      <4>2. Contains(device, ResponseTo(r, i))
        BY <4>1 DEF OrderedAt
      <4> QED BY <3>6, <4>1, <4>2
    <3> QED BY <3>4, <3>7, <3>8, <3>9, <3>10 DEF OrderedAt
  <2> QED BY <2>4, <2>5
<1> QED BY <1>3, <1>4

LEMMA OrderStep ==
  ASSUME BleInv0, Roles, Handshakes, Regs, Fast, OneChance, Spent, Single, Order, [Next]_vars
  PROVE  Order'
<1> USE DEF BleInv0
<1> SUFFICES ASSUME ~Twice', NEW i \in Items, i \notin astray' PROVE i \notin crossed' /\ OrderedAt(i)'
  BY DEF Order
<1>1. ~Twice /\ ~TwoPast /\ ~Thrice
  BY TwiceLasts
<1>2. ASSUME i \notin astray PROVE i \notin crossed /\ OrderedAt(i)
  BY <1>1, <1>2 DEF Order
<1>3. loggedIn' => loggedIn \/ \A r \in Requests : ~Contains(device, ResponseTo(r, i))
  <2>1. ASSUME HearLogin, Head(device).of = conns PROVE \A r \in Requests : ~Contains(device, ResponseTo(r, i))
    <3>1. Contains(device, LoginOf(conns))
      BY <2>1, DeviceNext DEF HearLogin
    <3> QED BY <1>1, <3>1 DEF Spent, ChanceLeft, Chance
  <2>2. ASSUME HearRegistration PROVE \A r \in Requests : ~Contains(device, ResponseTo(r, i))
    <3>1. ~secret
      BY <1>1, <2>2, DeviceNext DEF HearRegistration, Regs
    <3> QED BY <3>1 DEF Handshakes
  <2> QED BY <2>1, <2>2, LogsIn
<1>4. CASE FailAllPending /\ UNCHANGED <<crossed, astray>>
  <2>1. pending'[i] = <<>> /\ ~loggedIn'
    BY <1>4 DEF FailAllPending
  <2> QED BY <1>2, <1>4, <2>1, EmptyOrdered
<1>5. CASE dropped /\ Lost /\ UNCHANGED <<loggedIn, requestVars>>
  <2>1. ~loggedIn
    BY <1>1, <1>5 DEF Fast
  <2>2. pending'[i] = <<>> /\ ~loggedIn' /\ UNCHANGED <<crossed, astray>>
    BY <1>5, <2>1 DEF Single, requestVars
  <2> QED BY <1>2, <2>2, EmptyOrdered
<1>6. CASE LinkUp
  <2>1. ~link /\ UNCHANGED <<loggedIn, requestVars>>
    BY <1>6 DEF LinkUp, stateVars
  <2>2. ~loggedIn
    BY <1>1, <2>1 DEF Fast
  <2>3. pending'[i] = <<>> /\ ~loggedIn' /\ UNCHANGED <<crossed, astray>>
    BY <2>1, <2>2 DEF Single, requestVars
  <2> QED BY <1>2, <2>3, EmptyOrdered
<1>7. CASE HearResponse
  <2>1. astray' = astray
    BY <1>7 DEF HearResponse, requestVars
  <2> QED BY <1>2, <1>7, <2>1, ResponseOrdered
<1>8. CASE Silent
  <2>1. /\ device # <<>> /\ device' = Tail(device) /\ astray \subseteq astray'
        /\ UNCHANGED <<pending, crossed, loggedIn, link, dropped, stuck>>
    BY <1>8 DEF Silent, stateVars
  <2>2. i \notin crossed /\ OrderedAt(i)
    BY <1>2, <2>1
  <2>3. Head(device).says = "response" => Head(device).item # i
    BY <1>8 DEF Silent
  <2>4. device \in Seq(Frames) /\ \A r : ResponseTo(r, i) # Head(device)
    <3>1. \A r : ResponseTo(r, i).says = "response" /\ ResponseTo(r, i).item = i
      BY DEF ResponseTo
    <3> QED BY <2>3, <3>1 DEF DataOK
  <2>5. /\ \A r : Contains(device', ResponseTo(r, i)) <=> Contains(device, ResponseTo(r, i))
        /\ \A r, q : Precedes(device', ResponseTo(r, i), ResponseTo(q, i)) =>
                     Precedes(device, ResponseTo(r, i), ResponseTo(q, i))
    BY <2>1, <2>4, TailFacts
  <2> QED BY <2>1, <2>2, <2>5 DEF OrderedAt, Writable
<1>9. ASSUME NEW r \in Requests, RequestTimesOut(r) PROVE i \notin crossed' /\ OrderedAt(i)'
  <2>1. PICK k \in Items : \E j \in 1 .. Len(pending[k]) : pending' = Dequeued(k, j) /\ astray' = astray \cup {k}
    BY <1>9 DEF RequestTimesOut
  <2>2. k # i /\ i \notin astray
    BY <2>1
  <2>3. pending'[i] = pending[i]
    BY <2>1, <2>2 DEF Dequeued, DataOK
  <2>4. UNCHANGED <<crossed, loggedIn, device, link, dropped, stuck>>
    BY <1>9 DEF RequestTimesOut, stateVars, linkVars
  <2> QED BY <1>2, <2>2, <2>3, <2>4 DEF OrderedAt, Writable
<1>10. ASSUME NEW r \in Requests, NEW j \in Items, Request(r, j) PROVE i \notin crossed' /\ OrderedAt(i)'
  <2>1. astray \subseteq astray'
    BY <1>10 DEF Request
  <2> QED BY <1>2, <1>10, <2>1, RequestOrdered
<1>11. CASE SameResponses /\ UNCHANGED requestVars /\ (Writable' => Writable \/ ~loggedIn)
  <2>1. UNCHANGED <<pending, crossed, astray>>
    BY <1>11 DEF requestVars
  <2> QED BY <1>2, <1>3, <1>11, <2>1, StaysOrdered
<1> QED BY <1>4, <1>5, <1>6, <1>7, <1>8, <1>9, <1>10, <1>11, OtherSteps

OrderInv == FastInv /\ OneChance /\ Spent /\ Single /\ Order

LEMMA OrderInvInit == Init => OrderInv
<1> SUFFICES ASSUME Init PROVE OrderInv
  OBVIOUS
<1>1. /\ \A x : ~Contains(device, x) /\ \A y : ~Precedes(device, x, y)
      /\ \A i \in Items : /\ pending[i] = <<>> /\ IsInjective(pending[i])
                          /\ \A r : ~Contains(pending[i], r) /\ \A q : ~Precedes(pending[i], r, q)
  BY DEF Init, Contains, Precedes, IsInjective
<1>2. OneChance /\ Spent
  BY <1>1 DEF Init, OneChance, Spent, ChanceLeft
<1>3. Single
  BY <1>1 DEF Single
<1>4. Order
  BY <1>1 DEF Init, Order, OrderedAt
<1> QED BY <1>2, <1>3, <1>4, FastInvInit DEF OrderInv

LEMMA OrderInvStep ==
  ASSUME OrderInv, [Next]_vars
  PROVE  OrderInv'
BY FastInvStep, OneChanceStep, SpentStep, SingleStep, OrderStep DEF OrderInv, FastInv

(* However many requests of one item are under way, and whatever is lost,  *)
(* times out or is written after the link was given up, each response      *)
(* resolves its own request (_resolvePending of session.js), as long as    *)
(* every earlier one of that item was answered in time, and a single call  *)
(* of register() has taken a token to the server (OwnResponse).            *)
THEOREM ResponsesMeetTheirRequests == Spec => []OwnResponse
<1>1. OrderInv => OwnResponse
  <2> SUFFICES ASSUME OrderInv, ~Twice PROVE crossed \subseteq astray
    BY DEF OwnResponse
  <2>1. crossed \subseteq Items
    BY DEF OrderInv, FastInv, BleInv0, DataOK
  <2> QED BY <2>1 DEF OrderInv, Order
<1> QED BY <1>1, OrderInvInit, OrderInvStep, PTL DEF Spec

-----------------------------------------------------------------------------
(* KeyFitsConnection.                                                      *)

(* Keys are made of connections that there have been, and a session that   *)
(* is logged in, or about to be, has one.                                  *)
Keys ==
  /\ token \in 0 .. conns /\ key \in 0 .. conns
  /\ \A c \in Calls : serverSecret[c] \in 0 .. conns
  /\ signing # {} => token # 0
  /\ \A n : Contains(device, LoginOf(n)) => token # 0 /\ key # 0
  /\ loggedIn => token # 0 /\ key # 0

LEMMA KeysStep ==
  ASSUME BleInv0, Roles, OneChance, Keys, [Next]_vars
  PROVE  Keys'
<1> USE DEF BleInv0
<1>1. conns \in Nat /\ conns' \in {conns, conns + 1} /\ device \in Seq(Frames)
  <2>1. conns' \in {conns, conns + 1}
    BY OneChanceStep DEF LinkUp
  <2> QED BY <2>1 DEF DataOK
<1> DEFINE Made == /\ token' \in 0 .. conns' /\ key' \in 0 .. conns'
                   /\ \A c \in Calls : serverSecret'[c] \in 0 .. conns'
                   /\ signing' # {} => token' # 0
                   /\ token # 0 => token' # 0
                   /\ key # 0 => key' # 0
<1>2. ASSUME UNCHANGED keyVars PROVE Made
  BY <1>1, <1>2 DEF keyVars, Keys
<1>3. ASSUME HearInitial PROVE Made
  <2> DEFINE n == Head(device).of
  <2>1. n \in 1 .. conns
    <3>1. device # <<>> /\ Head(device) = InitialOf(n)
      BY <1>3, DeviceHead, FrameIs DEF HearInitial
    <3> QED BY <3>1, DeviceNext DEF OneChance
  <2>2. /\ token' = n /\ key' \in {key, n}
        /\ \A c \in Calls : serverSecret'[c] \in {serverSecret[c], n}
    BY <1>3 DEF HearInitial
  <2> HIDE DEF n
  <2>3. conns' = conns
    BY <1>3 DEF HearInitial
  <2>4. n # 0 /\ n \in 0 .. conns'
    BY <1>1, <2>1, <2>3
  <2>5. key' \in 0 .. conns' /\ \A c \in Calls : serverSecret'[c] \in 0 .. conns'
    BY <2>2, <2>3, <2>4 DEF Keys
  <2>6. key # 0 => key' # 0
    BY <2>2, <2>4
  <2> QED BY <2>2, <2>3, <2>4, <2>5, <2>6
<1>4. ASSUME NEW n \in signing, ServerSigns(n) PROVE Made
  <2>1. n \in 1 .. conns /\ n # 0
    BY <1>1 DEF OneChance
  <2>2. /\ key' = n /\ conns' = conns /\ UNCHANGED <<token, serverSecret>> /\ token # 0
    BY <1>4 DEF ServerSigns, Keys
  <2> QED BY <1>1, <2>1, <2>2 DEF Keys
<1>5. ASSUME HearRegistration PROVE Made
  <2>1. /\ UNCHANGED <<signing, token, serverSecret, conns>>
        /\ \/ key' = key
           \/ waiter["register"] # None /\ key' = serverSecret[waiter["register"]]
    BY <1>5 DEF HearRegistration
  <2>2. waiter["register"] # None => /\ serverSecret[waiter["register"]] \in 0 .. conns
                                     /\ serverSecret[waiter["register"]] # 0 /\ token # 0
    <3>1. waiter["register"] # None => waiter["register"] \in Calls
      BY DEF CallsOK, Waiters
    <3> QED BY <3>1 DEF Roles, Role, Past, Keys
  <2>3. key' \in 0 .. conns' /\ (key # 0 => key' # 0)
    BY <2>1, <2>2 DEF Keys
  <2> QED BY <2>1, <2>3 DEF Keys
<1>6. ASSUME NEW c \in Calls, Linked(c) PROVE Made
  <2>1. /\ \A d \in Calls : serverSecret'[d] \in {serverSecret[d], token}
        /\ UNCHANGED <<token, key, conns, signing>>
    BY <1>6 DEF Linked, DataOK
  <2> QED BY <1>1, <2>1 DEF Keys
<1>7. ASSUME NEW n \in signing, ServerRefuses(n) PROVE Made
  <2>1. UNCHANGED <<token, key, conns, serverSecret>> /\ signing # {}
    BY <1>7 DEF ServerRefuses, linkVars
  <2> QED BY <1>1, <2>1 DEF Keys
<1>8. Made
  <2> HIDE DEF Made
  <2>1. CASE LinkUp \/ HearBadInitial \/ HearLogin \/ HearResponse \/ Silent
    BY <1>2, <2>1 DEF LinkUp, HearBadInitial, HearLogin, HearResponse, Silent
  <2>2. CASE Lost \/ WriteFails \/ Disconnect \/ UNCHANGED vars
    BY <1>2, <2>2 DEF Lost, WriteFails, Disconnect, vars
  <2>3. ASSUME NEW c \in Calls, Connect(c) \/ Register(c) \/ Refused(c) \/ LinkFails(c) \/ Enrolled(c)
                                \/ \E w \in Waiters : WaiterTimesOut(c, w)
        PROVE  Made
    BY <1>2, <2>3 DEF Connect, Register, Accept, Refused, LinkFails, Enrolled, WaiterTimesOut
  <2>4. ASSUME NEW r \in Requests, RequestTimesOut(r) \/ \E i \in Items : Request(r, i)
        PROVE  Made
    BY <1>2, <2>4 DEF RequestTimesOut, Request
  <2> QED BY <1>3, <1>4, <1>5, <1>6, <1>7, <2>1, <2>2, <2>3, <2>4 DEF Next
<1>9. loggedIn' => token' # 0 /\ key' # 0
  <2>1. HearLogin => token # 0 /\ key # 0
    BY DeviceNext DEF HearLogin, Keys
  <2>2. ASSUME HearRegistration, waiter["register"] # None, loggedIn' PROVE token' # 0 /\ key' # 0
    <3>1. waiter["register"] \in Calls
      BY <2>2 DEF CallsOK, Waiters
    <3>2. serverSecret[waiter["register"]] # 0 /\ token # 0
      BY <3>1 DEF Roles, Role, Past
    <3>3. token' = token /\ (loggedIn \/ key' = serverSecret[waiter["register"]])
      BY <2>2 DEF HearRegistration, stateVars
    <3> QED BY <1>8, <3>2, <3>3 DEF Keys
  <2> QED BY <1>8, <2>1, <2>2, LogsIn DEF Keys
<1>10. ASSUME NEW n, Contains(device', LoginOf(n)) PROVE token' # 0 /\ key' # 0
  <2>1. CASE Contains(device, LoginOf(n))
    BY <1>8, <2>1 DEF Keys
  <2>2. ASSUME NEW m \in signing, ServerSigns(m) PROVE token' # 0 /\ key' # 0
    <3>1. m # 0 /\ key' = m /\ token # 0
      BY <2>2 DEF ServerSigns, DataOK, Keys
    <3> QED BY <1>8, <3>1
  <2>3. CASE HearInitial /\ Writable /\ Grows(LoginOf(Head(device).of))
    <3>1. CASE ~secret \/ signLogin
      <4>1. device # <<>> /\ device' = Tail(device)
        BY <2>3, <3>1 DEF HearInitial
      <4> QED BY <1>1, <1>10, <2>1, <4>1, TailFacts
    <3>2. CASE secret /\ ~signLogin
      <4>1. Head(device).of # 0 /\ token' = Head(device).of /\ key' = Head(device).of
        BY <2>3, <3>2, HeadIs DEF HearInitial
      <4> QED BY <4>1
    <3> QED BY <3>1, <3>2
  <2>4. CASE LinkUp
    <3>1. \A x : Contains(device', x) => x = InitialOf(conns + 1)
      BY <2>4 DEF LinkUp, InitialOf, Contains
    <3> QED BY <1>10, <3>1, FramesDiffer
  <2>5. ASSUME NEW f, f # LoginOf(n), Grows(f) PROVE Contains(device, LoginOf(n))
    BY <1>10, <2>5 DEF Grows
  <2>6. CASE PartOf(device', device)
    BY <1>10, <2>1, <2>6 DEF PartOf
  <2> QED BY <2>1, <2>2, <2>3, <2>4, <2>5, <2>6, DeviceSteps, FramesDiffer
<1> QED BY <1>8, <1>9, <1>10 DEF Keys

LEMMA KeysInit == Init => Keys
<1> SUFFICES ASSUME Init PROVE Keys
  OBVIOUS
<1>1. \A x : ~Contains(device, x)
  BY DEF Init, Contains
<1> QED BY <1>1 DEF Init, Keys

(* Until there is a second connection, what a session sends when it is     *)
(* logged in is enciphered with the key made of the token of the           *)
(* connection (_handleInitial, _loginViaServer and register() of           *)
(* session.js), whatever calls, losses and refusals come between           *)
(* (KeyFitsConnection).                                                    *)
THEOREM KeysOfTheFirstConnection == Spec => [](conns <= 1 => KeyFitsConnection)
<1> DEFINE Inv == OrderInv /\ Keys
<1>1. Init => Inv
  BY OrderInvInit, KeysInit
<1>2. Inv /\ [Next]_vars => Inv'
  <2> SUFFICES ASSUME Inv, [Next]_vars PROVE Inv'
    OBVIOUS
  <2>1. Keys'
    BY KeysStep DEF OrderInv, FastInv
  <2> QED BY <2>1, OrderInvStep
<1>3. Inv => (conns <= 1 => KeyFitsConnection)
  <2> SUFFICES ASSUME Keys, conns \in 0 .. MaxConns, conns <= 1, loggedIn PROVE key = conns /\ token = conns
    BY DEF KeyFitsConnection, OrderInv, FastInv, BleInv0, DataOK
  <2>1. token \in 0 .. conns /\ key \in 0 .. conns /\ token # 0 /\ key # 0
    BY DEF Keys
  <2> QED BY <2>1
<1> HIDE DEF Inv
<1> QED BY <1>1, <1>2, <1>3, PTL DEF Spec

-----------------------------------------------------------------------------
(* AwaitedIsWaiter.                                                        *)

(* Only one call has been made. *)
Alone == \A c, d \in Calls : pc[c] # "idle" /\ pc[d] # "idle" => c = d

(* Where a call is to await its handshake. *)
Awaits(c) ==
  /\ pc[c] \in Waiters => waiter[pc[c]] = c
  /\ pc[c] = "toLogin" /\ promise[c] = "pending" => waiter["login"] = c
  /\ pc[c] = "toRegister" /\ promise[c] = "pending" => waiter["ready"] = c

Awaited ==
  /\ \A w \in Waiters, c \in Calls : c \in timers[w] => pc[c] # "idle"
  /\ \A w \in Waiters, c \in Calls : waiter[w] = c => pc[c] # "idle"
  /\ Alone => \A c \in Calls : Awaits(c)

(* A call that is settled awaits nothing any more. *)
LEMMA SettledAwaits ==
  ASSUME BleInv0, NEW cs, NEW o \in {"kept", "broken"}, Settle(cs, o), NEW c \in cs \cap Calls
  PROVE  Awaits(c)' /\ pc'[c] # "idle"
<1>1. pc[c] \in Places /\ pc'[c] = GoesOn(pc[c], o) /\ promise'[c] = o
  BY DEF Settle, BleInv0, CallsOK
<1>2. pc'[c] \in {"toLogin", "toRegister", "done", "failed", "enrol"}
  BY <1>1, GoesOnWhere
<1> QED BY <1>1, <1>2 DEF Awaits, Waiters

(* Who keeps its place, its promise and its waiters still awaits them. *)
LEMMA StaysAwaited ==
  ASSUME BleInv0, NEW c \in Calls, Awaits(c), pc'[c] = pc[c], promise'[c] = promise[c],
         \A w \in Waiters : waiter[w] = c => waiter'[w] = c
  PROVE  Awaits(c)'
BY DEF Awaits, Waiters

LEMMA WaitersAwaited ==
  ASSUME BleInv0, Awaited, NEW ws \in SUBSET Waiters, NEW o \in {"kept", "broken"}, SettleWaiters(ws, o)
  PROVE  Awaited'
<1> DEFINE cs == {waiter[w] : w \in ws} \ {None}
<1>1. /\ Settle(cs, o)
      /\ \A w \in Waiters : waiter'[w] = IF w \in ws THEN None ELSE waiter[w]
      /\ \A w \in Waiters : timers'[w] \subseteq timers[w]
  BY DEF SettleWaiters
<1>2. \A c \in Calls : c \notin cs => pc'[c] = pc[c] /\ promise'[c] = promise[c]
  BY <1>1 DEF Settle
<1>3. \A c \in Calls : pc'[c] = "idle" => pc[c] = "idle"
  BY <1>1, <1>2, SettledAwaits
<1>4. Alone' => Alone
  BY <1>3 DEF Alone
<1>5. ASSUME Alone, NEW c \in Calls PROVE Awaits(c)'
  <2>1. CASE c \in cs
    BY <1>1, <2>1, SettledAwaits
  <2>2. CASE c \notin cs
    <3>1. \A w \in Waiters : waiter[w] = c => waiter'[w] = c
      BY <1>1, <2>2, CallsAssumption
    <3>2. Awaits(c)
      BY <1>5 DEF Awaited
    <3> QED BY <1>2, <2>2, <3>1, <3>2, StaysAwaited
  <2> QED BY <2>1, <2>2
<1>6. \A w \in Waiters, c \in Calls : waiter'[w] = c => waiter[w] = c
  BY <1>1, CallsAssumption
<1>7. /\ \A w \in Waiters, c \in Calls : c \in timers'[w] => pc'[c] # "idle"
      /\ \A w \in Waiters, c \in Calls : waiter'[w] = c => pc'[c] # "idle"
  BY <1>1, <1>3, <1>6 DEF Awaited
<1> QED BY <1>4, <1>5, <1>7 DEF Awaited

LEMMA AwaitedStep ==
  ASSUME BleInv0, Awaited, [Next]_vars
  PROVE  Awaited'
<1> USE DEF BleInv0
<1>1. ASSUME UNCHANGED callVars PROVE Awaited'
  BY <1>1 DEF callVars, Awaited, Alone, Awaits
<1>2. ASSUME NEW c \in Calls, pc'[c] # "idle", Alone => Awaits(c)', \A d \in Calls : d # c => pc'[d] = pc[d],
             \A w \in Waiters : waiter'[w] \in {waiter[w], None, c} /\ timers'[w] \subseteq timers[w] \cup {c}
      PROVE  Awaited'
  <2>1. \A d \in Calls : pc'[d] = "idle" => pc[d] = "idle"
    BY <1>2
  <2>2. Alone' => Alone
    BY <2>1 DEF Alone
  <2>3. \A w \in Waiters, d \in Calls : waiter'[w] = d => waiter[w] = d \/ d = c
    BY <1>2, CallsAssumption
  <2>4. /\ \A w \in Waiters, d \in Calls : d \in timers'[w] => pc'[d] # "idle"
        /\ \A w \in Waiters, d \in Calls : waiter'[w] = d => pc'[d] # "idle"
    BY <1>2, <2>1, <2>3 DEF Awaited
  <2>5. ASSUME Alone', NEW d \in Calls PROVE Awaits(d)'
    <3>1. CASE d # c
      <4>1. pc'[d] = "idle"
        BY <1>2, <2>5, <3>1 DEF Alone
      <4> QED BY <4>1 DEF Awaits, Waiters
    <3> QED BY <1>2, <2>2, <2>5, <3>1
  <2> QED BY <2>4, <2>5 DEF Awaited
<1>3. ASSUME NEW c \in Calls, Connect(c) \/ Register(c) PROVE Awaited'
  <2>1. PICK w \in {"login", "ready"} : Accept(c, w)
    BY <1>3 DEF Connect, Register
  <2>2. /\ pc'[c] = (IF w = "login" THEN "toLogin" ELSE "toRegister") /\ waiter'[w] = c
        /\ \A d \in Calls : d # c => pc'[d] = pc[d]
        /\ \A v \in Waiters : waiter'[v] \in {waiter[v], None, c} /\ timers'[v] \subseteq timers[v] \cup {c}
    BY <2>1 DEF Accept, CallsOK, Waiters
  <2>3. Awaits(c)'
    BY <2>2 DEF Awaits, Waiters
  <2> QED BY <1>2, <2>2, <2>3
<1>4. ASSUME NEW c \in Calls, Refused(c) \/ LinkFails(c) PROVE Awaited'
  <2>1. /\ pc'[c] = "failed" /\ \A d \in Calls : d # c => pc'[d] = pc[d]
        /\ \A v \in Waiters : waiter'[v] \in {waiter[v], None, c} /\ timers'[v] \subseteq timers[v] \cup {c}
    BY <1>4 DEF Refused, LinkFails, CallsOK
  <2>2. Awaits(c)'
    BY <2>1 DEF Awaits, Waiters
  <2> QED BY <1>2, <2>1, <2>2
<1>5. ASSUME NEW c \in Calls, Linked(c) PROVE Awaited'
  <2>1. /\ pc[c] \in Linking /\ UNCHANGED <<promise, waiter, timers>>
        /\ pc'[c] = (IF promise[c] = "pending" THEN WaiterOf(c) ELSE GoesOn(WaiterOf(c), promise[c]))
        /\ \A d \in Calls : d # c => pc'[d] = pc[d]
    BY <1>5 DEF Linked, CallsOK
  <2>2. promise[c] \in {"pending", "kept", "broken"} /\ WaiterOf(c) \in Places \ Linking
    BY DEF CallsOK, WaiterOf, Places, Linking
  <2>3. CASE promise[c] = "pending"
    <3>1. Alone => waiter[WaiterOf(c)] = c
      BY <2>1, <2>3 DEF Awaited, Awaits, WaiterOf, Linking
    <3>2. pc'[c] \in {"login", "ready"} /\ pc'[c] = WaiterOf(c)
      BY <2>1, <2>3 DEF WaiterOf
    <3>3. Alone => Awaits(c)'
      BY <2>1, <3>1, <3>2 DEF Awaits
    <3> QED BY <1>2, <2>1, <3>2, <3>3
  <2>4. CASE promise[c] # "pending"
    <3>1. pc'[c] \in {"done", "failed", "enrol"}
      BY <2>1, <2>2, <2>4, GoesOnWhere DEF Linking
    <3>2. Awaits(c)'
      BY <3>1 DEF Awaits, Waiters
    <3> QED BY <1>2, <2>1, <3>1, <3>2
  <2> QED BY <2>3, <2>4
<1>6. ASSUME NEW c \in Calls, Enrolled(c) PROVE Awaited'
  <2>1. /\ pc'[c] = "register" /\ waiter'["register"] = c /\ \A d \in Calls : d # c => pc'[d] = pc[d]
        /\ \A v \in Waiters : waiter'[v] \in {waiter[v], None, c} /\ timers'[v] \subseteq timers[v] \cup {c}
    BY <1>6 DEF Enrolled, CallsOK, Waiters
  <2>2. Awaits(c)'
    BY <2>1 DEF Awaits, Waiters
  <2> QED BY <1>2, <2>1, <2>2
<1>7. ASSUME NEW c \in Calls, NEW w \in Waiters, WaiterTimesOut(c, w) PROVE Awaited'
  <2>1. /\ Settle({c}, "broken")
        /\ \A v \in Waiters : waiter'[v] \in {waiter[v], None, c} /\ timers'[v] \subseteq timers[v] \cup {c}
    BY <1>7 DEF WaiterTimesOut, CallsOK
  <2>2. Awaits(c)' /\ pc'[c] # "idle"
    BY <2>1, SettledAwaits
  <2>3. \A d \in Calls : d # c => pc'[d] = pc[d]
    BY <2>1 DEF Settle
  <2> QED BY <1>2, <2>1, <2>2, <2>3
<1>8. ASSUME NEW ws \in SUBSET Waiters, NEW o \in {"kept", "broken"}, SettleWaiters(ws, o) PROVE Awaited'
  BY <1>8, WaitersAwaited
<1>9. CASE HearInitial \/ HearBadInitial \/ HearLogin \/ HearRegistration
  BY <1>1, <1>8, <1>9 DEF HearInitial, HearBadInitial, HearLogin, HearRegistration, Waiters
<1>10. ASSUME NEW n \in signing, ServerSigns(n) \/ ServerRefuses(n) PROVE Awaited'
  BY <1>1, <1>8, <1>10 DEF ServerSigns, ServerRefuses, Waiters
<1>11. CASE Lost \/ WriteFails \/ Disconnect
  BY <1>1, <1>8, <1>11 DEF Lost, WriteFails, Disconnect, HandleDisconnect, FailAllPending
<1>12. CASE LinkUp \/ HearResponse \/ Silent \/ UNCHANGED vars
  BY <1>1, <1>12 DEF LinkUp, HearResponse, Silent, vars
<1>13. ASSUME NEW r \in Requests, RequestTimesOut(r) \/ \E i \in Items : Request(r, i) PROVE Awaited'
  BY <1>1, <1>13 DEF RequestTimesOut, Request
<1> QED BY <1>3, <1>4, <1>5, <1>6, <1>7, <1>9, <1>10, <1>11, <1>12, <1>13 DEF Next

(* The call of connect() or register() that is the only one yet, wherever  *)
(* it awaits its handshake, is the one that the handshake, the time-outs   *)
(* and the loss of the link look for (_loginWaiter, _readyWaiter and       *)
(* _registerWaiter of session.js), over any number of connections          *)
(* (AwaitedIsWaiter).                                                      *)
THEOREM FirstCallIsAwaited == Spec => [](Alone => AwaitedIsWaiter)
<1> DEFINE Inv == BleInv0 /\ Awaited
<1>1. Init => Inv
  <2> SUFFICES ASSUME Init PROVE Awaited
    BY InitTypes
  <2>1. \A c \in Calls : pc[c] = "idle" /\ Awaits(c)
    BY DEF Init, Awaits, Waiters
  <2>2. \A w \in Waiters, c \in Calls : waiter[w] # c /\ c \notin timers[w]
    BY CallsAssumption DEF Init
  <2> QED BY <2>1, <2>2 DEF Awaited
<1>2. Inv /\ [Next]_vars => Inv'
  BY StepTypes, AwaitedStep
<1>3. Inv => (Alone => AwaitedIsWaiter)
  BY DEF Awaited, Awaits, AwaitedIsWaiter
<1> HIDE DEF Inv
<1> QED BY <1>1, <1>2, <1>3, PTL DEF Spec

-----------------------------------------------------------------------------
(***************************************************************************)
(* The enciphered frames.                                                  *)
(***************************************************************************)

(* The frame whose segments come next, those of the frames before it have  *)
(* left the air.                                                           *)
Upcoming == IF air = <<>> THEN Len(sent) + 1 ELSE air[1].frame

Segment(n, i, length) == [frame |-> n, index |-> i, first |-> i = 1, last |-> i = length]

(* The first segments of a frame. *)
Part(n, length, k) == [i \in 1 .. k |-> Segment(n, i, length)]

(* A segment of a frame that was sent. *)
Belongs(s) ==
  /\ s.frame \in 1 .. Len(sent) /\ s.index \in 1 .. sent[s.frame]
  /\ s = Segment(s.frame, s.index, sent[s.frame])

(* What comes after a segment. *)
Follows(s, t) ==
  IF s.last THEN t.frame = s.frame + 1 /\ t.index = 1
            ELSE t.frame = s.frame /\ t.index = s.index + 1

(* The segments in the air follow each other, to the end of the last frame *)
(* that was sent.                                                          *)
InOrder ==
  /\ \A i \in 1 .. Len(air) : Belongs(air[i])
  /\ \A i \in 2 .. Len(air) : Follows(air[i - 1], air[i])
  /\ air # <<>> => air[Len(air)].last /\ air[Len(air)].frame = Len(sent)

(* The counter is behind the frames by what was missed; the assembler has  *)
(* the beginning of an undamaged frame; and what came whole is read.       *)
Counted ==
  /\ dec < Upcoming
  /\ (\A m \in missed : m >= Upcoming) => dec = Upcoming - 1
Assembled ==
  air # <<>> /\ air[1].frame \notin damaged /\ air[1].index > 1 =>
    buf = Part(air[1].frame, sent[air[1].frame], air[1].index - 1)
ReadSoFar ==
  \A n \in 1 .. Upcoming - 1 : n \notin damaged /\ (\A m \in missed : m > n) => n \in read

FramesInv == FramesTypeOK /\ InOrder /\ Counted /\ Assembled /\ ReadSoFar

LEMMA SegmentFacts ==
  ASSUME NEW n, NEW i, NEW l
  PROVE  /\ Segment(n, i, l).frame = n /\ Segment(n, i, l).index = i
         /\ Segment(n, i, l).first <=> i = 1
         /\ Segment(n, i, l).last <=> i = l
         /\ n \in 1 .. MaxFrames /\ i \in 1 .. MaxLength => Segment(n, i, l) \in Segments
BY DEF Segment, Segments

LEMMA PartTypes ==
  ASSUME NEW n \in 1 .. MaxFrames, NEW l, NEW k \in 0 .. MaxLength
  PROVE  /\ Part(n, l, k) \in Seq(Segments) /\ Len(Part(n, l, k)) = k
         /\ \A i \in 1 .. k : Part(n, l, k)[i] = Segment(n, i, l)
<1>1. k \in Nat /\ 1 .. k \subseteq 1 .. MaxLength
  BY FramesAssumption
<1>2. \A i \in 1 .. k : Segment(n, i, l) \in Segments
  BY <1>1, SegmentFacts
<1>3. Part(n, l, k) \in [1 .. k -> Segments]
  BY <1>2 DEF Part
<1>4. Part(n, l, k) \in Seq(Segments) /\ Len(Part(n, l, k)) = k
  BY <1>1, <1>3
<1> QED BY <1>4 DEF Part

LEMMA PartGrows ==
  ASSUME NEW n \in 1 .. MaxFrames, NEW l, NEW k \in 0 .. MaxLength - 1
  PROVE  /\ Append(Part(n, l, k), Segment(n, k + 1, l)) = Part(n, l, k + 1)
         /\ <<Segment(n, 1, l)>> = Part(n, l, 1)
<1> DEFINE e == Segment(n, k + 1, l)
<1>1. k \in 0 .. MaxLength /\ k + 1 \in 0 .. MaxLength /\ 1 \in 0 .. MaxLength
  BY FramesAssumption
<1>2. /\ Part(n, l, k) \in Seq(Segments) /\ Len(Part(n, l, k)) = k
      /\ \A i \in 1 .. k : Part(n, l, k)[i] = Segment(n, i, l)
  BY <1>1, PartTypes
<1>3. /\ Part(n, l, k + 1) \in Seq(Segments) /\ Len(Part(n, l, k + 1)) = k + 1
      /\ \A i \in 1 .. k + 1 : Part(n, l, k + 1)[i] = Segment(n, i, l)
  BY <1>1, PartTypes
<1>4. e \in Segments
  BY <1>1, SegmentFacts
<1>5. /\ Append(Part(n, l, k), e) \in Seq(Segments) /\ Len(Append(Part(n, l, k), e)) = k + 1
      /\ \A i \in 1 .. k : Append(Part(n, l, k), e)[i] = Part(n, l, k)[i]
      /\ Append(Part(n, l, k), e)[k + 1] = e
  BY <1>2, <1>4, AppendProperties
<1>6. \A i \in 1 .. k + 1 : Append(Part(n, l, k), e)[i] = Part(n, l, k + 1)[i]
  BY <1>1, <1>2, <1>3, <1>5
<1>7. Append(Part(n, l, k), e) = Part(n, l, k + 1)
  BY <1>3, <1>5, <1>6, SeqEqual
<1>8. <<Segment(n, 1, l)>> = Part(n, l, 1)
  BY DEF Part
<1> QED BY <1>7, <1>8

(* Splitting a frame makes all of its parts. *)
LEMMA SplitIsPart ==
  ASSUME NEW n, NEW l
  PROVE  Split(n, l) = Part(n, l, l)
BY DEF Split, Part, Segment

(* What the parts of the invariant say of the segment that is next. *)
LEMMA NextSegment ==
  ASSUME FramesInv, air # <<>>
  PROVE  /\ Len(air) \in Nat \ {0} /\ Head(air) = air[1] /\ Head(air) \in Segments
         /\ Belongs(air[1]) /\ Upcoming = air[1].frame
         /\ sent[air[1].frame] \in 1 .. MaxLength
         /\ Tail(air) \in Seq(Segments) /\ Len(Tail(air)) = Len(air) - 1
         /\ \A i \in 1 .. Len(Tail(air)) : Tail(air)[i] = air[i + 1]
         /\ Tail(air) = <<>> <=> Len(air) = 1
<1>1. air \in Seq(Segments) /\ sent \in Seq(1 .. MaxLength)
  BY DEF FramesInv, FramesTypeOK
<1>2. /\ Len(air) \in Nat \ {0} /\ Head(air) = air[1] /\ Head(air) \in Segments
      /\ Tail(air) \in Seq(Segments) /\ Len(Tail(air)) = Len(air) - 1
      /\ \A i \in 1 .. Len(Tail(air)) : Tail(air)[i] = air[i + 1]
  BY <1>1, HeadTailProperties, EmptySeq
<1>3. Tail(air) = <<>> <=> Len(air) = 1
  <2> DEFINE t == Tail(air)
  <2>1. t \in Seq(Segments) /\ Len(t) = Len(air) - 1
    BY <1>2
  <2> HIDE DEF t
  <2>2. t = <<>> <=> Len(t) = 0
    BY <2>1, EmptySeq
  <2>3. t = <<>> <=> Len(air) = 1
    BY <1>2, <2>1, <2>2
  <2> QED BY <2>3 DEF t
<1>4. Belongs(air[1])
  BY <1>2 DEF FramesInv, InOrder
<1>5. sent[air[1].frame] \in 1 .. MaxLength
  <2>1. air[1].frame \in 1 .. Len(sent)
    BY <1>4 DEF Belongs
  <2> HIDE <1>2
  <2> QED BY <1>1, <2>1, ElementOfSeq
<1> QED BY <1>2, <1>3, <1>4, <1>5 DEF Upcoming

(* The next segment leaves the air. *)
LEMMA TailStep ==
  ASSUME FramesInv, air # <<>>, air' = Tail(air), UNCHANGED sent
  PROVE  /\ InOrder'
         /\ Upcoming' = IF air[1].last THEN air[1].frame + 1 ELSE air[1].frame
         /\ air' # <<>> => /\ air'[1].frame = Upcoming'
                           /\ air'[1].index = IF air[1].last THEN 1 ELSE air[1].index + 1
         /\ ~air[1].last => air' # <<>>
<1>1. /\ Len(air) \in Nat \ {0}
      /\ Len(air') = Len(air) - 1
      /\ \A i \in 1 .. Len(air') : air'[i] = air[i + 1]
      /\ air' = <<>> <=> Len(air) = 1
      /\ Belongs(air[1])
  BY NextSegment
<1>2. InOrder
  BY DEF FramesInv
<1>3. InOrder'
  <2>1. \A i \in 1 .. Len(air') : Belongs(air[i])'
    <3> SUFFICES ASSUME NEW i \in 1 .. Len(air') PROVE Belongs(air[i])'
      OBVIOUS
    <3>1. i + 1 \in 1 .. Len(air) /\ air'[i] = air[i + 1]
      BY <1>1
    <3>2. Belongs(air[i + 1])
      BY <1>2, <3>1 DEF InOrder
    <3> QED BY <3>1, <3>2 DEF Belongs
  <2>2. \A i \in 2 .. Len(air') : Follows(air'[i - 1], air'[i])
    <3> SUFFICES ASSUME NEW i \in 2 .. Len(air') PROVE Follows(air'[i - 1], air'[i])
      OBVIOUS
    <3>1. /\ i + 1 \in 2 .. Len(air) /\ air'[i] = air[i + 1] /\ air'[i - 1] = air[i]
          /\ i + 1 - 1 = i
      BY <1>1
    <3>2. Follows(air[i + 1 - 1], air[i + 1])
      BY <1>2, <3>1 DEF InOrder
    <3> QED BY <3>1, <3>2
  <2>3. air' # <<>> => air'[Len(air')] = air[Len(air)]
    BY <1>1
  <2>4. air' # <<>> => air'[Len(air')].last /\ air'[Len(air')].frame = Len(sent')
    BY <1>2, <2>3 DEF InOrder
  <2> QED BY <2>1, <2>2, <2>4 DEF InOrder
<1>4. air' # <<>> => Follows(air[1], air'[1])
  <2> SUFFICES ASSUME air' # <<>> PROVE Follows(air[1], air'[1])
    OBVIOUS
  <2>1. 2 \in 2 .. Len(air) /\ air'[1] = air[2]
    BY <1>1
  <2> QED BY <1>2, <2>1 DEF InOrder
<1>5. air' = <<>> => air[1].last /\ air[1].frame = Len(sent)
  BY <1>1, <1>2 DEF InOrder
<1> QED BY <1>3, <1>4, <1>5 DEF Upcoming, Follows

LEMMA SendStep ==
  ASSUME FramesInv, NEW l \in 1 .. MaxLength, DeviceSends(l)
  PROVE  FramesInv'
<1> DEFINE n == Len(sent) + 1
<1>1. /\ Len(sent) \in Nat /\ n \in 1 .. MaxFrames /\ l \in 0 .. MaxLength /\ l \in Nat
      /\ sent' = Append(sent, l) /\ air' = air \o Split(n, l)
      /\ UNCHANGED <<buf, dec, read, damaged, missed>>
  BY FramesAssumption DEF DeviceSends, FramesInv, FramesTypeOK
<1>2. /\ sent' \in Seq(1 .. MaxLength) /\ Len(sent') = n /\ sent'[n] = l
      /\ \A i \in 1 .. Len(sent) : sent'[i] = sent[i]
  BY <1>1, AppendProperties DEF FramesInv, FramesTypeOK
<1> DEFINE s == Split(n, l)
<1>3. /\ s \in Seq(Segments) /\ Len(s) = l
      /\ \A i \in 1 .. l : s[i] = Segment(n, i, l)
  <2> HIDE DEF n
  <2> QED BY <1>1, PartTypes, SplitIsPart
<1> HIDE DEF s
<1>4. air \in Seq(Segments) /\ Len(air) \in Nat /\ InOrder
  BY DEF FramesInv, FramesTypeOK
<1>5. /\ air' \in Seq(Segments) /\ Len(air') = Len(air) + l
      /\ \A i \in 1 .. Len(air) : air'[i] = air[i]
      /\ \A i \in Len(air) + 1 .. Len(air) + l : air'[i] = s[i - Len(air)]
  <2>1. air' = air \o s
    BY <1>1 DEF s
  <2>2. /\ air \o s \in Seq(Segments) /\ Len(air \o s) = Len(air) + Len(s)
        /\ \A i \in 1 .. Len(air) + Len(s) : (air \o s)[i] = IF i <= Len(air) THEN air[i] ELSE s[i - Len(air)]
    BY <1>3, <1>4, ConcatProperties
  <2>3. /\ air' \in Seq(Segments) /\ Len(air') = Len(air) + l
        /\ \A i \in 1 .. Len(air) + l : air'[i] = IF i <= Len(air) THEN air[i] ELSE s[i - Len(air)]
    BY <1>3, <2>1, <2>2
  <2> HIDE <2>1, <2>2, <1>3
  <2> QED BY <1>1, <1>4, <2>3
<1>6. \A i \in Len(air) + 1 .. Len(air') :
        /\ air'[i] = Segment(n, i - Len(air), l)
        /\ air'[i].frame = n /\ air'[i].index = i - Len(air) /\ (air'[i].last <=> i - Len(air) = l)
  <2> HIDE DEF n
  <2>1. ASSUME NEW i \in Len(air) + 1 .. Len(air')
        PROVE  air'[i] = Segment(n, i - Len(air), l)
    <3>1. i \in Len(air) + 1 .. Len(air) + l
      BY <1>5, <2>1
    <3>2. air'[i] = s[i - Len(air)]
      BY <1>5, <3>1
    <3>3. i - Len(air) \in 1 .. l
      BY <1>1, <1>4, <3>1
    <3> QED BY <1>3, <3>2, <3>3
  <2>2. ASSUME NEW i \in Len(air) + 1 .. Len(air')
        PROVE  /\ air'[i] = Segment(n, i - Len(air), l)
               /\ air'[i].frame = n /\ air'[i].index = i - Len(air)
               /\ air'[i].last <=> i - Len(air) = l
    <3> DEFINE k == i - Len(air)
    <3>1. air'[i] = Segment(n, k, l)
      BY <2>1, <2>2
    <3> HIDE DEF k
    <3>2. /\ Segment(n, k, l).frame = n /\ Segment(n, k, l).index = k
          /\ Segment(n, k, l).last <=> k = l
      BY SegmentFacts
    <3>3. air'[i].frame = n /\ air'[i].index = k /\ (air'[i].last <=> k = l)
      BY <3>1, <3>2
    <3> QED BY <3>1, <3>3 DEF k
  <2> QED BY <2>2
<1>7. \A i \in 1 .. Len(air') : i \in 1 .. Len(air) \/ i \in Len(air) + 1 .. Len(air')
  BY <1>1, <1>4, <1>5
<1>8. InOrder'
  <2>1. \A i \in 1 .. Len(air') : Belongs(air[i])'
    <3> SUFFICES ASSUME NEW i \in 1 .. Len(air') PROVE Belongs(air[i])'
      OBVIOUS
    <3>1. CASE i \in 1 .. Len(air)
      <4>1. air'[i] = air[i] /\ Belongs(air[i])
        BY <1>4, <1>5, <3>1 DEF InOrder
      <4>2. air[i].frame \in 1 .. Len(sent')
        BY <1>1, <1>2, <4>1 DEF Belongs
      <4>3. sent'[air[i].frame] = sent[air[i].frame]
        BY <1>2, <4>1 DEF Belongs
      <4> QED BY <4>1, <4>2, <4>3 DEF Belongs
    <3>2. CASE i \in Len(air) + 1 .. Len(air')
      <4>1. n \in 1 .. Len(sent') /\ i - Len(air) \in 1 .. sent'[n]
        BY <1>1, <1>2, <1>4, <1>5, <3>2
      <4> QED BY <1>2, <1>6, <3>2, <4>1 DEF Belongs
    <3> QED BY <1>7, <3>1, <3>2
  <2>2. \A i \in 2 .. Len(air') : Follows(air'[i - 1], air'[i])
    <3> SUFFICES ASSUME NEW i \in 2 .. Len(air') PROVE Follows(air'[i - 1], air'[i])
      OBVIOUS
    <3>1. CASE i \in 2 .. Len(air)
      <4>1. air'[i] = air[i] /\ air'[i - 1] = air[i - 1]
        BY <1>4, <1>5, <3>1
      <4> QED BY <1>4, <3>1, <4>1 DEF InOrder
    <3>2. CASE i = Len(air) + 1
      <4>1. air # <<>> /\ i - 1 = Len(air) /\ air'[i - 1] = air[Len(air)]
        BY <1>4, <1>5, <3>2, EmptySeq
      <4>2. air'[i - 1].last /\ air'[i - 1].frame = Len(sent)
        BY <1>4, <4>1 DEF InOrder
      <4>3. air'[i].frame = n /\ air'[i].index = 1
        BY <1>1, <1>4, <1>5, <1>6, <3>2
      <4> QED BY <4>2, <4>3 DEF Follows
    <3>3. CASE i \in Len(air) + 2 .. Len(air')
      <4>1. i \in Len(air) + 1 .. Len(air') /\ i - 1 \in Len(air) + 1 .. Len(air')
        BY <1>4, <1>5, <1>1, <3>3
      <4>2. /\ air'[i].frame = n /\ air'[i].index = i - Len(air)
            /\ air'[i - 1].frame = n /\ air'[i - 1].index = i - 1 - Len(air)
            /\ air'[i - 1].last <=> i - 1 - Len(air) = l
        BY <1>6, <4>1
      <4>3. i - 1 - Len(air) # l /\ i - Len(air) = (i - 1 - Len(air)) + 1
        BY <1>1, <1>4, <1>5, <3>3
      <4> QED BY <4>2, <4>3 DEF Follows
    <3> QED BY <1>1, <1>4, <1>5, <3>1, <3>2, <3>3
  <2>3. air'[Len(air')].last /\ air'[Len(air')].frame = Len(sent')
    <3>1. Len(air') \in Len(air) + 1 .. Len(air') /\ Len(air') - Len(air) = l
      BY <1>1, <1>4, <1>5
    <3> QED BY <1>2, <1>6, <3>1
  <2> QED BY <2>1, <2>2, <2>3 DEF InOrder
<1>9. /\ Upcoming' = Upcoming
      /\ air' # <<>>
      /\ IF air = <<>> THEN air'[1].index = 1
                       ELSE air'[1] = air[1] /\ sent'[air[1].frame] = sent[air[1].frame]
  <2>1. air' # <<>>
    <3>1. Len(air') > 0
      BY <1>1, <1>4, <1>5
    <3> QED BY <3>1, EmptySeq
  <2>2. CASE air = <<>>
    <3>1. Len(air) = 0
      BY <2>2, EmptySeq
    <3>2. 1 \in Len(air) + 1 .. Len(air') /\ 1 - Len(air) = 1
      BY <1>1, <1>5, <3>1
    <3> QED BY <1>6, <2>1, <2>2, <3>2 DEF Upcoming
  <2>3. CASE air # <<>>
    <3>1. Len(air) \in Nat \ {0} /\ Belongs(air[1])
      BY <2>3, NextSegment
    <3>2. air'[1] = air[1]
      BY <1>5, <3>1
    <3> QED BY <1>2, <2>1, <2>3, <3>1, <3>2 DEF Upcoming, Belongs
  <2> QED BY <2>2, <2>3
<1>10. FramesTypeOK'
  <2>1. Len(sent') <= MaxFrames /\ dec' \in 0 .. Len(sent')
        /\ damaged' \subseteq 1 .. Len(sent')
    BY <1>1, <1>2, FramesAssumption DEF FramesInv, FramesTypeOK
  <2> QED BY <1>1, <1>2, <1>5, <2>1 DEF FramesInv, FramesTypeOK
<1>11. Counted' /\ ReadSoFar'
  BY <1>1, <1>9 DEF FramesInv, Counted, ReadSoFar
<1>12. Assembled'
  <2>1. CASE air = <<>>
    BY <1>9, <2>1 DEF Assembled
  <2>2. CASE air # <<>>
    <3>1. air'[1] = air[1] /\ sent'[air[1].frame] = sent[air[1].frame] /\ UNCHANGED <<buf, damaged>>
      BY <1>1, <1>9, <2>2
    <3>2. Assembled
      BY DEF FramesInv
    <3> HIDE <1>9
    <3> QED BY <2>2, <3>1, <3>2 DEF Assembled
  <2> QED BY <2>1, <2>2
<1> QED BY <1>8, <1>10, <1>11, <1>12 DEF FramesInv

(* What the assembler has collected of an undamaged frame is its beginning. *)
LEMMA CollectsPart ==
  ASSUME FramesInv, air # <<>>
  PROVE  /\ Collected(air[1]) \in Seq(Segments)
         /\ air[1].frame \notin damaged =>
              Collected(air[1]) = Part(air[1].frame, sent[air[1].frame], air[1].index)
<1> DEFINE h == air[1]
           f == air[1].frame
           k == air[1].index
           l == sent[air[1].frame]
<1>1. /\ h \in Segments /\ h = Segment(f, k, l) /\ f \in 1 .. Len(sent) /\ k \in 1 .. l
      /\ l \in 1 .. MaxLength
  BY NextSegment DEF Belongs
<1>2. /\ Len(sent) \in Nat /\ Len(sent) <= MaxFrames /\ buf \in Seq(Segments)
      /\ f \notin damaged /\ k > 1 => buf = Part(f, l, k - 1)
  BY DEF FramesInv, FramesTypeOK, Assembled
<1> HIDE DEF h, f, k, l
<1>3. /\ f \in 1 .. MaxFrames /\ k - 1 \in 0 .. MaxLength - 1 /\ 0 \in 0 .. MaxLength - 1
      /\ k - 1 + 1 = k
  BY <1>1, <1>2, FramesAssumption
<1>4. h.first <=> k = 1
  BY <1>1, SegmentFacts
<1>5. Collected(h) \in Seq(Segments)
  BY <1>1, <1>2 DEF Collected
<1>6. ASSUME f \notin damaged PROVE Collected(h) = Part(f, l, k)
  <2>1. CASE k = 1
    <3>1. h = Segment(f, 1, l) /\ Collected(h) = <<h>>
      BY <1>1, <1>4, <2>1 DEF Collected
    <3>2. <<Segment(f, 1, l)>> = Part(f, l, 1)
      BY <1>3, PartGrows
    <3> QED BY <2>1, <3>1, <3>2
  <2>2. CASE k # 1
    <3>1. Collected(h) = Append(Part(f, l, k - 1), h)
      BY <1>1, <1>2, <1>4, <1>6, <2>2 DEF Collected
    <3>2. Append(Part(f, l, k - 1), Segment(f, k - 1 + 1, l)) = Part(f, l, k - 1 + 1)
      BY <1>3, PartGrows
    <3> QED BY <1>1, <1>3, <3>1, <3>2
  <2> QED BY <2>1, <2>2
<1> QED BY <1>5, <1>6 DEF h, f, k, l

LEMMA PacketStep ==
  ASSUME FramesInv, Packet
  PROVE  FramesInv'
<1> DEFINE h == air[1]
           f == air[1].frame
           l == sent[air[1].frame]
<1>1. /\ air # <<>> /\ air' = Tail(air) /\ UNCHANGED <<sent, damaged, missed>>
      /\ IF h.last THEN buf' = <<>> /\ Decipher(Collected(h))
                   ELSE buf' = Collected(h) /\ UNCHANGED <<dec, read>>
  BY NextSegment DEF Packet
<1>2. /\ h = Segment(f, h.index, l) /\ f \in 1 .. Len(sent) /\ Upcoming = f
      /\ l \in 1 .. MaxLength /\ Tail(air) \in Seq(Segments) /\ h.index \in 1 .. l
  BY <1>1, NextSegment DEF Belongs
<1>3. /\ InOrder'
      /\ Upcoming' = IF h.last THEN f + 1 ELSE f
      /\ air' # <<>> => air'[1].frame = Upcoming' /\ air'[1].index = IF h.last THEN 1 ELSE h.index + 1
      /\ ~h.last => air' # <<>>
  BY <1>1, TailStep
<1>4. /\ Collected(h) \in Seq(Segments)
      /\ f \notin damaged => Collected(h) = Part(f, l, h.index)
  BY <1>1, CollectsPart
<1>5. h.last <=> h.index = l
  BY <1>2, SegmentFacts
<1>6. /\ FramesTypeOK /\ Counted /\ ReadSoFar
      /\ Len(sent) \in Nat /\ dec \in Nat /\ dec < f
  BY <1>2 DEF FramesInv, FramesTypeOK, Counted
<1> HIDE DEF h, f, l
<1>7. CASE h.last
  <2>1. /\ dec' = dec + 1 /\ buf' = <<>> /\ Upcoming' = f + 1
        /\ read' = read \cup {n \in {dec + 1} : IsFrame(Collected(h), n)}
    BY <1>1, <1>3, <1>7 DEF Decipher
  <2>2. FramesTypeOK'
    <3>1. dec' \in 0 .. Len(sent')
      BY <1>1, <1>2, <1>6, <2>1
    <3>2. read \subseteq 1 .. dec /\ 1 .. dec \subseteq 1 .. dec + 1 /\ dec + 1 \in 1 .. dec + 1
      BY <1>6 DEF FramesTypeOK
    <3>3. read' \subseteq 1 .. dec'
      BY <2>1, <3>2
    <3>4. <<>> \in Seq(Segments)
      OBVIOUS
    <3> QED BY <1>1, <1>2, <1>6, <2>1, <3>1, <3>3, <3>4 DEF FramesTypeOK
  <2>3. ASSUME \A m \in missed : m >= f + 1 PROVE dec = f - 1
    <3>1. \A m \in missed : m \in Nat
      BY <1>6 DEF FramesTypeOK
    <3>2. \A m \in missed : m >= f
      BY <1>2, <1>6, <2>3, <3>1
    <3> QED BY <1>2, <1>6, <3>2 DEF Counted
  <2>4. Counted'
    BY <1>1, <1>2, <1>6, <2>1, <2>3 DEF Counted
  <2>5. Assembled'
    BY <1>3, <1>7 DEF Assembled
  <2>6. ASSUME f \notin damaged, \A m \in missed : m > f PROVE f \in read'
    <3>1. \A m \in missed : m \in Nat /\ m >= f + 1
      BY <1>2, <1>6, <2>6 DEF FramesTypeOK
    <3>2. dec + 1 = f
      BY <1>2, <1>6, <2>3, <3>1
    <3>3. Collected(h) = Split(f, l)
      BY <1>4, <1>5, <1>7, <2>6, SplitIsPart
    <3>4. IsFrame(Collected(h), f)
      BY <1>2, <2>6, <3>3 DEF IsFrame, f, l
    <3> QED BY <2>1, <3>2, <3>4
  <2>7. ReadSoFar'
    <3> SUFFICES ASSUME NEW n \in 1 .. Upcoming' - 1, n \notin damaged, \A m \in missed : m > n
                 PROVE  n \in read'
      BY <1>1 DEF ReadSoFar
    <3>1. CASE n = f
      BY <2>6, <3>1
    <3>2. CASE n # f
      <4>1. n \in 1 .. Upcoming - 1
        BY <1>2, <1>6, <2>1, <3>2
      <4> QED BY <1>6, <2>1, <4>1 DEF ReadSoFar
    <3> QED BY <3>1, <3>2
  <2> QED BY <1>3, <2>2, <2>4, <2>5, <2>7 DEF FramesInv
<1>8. CASE ~h.last
  <2>1. buf' = Collected(h) /\ UNCHANGED <<dec, read>> /\ Upcoming' = Upcoming
    BY <1>1, <1>2, <1>3, <1>8
  <2>2. FramesTypeOK'
    BY <1>1, <1>2, <1>4, <1>6, <2>1 DEF FramesTypeOK
  <2>3. Counted' /\ ReadSoFar'
    BY <1>1, <1>6, <2>1 DEF Counted, ReadSoFar
  <2>4. Assembled'
    <3>1. air'[1].frame = f /\ air'[1].index = h.index + 1 /\ h.index + 1 - 1 = h.index
      BY <1>2, <1>3, <1>8, <2>1
    <3>2. sent'[f] = l
      BY <1>1 DEF f, l
    <3>3. f \notin damaged' => buf' = Part(f, l, h.index)
      BY <1>1, <1>4, <2>1
    <3>4. f \notin damaged' => buf' = Part(air'[1].frame, sent'[air'[1].frame], air'[1].index - 1)
      <4>1. air'[1].index - 1 = h.index
        <5>1. h.index \in Int
          BY <1>2
        <5> HIDE <1>1, <1>2, <1>3, <1>4, <2>1
        <5> QED BY <3>1, <5>1
      <4>2. sent'[air'[1].frame] = l
        BY <3>1, <3>2
      <4> HIDE <3>1, <3>2
      <4> DEFINE i == air'[1].index - 1
                 g == air'[1].frame
                 m == sent'[air'[1].frame]
      <4>3. g = f /\ m = l /\ i = h.index
        BY <3>1, <4>1, <4>2
      <4> HIDE DEF i, g, m
      <4>4. f \notin damaged' => buf' = Part(g, m, i)
        BY <3>3, <4>3
      <4> QED BY <4>4 DEF i, g, m
    <3> QED BY <3>1, <3>4 DEF Assembled
  <2> QED BY <1>3, <2>2, <2>3, <2>4 DEF FramesInv
<1> QED BY <1>7, <1>8

LEMMA RadioStep ==
  ASSUME FramesInv, Damage \/ Lose
  PROVE  FramesInv'
<1> DEFINE h == air[1]
           f == air[1].frame
<1>1. /\ air # <<>> /\ damaged' = damaged \cup {f} /\ UNCHANGED <<sent, buf, dec, read>>
      /\ \/ UNCHANGED <<air, missed>>
         \/ air' = Tail(air) /\ missed' = missed \cup {n \in {f} : h.last}
  BY NextSegment DEF Damage, Lose
<1>2. f \in 1 .. Len(sent) /\ Upcoming = f /\ Tail(air) \in Seq(Segments)
  BY <1>1, NextSegment DEF Belongs
<1>3. /\ FramesTypeOK /\ InOrder /\ Counted /\ Assembled /\ ReadSoFar
      /\ Len(sent) \in Nat /\ dec \in Nat
  BY DEF FramesInv, FramesTypeOK
<1>4. FramesTypeOK'
  BY <1>1, <1>2, <1>3 DEF FramesTypeOK
<1>5. CASE UNCHANGED <<air, missed>>
  <2>1. Upcoming' = Upcoming
    BY <1>1, <1>5 DEF Upcoming
  <2>2. InOrder'
    BY <1>1, <1>3, <1>5 DEF InOrder, Belongs
  <2>3. Counted' /\ ReadSoFar'
    BY <1>1, <1>3, <1>5, <2>1 DEF Counted, ReadSoFar
  <2>4. Assembled'
    BY <1>1, <1>5 DEF Assembled
  <2> QED BY <1>4, <2>2, <2>3, <2>4 DEF FramesInv
<1>6. CASE air' = Tail(air) /\ missed' = missed \cup {n \in {f} : h.last}
  <2>1. /\ InOrder'
        /\ Upcoming' = IF h.last THEN f + 1 ELSE f
        /\ air' # <<>> => air'[1].frame = Upcoming' /\ air'[1].index = IF h.last THEN 1 ELSE h.index + 1
    BY <1>1, <1>6, TailStep
  <2> HIDE DEF h, f
  <2>2. CASE h.last
    <3>1. f \in missed' /\ missed \subseteq missed' /\ Upcoming' = f + 1
      BY <1>6, <2>1, <2>2
    <3>2. Counted'
      BY <1>1, <1>2, <1>3, <3>1 DEF Counted
    <3>3. Assembled'
      BY <2>1, <2>2 DEF Assembled
    <3>4. \A n \in 1 .. Upcoming' - 1 : n \in 1 .. Upcoming - 1 \/ n \in damaged'
      BY <1>1, <1>2, <1>3, <3>1
    <3>5. ReadSoFar'
      BY <1>1, <1>3, <3>1, <3>4 DEF ReadSoFar
    <3> QED BY <1>4, <2>1, <3>2, <3>3, <3>5 DEF FramesInv
  <2>3. CASE ~h.last
    <3>1. missed' = missed /\ Upcoming' = Upcoming
      BY <1>2, <1>6, <2>1, <2>3
    <3>2. Counted' /\ ReadSoFar'
      BY <1>1, <1>3, <3>1 DEF Counted, ReadSoFar
    <3>3. Assembled'
      BY <1>1, <1>2, <2>1, <3>1 DEF Assembled
    <3> QED BY <1>4, <2>1, <3>2, <3>3 DEF FramesInv
  <2> QED BY <2>2, <2>3
<1> QED BY <1>1, <1>5, <1>6

LEMMA FramesInvariance == FramesSpec => []FramesInv
<1>1. FramesInit => FramesInv
  <2> SUFFICES ASSUME FramesInit PROVE FramesInv
    OBVIOUS
  <2>1. /\ Len(sent) = 0 /\ Len(air) = 0 /\ Upcoming = 1
        /\ <<>> \in Seq(1 .. MaxLength) /\ <<>> \in Seq(Segments)
    BY DEF FramesInit, Upcoming
  <2>2. FramesTypeOK
    BY <2>1, FramesAssumption DEF FramesInit, FramesTypeOK
  <2>3. InOrder /\ Counted /\ Assembled /\ ReadSoFar
    BY <2>1 DEF FramesInit, InOrder, Counted, Assembled, ReadSoFar
  <2> QED BY <2>2, <2>3 DEF FramesInv
<1>2. FramesInv /\ UNCHANGED framesVars => FramesInv'
  BY DEF framesVars, FramesInv, FramesTypeOK, InOrder, Belongs, Counted, Assembled, ReadSoFar, Upcoming
<1>3. FramesInv /\ [FramesNext]_framesVars => FramesInv'
  BY <1>2, SendStep, PacketStep, RadioStep DEF FramesNext
<1> QED BY <1>1, <1>3, PTL DEF FramesSpec

(* Every variable keeps its type, for frames of any number and length: the *)
(* counter of the session is never ahead of what was sent, and nothing is  *)
(* read that it has not passed.                                            *)
THEOREM FramesTypeCorrect == FramesSpec => []FramesTypeOK
<1>1. FramesInv => FramesTypeOK
  BY DEF FramesInv
<1> QED BY <1>1, FramesInvariance, PTL

(* For frames of any number and length, whichever segments are damaged or  *)
(* lost: a frame that arrives whole is read, unless the last segment of    *)
(* one before it was lost.                                                 *)
THEOREM WholeFramesAreRead == FramesSpec => []WholeIsRead
<1>1. FramesInv => WholeIsRead
  <2> SUFFICES ASSUME FramesInv, NEW n \in Gone \ damaged, \A m \in missed : m > n
               PROVE  n \in read
    BY DEF WholeIsRead
  <2>1. n \in 1 .. Upcoming - 1
    <3>1. CASE air = <<>>
      <4>1. Len(sent) \in Nat
        BY DEF FramesInv, FramesTypeOK
      <4> QED BY <3>1, <4>1 DEF Gone, Upcoming
    <3>2. CASE air # <<>>
      <4>1. air[1].frame \in 1 .. Len(sent) /\ Upcoming = air[1].frame /\ 1 \in 1 .. Len(air)
        BY <3>2, NextSegment DEF Belongs
      <4>2. air[1] \in Range(air)
        BY <4>1, LenProperties DEF Range, FramesInv, FramesTypeOK
      <4>3. air[1].frame > n /\ n \in 1 .. Len(sent) /\ Len(sent) \in Nat
        BY <4>2 DEF Gone, FramesInv, FramesTypeOK
      <4> QED BY <4>1, <4>3
    <3> QED BY <3>1, <3>2
  <2> QED BY <2>1 DEF FramesInv, ReadSoFar
<1> QED BY <1>1, FramesInvariance, PTL
-----------------------------------------------------------------------------
(***************************************************************************)
(* The OS2 session beside it (MCBleReuse) is the one Os2Proofs is about.   *)
(***************************************************************************)
Os2Facts == INSTANCE Os2Proofs WITH
              Calls <- Os2Calls, MaxLinks <- Os2Links,
              secret <- secret2, pc <- pc2, promise <- promise2, waiter <- waiter2,
              timers <- timers2, signLogin <- signLogin2, signing <- signing2,
              loggedIn <- loggedIn2, ready <- ready2, token <- token2, link <- link2,
              device <- device2

LEMMA SameOs2Session == Os2!Next => Os2Facts!Next
<1> USE DEF Os2!callVars, Os2Facts!callVars, Os2!flagVars, Os2Facts!flagVars, Os2!keyVars,
       Os2Facts!keyVars, Os2!deviceVars, Os2Facts!deviceVars, Os2!Waiters, Os2Facts!Waiters,
       Os2!Linking, Os2Facts!Linking, Os2!WaiterOf, Os2Facts!WaiterOf, Os2!Busy,
       Os2Facts!Busy, Os2!LoginKey, Os2Facts!LoginKey
<1>1. \A c \in Os2Calls :
        /\ (Os2!Connect(c) => Os2Facts!Connect(c))
        /\ (Os2!Register(c) => Os2Facts!Register(c))
  BY DEF Os2!Connect, Os2Facts!Connect, Os2!Register, Os2Facts!Register, Os2!Accept,
     Os2Facts!Accept
<1>2. \A c \in Os2Calls :
        /\ (Os2!Refused(c) => Os2Facts!Refused(c))
        /\ (Os2!IrerTimesOut(c) => Os2Facts!IrerTimesOut(c))
        /\ (Os2!ServerDeclines(c) => Os2Facts!ServerDeclines(c))
  BY DEF Os2!Refused, Os2Facts!Refused, Os2!IrerTimesOut, Os2Facts!IrerTimesOut,
     Os2!ServerDeclines, Os2Facts!ServerDeclines
<1>3. \A c \in Os2Calls : Os2!Linked(c) => Os2Facts!Linked(c)
  BY DEF Os2!Linked, Os2Facts!Linked, Os2!GoesOn, Os2Facts!GoesOn, Os2!Says, Os2Facts!Says
<1>4. \A c \in Os2Calls : Os2!LinkFails(c) => Os2Facts!LinkFails(c)
  BY DEF Os2!LinkFails, Os2Facts!LinkFails
<1>5. \A c \in Os2Calls : Os2!ServerRegisters(c) => Os2Facts!ServerRegisters(c)
  BY DEF Os2!ServerRegisters, Os2Facts!ServerRegisters, Os2!RegisterKey,
     Os2Facts!RegisterKey, Os2!NewWaiter, Os2Facts!NewWaiter
<1>6. \A c \in Os2Calls, w \in Os2!Waiters : Os2!TimerFires(c, w) => Os2Facts!TimerFires(c, w)
  BY DEF Os2!TimerFires, Os2Facts!TimerFires, Os2!Settle, Os2Facts!Settle, Os2!GoesOn,
     Os2Facts!GoesOn
<1>7. Os2!LinkUp => Os2Facts!LinkUp
  BY DEF Os2!LinkUp, Os2Facts!LinkUp
<1>8. Os2!Silent => Os2Facts!Silent
  BY DEF Os2!Silent, Os2Facts!Silent
<1>9. Os2!HearInitial => Os2Facts!HearInitial
  BY DEF Os2!HearInitial, Os2Facts!HearInitial, Os2!SettleWaiters, Os2Facts!SettleWaiters,
     Os2!Settle, Os2Facts!Settle, Os2!GoesOn, Os2Facts!GoesOn
<1>10. Os2!HearBadInitial => Os2Facts!HearBadInitial
  BY DEF Os2!HearBadInitial, Os2Facts!HearBadInitial, Os2!SettleWaiters,
     Os2Facts!SettleWaiters, Os2!Settle, Os2Facts!Settle, Os2!GoesOn, Os2Facts!GoesOn
<1>11. Os2!HearLogin => Os2Facts!HearLogin
  BY DEF Os2!HearLogin, Os2Facts!HearLogin, Os2!SettleWaiters, Os2Facts!SettleWaiters,
     Os2!Settle, Os2Facts!Settle, Os2!GoesOn, Os2Facts!GoesOn
<1>12. Os2!HearIrer => Os2Facts!HearIrer
  BY DEF Os2!HearIrer, Os2Facts!HearIrer
<1>13. Os2!HearPublish => Os2Facts!HearPublish
  BY DEF Os2!HearPublish, Os2Facts!HearPublish, Os2!SettleWaiters, Os2Facts!SettleWaiters,
     Os2!Settle, Os2Facts!Settle, Os2!GoesOn, Os2Facts!GoesOn
<1>14. Os2!Lost => Os2Facts!Lost
  BY DEF Os2!Lost, Os2Facts!Lost, Os2!FailAllPending, Os2Facts!FailAllPending, Os2!Settle,
     Os2Facts!Settle, Os2!GoesOn, Os2Facts!GoesOn
<1>15. \A n \in signing2 : Os2!ServerSigns(n) => Os2Facts!ServerSigns(n)
  BY DEF Os2!ServerSigns, Os2Facts!ServerSigns, Os2!Says, Os2Facts!Says
<1>16. \A n \in signing2 : Os2!ServerRefuses(n) => Os2Facts!ServerRefuses(n)
  BY DEF Os2!ServerRefuses, Os2Facts!ServerRefuses, Os2!SettleWaiters,
     Os2Facts!SettleWaiters, Os2!Settle, Os2Facts!Settle, Os2!GoesOn, Os2Facts!GoesOn
<1> QED
  BY <1>1, <1>2, <1>3, <1>4, <1>5, <1>6, <1>7, <1>8, <1>9, <1>10, <1>11, <1>12, <1>13,
     <1>14, <1>15, <1>16 DEF Os2!Next, Os2Facts!Next

LEMMA ReuseIsOs2Session == ReuseSpec => Os2Facts!Spec
<1>1. ReuseInit => Os2Facts!Init
  BY DEF ReuseInit, Os2!Init, Os2Facts!Init, Os2!Waiters, Os2Facts!Waiters,
         Os2!LoginKey, Os2Facts!LoginKey
<1>2. [ReuseNext]_ReuseVars => [Os2Facts!Next]_(Os2Facts!vars)
  <2>1. [ReuseNext]_ReuseVars => Os2!Next \/ UNCHANGED os2Vars
    BY DEF ReuseNext, ReuseVars
  <2> QED
    BY <2>1, SameOs2Session DEF os2Vars, Os2Facts!vars, Os2Facts!callVars, Os2Facts!flagVars,
       Os2Facts!keyVars, Os2Facts!deviceVars
<1> QED
  BY <1>1, <1>2, PTL DEF ReuseSpec, Os2Facts!Spec

(* In a session of either kind, however often it is called again: when a   *)
(* register() of an OS2 session has returned, a caller has the owner key   *)
(* of the device.                                                          *)
THEOREM ReuseKeepsOwnerKeys ==
  ASSUME Os2Facts!NoneApart
  PROVE  ReuseSpec => []OwnerKeyAgrees
<1>1. Os2Facts!Spec => []Os2Facts!OwnerKeyAgrees
  BY Os2Facts!OwnerKeyIsKept
<1>2. Os2Facts!OwnerKeyAgrees => OwnerKeyAgrees
  BY DEF OwnerKeyAgrees, Os2!OwnerKeyAgrees, Os2Facts!OwnerKeyAgrees, Os2!Enrolled, Os2Facts!Enrolled
<1> QED
  BY <1>1, <1>2, ReuseIsOs2Session, PTL
=============================================================================
