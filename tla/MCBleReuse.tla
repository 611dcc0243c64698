----------------------------- MODULE MCBleReuse -----------------------------
(***************************************************************************)
(* Small instances of sessions that are called again: BleSession, and      *)
(* Os2Session under names of its own.  A behaviour of ReuseSpec is one of  *)
(* the session it chooses, the other does not move.                        *)
(***************************************************************************)
EXTENDS BleSession

CONSTANTS c1, c2, c3, r1, r2, r3, i1, i2, Os2Calls, Os2Links

VARIABLES
  part,
  secret2, pc2, promise2, waiter2, timers2, signLogin2, signing2, loggedIn2, ready2,
  token2, mine, pair, cipher, result, link2, links, owner, device2

Os2 == INSTANCE Os2Session WITH
         Calls <- Os2Calls, MaxLinks <- Os2Links,
         secret <- secret2, pc <- pc2, promise <- promise2, waiter <- waiter2,
         timers <- timers2, signLogin <- signLogin2, signing <- signing2,
         loggedIn <- loggedIn2, ready <- ready2, token <- token2, link <- link2,
         device <- device2

os2Vars == <<secret2, pc2, promise2, waiter2, timers2, signLogin2, signing2, loggedIn2, ready2,
             token2, mine, pair, cipher, result, link2, links, owner, device2>>

ReuseVars == <<part, vars, os2Vars>>

ReuseInit ==
  /\ part \in {"os3", "os2"}
  /\ Init /\ Os2!Init
  /\ part = "os2" => secret
  /\ part = "os3" => secret2

ReuseNext ==
  \/ part = "os3" /\ Next /\ UNCHANGED <<part, os2Vars>>
  \/ part = "os2" /\ Os2!Next /\ UNCHANGED <<part, vars>>

ReuseSpec == ReuseInit /\ [][ReuseNext]_ReuseVars

(* Of an OS2 session: when a register() has returned, the owner key by     *)
(* which the device is enrolled was given to a caller (OwnerKeyAgrees of   *)
(* Os2Session).                                                            *)
OwnerKeyAgrees == Os2!OwnerKeyAgrees

Symmetry == Permutations(Requests) \cup Permutations(Items)
=============================================================================
