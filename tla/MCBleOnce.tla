------------------------------ MODULE MCBleOnce -------------------------------
(***************************************************************************)
(* Small instances of BleSession, and of the frames under it (BleFrames).  *)
(* The two share no state; a behaviour of OnceSpec is one of the part it   *)
(* chooses, the other does not move.  The fairness is that of BleSession,  *)
(* and the liveness properties say something of that part only.            *)
(***************************************************************************)
EXTENDS BleSession, BleFrames

CONSTANTS c1, c2, r1, r2, r3, i1, i2

VARIABLE part

OnceVars == <<part, vars, framesVars>>

OnceInit ==
  /\ part \in {"session", "frames"}
  /\ Init /\ FramesInit
  /\ part = "frames" => secret

OnceNext ==
  \/ part = "session" /\ Next /\ UNCHANGED <<part, framesVars>>
  \/ part = "frames" /\ FramesNext /\ UNCHANGED <<part, vars>>

OnceSpec == OnceInit /\ [][OnceNext]_OnceVars /\ Fairness
=============================================================================
