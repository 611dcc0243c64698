---------------------------- MODULE AwsCredentials ----------------------------
(***************************************************************************)
(* The temporary AWS credentials of packages/core/src/aws-credentials.js:  *)
(* the provider that fetches, caches and persists them, and the transport  *)
(* that signs a request with them.  Every HTTP call, of the identity pool, *)
(* of Cognito for the token and of the API gateway, is tried again under   *)
(* the same rule: an error of the server or the network and a throttling   *)
(* are, a time-out and a refusal are not.  The gateway's request is signed *)
(* once, before the first attempt.                                         *)
(*                                                                         *)
(* Of an identity only matters whether the pool still knows it; of         *)
(* credentials, when they expire.  An attempt takes less than a tick of    *)
(* the clock longer than the tick it began in (AWS_TIMEOUT_MS).            *)
(***************************************************************************)
EXTENDS Naturals

CONSTANTS
  Callers,     \* requests that may be in progress at a time; bound of the model
  MaxRetries,  \* AWS_MAX_RETRIES
  Margin,      \* DEFAULT_REFRESH_MARGIN_MS, in ticks
  Life,        \* what the pool grants, in ticks
  MaxTime      \* bound of the model: the last tick

(* 500 seconds are more than four attempts of 15 seconds and the pauses    *)
(* between them; the pool grants an hour.                                  *)
ASSUME AwsAssumption ==
  /\ MaxRetries \in Nat /\ Margin \in Nat /\ Life \in Nat /\ MaxTime \in Nat
  /\ Margin >= MaxRetries + 1 /\ Life > Margin

VARIABLES
  time,      \* the clock
  identity,  \* identityId: "none", "live" or, once the pool has dropped it, "dead"
  cached,    \* the credentials: when they expire, 0 if there are none
  persisted, \* what the store has: identity and expiry
  flight,    \* inflight: the refresh in progress
  request    \* each caller's request

awsVars == <<time, identity, cached, persisted, flight, request>>

Known == {"none", "live", "dead"}
NoFlight == [stage |-> "none", id |-> "none", again |-> FALSE, attempt |-> 0]
Idle     == [at |-> "idle", expires |-> 0, attempt |-> 0, slow |-> FALSE]
Signed(expires) == [at |-> "sending", expires |-> expires, attempt |-> 0, slow |-> FALSE]

AwsTypeOK ==
  /\ time \in 0 .. MaxTime
  /\ identity \in Known
  /\ cached \in 0 .. MaxTime + Life
  /\ persisted \in [id : Known, expires : 0 .. MaxTime + Life]
  /\ flight \in [stage : {"none", "token", "id", "creds"}, id : Known,
                 again : BOOLEAN, attempt : 0 .. MaxRetries]
  /\ request \in [Callers -> [at : {"idle", "waiting", "sending"},
                              expires : 0 .. MaxTime + Life,
                              attempt : 0 .. MaxRetries, slow : BOOLEAN]]

(* The provider is made over a store that is empty.                        *)
AwsInit ==
  /\ time = 0 /\ identity = "none" /\ cached = 0
  /\ persisted = [id |-> "none", expires |-> 0]
  /\ flight = NoFlight
  /\ request = [c \in Callers |-> Idle]

-----------------------------------------------------------------------------
(* getCredentials: the cached ones if they are good for a while, else what *)
(* the refresh in progress or a new one brings.                            *)
FitNow(expires) == expires > time  \* faulty: no margin

Fit(expires) == expires > time + Margin

GetCredentials(c) ==
  /\ request[c].at = "idle"
  /\ IF Fit(cached)
     THEN request' = [request EXCEPT ![c] = Signed(cached)] /\ UNCHANGED flight
     ELSE /\ request' = [request EXCEPT ![c].at = "waiting"]
          /\ flight' = IF flight = NoFlight THEN [flight EXCEPT !.stage = "token"] ELSE flight
  /\ UNCHANGED <<time, identity, cached, persisted>>

(* The refresh throws, and with it all that wait for it.                   *)
Rejected ==
  /\ flight' = NoFlight
  /\ request' = [c \in Callers |-> IF request[c].at = "waiting" THEN Idle ELSE request[c]]

(* An attempt of a call that is worth another one, or was the last.        *)
TryAgain ==
  IF flight.attempt < MaxRetries
  THEN flight' = [flight EXCEPT !.attempt = @ + 1] /\ UNCHANGED request
  ELSE Rejected

(* getIdToken, which may ask Cognito.                                      *)
TokenArrives ==
  /\ flight.stage = "token"
  /\ flight' = [flight EXCEPT !.stage = IF identity = "none" THEN "id" ELSE "creds",
                              !.id = identity, !.attempt = 0]
  /\ UNCHANGED <<time, identity, cached, persisted, request>>

(* A server or the network fails, or the call is throttled.                *)
AttemptFails ==
  /\ flight # NoFlight
  /\ TryAgain
  /\ UNCHANGED <<time, identity, cached, persisted>>

(* A time-out, a refusal, or an answer without what it should have.        *)
PoolCallFails ==
  /\ flight # NoFlight
  /\ Rejected
  /\ UNCHANGED <<time, identity, cached, persisted>>

(* GetId names the identity of the login, a new one if need be.            *)
IdArrives ==
  /\ flight.stage = "id"
  /\ flight' = [flight EXCEPT !.stage = "creds", !.id = "live", !.attempt = 0]
  /\ UNCHANGED <<time, identity, cached, persisted, request>>

(* GetCredentialsForIdentity grants; the store may fail to save.           *)
CredentialsArrive ==
  /\ flight.stage = "creds" /\ flight.id = "live"
  /\ cached' = time + Life
  /\ identity' = "live"
  /\ persisted' \in {persisted, [id |-> "live", expires |-> time + Life]}
  /\ flight' = NoFlight
  /\ request' = [c \in Callers |-> IF request[c].at = "waiting" THEN Signed(time + Life)
                                                                ELSE request[c]]
  /\ UNCHANGED time

(* ResourceNotFoundException or ValidationException: the identity is asked *)
(* for once more.                                                          *)
Unknown ==
  /\ flight.stage = "creds"
  /\ IF flight.again THEN Rejected /\ UNCHANGED identity
     ELSE /\ identity' = "none"
          /\ flight' = [flight EXCEPT !.stage = "id", !.again = TRUE, !.attempt = 0]
          /\ UNCHANGED request
  /\ UNCHANGED <<time, cached, persisted>>

ClearCache ==
  /\ cached' = 0 /\ identity' = "none"
  /\ persisted' \in {persisted, [id |-> "none", expires |-> 0]}
  /\ UNCHANGED <<time, flight, request>>

(* Another process is started on the same store.                           *)
Restart ==
  /\ identity' = persisted.id /\ cached' = persisted.expires
  /\ flight' = NoFlight
  /\ request' = [c \in Callers |-> Idle]
  /\ UNCHANGED <<time, persisted>>

-----------------------------------------------------------------------------
(* The request to the API gateway.                                         *)

(* An attempt fails as AttemptFails does.                                  *)
SendAgain(c) ==
  /\ request[c].at = "sending" /\ request[c].attempt < MaxRetries
  /\ request' = [request EXCEPT ![c].attempt = @ + 1, ![c].slow = FALSE]
  /\ UNCHANGED <<time, identity, cached, persisted, flight>>

(* Any other outcome, or the last attempt's.                               *)
SendEnds(c) ==
  /\ request[c].at = "sending"
  /\ request' = [request EXCEPT ![c] = Idle]
  /\ UNCHANGED <<time, identity, cached, persisted, flight>>

-----------------------------------------------------------------------------
PoolDrops ==
  LET dropped(id) == IF id = "live" THEN "dead" ELSE id
  IN /\ identity' = dropped(identity)
     /\ persisted' = [persisted EXCEPT !.id = dropped(@)]
     /\ flight' = [flight EXCEPT !.id = dropped(@)]
     /\ UNCHANGED <<time, cached, request>>

(* No attempt sees two ticks.                                              *)
Tick ==
  /\ time < MaxTime
  /\ \A c \in Callers : ~request[c].slow
  /\ time' = time + 1
  /\ request' = [c \in Callers |-> [request[c] EXCEPT !.slow = request[c].at = "sending"]]
  /\ UNCHANGED <<identity, cached, persisted, flight>>

AwsNext ==
  \/ TokenArrives \/ AttemptFails \/ PoolCallFails \/ IdArrives \/ CredentialsArrive \/ Unknown
  \/ ClearCache \/ Restart \/ PoolDrops \/ Tick
  \/ \E c \in Callers : GetCredentials(c) \/ SendAgain(c) \/ SendEnds(c)

AwsSpec == AwsInit /\ [][AwsNext]_awsVars

-----------------------------------------------------------------------------
(* A request is never on its way under a signature whose credentials have  *)
(* expired: not from the cache, not from the store of an earlier process,  *)
(* not after waiting for a refresh, and not on the last of its attempts.   *)
SignedLive == \A c \in Callers : request[c].at = "sending" => request[c].expires > time

(* Whoever waits for credentials waits for a refresh that is under way.    *)
WaitingIsInFlight == flight = NoFlight => \A c \in Callers : request[c].at # "waiting"
=============================================================================
