------------------------------ MODULE ServeStart ------------------------------
(***************************************************************************)
(* The start and the end of `sesame serve`: cmdServe of                    *)
(* packages/kit/src/cli/serve.js with the framings it starts (stdio, the   *)
(* Unix socket of serve/framing/socket.js, and a port standing for HTTP,   *)
(* WebSocket and gRPC), in several processes that use one socket path.     *)
(*                                                                         *)
(* Between the processes every system call on the path is a step; within a *)
(* process, what runs from one await to the next.  stdin may end, and a    *)
(* process may be killed, at any moment.  What the daemon does meanwhile   *)
(* is ServeDaemon's.                                                       *)
(***************************************************************************)
EXTENDS Sequences, Naturals

CONSTANTS
  Servers,   \* processes
  Leftover,  \* what lies at the path at first: the socket of a dead process, or Nobody
  Nobody

ASSUME PathAssumption == Nobody \notin Servers /\ Leftover \notin Servers

VARIABLES
  path,     \* whose socket lies at socketPath, or Nobody
  start,    \* where cmdServe is
  handles,  \* the framings it may stop, in their order
  up,       \* the framings that are running
  closing,  \* where shutdown() is
  pos,      \* the position of its loop over handles
  gone      \* the processes that have ended

startVars == <<path, start, handles, up, closing, pos, gone>>

Framings == {"stdio", "socket", "port"}

StartTypeOK ==
  /\ path \in Servers \cup {Leftover, Nobody}
  /\ start \in [Servers -> {"new", "exists", "probing", "unlinking", "listening",
                            "port", "serving", "late", "failed"}]
  /\ handles \in [Servers -> Seq(Framings)]
  /\ up \in [Servers -> SUBSET Framings]
  /\ closing \in [Servers -> {"no", "stopping", "hub", "done"}]
  /\ pos \in [Servers -> Nat \ {0}]
  /\ gone \subseteq Servers

StartInit ==
  /\ path = Leftover
  /\ start = [p \in Servers |-> "new"]
  /\ handles = [p \in Servers |-> <<>>]
  /\ up = [p \in Servers |-> {}]
  /\ closing = [p \in Servers |-> "no"]
  /\ pos = [p \in Servers |-> 1]
  /\ gone = {}

Goes(p, place) == start' = [start EXCEPT ![p] = place]

Started(p, framing) ==
  /\ handles' = [handles EXCEPT ![p] = Append(@, framing)]
  /\ up' = [up EXCEPT ![p] = @ \cup {framing}]

(* A process that ends closes what it listens on, and unlinks nothing.     *)
Ends(p) ==
  /\ gone' = gone \cup {p}
  /\ up' = [up EXCEPT ![p] = {}]

Runs(p, place) == p \notin gone /\ start[p] = place

(* Somebody accepts connections on the socket at the path. *)
Answered == \E q \in Servers : path = q /\ "socket" \in up[q]

-----------------------------------------------------------------------------
(* The start.  stdin is listened to at once; then the other framings.      *)
StartStdio(p) ==
  /\ Runs(p, "new")
  /\ Goes(p, "exists")
  /\ Started(p, "stdio")
  /\ UNCHANGED <<path, closing, pos, gone>>

(* ensureFreeSocket: existsSync, the probe, and the unlink of a stale one. *)
Exists(p) ==
  /\ Runs(p, "exists")
  /\ Goes(p, IF path = Nobody THEN "listening" ELSE "probing")
  /\ UNCHANGED <<path, handles, up, closing, pos, gone>>

(* What a start that fails does: shutdown("startup error"), unless one is  *)
(* under way already; then it throws, and the process ends.                *)
Fails(p) ==
  IF closing[p] = "no"
  THEN /\ Goes(p, "failed")
       /\ closing' = [closing EXCEPT ![p] = "stopping"]
       /\ UNCHANGED <<handles, up, pos, gone>>
  ELSE /\ Goes(p, "failed")
       /\ Ends(p)
       /\ UNCHANGED <<handles, closing, pos>>

AlreadyRunning(p) ==
  /\ Runs(p, "probing") /\ Answered
  /\ Fails(p)
  /\ UNCHANGED path

UnlinkUnasked(p) ==  \* faulty: whatever lies at the path is taken to be stale
  /\ Runs(p, "probing")
  /\ Goes(p, "unlinking")
  /\ UNCHANGED <<path, handles, up, closing, pos, gone>>

Unanswered(p) ==
  /\ Runs(p, "probing") /\ ~Answered
  /\ Goes(p, "unlinking")
  /\ UNCHANGED <<path, handles, up, closing, pos, gone>>

Unlink(p) ==
  /\ Runs(p, "unlinking")
  /\ path' = Nobody
  /\ Goes(p, "listening")
  /\ UNCHANGED <<handles, up, closing, pos, gone>>

(* listen() on the path: bind() fails if there is anything at it.          *)
Listen(p) ==
  /\ Runs(p, "listening")
  /\ IF path = Nobody
     THEN /\ path' = p
          /\ Goes(p, "port")
          /\ Started(p, "socket")
          /\ UNCHANGED <<closing, pos, gone>>
     ELSE Fails(p) /\ UNCHANGED path

(* The last framing: its port is free or not.  With it come the token      *)
(* file, daemon.start(), which does nothing once the daemon is shut down,  *)
(* and the handlers of signals.  cmdServe then awaits the shutdown, which  *)
(* may be over.                                                            *)
StartPort(p) ==
  /\ Runs(p, "port")
  /\ Goes(p, IF closing[p] = "no" THEN "serving" ELSE "late")
  /\ Started(p, "port")
  /\ UNCHANGED <<path, closing, pos, gone>>

PortTaken(p) ==
  /\ Runs(p, "port")
  /\ Fails(p)
  /\ UNCHANGED path

-----------------------------------------------------------------------------
(* The end.                                                                *)

(* shutdown(): of the end of stdin, or of a signal once it has handlers.   *)
ShutdownBegins(p) ==
  /\ p \notin gone /\ closing[p] = "no"
  /\ "stdio" \in up[p] \/ start[p] = "serving"
  /\ closing' = [closing EXCEPT ![p] = "stopping"]
  /\ UNCHANGED <<path, start, handles, up, pos, gone>>

(* The next of the framings, those included that were started since.  The  *)
(* socket's server removes the path when it closes, by its name.           *)
Stop(p) ==
  /\ p \notin gone /\ closing[p] = "stopping"
  /\ pos[p] <= Len(handles[p])
  /\ up' = [up EXCEPT ![p] = @ \ {handles[p][pos[p]]}]
  /\ path' = IF handles[p][pos[p]] = "socket" THEN Nobody ELSE path
  /\ pos' = [pos EXCEPT ![p] = @ + 1]
  /\ UNCHANGED <<start, handles, closing, gone>>

AllStopped(p) ==
  /\ p \notin gone /\ closing[p] = "stopping"
  /\ pos[p] > Len(handles[p])
  /\ closing' = [closing EXCEPT ![p] = "hub"]
  /\ UNCHANGED <<path, start, handles, up, pos, gone>>

(* daemon.shutdown() returns, which the hub's close() may never do.        *)
HubClosed(p) ==
  /\ p \notin gone /\ closing[p] = "hub"
  /\ closing' = [closing EXCEPT ![p] = "done"]
  /\ UNCHANGED <<path, start, handles, up, pos, gone>>

WatchdogOfStops(p) ==  \* faulty: cleared before the hub is closed
  /\ p \notin gone /\ closing[p] = "stopping"
  /\ Ends(p)
  /\ UNCHANGED <<path, start, handles, closing, pos>>

Watchdog(p) ==
  /\ p \notin gone /\ closing[p] \in {"stopping", "hub"}
  /\ Ends(p)
  /\ UNCHANGED <<path, start, handles, closing, pos>>

(* The command has returned and nothing keeps the process alive; or it has *)
(* thrown, and die() exits.                                                *)
Exit(p) ==
  /\ p \notin gone /\ closing[p] = "done"
  /\ start[p] = "failed" \/ (start[p] \in {"serving", "late"} /\ up[p] = {})
  /\ Ends(p)
  /\ UNCHANGED <<path, start, handles, closing, pos>>

(* The environment: SIGKILL, or a signal before there are handlers of it.  *)
Killed(p) ==
  /\ p \notin gone
  /\ Ends(p)
  /\ UNCHANGED <<path, start, handles, closing, pos>>

-----------------------------------------------------------------------------
StartNext ==
  \E p \in Servers :
    \/ StartStdio(p) \/ Exists(p) \/ AlreadyRunning(p) \/ Unanswered(p) \/ Unlink(p)
    \/ Listen(p) \/ StartPort(p) \/ PortTaken(p)
    \/ ShutdownBegins(p) \/ Stop(p) \/ AllStopped(p) \/ HubClosed(p)
    \/ Watchdog(p) \/ Exit(p) \/ Killed(p)

(* Node.js stops the framings, fires the watchdog and exits; that the hub  *)
(* closes is not assumed.                                                  *)
StartFairness ==
  \A p \in Servers : WF_startVars(Stop(p)) /\ WF_startVars(AllStopped(p))
                     /\ WF_startVars(Watchdog(p)) /\ WF_startVars(Exit(p))

StartSpec == StartInit /\ [][StartNext]_startVars /\ StartFairness

-----------------------------------------------------------------------------
(* The daemon that runs keeps its address.                                 *)
RunningIsReachable == \A p \in Servers : "socket" \in up[p] => path = p

(* p is between ensureFreeSocket's look at the path and its own listen().  *)
Takes(p) == p \notin gone /\ start[p] \in {"probing", "unlinking", "listening"}

StartsApart == \A p, q \in Servers : Takes(p) /\ Takes(q) => p = q

(* As long as no two daemons are started at the same moment, none takes    *)
(* the path from another that runs: whatever was left there by a process   *)
(* that was killed, and at whatever point of the other's life or end a     *)
(* second `sesame serve` comes.                                            *)
ReachableIfApart == []StartsApart => []RunningIsReachable

(* A daemon that was serving ends when it is told to, though its cloud     *)
(* connection may never close.                                             *)
ToldEnds ==
  \A p \in Servers : start[p] = "serving" /\ closing[p] # "no" ~> p \in gone

(* What "the end of stdin is the end of the parent, so fold up"            *)
(* (serve/framing/stdio.js) hopes for also while the framings are started. *)
OrphanEnds == \A p \in Servers : closing[p] = "done" ~> p \in gone
=============================================================================
