------------------------------- MODULE MCServe -------------------------------
(***************************************************************************)
(* Small instances of the serve daemon: its start and end (ServeStart),    *)
(* its connect loop and subscription (ServeDaemon), the calls of its       *)
(* methods (MethodChain, ServeLists), what it sends to a client (LineConn) *)
(* and the client itself (SocketClient), and the login dialogue it waits   *)
(* for (LoginDialogue).  They share no state; a behaviour is one of the    *)
(* part it chooses, and the others do not move.  Their fairness conditions *)
(* concern actions that are disabled where they do not move.               *)
(***************************************************************************)
EXTENDS ServeStart, ServeDaemon, ServeLists, LineConn, LoginDialogue,
        SocketClient, TLC

CONSTANTS l1, l2, l3, c1, c2, k1, k2, k3, a1, a2, list, other, u1, v1, s1

VARIABLE part

ServeVars == <<part, startVars, vars, listVars, lineVars, loginVars, clientVars>>

(* A client that is not there. *)
NoClient ==
  /\ sock = "closed" /\ ref = FALSE /\ idle = FALSE /\ fatal = FALSE /\ subscribed = FALSE
  /\ ask = [a \in Asks |-> "unmade"] /\ written = {}

ServeInit ==
  /\ part \in {"start", "daemon", "lists", "lines", "login", "client"}
  /\ StartInit /\ Init /\ ListInit /\ LineInit /\ LoginInit
  /\ IF part = "client" THEN ClientInit ELSE NoClient
  /\ part # "daemon" => tokens
  /\ part # "lists" => \A c \in Calls : method[c] = list
  /\ part # "lines" => owned
  /\ part # "login" => HasTokens
  /\ HasTokens => file.user = u1 /\ file.device = v1

ServeNext ==
  \/ /\ part = "start" /\ StartNext
     /\ UNCHANGED <<part, vars, listVars, lineVars, loginVars, clientVars>>
  \/ /\ part = "daemon" /\ Next
     /\ UNCHANGED <<part, startVars, listVars, lineVars, loginVars, clientVars>>
  \/ /\ part = "lists" /\ ListNext
     /\ UNCHANGED <<part, startVars, vars, lineVars, loginVars, clientVars>>
  \/ /\ part = "lines" /\ LineNext
     /\ UNCHANGED <<part, startVars, vars, listVars, loginVars, clientVars>>
  \/ /\ part = "login" /\ LoginNext
     /\ UNCHANGED <<part, startVars, vars, listVars, lineVars, clientVars>>
  \/ /\ part = "client" /\ ClientNext
     /\ UNCHANGED <<part, startVars, vars, listVars, lineVars, loginVars>>

ServeSpec ==
  /\ ServeInit /\ [][ServeNext]_ServeVars
  /\ Fairness /\ StartFairness /\ LoginFairness /\ ClientFairness

=============================================================================
