----------------------------- MODULE ServeLists -----------------------------
(***************************************************************************)
(* Device lists asked for by the clients of the serve daemon: the calls of *)
(* MethodChain whose handlers call listDevices of                          *)
(* packages/core/src/client.js, which collects the pages that the cloud    *)
(* pushes (subscribeChunks of packages/core/src/util.js).                  *)
(*                                                                         *)
(* A push names neither the request nor the call it answers: each page     *)
(* goes to every call that is collecting.  A list is the pages it is made  *)
(* of; that devices come and go meanwhile is left out.                     *)
(***************************************************************************)
EXTENDS MethodChain, Naturals

CONSTANTS
  Listing,      \* the methods that call listDevices
  Pages,        \* totalPage
  Answers,      \* requests the cloud may be answering; bound of the model
  LateAnswers   \* whether a call may time out while the cloud still answers

ASSUME ListAssumption == Listing \subseteq Methods /\ Pages \in Nat \ {0}

VARIABLES
  collecting,  \* the calls that are subscribed to the pages
  acc,         \* the pages each call has collected
  listed,      \* the calls whose list is complete, in their own eyes
  pushed       \* the pages pushed in answer to a request, or Pages if it is free

listVars == <<chainVars, collecting, acc, listed, pushed>>

ListInit ==
  /\ ChainInit
  /\ collecting = {} /\ listed = {}
  /\ acc = [c \in Calls |-> <<>>]
  /\ pushed = [a \in Answers |-> Pages]

(* Any method is called, or a call of another method or one that finds no  *)
(* connection runs, or its promise is looked at.                           *)
Call(c) ==
  /\ \/ \E m \in Methods : Invoke(c, m)
     \/ Run(c)
     \/ c \notin collecting /\ Settle(c)
  /\ UNCHANGED <<collecting, acc, listed, pushed>>

(* listDevices subscribes and sends its request. *)
ListDevices(c, a) ==
  /\ method[c] \in Listing /\ Run(c)
  /\ pushed[a] = Pages
  /\ collecting' = collecting \cup {c}
  /\ acc' = [acc EXCEPT ![c] = <<>>]
  /\ pushed' = [pushed EXCEPT ![a] = 0]
  /\ UNCHANGED listed

(* page === 1 replaces, any other page is appended; the last page ends it. *)
FirstEnds(page) == TRUE  \* faulty: the first push is taken for the whole list
LastEnds(page) == page >= Pages

PageArrives(a) ==
  LET page == pushed[a] + 1 IN
  /\ pushed[a] < Pages
  /\ pushed' = [pushed EXCEPT ![a] = page]
  /\ acc' = [c \in Calls |->
               IF c \notin collecting THEN acc[c]
               ELSE IF page = 1 THEN <<page>> ELSE Append(acc[c], page)]
  /\ IF LastEnds(page)
     THEN listed' = listed \cup collecting /\ collecting' = {}
     ELSE UNCHANGED <<listed, collecting>>
  /\ UNCHANGED chainVars

(* success: false in answer to a request fails every call that collects.   *)
Refused(a) ==
  /\ pushed[a] = 0
  /\ pushed' = [pushed EXCEPT ![a] = Pages]
  /\ collecting' = {}
  /\ UNCHANGED <<chainVars, acc, listed>>

(* The rest of an answer never comes, as when the connection is lost.      *)
AnswerLost(a) ==
  /\ pushed[a] < Pages
  /\ pushed' = [pushed EXCEPT ![a] = Pages]
  /\ UNCHANGED <<chainVars, collecting, acc, listed>>

TimesOut(c) ==
  /\ c \in collecting
  /\ LateAnswers \/ \A a \in Answers : pushed[a] = Pages
  /\ collecting' = collecting \ {c}
  /\ UNCHANGED <<chainVars, acc, listed, pushed>>

(* The response has gone out, and the slot of the call is free.            *)
Forget(c) ==
  /\ Sweep(c)
  /\ listed' = listed \ {c}
  /\ UNCHANGED <<collecting, acc, pushed>>

ListNext ==
  \/ \E c \in Calls : Call(c) \/ TimesOut(c) \/ Forget(c) \/ \E a \in Answers : ListDevices(c, a)
  \/ \E a \in Answers : PageArrives(a) \/ Refused(a) \/ AnswerLost(a)

ListSpec == ListInit /\ [][ListNext]_listVars

-----------------------------------------------------------------------------
(* A list that is handed to a client, or by which config.json is synced    *)
(* and pruned, is the whole list, each page once and in order, however     *)
(* many clients ask at the same time.                                      *)
ListsAreWhole == \A c \in listed : acc[c] = [i \in 1 .. Pages |-> i]
=============================================================================
