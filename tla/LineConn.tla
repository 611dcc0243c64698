------------------------------ MODULE LineConn ------------------------------
(***************************************************************************)
(* What the serve daemon sends to one persistent client                    *)
(* (makeLineConnection of packages/kit/src/serve/framing/ndjson.js) over a *)
(* socket, which it owns, or over the shared stdout.                       *)
(*                                                                         *)
(* Lines are numbered in the order in which they are sent.  The writable   *)
(* stream buffers what the reader has not taken; it asks to wait when it   *)
(* holds HighWater lines, and emits "drain" once it is empty again, in a   *)
(* later turn, unless it was ended.                                        *)
(***************************************************************************)
EXTENDS Naturals, Sequences

CONSTANTS
  HighWater,  \* lines the stream takes before it asks to wait
  MaxQueue,   \* maxQueue
  MaxSent     \* bound on the lines sent

ASSUME LineAssumption == HighWater \in Nat \ {0} /\ MaxQueue \in Nat

VARIABLES
  owned,     \* closeWritable: a socket, not stdout
  sent,      \* how many lines were given to send() while it was open
  queue,     \* queue
  draining,  \* draining
  closed,    \* closed
  stream,    \* the writable stream: "open", "ended" or "destroyed"
  buffer,    \* what it has taken and not passed on
  drainDue,  \* whether it is about to emit "drain"
  read       \* what the reader has read

lineVars == <<owned, sent, queue, draining, closed, stream, buffer, drainDue, read>>

LineInit ==
  /\ owned \in BOOLEAN
  /\ sent = 0 /\ queue = <<>> /\ buffer = <<>> /\ read = <<>>
  /\ draining = FALSE /\ drainDue = FALSE /\ closed = FALSE /\ stream = "open"

(* conn.close(): an end() that comes before "drain" is emitted prevents it. *)
Close ==
  /\ closed' = TRUE
  /\ stream' = IF owned THEN "ended" ELSE stream
  /\ drainDue' = (drainDue /\ ~owned)

(* conn.send(obj) *)
SendLine ==
  LET n == sent + 1 IN
  /\ ~closed /\ n <= MaxSent
  /\ sent' = n
  /\ IF ~draining
     THEN /\ buffer' = Append(buffer, n)
          /\ draining' = (Len(buffer') >= HighWater)
          /\ UNCHANGED <<queue, closed, stream, drainDue>>
     ELSE /\ queue' = Append(queue, n)
          /\ IF Len(queue') > MaxQueue THEN Close ELSE UNCHANGED <<closed, stream, drainDue>>
          /\ UNCHANGED <<buffer, draining>>
  /\ UNCHANGED <<owned, read>>

(* "drain": the queue is written until the stream asks to wait again.      *)
DrainOne ==  \* faulty: one line for each "drain"
  LET n == IF queue = <<>> THEN 0 ELSE 1 IN
  /\ draining' = FALSE
  /\ buffer' = buffer \o SubSeq(queue, 1, n)
  /\ queue' = SubSeq(queue, n + 1, Len(queue))

DrainQueue ==
  LET n == IF Len(queue) < HighWater THEN Len(queue) ELSE HighWater IN
  /\ draining' = (n = HighWater)
  /\ buffer' = buffer \o SubSeq(queue, 1, n)
  /\ queue' = SubSeq(queue, n + 1, Len(queue))

Drain ==
  /\ drainDue
  /\ drainDue' = FALSE
  /\ DrainQueue
  /\ UNCHANGED <<owned, sent, closed, stream, read>>

(* The reader takes a line. *)
ReaderTakes ==
  /\ buffer # <<>>
  /\ read' = Append(read, Head(buffer))
  /\ buffer' = Tail(buffer)
  /\ drainDue' = (drainDue \/ (draining /\ stream = "open" /\ buffer' = <<>>))
  /\ UNCHANGED <<owned, sent, queue, draining, closed, stream>>

(* The end of the input, an error of the input, or stop().                 *)
InputEnds ==
  /\ ~closed
  /\ Close
  /\ UNCHANGED <<owned, sent, queue, draining, buffer, read>>

(* The input is a line beyond maxLine, or the reader of a socket is gone:  *)
(* a socket is destroyed with all it holds.                                *)
Destroyed ==
  /\ ~closed /\ owned
  /\ closed' = TRUE /\ stream' = "destroyed"
  /\ buffer' = <<>> /\ drainDue' = FALSE
  /\ UNCHANGED <<owned, sent, queue, draining, read>>

LineNext == SendLine \/ Drain \/ ReaderTakes \/ InputEnds \/ Destroyed

LineSpec == LineInit /\ [][LineNext]_lineVars

-----------------------------------------------------------------------------
LineTypeOK ==
  /\ {owned, draining, closed, drainDue} \subseteq BOOLEAN
  /\ sent \in Nat
  /\ stream \in {"open", "ended", "destroyed"}
  /\ {queue, buffer, read} \subseteq Seq(Nat)

(* However reading, writing and "drain" alternate, the reader gets the     *)
(* lines in the order they were sent; none is lost, doubled or overtaken   *)
(* on the way, unless the socket was destroyed.                            *)
LinesInOrder ==
  stream # "destroyed" => read \o buffer \o queue = [i \in 1 .. sent |-> i]

(* A line in the queue is not stranded: as long as the stream is open,     *)
(* it holds something or is about to emit the "drain" the queue waits for. *)
QueueWillDrain ==
  queue # <<>> /\ stream = "open" => draining /\ (buffer # <<>> \/ drainDue)
=============================================================================
