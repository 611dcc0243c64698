------------------------------ MODULE BleFrames ------------------------------
(***************************************************************************)
(* The enciphered frames that a SESAME device sends, as the session reads  *)
(* them: cut into segments (splitSegments and SegmentAssembler of          *)
(* packages/core/src/ble/protocol.js), put together again, and deciphered  *)
(* with a counter that both ends keep (_onPacket of                        *)
(* packages/core/src/ble/session.js).                                      *)
(*                                                                         *)
(* Frame n is the one that the device enciphers with counter n; it can be  *)
(* deciphered with n only, and only whole.  Segments arrive in order; one  *)
(* may arrive damaged in its data, or not arrive.                          *)
(***************************************************************************)
EXTENDS Naturals, Sequences, FiniteSets, SequencesExt

CONSTANTS
  MaxFrames,  \* bound on the frames sent
  MaxLength   \* bound on the segments of a frame

ASSUME FramesAssumption == MaxFrames \in Nat /\ MaxLength \in Nat \ {0}

VARIABLES
  sent,     \* the lengths of the frames sent, in segments
  air,      \* segments on their way
  buf,      \* _buf of the assembler
  dec,      \* _decCount
  read,     \* the frames deciphered
  damaged,  \* the frames that lost a segment or had one damaged
  missed    \* those of them whose last segment was lost

framesVars == <<sent, air, buf, dec, read, damaged, missed>>

Segments == [frame : 1..MaxFrames, index : 1..MaxLength, first : BOOLEAN, last : BOOLEAN]

(* Types; nothing is read that the counter has not passed. *)
FramesTypeOK ==
  /\ sent \in Seq(1..MaxLength) /\ Len(sent) <= MaxFrames
  /\ air \in Seq(Segments) /\ buf \in Seq(Segments)
  /\ dec \in 0..Len(sent)
  /\ read \subseteq 1..dec /\ damaged \subseteq 1..Len(sent) /\ missed \subseteq damaged

FramesInit ==
  /\ sent = <<>> /\ air = <<>> /\ buf = <<>>
  /\ dec = 0 /\ read = {} /\ damaged = {} /\ missed = {}

(* splitSegments: a header with a start bit, and a type that says whether  *)
(* more is to come.                                                        *)
Split(n, length) ==
  [i \in 1..length |-> [frame |-> n, index |-> i, first |-> i = 1, last |-> i = length]]

DeviceSends(length) ==
  /\ Len(sent) < MaxFrames
  /\ sent' = Append(sent, length)
  /\ air' = air \o Split(Len(sent) + 1, length)
  /\ UNCHANGED <<buf, dec, read, damaged, missed>>

(* The frame that a sequence of segments is the whole of, if any.          *)
IsFrame(segments, n) ==
  /\ n \in 1..Len(sent) \ damaged
  /\ segments = Split(n, sent[n])

(* feed: the segment is collected; the start bit empties the buffer. *)
Collected(s) == IF s.first THEN <<s>> ELSE Append(buf, s)

(* ccmDecrypt with the present counter.  The counter advances in any case. *)
DecipherStrictly(segments) ==  \* faulty: the counter advances only after a success
  IF IsFrame(segments, dec + 1) THEN dec' = dec + 1 /\ read' = read \cup {dec + 1}
                                ELSE UNCHANGED <<dec, read>>

Decipher(segments) ==
  /\ dec' = dec + 1
  /\ read' = read \cup {n \in {dec + 1} : IsFrame(segments, n)}

(* _onPacket *)
Packet ==
  /\ air # <<>>
  /\ air' = Tail(air)
  /\ IF Head(air).last THEN buf' = <<>> /\ Decipher(Collected(Head(air)))
                       ELSE buf' = Collected(Head(air)) /\ UNCHANGED <<dec, read>>
  /\ UNCHANGED <<sent, damaged, missed>>

(* The radio. *)
Damage ==
  /\ air # <<>>
  /\ damaged' = damaged \cup {Head(air).frame}
  /\ UNCHANGED <<sent, air, buf, dec, read, missed>>

Lose ==
  /\ air # <<>>
  /\ air' = Tail(air)
  /\ damaged' = damaged \cup {Head(air).frame}
  /\ missed' = missed \cup {n \in {Head(air).frame} : Head(air).last}
  /\ UNCHANGED <<sent, buf, dec, read>>

FramesNext ==
  \/ \E length \in 1..MaxLength : DeviceSends(length)
  \/ Packet \/ Damage \/ Lose

FramesSpec == FramesInit /\ [][FramesNext]_framesVars

-----------------------------------------------------------------------------
(* Frames that have left the air. *)
Gone == {n \in 1..Len(sent) : \A s \in Range(air) : s.frame > n}

(* A frame that arrives whole is read, whatever segments were damaged and  *)
(* whatever frames were cut short before it, unless one of them went       *)
(* uncounted because its last segment was lost.                            *)
WholeIsRead == \A n \in Gone \ damaged : (\A m \in missed : m > n) => n \in read

(* A frame that arrives whole is read, whatever became of those before it. *)
AfterLossRead == Gone \ damaged \subseteq read
=============================================================================
