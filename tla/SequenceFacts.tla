--------------------------- MODULE SequenceFacts ----------------------------
(***************************************************************************)
(* Sequences whose elements are what is under way in an order (frames      *)
(* sent, callers that wait): what the steps of the models, which append,   *)
(* take and remove, make of what is in one, and of what precedes what.     *)
(***************************************************************************)
EXTENDS Integers, Sequences, SequencesExt, SequenceTheorems, TLAPS

(* a comes before b in s. *)
Precedes(s, a, b) == \E i, j \in 1 .. Len(s) : i < j /\ s[i] = a /\ s[j] = b

(* What a new last element adds. *)
LEMMA AppendFacts ==
  ASSUME NEW S, NEW s \in Seq(S), NEW e \in S
  PROVE  /\ Append(s, e) \in Seq(S)
         /\ \A x : Contains(Append(s, e), x) <=> Contains(s, x) \/ x = e
         /\ ~Contains(s, e) /\ IsInjective(s) => IsInjective(Append(s, e))
         /\ \A a, b : Precedes(Append(s, e), a, b)
                        <=> Precedes(s, a, b) \/ (Contains(s, a) /\ b = e)
<1>1. /\ Append(s, e) \in Seq(S) /\ Len(Append(s, e)) = Len(s) + 1 /\ Len(s) \in Nat
      /\ Append(s, e)[Len(s) + 1] = e
      /\ \A i \in 1 .. Len(s) : Append(s, e)[i] = s[i]
  BY AppendProperties
<1>2. ASSUME NEW x PROVE Contains(Append(s, e), x) <=> Contains(s, x) \/ x = e
  BY <1>1 DEF Contains
<1>3. ~Contains(s, e) /\ IsInjective(s) => IsInjective(Append(s, e))
  BY <1>1 DEF Contains, IsInjective
<1>4. ASSUME NEW a, NEW b
      PROVE  Precedes(Append(s, e), a, b) <=> Precedes(s, a, b) \/ (Contains(s, a) /\ b = e)
  BY <1>1 DEF Contains, Precedes
<1> QED BY <1>1, <1>2, <1>3, <1>4

(* A part of a sequence keeps the order of what it keeps. *)
LEMMA PartFacts ==
  ASSUME NEW S, NEW s \in Seq(S), NEW m \in Int, NEW n \in Int, 1 <= m, n <= Len(s)
  PROVE  /\ SubSeq(s, m, n) \in Seq(S)
         /\ \A x : Contains(SubSeq(s, m, n), x) => Contains(s, x)
         /\ \A a, b : Precedes(SubSeq(s, m, n), a, b) => Precedes(s, a, b)
<1> DEFINE t == SubSeq(s, m, n)
<1>1. Len(s) \in Nat /\ \A i \in m .. n : s[i] \in S
  OBVIOUS
<1>2. /\ t \in Seq(S) /\ Len(t) = (IF m <= n THEN n - m + 1 ELSE 0)
      /\ \A i \in 1 .. n - m + 1 : t[i] = s[m + i - 1]
  BY <1>1, SubSeqProperties
<1>3. \A i \in 1 .. Len(t) : m + i - 1 \in 1 .. Len(s) /\ t[i] = s[m + i - 1]
  BY <1>1, <1>2
<1>4. ASSUME NEW x, Contains(t, x) PROVE Contains(s, x)
  BY <1>3, <1>4 DEF Contains
<1>5. ASSUME NEW a, NEW b, Precedes(t, a, b) PROVE Precedes(s, a, b)
  <2>1. PICK i, j \in 1 .. Len(t) : i < j /\ t[i] = a /\ t[j] = b
    BY <1>5 DEF Precedes
  <2>2. m + i - 1 < m + j - 1
    BY <2>1
  <2> QED BY <1>3, <2>1, <2>2 DEF Precedes
<1> QED BY <1>2, <1>4, <1>5

(* What is left without the first element. *)
LEMMA TailFacts ==
  ASSUME NEW S, NEW s \in Seq(S), s # <<>>
  PROVE  /\ Tail(s) \in Seq(S) /\ Head(s) \in S
         /\ \A x : Contains(s, x) <=> Contains(Tail(s), x) \/ x = Head(s)
         /\ IsInjective(s) => IsInjective(Tail(s)) /\ ~Contains(Tail(s), Head(s))
         /\ \A a, b : Precedes(Tail(s), a, b) => Precedes(s, a, b)
         /\ \A b : Contains(Tail(s), b) => Precedes(s, Head(s), b)
<1>1. /\ Head(s) \in S /\ Head(s) = s[1]
      /\ Tail(s) \in Seq(S) /\ Len(Tail(s)) = Len(s) - 1 /\ Len(s) \in Nat \ {0}
      /\ \A i \in 1 .. Len(Tail(s)) : Tail(s)[i] = s[i + 1]
  BY HeadTailProperties
<1>2. \A i \in 2 .. Len(s) : i - 1 \in 1 .. Len(Tail(s)) /\ s[i] = Tail(s)[i - 1]
  BY <1>1
<1>3. ASSUME NEW x PROVE Contains(s, x) <=> Contains(Tail(s), x) \/ x = Head(s)
  BY <1>1, <1>2 DEF Contains
<1>4. ASSUME IsInjective(s) PROVE IsInjective(Tail(s)) /\ ~Contains(Tail(s), Head(s))
  BY <1>1, <1>4 DEF Contains, IsInjective
<1>5. ASSUME NEW a, NEW b, Precedes(Tail(s), a, b) PROVE Precedes(s, a, b)
  <2>1. PICK i, j \in 1 .. Len(Tail(s)) : i < j /\ Tail(s)[i] = a /\ Tail(s)[j] = b
    BY <1>5 DEF Precedes
  <2>2. i + 1 < j + 1 /\ i + 1 \in 1 .. Len(s) /\ j + 1 \in 1 .. Len(s)
    BY <1>1, <2>1
  <2> QED BY <1>1, <2>1, <2>2 DEF Precedes
<1>6. ASSUME NEW b, Contains(Tail(s), b) PROVE Precedes(s, Head(s), b)
  <2>1. PICK j \in 1 .. Len(Tail(s)) : Tail(s)[j] = b
    BY <1>6 DEF Contains
  <2>2. 1 < j + 1 /\ 1 \in 1 .. Len(s) /\ j + 1 \in 1 .. Len(s)
    BY <1>1, <2>1
  <2> QED BY <1>1, <2>1, <2>2 DEF Precedes
<1> QED BY <1>1, <1>3, <1>4, <1>5, <1>6

(* Only what comes after the first element is left behind by it. *)
LEMMA HeadFacts ==
  ASSUME NEW S, NEW s \in Seq(S), s # <<>>
  PROVE  /\ \A a, b : Precedes(s, a, b) /\ a # Head(s) => Precedes(Tail(s), a, b)
         /\ \A a, b : Precedes(s, a, b) => Contains(s, a) /\ Contains(s, b)
         /\ IsInjective(s) => \A a : ~Precedes(s, a, Head(s))
<1>1. /\ Head(s) = s[1] /\ Len(Tail(s)) = Len(s) - 1 /\ Len(s) \in Nat \ {0}
      /\ \A i \in 1 .. Len(Tail(s)) : Tail(s)[i] = s[i + 1]
  BY HeadTailProperties
<1>2. ASSUME NEW a, NEW b, Precedes(s, a, b), a # Head(s) PROVE Precedes(Tail(s), a, b)
  <2>1. PICK i \in 1 .. Len(s), j \in 1 .. Len(s) : i < j /\ s[i] = a /\ s[j] = b
    BY <1>2 DEF Precedes
  <2>2. /\ i - 1 \in 1 .. Len(Tail(s)) /\ j - 1 \in 1 .. Len(Tail(s)) /\ i - 1 < j - 1
        /\ Tail(s)[i - 1] = a /\ Tail(s)[j - 1] = b
    BY <1>1, <1>2, <2>1
  <2> QED BY <2>2 DEF Precedes
<1>3. \A a, b : Precedes(s, a, b) => Contains(s, a) /\ Contains(s, b)
  BY DEF Precedes, Contains
<1>4. ASSUME IsInjective(s), NEW a, Precedes(s, a, Head(s)) PROVE FALSE
  <2>1. PICK i \in 1 .. Len(s), j \in 1 .. Len(s) : i < j /\ s[j] = Head(s)
    BY <1>4 DEF Precedes
  <2>2. 1 \in 1 .. Len(s) /\ s[1] = s[j]
    BY <1>1, <2>1
  <2>3. j = 1
    BY <1>4, <2>1, <2>2 DEF IsInjective
  <2> QED BY <2>1, <2>3
<1> QED BY <1>2, <1>3, <1>4

(* What is left without the element at a place. *)
LEMMA RemoveAtFacts ==
  ASSUME NEW S, NEW s \in Seq(S), NEW p \in 1 .. Len(s)
  PROVE  /\ RemoveAt(s, p) \in Seq(S)
         /\ \A x : Contains(RemoveAt(s, p), x) => Contains(s, x)
         /\ \A x : Contains(s, x) /\ x # s[p] => Contains(RemoveAt(s, p), x)
         /\ IsInjective(s) => IsInjective(RemoveAt(s, p)) /\ ~Contains(RemoveAt(s, p), s[p])
         /\ \A a, b : Precedes(RemoveAt(s, p), a, b) => Precedes(s, a, b)
<1> DEFINE l == SubSeq(s, 1, p - 1)
           r == SubSeq(s, p + 1, Len(s))
           t == RemoveAt(s, p)
           at(i) == IF i < p THEN i ELSE i + 1
           back(i) == IF i < p THEN i ELSE i - 1
<1>1. Len(s) \in Nat /\ \A i \in 1 .. Len(s) : s[i] \in S
  OBVIOUS
<1>2. /\ l \in Seq(S) /\ Len(l) = p - 1
      /\ \A i \in 1 .. p - 1 : l[i] = s[i]
  <2>1. \A i \in 1 .. p - 1 : s[i] \in S
    BY <1>1
  <2>2. /\ l \in Seq(S) /\ Len(l) = (IF 1 <= p - 1 THEN p - 1 - 1 + 1 ELSE 0)
        /\ \A i \in 1 .. (p - 1 - 1) + 1 : l[i] = s[1 + i - 1]
    BY <2>1, SubSeqProperties
  <2> QED BY <2>2
<1>3. /\ r \in Seq(S) /\ Len(r) = Len(s) - p
      /\ \A i \in 1 .. Len(s) - p : r[i] = s[p + i]
  <2>1. \A i \in p + 1 .. Len(s) : s[i] \in S
    BY <1>1
  <2>2. /\ r \in Seq(S)
        /\ Len(r) = (IF p + 1 <= Len(s) THEN Len(s) - (p + 1) + 1 ELSE 0)
        /\ \A i \in 1 .. Len(s) - (p + 1) + 1 : r[i] = s[(p + 1) + i - 1]
    BY <1>1, <2>1, SubSeqProperties
  <2> QED BY <1>1, <2>2
<1>4. /\ t \in Seq(S) /\ Len(t) = Len(s) - 1
      /\ \A i \in 1 .. Len(t) : at(i) \in 1 .. Len(s) /\ at(i) # p /\ t[i] = s[at(i)]
  <2>1. t = l \o r
    BY DEF RemoveAt
  <2>2. /\ t \in Seq(S) /\ Len(t) = Len(l) + Len(r)
        /\ \A i \in 1 .. Len(l) + Len(r) : t[i] = IF i <= Len(l) THEN l[i] ELSE r[i - Len(l)]
    <3>1. l \in Seq(S) /\ r \in Seq(S)
      BY <1>2, <1>3
    <3> HIDE DEF l, r, t
    <3>2. /\ l \o r \in Seq(S) /\ Len(l \o r) = Len(l) + Len(r)
          /\ \A i \in 1 .. Len(l) + Len(r) :
               (l \o r)[i] = IF i <= Len(l) THEN l[i] ELSE r[i - Len(l)]
      BY <3>1, ConcatProperties
    <3> QED BY <2>1, <3>2
  <2> HIDE DEF l, r, t
  <2>3. Len(t) = Len(s) - 1 /\ p \in Nat
    BY <1>1, <1>2, <1>3, <2>2
  <2>4. ASSUME NEW i \in 1 .. Len(t)
        PROVE  at(i) \in 1 .. Len(s) /\ at(i) # p /\ t[i] = s[at(i)]
    <3>1. CASE i < p
      BY <1>1, <1>2, <2>2, <2>3, <3>1
    <3>2. CASE ~(i < p)
      <4>1. ~(i <= Len(l)) /\ i - Len(l) \in 1 .. Len(s) - p /\ p + (i - Len(l)) = i + 1
        BY <1>1, <1>2, <2>3, <3>2
      <4>2. t[i] = r[i - Len(l)] /\ i \in Nat
        BY <1>1, <2>2, <2>3, <4>1
      <4>3. r[i - Len(l)] = s[p + (i - Len(l))]
        BY <1>3, <4>1
      <4>4. i + 1 \in 1 .. Len(s) /\ at(i) = i + 1 /\ i + 1 # p
        BY <1>1, <2>3, <3>2
      <4> QED BY <4>1, <4>2, <4>3, <4>4
    <3> QED BY <3>1, <3>2
  <2> QED BY <2>2, <2>3, <2>4
<1> HIDE DEF l, r, t
<1>5. ASSUME NEW i \in 1 .. Len(s), i # p
      PROVE  back(i) \in 1 .. Len(t) /\ t[back(i)] = s[i]
  <2>1. back(i) \in 1 .. Len(t) /\ at(back(i)) = i
    BY <1>1, <1>4, <1>5
  <2> QED BY <1>4, <2>1
<1>6. ASSUME NEW x, Contains(t, x) PROVE Contains(s, x)
  BY <1>4, <1>6 DEF Contains
<1>7. ASSUME NEW x, Contains(s, x), x # s[p] PROVE Contains(t, x)
  BY <1>5, <1>7 DEF Contains
<1>8. ASSUME IsInjective(s) PROVE IsInjective(t) /\ ~Contains(t, s[p])
  <2>1. ASSUME NEW i \in 1 .. Len(t), NEW j \in 1 .. Len(t), t[i] = t[j] PROVE i = j
    <3>1. at(i) = at(j)
      <4>1. at(i) \in 1 .. Len(s) /\ at(j) \in 1 .. Len(s) /\ s[at(i)] = s[at(j)]
        BY <1>4, <2>1
      <4>2. DOMAIN s = 1 .. Len(s)
        OBVIOUS
      <4> HIDE DEF at
      <4> QED BY <1>8, <4>1, <4>2 DEF IsInjective
    <3>2. i \in Nat /\ j \in Nat /\ p \in Nat
      BY <1>1, <1>4
    <3> QED BY <3>1, <3>2
  <2>2. ASSUME NEW i \in 1 .. Len(t) PROVE t[i] # s[p]
    BY <1>1, <1>4, <1>8 DEF IsInjective
  <2>3. DOMAIN t = 1 .. Len(t)
    BY <1>4
  <2> QED BY <2>1, <2>2, <2>3 DEF Contains, IsInjective
<1>9. ASSUME NEW a, NEW b, Precedes(t, a, b) PROVE Precedes(s, a, b)
  <2>1. PICK i, j \in 1 .. Len(t) : i < j /\ t[i] = a /\ t[j] = b
    BY <1>9 DEF Precedes
  <2>2. at(i) < at(j)
    BY <2>1
  <2> QED BY <1>4, <2>1, <2>2 DEF Precedes
<1> QED BY <1>4, <1>6, <1>7, <1>8, <1>9 DEF t

(* s has nothing that t has not, and in the same order. *)
PartOf(s, t) ==
  /\ \A x : Contains(s, x) => Contains(t, x)
  /\ \A a, b : Precedes(s, a, b) => Precedes(t, a, b)

LEMMA Parts ==
  ASSUME NEW S, NEW s \in Seq(S)
  PROVE  /\ PartOf(s, s) /\ PartOf(<<>>, s)
         /\ s # <<>> => PartOf(Tail(s), s)
         /\ \A p \in 1 .. Len(s) : PartOf(RemoveAt(s, p), s)
<1>1. PartOf(s, s)
  BY DEF PartOf
<1>2. PartOf(<<>>, s)
  <2>1. Len(<<>>) = 0
    OBVIOUS
  <2> QED BY <2>1 DEF PartOf, Contains, Precedes
<1>3. ASSUME s # <<>> PROVE PartOf(Tail(s), s)
  BY <1>3, TailFacts DEF PartOf
<1>4. ASSUME NEW p \in 1 .. Len(s) PROVE PartOf(RemoveAt(s, p), s)
  BY RemoveAtFacts DEF PartOf
<1> QED BY <1>1, <1>2, <1>3, <1>4
=============================================================================
