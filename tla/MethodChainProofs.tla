-------------------------- MODULE MethodChainProofs --------------------------
(***************************************************************************)
(* Proof that MethodChain implements MethodQueue, for any number of calls  *)
(* and methods.  The invariant says how the promises are linked: the first *)
(* call of a line waits for nothing, each other one for the call before    *)
(* it, and the map has the last.                                           *)
(*                                                                         *)
(* From it follows what the chain does for the lists that calls collect    *)
(* (ServeLists): as long as one method asks for lists, they are whole.     *)
(***************************************************************************)
EXTENDS ServeLists, SequenceTheorems, TLAPS

Linked(m) ==
  LET s == line[m] IN
  /\ \A i, j \in 1 .. Len(s) : s[i] = s[j] => i = j
  /\ \A i \in 1 .. Len(s) : method[s[i]] = m /\ stage[s[i]] # "idle"
  /\ \A i \in 2 .. Len(s) : prev[s[i]] = s[i - 1] /\ stage[s[i]] = "queued"
  /\ s # <<>> => prev[s[1]] = NoCall
  /\ locks[m] = IF s = <<>> THEN NoCall ELSE s[Len(s)]

InLine == \A c \in Calls : stage[c] # "idle" =>
            \E i \in 1 .. Len(line[method[c]]) : line[method[c]][i] = c

ChainInv == ChainTypeOK /\ (\A m \in Methods : Linked(m)) /\ InLine

(* Empty lines are linked. *)
LEMMA ChainInitially == ChainInit => ChainInv
<1> SUFFICES ASSUME ChainInit PROVE ChainInv
  OBVIOUS
<1>1. ChainTypeOK
  BY DEF ChainInit, ChainTypeOK
<1>2. \A m \in Methods : Linked(m)
  <2> SUFFICES ASSUME NEW m \in Methods PROVE Linked(m)
    OBVIOUS
  <2>1. line[m] = <<>> /\ Len(line[m]) = 0 /\ locks[m] = NoCall
    BY DEF ChainInit
  <2> QED BY <2>1 DEF Linked
<1>3. InLine
  BY DEF ChainInit, InLine
<1> QED BY <1>1, <1>2, <1>3 DEF ChainInv

(* A call that waits for nothing is the first of its line.                 *)
LEMMA FirstOfLine ==
  ASSUME ChainInv, NEW c \in Calls, stage[c] # "idle",
         stage[c] # "queued" \/ prev[c] = NoCall
  PROVE  /\ method[c] \in Methods
         /\ line[method[c]] # <<>> /\ Len(line[method[c]]) > 0
         /\ line[method[c]][1] = c /\ Head(line[method[c]]) = c
<1> DEFINE m == method[c] s == line[m]
<1>1. m \in Methods /\ s \in Seq(Calls)
  BY DEF ChainInv, ChainTypeOK
<1>2. PICK i \in 1 .. Len(s) : s[i] = c
  BY DEF ChainInv, InLine
<1>3. Linked(m)
  BY <1>1 DEF ChainInv
<1>4. i = 1
  <2> SUFFICES ASSUME i # 1 PROVE FALSE
    OBVIOUS
  <2>1. i \in 2 .. Len(s) /\ i - 1 \in 1 .. Len(s)
    BY <1>1, <1>2
  <2>2. prev[c] = s[i - 1] /\ stage[c] = "queued"
    BY <1>2, <1>3, <2>1 DEF Linked
  <2>3. s[i - 1] \in Calls
    BY <1>1, <2>1
  <2> QED BY <2>2, <2>3, CallAssumption
<1> QED BY <1>1, <1>2, <1>4

(* A new call is linked behind the last one. *)
LEMMA InvokeKeeps ==
  ASSUME ChainInv, NEW c \in Calls, NEW m \in Methods, Invoke(c, m)
  PROVE  ChainInv'
<1> DEFINE s == line[m]
<1>1. /\ s \in Seq(Calls) /\ Len(s) \in Nat
      /\ line'[m] = Append(s, c) /\ Len(line'[m]) = Len(s) + 1
      /\ \A i \in 1 .. Len(s) : line'[m][i] = s[i]
      /\ line'[m][Len(s) + 1] = c
      /\ line'[m] # <<>>
  <2>1. s \in Seq(Calls) /\ line'[m] = Append(s, c)
    BY DEF ChainInv, ChainTypeOK, Invoke
  <2> QED BY <2>1, AppendProperties
<1>2. /\ stage'[c] = "queued" /\ method'[c] = m /\ prev'[c] = locks[m] /\ locks'[m] = c
      /\ \A d \in Calls \ {c} : /\ stage'[d] = stage[d] /\ method'[d] = method[d]
                                /\ prev'[d] = prev[d]
      /\ \A n \in Methods \ {m} : line'[n] = line[n] /\ locks'[n] = locks[n]
  <2>1. stage'[c] = "queued" /\ method'[c] = m /\ prev'[c] = locks[m] /\ locks'[m] = c
    BY DEF ChainInv, ChainTypeOK, Invoke
  <2>2. \A d \in Calls \ {c} : stage'[d] = stage[d] /\ method'[d] = method[d] /\ prev'[d] = prev[d]
    BY DEF ChainInv, ChainTypeOK, Invoke
  <2>3. \A n \in Methods \ {m} : line'[n] = line[n] /\ locks'[n] = locks[n]
    BY DEF ChainInv, ChainTypeOK, Invoke
  <2> QED BY <2>1, <2>2, <2>3
<1>3. \A n \in Methods : \A i \in 1 .. Len(line[n]) : line[n][i] \in Calls \ {c}
  <2> SUFFICES ASSUME NEW n \in Methods, NEW i \in 1 .. Len(line[n])
               PROVE  line[n][i] \in Calls \ {c}
    OBVIOUS
  <2>1. line[n] \in Seq(Calls) /\ Linked(n)
    BY DEF ChainInv, ChainTypeOK
  <2>2. line[n][i] \in Calls /\ stage[line[n][i]] # "idle"
    BY <2>1 DEF Linked
  <2> QED BY <2>2 DEF Invoke
<1>4. ChainTypeOK'
  <2>1. line' \in [Methods -> Seq(Calls)]
    <3>1. line' = [line EXCEPT ![m] = Append(s, c)] /\ Append(s, c) \in Seq(Calls)
      BY <1>1 DEF Invoke
    <3> QED BY <3>1 DEF ChainInv, ChainTypeOK
  <2>2. /\ locks' \in [Methods -> Calls \cup {NoCall}]
        /\ prev' \in [Calls -> Calls \cup {NoCall}]
        /\ stage' \in [Calls -> {"idle", "queued", "running", "settled"}]
        /\ method' \in [Calls -> Methods]
    <3>1. locks[m] \in Calls \cup {NoCall}
      BY DEF ChainInv, ChainTypeOK
    <3>2. prev' \in [Calls -> Calls \cup {NoCall}]
      BY <3>1 DEF ChainInv, ChainTypeOK, Invoke
    <3>3. locks' \in [Methods -> Calls \cup {NoCall}]
      BY DEF ChainInv, ChainTypeOK, Invoke
    <3>4. stage' \in [Calls -> {"idle", "queued", "running", "settled"}]
      BY DEF ChainInv, ChainTypeOK, Invoke
    <3>5. method' \in [Calls -> Methods]
      BY DEF ChainInv, ChainTypeOK, Invoke
    <3> QED BY <3>2, <3>3, <3>4, <3>5
  <2> QED BY <2>1, <2>2 DEF ChainTypeOK
<1>5. ASSUME NEW n \in Methods PROVE Linked(n)'
  <2>1. Linked(n)
    BY DEF ChainInv
  <2>2. CASE n # m
    <3>1. line'[n] = line[n] /\ locks'[n] = locks[n]
      BY <1>2, <2>2
    <3>2. \A i \in 1 .. Len(line[n]) : /\ stage'[line[n][i]] = stage[line[n][i]]
                                       /\ method'[line[n][i]] = method[line[n][i]]
                                       /\ prev'[line[n][i]] = prev[line[n][i]]
      BY <1>2, <1>3
    <3>3. line[n] # <<>> => 1 \in 1 .. Len(line[n])
      BY DEF ChainInv, ChainTypeOK
    <3> QED BY <2>1, <3>1, <3>2, <3>3 DEF Linked
  <2>3. CASE n = m
    <3>1. \A i, j \in 1 .. Len(line'[m]) : line'[m][i] = line'[m][j] => i = j
      BY <1>1, <1>3, <2>1, <2>3 DEF Linked
    <3>2. \A i \in 1 .. Len(line'[m]) :
            method'[line'[m][i]] = m /\ stage'[line'[m][i]] # "idle"
      <4> SUFFICES ASSUME NEW i \in 1 .. Len(line'[m])
                   PROVE  method'[line'[m][i]] = m /\ stage'[line'[m][i]] # "idle"
        OBVIOUS
      <4>1. CASE i \in 1 .. Len(s)
        <5>1. line'[m][i] = s[i] /\ s[i] \in Calls \ {c}
          BY <1>1, <1>3, <4>1
        <5>2. method[s[i]] = m /\ stage[s[i]] # "idle"
          BY <2>1, <2>3, <4>1 DEF Linked
        <5> QED BY <1>2, <5>1, <5>2
      <4>2. CASE i = Len(s) + 1
        BY <1>1, <1>2, <4>2
      <4> QED BY <1>1, <4>1, <4>2
    <3>3. ASSUME NEW i \in 2 .. Len(line'[m])
          PROVE  prev'[line'[m][i]] = line'[m][i - 1] /\ stage'[line'[m][i]] = "queued"
      <4>1. CASE i \in 2 .. Len(s)
        <5>1. /\ i \in 1 .. Len(s) /\ i - 1 \in 1 .. Len(s)
              /\ line'[m][i] = s[i] /\ line'[m][i - 1] = s[i - 1]
          BY <1>1, <4>1
        <5>2. s[i] \in Calls \ {c}
          BY <1>3, <5>1
        <5>3. prev[s[i]] = s[i - 1] /\ stage[s[i]] = "queued"
          BY <2>1, <2>3, <4>1 DEF Linked
        <5> QED BY <1>2, <5>1, <5>2, <5>3
      <4>2. CASE i = Len(s) + 1
        <5>1. s # <<>> /\ line'[m][i - 1] = s[Len(s)] /\ line'[m][i] = c
          BY <1>1, <4>2
        <5> QED BY <1>2, <2>1, <2>3, <5>1 DEF Linked
      <4> QED BY <1>1, <4>1, <4>2
    <3>4. prev'[line'[m][1]] = NoCall
      <4>1. CASE s = <<>>
        BY <1>1, <1>2, <2>1, <2>3, <4>1 DEF Linked
      <4>2. CASE s # <<>>
        <5>1. 1 \in 1 .. Len(s) /\ line'[m][1] = s[1]
          BY <1>1, <4>2
        <5> QED BY <1>2, <1>3, <2>1, <2>3, <4>2, <5>1 DEF Linked
      <4> QED BY <4>1, <4>2
    <3>5. locks'[m] = line'[m][Len(line'[m])]
      BY <1>1, <1>2
    <3> QED BY <1>1, <2>3, <3>1, <3>2, <3>3, <3>4, <3>5 DEF Linked
  <2> QED BY <2>2, <2>3
<1>6. InLine'
  <2> SUFFICES ASSUME NEW d \in Calls, (stage[d] # "idle")'
               PROVE  (\E i \in 1 .. Len(line[method[d]]) : line[method[d]][i] = d)'
    BY DEF InLine
  <2>1. CASE d = c
    BY <1>1, <1>2, <2>1
  <2>2. CASE d # c
    <3>1. stage[d] # "idle" /\ method'[d] = method[d] /\ method[d] \in Methods
      BY <1>2, <2>2 DEF ChainInv, ChainTypeOK
    <3>2. PICK i \in 1 .. Len(line[method[d]]) : line[method[d]][i] = d
      BY <3>1 DEF ChainInv, InLine
    <3>3. CASE method[d] = m
      BY <1>1, <3>1, <3>2, <3>3
    <3>4. CASE method[d] # m
      BY <1>2, <3>1, <3>2, <3>4
    <3> QED BY <3>3, <3>4
  <2> QED BY <2>1, <2>2
<1> QED BY <1>4, <1>5, <1>6 DEF ChainInv

(* Running and settling move nothing but the stage of a first call.        *)
LEMMA StageKeeps ==
  ASSUME ChainInv, NEW c \in Calls, Run(c) \/ Settle(c)
  PROVE  ChainInv'
<1>1. /\ stage[c] # "idle" /\ stage'[c] \in {"running", "settled"}
      /\ stage[c] # "queued" \/ prev[c] = NoCall
      /\ \A d \in Calls \ {c} : stage'[d] = stage[d]
      /\ UNCHANGED <<locks, prev, method, line>>
  BY DEF ChainInv, ChainTypeOK, Run, Settle
<1>2. ChainTypeOK'
  BY DEF ChainInv, ChainTypeOK, Run, Settle
<1>3. ASSUME NEW n \in Methods PROVE Linked(n)'
  <2> DEFINE s == line[n]
  <2>1. Linked(n) /\ s \in Seq(Calls)
    BY DEF ChainInv, ChainTypeOK
  <2>2. \A i \in 1 .. Len(s) : stage'[s[i]] # "idle"
    BY <1>1, <2>1 DEF Linked
  <2>3. ASSUME NEW i \in 2 .. Len(s) PROVE stage'[s[i]] = "queued"
    <3>1. 1 \in 1 .. Len(s) /\ i \in 1 .. Len(s) /\ i # 1
      BY <2>1
    <3>2. s[i] # c
      <4> SUFFICES ASSUME s[i] = c PROVE FALSE
        OBVIOUS
      <4>1. method[c] = n
        BY <2>1, <3>1 DEF Linked
      <4>2. s[1] = c
        BY <1>1, <4>1, FirstOfLine
      <4> QED BY <2>1, <3>1, <4>2 DEF Linked
    <3>3. s[i] \in Calls
      BY <2>1, <3>1
    <3> QED BY <1>1, <2>1, <3>2, <3>3 DEF Linked
  <2> QED BY <1>1, <2>1, <2>2, <2>3 DEF Linked
<1>4. InLine'
  <2> SUFFICES ASSUME NEW d \in Calls, stage'[d] # "idle"
               PROVE  \E i \in 1 .. Len(line[method[d]]) : line[method[d]][i] = d
    BY <1>1 DEF InLine
  <2>1. stage[d] # "idle"
    BY <1>1
  <2> QED BY <2>1 DEF ChainInv, InLine
<1> QED BY <1>2, <1>3, <1>4 DEF ChainInv

(* A call that is swept was the first; the second has nothing to wait for. *)
LEMMA SweepKeeps ==
  ASSUME ChainInv, NEW c \in Calls, Sweep(c)
  PROVE  ChainInv'
<1> DEFINE m == method[c] s == line[m]
<1>1. /\ m \in Methods /\ s \in Seq(Calls) /\ s # <<>> /\ Len(s) > 0 /\ s[1] = c
      /\ Linked(m)
  BY FirstOfLine DEF ChainInv, ChainTypeOK, Sweep
<1>2. /\ line'[m] = Tail(s) /\ Tail(s) \in Seq(Calls) /\ Len(Tail(s)) = Len(s) - 1
      /\ \A i \in 1 .. Len(s) - 1 : Tail(s)[i] = s[i + 1]
      /\ \A n \in Methods \ {m} : line'[n] = line[n] /\ locks'[n] = locks[n]
  BY <1>1 DEF ChainInv, ChainTypeOK, Sweep, ClearIfLast
<1>3. /\ \A d \in Calls \ {c} : stage'[d] = stage[d]
      /\ stage'[c] = "idle" /\ method' = method
      /\ \A d \in Calls : prev'[d] = IF prev[d] = c THEN NoCall ELSE prev[d]
      /\ locks'[m] = IF locks[m] = c THEN NoCall ELSE locks[m]
  BY <1>1 DEF ChainInv, ChainTypeOK, Sweep, ClearIfLast
<1>4. ChainTypeOK'
  <2>1. line' \in [Methods -> Seq(Calls)]
    <3>1. line' = [line EXCEPT ![m] = Tail(s)]
      BY DEF Sweep
    <3> QED BY <1>2, <3>1 DEF ChainInv, ChainTypeOK
  <2>2. prev' \in [Calls -> Calls \cup {NoCall}]
    BY DEF ChainInv, ChainTypeOK, Sweep
  <2>3. locks' \in [Methods -> Calls \cup {NoCall}]
    BY DEF ChainInv, ChainTypeOK, Sweep, ClearIfLast
  <2>4. stage' \in [Calls -> {"idle", "queued", "running", "settled"}]
    BY DEF ChainInv, ChainTypeOK, Sweep
  <2> QED BY <1>3, <2>1, <2>2, <2>3, <2>4 DEF ChainInv, ChainTypeOK
<1>5. ASSUME NEW n \in Methods, n # m PROVE Linked(n)'
  <2>1. Linked(n) /\ line[n] \in Seq(Calls)
    BY DEF ChainInv, ChainTypeOK
  <2>2. \A i \in 1 .. Len(line[n]) : line[n][i] \in Calls \ {c}
    BY <1>5, <2>1 DEF Linked
  <2>3. \A i \in 2 .. Len(line[n]) : i \in 1 .. Len(line[n]) /\ i - 1 \in 1 .. Len(line[n])
    BY <2>1
  <2>4. /\ \A i \in 1 .. Len(line[n]) : stage'[line[n][i]] = stage[line[n][i]]
        /\ \A i \in 2 .. Len(line[n]) : prev'[line[n][i]] = prev[line[n][i]]
    <3>1. \A i \in 1 .. Len(line[n]) : stage'[line[n][i]] = stage[line[n][i]]
      BY <1>3, <2>2
    <3>2. ASSUME NEW i \in 2 .. Len(line[n])
          PROVE  prev'[line[n][i]] = prev[line[n][i]]
      <4>1. prev[line[n][i]] = line[n][i - 1]
        BY <2>1 DEF Linked
      <4>2. prev[line[n][i]] # c /\ line[n][i] \in Calls
        BY <2>2, <2>3, <4>1
      <4> QED BY <1>3, <4>2
    <3> QED BY <3>1, <3>2
  <2>5. line[n] # <<>> => 1 \in 1 .. Len(line[n]) /\ prev'[line[n][1]] = NoCall
    BY <1>3, <2>1, <2>2 DEF Linked
  <2> QED BY <1>2, <1>3, <1>5, <2>1, <2>4, <2>5 DEF Linked
<1>6. ASSUME NEW n \in Methods, n = m PROVE Linked(n)'
  <2> DEFINE t == Tail(s)
  <2>1. \A i \in 1 .. Len(t) : /\ i + 1 \in 2 .. Len(s) /\ i + 1 \in 1 .. Len(s)
                               /\ t[i] = s[i + 1]
    BY <1>1, <1>2
  <2>2. \A i, j \in 1 .. Len(t) : t[i] = t[j] => i = j
    <3> SUFFICES ASSUME NEW i \in 1 .. Len(t), NEW j \in 1 .. Len(t), t[i] = t[j]
                 PROVE  i = j
      OBVIOUS
    <3>1. i + 1 = j + 1
      BY <1>1, <2>1 DEF Linked
    <3> QED BY <3>1
  <2>3. ASSUME NEW i \in 1 .. Len(t)
        PROVE  t[i] \in Calls \ {c} /\ method'[t[i]] = m /\ stage'[t[i]] = "queued"
    <3>1. t[i] = s[i + 1] /\ i + 1 # 1 /\ 1 \in 1 .. Len(s)
      BY <1>1, <2>1
    <3>2. t[i] # c
      BY <1>1, <2>1, <3>1 DEF Linked
    <3>3. t[i] \in Calls
      BY <1>2
    <3>4. method[t[i]] = m /\ stage[t[i]] = "queued"
      BY <1>1, <2>1, <3>1 DEF Linked
    <3> QED BY <1>3, <3>2, <3>3, <3>4
  <2>4. ASSUME NEW i \in 2 .. Len(t) PROVE prev'[t[i]] = t[i - 1]
    <3>1. i \in 1 .. Len(t) /\ i - 1 \in 1 .. Len(t) /\ (i + 1) - 1 = i /\ (i - 1) + 1 = i
      BY <1>2
    <3>2. t[i] = s[i + 1] /\ t[i - 1] = s[i]
      BY <2>1, <3>1
    <3>3. prev[t[i]] = t[i - 1]
      BY <1>1, <2>1, <3>1, <3>2 DEF Linked
    <3> QED BY <1>3, <2>3, <3>1, <3>3
  <2>5. t # <<>> => prev'[t[1]] = NoCall
    <3> SUFFICES ASSUME t # <<>> PROVE prev'[t[1]] = NoCall
      OBVIOUS
    <3>1. 1 \in 1 .. Len(t)
      BY <1>2
    <3>2. t[1] = s[2] /\ 2 \in 2 .. Len(s)
      BY <2>1, <3>1
    <3>3. prev[t[1]] = c
      BY <1>1, <3>2 DEF Linked
    <3> QED BY <1>3, <2>3, <3>1, <3>3
  <2>6. locks'[m] = IF t = <<>> THEN NoCall ELSE t[Len(t)]
    <3>1. locks[m] = s[Len(s)]
      BY <1>1 DEF Linked
    <3>2. CASE t = <<>>
      <4>1. Len(s) = 1
        <5>1. Len(t) = 0
          BY <1>2, <3>2, EmptySeq
        <5> QED BY <1>1, <1>2, <5>1
      <4> QED BY <1>1, <1>3, <3>1, <3>2, <4>1
    <3>3. CASE t # <<>>
      <4>1. Len(t) \in 1 .. Len(t) /\ Len(t) + 1 = Len(s)
        BY <1>1, <1>2, <3>3
      <4>2. t[Len(t)] = s[Len(s)] /\ t[Len(t)] # c
        BY <2>1, <2>3, <4>1
      <4> QED BY <1>3, <3>1, <3>3, <4>2
    <3> QED BY <3>2, <3>3
  <2>7. line'[m] = t
    BY <1>2
  <2>8. \A i \in 2 .. Len(t) : i \in 1 .. Len(t)
    BY <1>2
  <2>9. \A i \in 1 .. Len(t) : method'[t[i]] = m /\ stage'[t[i]] # "idle"
    BY <2>3
  <2>10. \A i \in 2 .. Len(t) : prev'[t[i]] = t[i - 1] /\ stage'[t[i]] = "queued"
    BY <2>3, <2>4, <2>8
  <2> HIDE DEF t, m
  <2> QED BY <1>6, <2>2, <2>5, <2>6, <2>7, <2>9, <2>10 DEF Linked
<1>7. InLine'
  <2> SUFFICES ASSUME NEW d \in Calls, stage'[d] # "idle"
               PROVE  \E i \in 1 .. Len(line'[method[d]]) : line'[method[d]][i] = d
    BY <1>3 DEF InLine
  <2>1. d # c /\ stage[d] # "idle" /\ method[d] \in Methods
    BY <1>3 DEF ChainInv, ChainTypeOK
  <2>2. PICK i \in 1 .. Len(line[method[d]]) : line[method[d]][i] = d
    BY <2>1 DEF ChainInv, InLine
  <2>3. CASE method[d] # m
    BY <1>2, <2>1, <2>2, <2>3
  <2>4. CASE method[d] = m
    <3>1. i # 1 /\ s[i] = d /\ i \in 1 .. Len(s)
      BY <1>1, <2>1, <2>2, <2>4
    <3>2. i - 1 \in 1 .. Len(s) - 1 /\ (i - 1) + 1 = i
      BY <1>1, <3>1
    <3>3. Tail(s)[i - 1] = d
      BY <1>2, <3>1, <3>2
    <3> QED BY <1>2, <2>4, <3>2, <3>3
  <2> QED BY <2>3, <2>4
<1> QED BY <1>4, <1>5, <1>6, <1>7 DEF ChainInv

(* Every step keeps the invariant. *)
LEMMA ChainStep == ChainInv /\ [ChainNext]_chainVars => ChainInv'
<1> SUFFICES ASSUME ChainInv, [ChainNext]_chainVars PROVE ChainInv'
  OBVIOUS
<1>1. ASSUME NEW c \in Calls, Run(c) \/ Settle(c) PROVE ChainInv'
  BY <1>1, StageKeeps
<1>2. ASSUME NEW c \in Calls, Sweep(c) PROVE ChainInv'
  BY <1>2, SweepKeeps
<1>3. ASSUME NEW c \in Calls, NEW m \in Methods, Invoke(c, m) PROVE ChainInv'
  BY <1>3, InvokeKeeps
<1>4. CASE UNCHANGED chainVars
  BY <1>4 DEF chainVars, ChainInv, ChainTypeOK, Linked, InLine
<1> QED BY <1>1, <1>2, <1>3, <1>4 DEF ChainNext

-----------------------------------------------------------------------------
Active == {c \in Calls : stage[c] \in {"running", "settled"}}

(* A step of the promises is a step of the queue, or none.                 *)
LEMMA StepsRefine ==
  ChainInv /\ [ChainNext]_chainVars => [Queue!QueueNext]_<<line, Active>>
<1> SUFFICES ASSUME ChainInv, [ChainNext]_chainVars
             PROVE  [Queue!QueueNext]_<<line, Active>>
  OBVIOUS
<1>1. ASSUME NEW c \in Calls, NEW m \in Methods, Invoke(c, m)
      PROVE  Queue!Enqueue(m, c)
  <2>1. ASSUME NEW n \in Methods PROVE c \notin Queue!Waiting[n]
    <3>1. Queue!Waiting[n] = {line[n][i] : i \in DOMAIN line[n]}
      BY DEF Queue!Waiting
    <3>2. DOMAIN line[n] = 1 .. Len(line[n])
      BY LenProperties DEF ChainInv, ChainTypeOK
    <3>3. \A i \in 1 .. Len(line[n]) : line[n][i] # c
      BY <1>1 DEF ChainInv, Linked, Invoke
    <3> QED BY <3>1, <3>2, <3>3
  <2>2. Active' = Active
    <3>1. \A d \in Calls \ {c} : stage'[d] = stage[d]
      BY <1>1 DEF ChainInv, ChainTypeOK, Invoke
    <3>2. stage[c] = "idle" /\ stage'[c] = "queued"
      BY <1>1 DEF ChainInv, ChainTypeOK, Invoke
    <3> QED BY <3>1, <3>2 DEF Active
  <2> QED BY <1>1, <2>1, <2>2 DEF Queue!Enqueue, Invoke, Active
<1>2. ASSUME NEW c \in Calls, Run(c), NEW m \in Methods, m = method[c]
      PROVE  Queue!Begin(m)
  <2>1. /\ m \in Methods /\ line[m] # <<>> /\ line[m][1] = c /\ Head(line[m]) = c
        /\ Linked(m) /\ stage[c] = "queued"
    BY <1>2, FirstOfLine DEF Run, ChainInv
  <2>2. Queue!Waiting[m] \cap Active = {}
    <3>1. Queue!Waiting[m] = {line[m][i] : i \in DOMAIN line[m]}
      BY <2>1 DEF Queue!Waiting
    <3>2. DOMAIN line[m] = 1 .. Len(line[m]) /\ Len(line[m]) \in Nat
      BY <2>1, LenProperties DEF ChainInv, ChainTypeOK
    <3>3. \A i \in 1 .. Len(line[m]) : stage[line[m][i]] = "queued"
      <4> SUFFICES ASSUME NEW i \in 1 .. Len(line[m]) PROVE stage[line[m][i]] = "queued"
        OBVIOUS
      <4>1. i = 1 \/ i \in 2 .. Len(line[m])
        BY <3>2
      <4> QED BY <2>1, <4>1 DEF Linked
    <3> QED BY <3>1, <3>2, <3>3 DEF Active
  <2>3. Active' = Active \cup {c}
    <3>1. \A d \in Calls \ {c} : stage'[d] = stage[d]
      BY <1>2 DEF ChainInv, ChainTypeOK, Run
    <3>2. stage'[c] = "running"
      BY <1>2 DEF ChainInv, ChainTypeOK, Run
    <3> QED BY <3>1, <3>2 DEF Active
  <2> QED BY <1>2, <2>1, <2>2, <2>3 DEF Queue!Begin, Run, Active
<1>3. ASSUME NEW c \in Calls, Settle(c)
      PROVE  UNCHANGED <<line, Active>>
  <2>1. \A d \in Calls \ {c} : stage'[d] = stage[d]
    BY <1>3 DEF ChainInv, ChainTypeOK, Settle
  <2>2. stage[c] = "running" /\ stage'[c] = "settled"
    BY <1>3 DEF ChainInv, ChainTypeOK, Settle
  <2> QED BY <1>3, <2>1, <2>2 DEF Active, Settle
<1>4. ASSUME NEW c \in Calls, Sweep(c), NEW m \in Methods, m = method[c]
      PROVE  Queue!End(m)
  <2>1. m \in Methods /\ line[m] # <<>> /\ Head(line[m]) = c /\ stage[c] = "settled"
    BY <1>4, FirstOfLine DEF Sweep
  <2>2. Active' = Active \ {c} /\ c \in Active
    <3>1. \A d \in Calls \ {c} : stage'[d] = stage[d]
      BY <1>4 DEF ChainInv, ChainTypeOK, Sweep
    <3>2. stage'[c] = "idle"
      BY <1>4 DEF ChainInv, ChainTypeOK, Sweep
    <3> QED BY <2>1, <3>1, <3>2 DEF Active
  <2> QED BY <1>4, <2>1, <2>2 DEF Queue!End, Sweep, Active
<1>5. CASE UNCHANGED chainVars
  BY <1>5 DEF chainVars, Active
<1>6. \A c \in Calls : method[c] \in Methods
  BY DEF ChainInv, ChainTypeOK
<1>7. \A c \in Calls, m \in Methods : Invoke(c, m) => Queue!QueueNext
  BY <1>1 DEF Queue!QueueNext
<1>8. \A c \in Calls : Run(c) => Queue!QueueNext
  BY <1>2, <1>6 DEF Queue!QueueNext
<1>9. \A c \in Calls : Sweep(c) => Queue!QueueNext
  BY <1>4, <1>6 DEF Queue!QueueNext
<1>10. CASE ChainNext
  <2>1. PICK c \in Calls : Run(c) \/ Settle(c) \/ Sweep(c) \/ \E m \in Methods : Invoke(c, m)
    BY <1>10 DEF ChainNext
  <2> QED BY <1>3, <1>7, <1>8, <1>9, <2>1
<1> QED BY <1>5, <1>10

(* The linked promises and the map that forgets implement the queue: the   *)
(* calls of a method run one at a time and in turn, however many there are *)
(* and whenever they settle.                                               *)
THEOREM ChainImplementsQueue == ChainSpec => OneAtATime
<1>1. ChainInit => Queue!QueueInit
  BY DEF ChainInit, Queue!QueueInit
<1>2. ChainSpec => []ChainInv
  BY ChainInitially, ChainStep, PTL DEF ChainSpec
<1>3. ChainInv /\ [ChainNext]_chainVars => [Queue!QueueNext]_<<line, {c \in Calls : stage[c] \in {"running", "settled"}}>>
  BY StepsRefine DEF Active
<1> QED BY <1>1, <1>2, <1>3, PTL DEF ChainSpec, OneAtATime, Queue!QueueSpec

(* The map has an entry for a method only as long as a call of it has not  *)
(* ended, and that is the call the next one must wait for.                 *)
THEOREM MapStaysTight == ChainSpec => []MapIsTight
<1>1. ChainInv => MapIsTight
  BY DEF ChainInv, Linked, MapIsTight
<1>2. ChainSpec => []ChainInv
  BY ChainInitially, ChainStep, PTL DEF ChainSpec
<1> QED BY <1>1, <1>2, PTL

-----------------------------------------------------------------------------
(***************************************************************************)
(* The lists that the calls collect.                                       *)
(***************************************************************************)

(* The methods that list devices are one, and a call ends no sooner than   *)
(* what the cloud answers it.                                              *)
OneListing == ~LateAnswers /\ \A m, n \in Listing : m = n

FirstPages(n) == [i \in 1 .. n |-> i]
Live == {a \in Answers : pushed[a] < Pages}

ListTypeOK ==
  /\ collecting \subseteq Calls /\ listed \subseteq Calls
  /\ acc \in [Calls -> Seq(Nat)]
  /\ pushed \in [Answers -> 0 .. Pages]

(* Of the calls that list one at most is collecting, which is running; the *)
(* cloud answers one request at most, and the call that is collecting has  *)
(* all that was pushed in answer.                                          *)
Collects ==
  /\ \A c \in collecting : stage[c] = "running" /\ method[c] \in Listing
  /\ \A a, b \in Live : a = b
  /\ \A a \in Live : \E c \in collecting : acc[c] = FirstPages(pushed[a])
  /\ \A c \in listed : /\ stage[c] \in {"running", "settled"} /\ c \notin collecting
                       /\ acc[c] = FirstPages(Pages)

ListInv == ChainInv /\ ListTypeOK /\ Collects

LEMMA NextPage ==
  ASSUME NEW n \in Nat
  PROVE  /\ FirstPages(n) \in Seq(Nat) /\ Len(FirstPages(n)) = n
         /\ Append(FirstPages(n), n + 1) = FirstPages(n + 1)
         /\ FirstPages(0) = <<>> /\ FirstPages(1) = <<1>>
<1>1. FirstPages(n) \in Seq(Nat) /\ Len(FirstPages(n)) = n
  BY DEF FirstPages
<1>2. FirstPages(n + 1) \in Seq(Nat) /\ Len(FirstPages(n + 1)) = n + 1
  BY DEF FirstPages
<1>3. /\ Append(FirstPages(n), n + 1) \in Seq(Nat)
      /\ Len(Append(FirstPages(n), n + 1)) = n + 1
      /\ \A i \in 1 .. n : Append(FirstPages(n), n + 1)[i] = FirstPages(n)[i]
      /\ Append(FirstPages(n), n + 1)[n + 1] = n + 1
  BY <1>1, AppendProperties
<1>4. \A i \in 1 .. n + 1 : Append(FirstPages(n), n + 1)[i] = FirstPages(n + 1)[i]
  BY <1>3 DEF FirstPages
<1>5. Append(FirstPages(n), n + 1) = FirstPages(n + 1)
  BY <1>2, <1>3, <1>4, SeqEqual
<1>6. FirstPages(0) = <<>>
  BY DEF FirstPages
<1>7. FirstPages(1) = <<1>>
  BY DEF FirstPages
<1> QED BY <1>1, <1>5, <1>6, <1>7

(* Two calls of one method do not run at a time. *)
LEMMA OneRuns ==
  ASSUME ChainInv
  PROVE  \A c, d \in Active : method[c] = method[d] => c = d
BY FirstOfLine DEF Active

LEMMA OneCollects ==
  ASSUME OneListing, ListInv, NEW c \in collecting, NEW d \in Calls,
         method[d] \in Listing, stage[d] \in {"running", "settled"}
  PROVE  d = c
<1>1. c \in Calls /\ method[c] \in Listing /\ stage[c] = "running"
  BY DEF ListInv, ListTypeOK, Collects
<1> QED BY <1>1, OneRuns DEF OneListing, ListInv, Active

LEMMA ListInitially == ListInit => ListInv
<1> SUFFICES ASSUME ListInit PROVE ListInv
  OBVIOUS
<1>1. ChainInv
  BY ChainInitially DEF ListInit
<1>2. ListTypeOK
  <2>1. Pages \in Nat /\ <<>> \in Seq(Nat)
    BY ListAssumption
  <2> QED BY <2>1 DEF ListInit, ListTypeOK
<1>3. Collects
  <2>1. Live = {} /\ collecting = {} /\ listed = {}
    BY ListAssumption DEF ListInit, Live
  <2> QED BY <2>1 DEF Collects
<1> QED BY <1>1, <1>2, <1>3 DEF ListInv

LEMMA ListKeepsChain ==
  ASSUME ListInv, [ListNext]_listVars
  PROVE  ChainInv'
<1>1. [ChainNext]_chainVars
  BY DEF ListNext, listVars, ChainNext, Call, ListDevices, PageArrives, Refused, AnswerLost, TimesOut, Forget
<1> QED BY <1>1, ChainStep DEF ListInv

LEMMA ListTypeStep ==
  ASSUME ListInv, [ListNext]_listVars
  PROVE  ListTypeOK'
<1> USE ListAssumption DEF ListInv, ListTypeOK
<1>1. ASSUME NEW c \in Calls, Call(c) PROVE ListTypeOK'
  BY <1>1 DEF Call
<1>2. ASSUME NEW c \in Calls, NEW a \in Answers, ListDevices(c, a) PROVE ListTypeOK'
  <2>1. <<>> \in Seq(Nat) /\ 0 \in 0 .. Pages
    OBVIOUS
  <2>2. acc' \in [Calls -> Seq(Nat)] /\ pushed' \in [Answers -> 0 .. Pages]
    BY <1>2, <2>1 DEF ListDevices
  <2> QED BY <1>2, <2>2 DEF ListDevices
<1>3. ASSUME NEW a \in Answers, PageArrives(a) PROVE ListTypeOK'
  <2> DEFINE page == pushed[a] + 1
  <2>1. page \in 0 .. Pages /\ page \in Nat
    BY <1>3 DEF PageArrives
  <2>2. pushed' = [pushed EXCEPT ![a] = page]
        /\ acc' = [c \in Calls |->
                     IF c \notin collecting THEN acc[c]
                     ELSE IF page = 1 THEN <<page>> ELSE Append(acc[c], page)]
    BY <1>3 DEF PageArrives
  <2>3. listed' \subseteq Calls /\ collecting' \subseteq Calls
    BY <1>3 DEF PageArrives
  <2> HIDE DEF page
  <2>4. pushed' \in [Answers -> 0 .. Pages]
    BY <2>1, <2>2
  <2>5. acc' \in [Calls -> Seq(Nat)]
    BY <2>1, <2>2
  <2> QED BY <2>3, <2>4, <2>5
<1>4. ASSUME NEW a \in Answers, Refused(a) \/ AnswerLost(a) PROVE ListTypeOK'
  <2>1. Pages \in 0 .. Pages
    OBVIOUS
  <2> QED BY <1>4, <2>1 DEF Refused, AnswerLost
<1>5. ASSUME NEW c \in Calls, TimesOut(c) \/ Forget(c) PROVE ListTypeOK'
  BY <1>5 DEF TimesOut, Forget
<1>6. CASE UNCHANGED listVars
  BY <1>6 DEF listVars
<1> QED BY <1>1, <1>2, <1>3, <1>4, <1>5, <1>6 DEF ListNext

(* A page reaches the call that is collecting, which has those before it. *)
LEMMA PageStep ==
  ASSUME OneListing, ListInv, NEW a \in Answers, PageArrives(a)
  PROVE  Collects'
<1> DEFINE page == pushed[a] + 1
<1>1. pushed[a] \in Nat /\ page \in Nat /\ a \in Live /\ Pages \in Nat /\ page <= Pages
  BY ListAssumption DEF PageArrives, ListInv, ListTypeOK, Live
<1>2. PICK c \in collecting : acc[c] = FirstPages(pushed[a])
  BY <1>1 DEF ListInv, Collects
<1>3. /\ c \in Calls /\ stage[c] = "running" /\ method[c] \in Listing
      /\ \A d \in collecting : d = c
  BY OneCollects DEF ListInv, ListTypeOK, Collects
<1>4. acc' = [d \in Calls |->
                IF d \notin collecting THEN acc[d]
                ELSE IF page = 1 THEN <<page>> ELSE Append(acc[d], page)]
      /\ pushed' = [pushed EXCEPT ![a] = page]
      /\ UNCHANGED chainVars
  BY DEF PageArrives
<1>5. acc'[c] = FirstPages(page) /\ \A d \in Calls \ {c} : acc'[d] = acc[d]
  <2>1. page = 1 => acc'[c] = FirstPages(page)
    BY <1>2, <1>3, <1>4, NextPage
  <2>2. page # 1 => acc'[c] = FirstPages(page)
    BY <1>1, <1>2, <1>3, <1>4, NextPage
  <2>3. \A d \in Calls \ {c} : acc'[d] = acc[d]
    BY <1>3, <1>4
  <2> QED BY <2>1, <2>2, <2>3
<1>6. pushed'[a] = page /\ \A b \in Answers \ {a} : pushed'[b] = pushed[b]
  BY <1>4 DEF ListInv, ListTypeOK
<1>7. Live' \subseteq {a}
  BY <1>1, <1>6 DEF Live, ListInv, Collects
<1>8. listed \subseteq Calls \ {c}
  BY <1>2 DEF ListInv, ListTypeOK, Collects
<1>9. CASE page = Pages
  <2>1. listed' = listed \cup {c} /\ collecting' = {}
    <3>1. LastEnds(page) /\ collecting = {c}
      BY <1>1, <1>2, <1>3, <1>9 DEF LastEnds
    <3> QED BY <3>1 DEF PageArrives
  <2>2. Live' = {}
    BY <1>1, <1>6, <1>7, <1>9 DEF Live
  <2>3. \A d \in listed' : /\ stage'[d] \in {"running", "settled"}
                           /\ acc'[d] = FirstPages(Pages)
    BY <1>3, <1>4, <1>5, <1>8, <1>9, <2>1 DEF ListInv, Collects, chainVars
  <2> QED BY <2>1, <2>2, <2>3 DEF Collects
<1>10. CASE page # Pages
  <2>1. UNCHANGED <<listed, collecting>>
    BY <1>1, <1>10 DEF PageArrives, LastEnds
  <2>2. \A b \in Live' : b = a /\ acc'[c] = FirstPages(pushed'[b])
    BY <1>5, <1>6, <1>7
  <2>3. \A d \in listed' : /\ stage'[d] \in {"running", "settled"} /\ d \notin collecting'
                           /\ acc'[d] = FirstPages(Pages)
    BY <1>4, <1>5, <1>8, <2>1 DEF ListInv, Collects, chainVars
  <2>4. \A d \in collecting' : stage'[d] = "running" /\ method'[d] \in Listing
    BY <1>4, <2>1 DEF ListInv, Collects, chainVars
  <2> QED BY <1>2, <2>1, <2>2, <2>3, <2>4 DEF Collects
<1> QED BY <1>9, <1>10

LEMMA CollectsStep ==
  ASSUME OneListing, ListInv, [ListNext]_listVars
  PROVE  Collects'
<1>1. /\ collecting \subseteq Calls /\ listed \subseteq Calls
      /\ ChainInv /\ ChainTypeOK /\ Collects
  BY DEF ListInv, ListTypeOK, ChainInv
<1>2. ASSUME UNCHANGED <<collecting, acc, pushed>>, listed' \subseteq listed,
             \A c \in collecting : stage'[c] = "running" /\ method'[c] = method[c],
             \A c \in listed' : stage'[c] \in {"running", "settled"}
      PROVE  Collects'
  BY <1>1, <1>2 DEF Collects, Live
<1>3. ASSUME NEW c \in Calls, Call(c) PROVE Collects'
  <2>1. /\ UNCHANGED <<collecting, acc, listed, pushed>>
        /\ (\E m \in Methods : Invoke(c, m)) \/ Run(c) \/ (c \notin collecting /\ Settle(c))
    BY <1>3 DEF Call
  <2>2. ASSUME NEW m \in Methods, Invoke(c, m) PROVE Collects'
    <3>1. \A d \in Calls \ {c} : stage'[d] = stage[d] /\ method'[d] = method[d]
      BY <1>1, <2>2 DEF Invoke, ChainTypeOK
    <3>2. c \notin collecting /\ c \notin listed
      BY <1>1, <2>2 DEF Invoke, Collects
    <3> QED BY <1>1, <1>2, <2>1, <3>1, <3>2 DEF Collects
  <2>3. CASE Run(c)
    <3>1. UNCHANGED method /\ \A d \in Calls \ {c} : stage'[d] = stage[d]
      BY <1>1, <2>3 DEF Run, ChainTypeOK
    <3>2. c \notin collecting /\ c \notin listed
      BY <1>1, <2>3 DEF Run, Collects
    <3> QED BY <1>1, <1>2, <2>1, <3>1, <3>2 DEF Collects
  <2>4. CASE c \notin collecting /\ Settle(c)
    <3>1. /\ UNCHANGED method /\ \A d \in Calls \ {c} : stage'[d] = stage[d]
          /\ stage'[c] = "settled"
      BY <1>1, <2>4 DEF Settle, ChainTypeOK
    <3> QED BY <1>1, <1>2, <2>1, <2>4, <3>1 DEF Collects
  <2> QED BY <2>1, <2>2, <2>3, <2>4
<1>4. ASSUME NEW c \in Calls, NEW a \in Answers, ListDevices(c, a) PROVE Collects'
  <2>1. /\ method[c] \in Listing /\ Run(c)
        /\ collecting' = collecting \cup {c} /\ acc' = [acc EXCEPT ![c] = <<>>]
        /\ pushed' = [pushed EXCEPT ![a] = 0] /\ UNCHANGED listed
    BY <1>4 DEF ListDevices
  <2>2. /\ UNCHANGED method /\ stage'[c] = "running"
        /\ \A d \in Calls \ {c} : stage'[d] = stage[d]
    BY <1>1, <2>1 DEF Run, ChainTypeOK
  <2>3. c \notin listed
    BY <1>1, <2>1 DEF Run, Collects
  <2>4. collecting = {}
    <3> SUFFICES ASSUME NEW d \in collecting PROVE FALSE
      OBVIOUS
    <3>1. d \in Calls /\ stage[d] = "running" /\ method[d] = method[c] /\ d # c
      BY <1>1, <2>1 DEF Collects, OneListing, Run
    <3>2. line[method[c]][1] = d
      BY <1>1, <3>1, FirstOfLine
    <3>3. line[method[c]][1] = c
      BY <1>1, <2>1, FirstOfLine DEF Run
    <3> QED BY <3>1, <3>2, <3>3
  <2>5. Live = {}
    BY <1>1, <2>4 DEF Collects
  <2>6. /\ collecting' = {c} /\ acc'[c] = <<>>
        /\ \A d \in Calls \ {c} : acc'[d] = acc[d]
        /\ pushed'[a] = 0 /\ \A b \in Answers \ {a} : pushed'[b] = pushed[b]
    BY <2>1, <2>4 DEF ListInv, ListTypeOK
  <2>7. Live' \subseteq {a}
    BY <2>5, <2>6 DEF Live
  <2>8. \A b \in Live' : acc'[c] = FirstPages(pushed'[b])
    BY <2>6, <2>7, NextPage
  <2>9. \A d \in listed' : /\ stage'[d] \in {"running", "settled"} /\ d \notin collecting'
                           /\ acc'[d] = FirstPages(Pages)
    BY <1>1, <2>1, <2>2, <2>3, <2>6 DEF Collects
  <2> QED BY <2>1, <2>2, <2>6, <2>7, <2>8, <2>9 DEF Collects
<1>5. ASSUME NEW a \in Answers, Refused(a) \/ AnswerLost(a) PROVE Collects'
  <2>1. /\ pushed' = [pushed EXCEPT ![a] = Pages] /\ a \in Live
        /\ UNCHANGED <<chainVars, acc, listed>> /\ collecting' \subseteq collecting
    BY <1>5, ListAssumption DEF Refused, AnswerLost, Live
  <2>2. Pages \in Nat
    BY ListAssumption
  <2>3. Live' = {}
    BY <1>1, <2>1, <2>2 DEF Live, Collects, ListInv, ListTypeOK
  <2> QED BY <1>1, <2>1, <2>3 DEF Collects, chainVars
<1>6. ASSUME NEW c \in Calls, TimesOut(c) PROVE Collects'
  <2>1. /\ Live = {} /\ collecting' = collecting \ {c}
        /\ UNCHANGED <<chainVars, acc, listed, pushed>>
    BY <1>6, ListAssumption DEF TimesOut, OneListing, Live
  <2>2. Live' = {}
    BY <2>1 DEF Live
  <2> QED BY <1>1, <2>1, <2>2 DEF Collects, chainVars
<1>7. ASSUME NEW c \in Calls, Forget(c) PROVE Collects'
  <2>1. /\ stage[c] = "settled" /\ stage' = [stage EXCEPT ![c] = "idle"] /\ UNCHANGED method
        /\ listed' = listed \ {c} /\ UNCHANGED <<collecting, acc, pushed>>
    BY <1>7 DEF Forget, Sweep
  <2>2. \A d \in Calls \ {c} : stage'[d] = stage[d]
    BY <1>1, <2>1 DEF ChainTypeOK
  <2>3. c \notin collecting
    BY <1>1, <2>1 DEF Collects
  <2> QED BY <1>1, <1>2, <2>1, <2>2, <2>3 DEF Collects
<1>8. CASE UNCHANGED listVars
  BY <1>1, <1>2, <1>8 DEF listVars, chainVars, Collects
<1> QED BY <1>3, <1>4, <1>5, <1>6, <1>7, <1>8, PageStep DEF ListNext

(* As long as the calls that list devices are calls of one method, and do  *)
(* not end before the answer of the cloud has, a list that is handed on is *)
(* the whole list: so much does running the calls of a method in turn give *)
(* to an answer that names no request. Without either, ServeLists_whole    *)
(* and MCServe_life with LateAnswers refute it.                            *)
THEOREM ListsStayWhole ==
  ASSUME OneListing
  PROVE  ListSpec => []ListsAreWhole
<1>1. ListInit => ListInv
  BY ListInitially
<1>2. ListInv /\ [ListNext]_listVars => ListInv'
  BY ListKeepsChain, ListTypeStep, CollectsStep DEF ListInv
<1>3. ListInv => ListsAreWhole
  BY DEF ListInv, Collects, ListsAreWhole, FirstPages
<1> QED BY <1>1, <1>2, <1>3, PTL DEF ListSpec
=============================================================================
