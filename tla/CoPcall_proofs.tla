--------------------------- MODULE CoPcall_proofs ---------------------------
(***************************************************************************)
(* checkcurrent() always finds the scheduled routine, for any number of    *)
(* coroutines and any nesting of protected calls.  The invariant is the    *)
(* whole content of PCallMap (ChainKept): the entry checkcurrent() reads   *)
(* is rebuilt, when a call returns, from the entries of the calls below.   *)
(***************************************************************************)
EXTENDS CoPcall, TLAPS, SequenceTheorems

Inv == TypeOK /\ ChainKept

(* The coroutines of a stack are coroutines, and its top is in it. *)
LEMMA StackFacts ==
  ASSUME TypeOK, NEW r \in roots
  PROVE  /\ r \in Coroutine /\ stack[r] \in Seq(Coroutine)
         /\ Len(stack[r]) \in Nat
         /\ \A i \in 1..Len(stack[r]) : /\ stack[r][i] \in Coroutine
                                        /\ stack[r][i] \in Calls(r)
                                        /\ stack[r][i] \in Busy
                                        /\ stack[r][i] \notin roots
         /\ stack[r] # <<>> => Len(stack[r]) >= 1
         /\ r \in Busy
<1>1. r \in Coroutine /\ stack[r] \in Seq(Coroutine)
  BY DEF TypeOK
<1>2. Len(stack[r]) \in Nat
  BY <1>1, LenProperties
<1>3. \A i \in 1..Len(stack[r]) : stack[r][i] \in Coroutine
  BY <1>1, ElementOfSeq
<1>4. \A i \in 1..Len(stack[r]) : stack[r][i] \in Calls(r)
  BY DEF Calls
<1>5. \A i \in 1..Len(stack[r]) : stack[r][i] \in Busy /\ stack[r][i] \notin roots
  BY <1>4 DEF Busy, TypeOK
<1>6. stack[r] # <<>> => Len(stack[r]) >= 1
  BY <1>1, EmptySeq
<1> QED BY <1>1, <1>2, <1>3, <1>4, <1>5, <1>6 DEF Busy

(* A protected call: the new innermost leads to the root, the root to the  *)
(* call that was innermost, and that one to the call before it.            *)
LEMMA PcallKeeps ==
  ASSUME Inv, NEW r \in Coroutine, NEW p \in Coroutine, Pcall(r, p)
  PROVE  Inv'
<1> USE CoroutineAssumption
<1> DEFINE s == stack[r]
           n == Len(s)
           run == Innermost(r)
           cur == PCallMap[run]
<1>1. /\ r \in roots /\ p \notin Busy /\ roots' = roots
      /\ PCallMap' = Called(run, cur, p)
      /\ stack' = [stack EXCEPT ![r] = Append(s, p)]
  BY DEF Pcall
<1>2. TypeOK
  BY DEF Inv
<1>3. /\ s \in Seq(Coroutine) /\ n \in Nat
      /\ \A i \in 1..n : s[i] \in Coroutine /\ s[i] \in Busy /\ s[i] \notin roots
      /\ s # <<>> => n >= 1
      /\ s = <<>> => n = 0
      /\ r \in Busy
  BY <1>1, <1>2, StackFacts
<1>4. /\ stack'[r] = Append(s, p) /\ Len(Append(s, p)) = n + 1
      /\ Append(s, p) \in Seq(Coroutine)
      /\ \A i \in 1..n : Append(s, p)[i] = s[i]
      /\ Append(s, p)[n + 1] = p
      /\ \A q \in Coroutine : q # r => stack'[q] = stack[q]
      /\ stack' \in [Coroutine -> Seq(Coroutine)]
  BY <1>1, <1>2, <1>3 DEF TypeOK
<1>5. Calls(r)' = Calls(r) \cup {p} /\ \A q \in roots : q # r => Calls(q)' = Calls(q)
  BY <1>1, <1>2, <1>3, <1>4 DEF Calls, TypeOK
<1>6. Busy' = Busy \cup {p}
  BY <1>1, <1>5 DEF Busy
<1>7. /\ run = IF n = 0 THEN r ELSE s[n]
      /\ cur = IF n = 0 THEN NIL ELSE r
      /\ PCallMap[r] = IF n < 2 THEN NIL ELSE s[n - 1]
      /\ run \in Coroutine /\ run # p /\ r # p /\ run \in Busy
  BY <1>1, <1>3 DEF Innermost, Inv, ChainKept, Entry
<1>8. \A c \in Coroutine :
        PCallMap'[c] = IF c = p THEN r
                       ELSE IF n > 0 /\ c = r THEN s[n]
                       ELSE IF n > 0 /\ c = s[n] THEN (IF n < 2 THEN NIL ELSE s[n - 1])
                       ELSE PCallMap[c]
  BY <1>1, <1>2, <1>3, <1>7 DEF Called, TypeOK
<1>9. TypeOK'
  <2>1. PCallMap' \in [Coroutine -> Coroutine \cup {NIL}]
    BY <1>1, <1>2, <1>3, <1>7 DEF Called, TypeOK
  <2>2. \A c \in Coroutine \ roots' : stack'[c] = <<>>
    BY <1>1, <1>2, <1>4 DEF TypeOK
  <2>3. \A q \in roots' : Calls(q)' \cap roots' = {}
    <3>1. p \notin roots
      BY <1>1 DEF Busy
    <3>2. \A q \in roots : Calls(q) \cap roots = {}
      BY <1>2 DEF TypeOK
    <3> QED BY <1>1, <1>5, <3>1, <3>2
  <2>4. ASSUME NEW q \in roots, NEW t \in roots,
               NEW i \in 1..Len(stack'[q]), NEW j \in 1..Len(stack'[t]),
               stack'[q][i] = stack'[t][j]
        PROVE  q = t /\ i = j
    <3>1. \A u \in roots : \A k \in 1..Len(stack[u]) : stack[u][k] \in Busy
      BY <1>2, StackFacts
    <3>2. \A u \in roots : u \in Coroutine
      BY <1>2 DEF TypeOK
    <3>3. CASE q = r /\ t = r
      <4>1. \A k \in 1..n : s[k] # p
        BY <1>1, <1>3, <3>1
      <4>2. \A k, l \in 1..n : s[k] = s[l] => k = l
        BY <1>1, <1>2 DEF TypeOK
      <4>3. i \in 1..n + 1 /\ j \in 1..n + 1 /\ stack'[r][i] = stack'[r][j]
        BY <2>4, <3>3, <1>4
      <4>4. CASE i \in 1..n /\ j \in 1..n
        BY <4>2, <4>3, <4>4, <3>3, <1>4
      <4>5. CASE i = n + 1 /\ j \in 1..n
        BY <4>1, <4>3, <4>5, <1>4
      <4>6. CASE i \in 1..n /\ j = n + 1
        BY <4>1, <4>3, <4>6, <1>4
      <4>7. CASE i = n + 1 /\ j = n + 1
        BY <4>7, <3>3
      <4>8. \A k \in 1..n + 1 : k \in 1..n \/ k = n + 1
        BY <1>3
      <4> QED BY <4>3, <4>4, <4>5, <4>6, <4>7, <4>8
    <3>4. CASE q # r /\ t # r
      BY <2>4, <3>2, <1>1, <1>2, <1>4, <3>4 DEF TypeOK
    <3>5. CASE q = r /\ t # r
      BY <2>4, <3>1, <3>2, <1>1, <1>2, <1>3, <1>4, <3>5 DEF TypeOK
    <3>6. CASE q # r /\ t = r
      BY <2>4, <3>1, <3>2, <1>1, <1>2, <1>3, <1>4, <3>6 DEF TypeOK
    <3> QED BY <3>3, <3>4, <3>5, <3>6
  <2>5. roots' = roots /\ roots \subseteq Coroutine /\ stack' \in [Coroutine -> Seq(Coroutine)]
    BY <1>1, <1>2, <1>4 DEF TypeOK
  <2> QED BY <2>1, <2>2, <2>3, <2>4, <2>5 DEF TypeOK
<1>10. ChainKept'
  <2>1. ASSUME NEW c \in Coroutine, c \notin Busy' PROVE PCallMap'[c] = NIL
    BY <2>1, <1>3, <1>6, <1>8 DEF Inv, ChainKept
  <2>2. /\ PCallMap'[r] = IF n + 1 < 2 THEN NIL ELSE stack'[r][n]
        /\ \A i \in 1..n + 1 : PCallMap'[stack'[r][i]] = Entry(r, i)'
    <3>1. PCallMap'[r] = IF n + 1 < 2 THEN NIL ELSE stack'[r][n]
      BY <1>1, <1>3, <1>4, <1>7, <1>8
    <3>2. ASSUME NEW i \in 1..n + 1
          PROVE  PCallMap'[stack'[r][i]] = Entry(r, i)'
      <4>1. Entry(r, i)' = IF i = n + 1 THEN r ELSE IF i = 1 THEN NIL ELSE stack'[r][i - 1]
        BY <1>4 DEF Entry
      <4>2. CASE i = n + 1
        BY <4>1, <4>2, <1>4, <1>8
      <4>3. CASE i = n
        BY <4>1, <4>3, <1>1, <1>3, <1>4, <1>7, <1>8
      <4>4. CASE i < n
        <5>1. i \in 1..n /\ n \in 1..n /\ i # n
          BY <4>4, <1>3
        <5>2. s[i] # s[n] /\ s[i] # r /\ s[i] # p /\ s[i] \in Coroutine
          <6>1. s[i] # s[n]
            BY <5>1, <1>1, <1>2 DEF TypeOK
          <6>2. s[i] # r /\ s[i] # p /\ s[i] \in Coroutine
            BY <5>1, <1>1, <1>3
          <6> QED BY <6>1, <6>2
        <5>3. PCallMap[s[i]] = IF i = 1 THEN NIL ELSE s[i - 1]
          BY <5>1, <1>1, <1>3 DEF Inv, ChainKept, Entry
        <5>4. PCallMap'[s[i]] = PCallMap[s[i]]
          BY <5>2, <1>8
        <5>5. stack'[r][i] = s[i] /\ (i # 1 => stack'[r][i - 1] = s[i - 1])
          BY <5>1, <1>3, <1>4
        <5> QED BY <5>1, <5>3, <5>4, <5>5, <4>1
      <4> QED BY <4>2, <4>3, <4>4, <1>3
    <3> QED BY <3>1, <3>2
  <2>3. ASSUME NEW q \in roots, q # r
        PROVE  /\ PCallMap'[q] = IF Len(stack'[q]) < 2 THEN NIL
                                 ELSE stack'[q][Len(stack'[q]) - 1]
               /\ \A i \in 1..Len(stack'[q]) : PCallMap'[stack'[q][i]] = Entry(q, i)'
    <3>1. q \in Coroutine /\ stack'[q] = stack[q] /\ q \in Busy
      BY <2>3, <1>2, <1>4, StackFacts
    <3>2. \A i \in 1..Len(stack[q]) : /\ stack[q][i] \in Coroutine
                                      /\ stack[q][i] \in Busy
                                      /\ stack[q][i] \notin roots
      BY <1>2, StackFacts
    <3>3. PCallMap'[q] = PCallMap[q]
      BY <2>3, <3>1, <1>1, <1>3, <1>8
    <3>4. ASSUME NEW i \in 1..Len(stack[q])
          PROVE  PCallMap'[stack[q][i]] = PCallMap[stack[q][i]]
      <4>1. n > 0 => stack[q][i] # s[n]
        BY <2>3, <1>1, <1>2, <1>3 DEF TypeOK
      <4> QED BY <4>1, <3>2, <1>1, <1>8
    <3>5. \A i \in 1..Len(stack[q]) : Entry(q, i)' = Entry(q, i)
      BY <3>1 DEF Entry
    <3> QED BY <2>3, <3>1, <3>3, <3>4, <3>5 DEF Inv, ChainKept
  <2> QED BY <1>1, <1>4, <2>1, <2>2, <2>3 DEF ChainKept
<1> QED BY <1>9, <1>10 DEF Inv

(* A return: the root leads to the call below the one that takes over.     *)
LEMMA ReturnKeeps ==
  ASSUME Inv, NEW r \in Coroutine, Return(r)
  PROVE  Inv'
<1> USE CoroutineAssumption
<1> DEFINE s == stack[r]
           n == Len(s)
           p == Innermost(r)
           cur == PCallMap[p]
           t == SubSeq(s, 1, n - 1)
<1>1. /\ r \in roots /\ s # <<>> /\ roots' = roots
      /\ PCallMap' = Returned(cur, IF cur = NIL THEN NIL ELSE PCallMap[cur], p)
      /\ stack' = [stack EXCEPT ![r] = t]
  BY DEF Return
<1>2. TypeOK
  BY DEF Inv
<1>3. /\ s \in Seq(Coroutine) /\ n \in Nat /\ n >= 1
      /\ \A i \in 1..n : s[i] \in Coroutine /\ s[i] \in Busy /\ s[i] \notin roots
      /\ r \in Busy
  BY <1>1, <1>2, StackFacts
<1>4. \A i, j \in 1..n : s[i] = s[j] => i = j
  BY <1>1, <1>2 DEF TypeOK
<1>5. t \in Seq(Coroutine) /\ Len(t) = n - 1 /\ \A i \in 1..n - 1 : t[i] = s[i]
  BY <1>3, SubSeqProperties
<1>6. /\ stack'[r] = t
      /\ \A q \in Coroutine : q # r => stack'[q] = stack[q]
      /\ stack' \in [Coroutine -> Seq(Coroutine)]
  BY <1>1, <1>2, <1>5 DEF TypeOK
<1>7. p = s[n] /\ cur = r /\ PCallMap[r] = IF n < 2 THEN NIL ELSE s[n - 1]
  BY <1>1, <1>3 DEF Innermost, Inv, ChainKept, Entry
<1>8. n >= 2 => PCallMap[s[n - 1]] = IF n = 2 THEN NIL ELSE s[n - 2]
  <2>1. SUFFICES ASSUME n >= 2 PROVE PCallMap[s[n - 1]] = IF n = 2 THEN NIL ELSE s[n - 2]
    OBVIOUS
  <2>2. n - 1 \in 1..n /\ n - 1 # n
    BY <2>1, <1>3
  <2>3. PCallMap[s[n - 1]] = Entry(r, n - 1)
    BY <2>2, <1>1 DEF Inv, ChainKept
  <2>4. Entry(r, n - 1) = IF n - 1 = 1 THEN NIL ELSE s[n - 1 - 1]
    BY <2>2 DEF Entry
  <2> QED BY <2>3, <2>4, <1>3
<1>9. \A c \in Coroutine :
        PCallMap'[c] = IF c = s[n] THEN NIL
                       ELSE IF n >= 2 /\ c = s[n - 1] THEN r
                       ELSE IF n >= 2 /\ c = r THEN (IF n = 2 THEN NIL ELSE s[n - 2])
                       ELSE PCallMap[c]
  <2>1. n >= 2 => s[n - 1] \in Coroutine /\ s[n - 1] # s[n] /\ s[n - 1] # r /\ s[n] # r
    <3>1. n >= 2 => n - 1 \in 1..n /\ n \in 1..n /\ n - 1 # n
      BY <1>3
    <3> QED BY <3>1, <1>1, <1>3, <1>4
  <2>2. CASE n < 2
    BY <2>2, <1>1, <1>2, <1>3, <1>7 DEF Returned, TypeOK
  <2>3. CASE n >= 2
    <3>1. PCallMap' = [PCallMap EXCEPT ![r] = PCallMap[s[n - 1]], ![s[n - 1]] = r, ![s[n]] = NIL]
      <4>1. PCallMap[cur] = s[n - 1] /\ cur # NIL /\ s[n - 1] # NIL
        <5>1. r # NIL
          BY <1>2, <1>1 DEF TypeOK
        <5> QED BY <5>1, <2>1, <2>3, <1>3, <1>7
      <4>2. PCallMap' = Returned(r, s[n - 1], s[n])
        BY <4>1, <1>1, <1>7
      <4> QED BY <4>1, <4>2 DEF Returned
    <3> QED BY <3>1, <2>1, <2>3, <1>2, <1>3, <1>8 DEF TypeOK
  <2> QED BY <2>2, <2>3, <1>3
<1>10. Calls(r)' \subseteq Calls(r) /\ \A q \in roots : q # r => Calls(q)' = Calls(q)
  <2>1. ASSUME NEW i \in 1..Len(t) PROVE t[i] \in Calls(r)
    BY <1>3, <1>5 DEF Calls
  <2>2. \A q \in roots : q \in Coroutine
    BY <1>2 DEF TypeOK
  <2> QED BY <2>1, <2>2, <1>6 DEF Calls
<1>11. \A c \in Busy : c \in Busy' \/ c = s[n]
  <2>1. \A c \in Calls(r) : c = s[n] \/ c \in Calls(r)'
    <3>1. SUFFICES ASSUME NEW i \in 1..n, s[i] # s[n] PROVE s[i] \in Calls(r)'
      BY DEF Calls
    <3>2. i \in 1..Len(t) /\ t[i] = s[i]
      BY <3>1, <1>3, <1>5
    <3> QED BY <3>2, <1>6 DEF Calls
  <2> QED BY <2>1, <1>1, <1>10 DEF Busy
<1>12. TypeOK'
  <2>1. PCallMap' \in [Coroutine -> Coroutine \cup {NIL}]
    <3>1. PCallMap \in [Coroutine -> Coroutine \cup {NIL}] /\ r \in Coroutine
      BY <1>1, <1>2 DEF TypeOK
    <3>2. PCallMap' \in [Coroutine -> Coroutine \cup {NIL}] \/ PCallMap' = PCallMap
      <4>1. PCallMap[r] \in Coroutine \cup {NIL}
        BY <3>1
      <4>2. cur = r /\ PCallMap' = Returned(r, IF r = NIL THEN NIL ELSE PCallMap[r], p)
        BY <1>1, <1>7
      <4> HIDE DEF p, cur
      <4>3. CASE PCallMap[r] \in Coroutine /\ r # NIL
        BY <4>2, <4>3, <3>1 DEF Returned
      <4>4. CASE PCallMap[r] = NIL \/ r = NIL
        BY <4>2, <4>4, <3>1 DEF Returned
      <4> QED BY <4>1, <4>3, <4>4
    <3> QED BY <3>1, <3>2
  <2>2. \A c \in Coroutine \ roots' : stack'[c] = <<>>
    BY <1>1, <1>2, <1>6 DEF TypeOK
  <2>3. \A q \in roots' : Calls(q)' \cap roots' = {}
    BY <1>1, <1>2, <1>10 DEF TypeOK
  <2>4. ASSUME NEW q \in roots, NEW u \in roots,
               NEW i \in 1..Len(stack'[q]), NEW j \in 1..Len(stack'[u]),
               stack'[q][i] = stack'[u][j]
        PROVE  q = u /\ i = j
    <3>1. \A v \in roots : \A k \in 1..Len(stack'[v]) :
            k \in 1..Len(stack[v]) /\ stack'[v][k] = stack[v][k]
      <4>1. \A v \in roots : v \in Coroutine
        BY <1>2 DEF TypeOK
      <4>2. \A k \in 1..Len(t) : k \in 1..n /\ t[k] = s[k]
        BY <1>3, <1>5
      <4>3. \A v \in roots : v # r => stack'[v] = stack[v]
        BY <4>1, <1>6
      <4> QED BY <4>2, <4>3, <1>6
    <3>2. i \in 1..Len(stack[q]) /\ j \in 1..Len(stack[u]) /\ stack[q][i] = stack[u][j]
      BY <2>4, <3>1
    <3> QED BY <3>2, <1>2 DEF TypeOK
  <2> QED BY <1>1, <1>2, <1>6, <2>1, <2>2, <2>3, <2>4 DEF TypeOK
<1>13. ChainKept'
  <2>1. ASSUME NEW c \in Coroutine, c \notin Busy' PROVE PCallMap'[c] = NIL
    <3>1. CASE c = s[n]
      BY <3>1, <1>9
    <3>2. CASE c # s[n]
      <4>1. c \notin Busy
        BY <2>1, <3>2, <1>11
      <4>2. n >= 2 => n - 1 \in 1..n
        BY <1>3
      <4> QED BY <3>2, <4>1, <4>2, <1>3, <1>9 DEF Inv, ChainKept
    <3> QED BY <3>1, <3>2
  <2>2. /\ PCallMap'[r] = IF n - 1 < 2 THEN NIL ELSE stack'[r][n - 2]
        /\ \A i \in 1..n - 1 : PCallMap'[stack'[r][i]] = Entry(r, i)'
    <3>1. r # s[n] /\ (n >= 2 => r # s[n - 1])
      <4>1. n \in 1..n /\ (n >= 2 => n - 1 \in 1..n)
        BY <1>3
      <4> QED BY <4>1, <1>1, <1>3
    <3>2. PCallMap'[r] = IF n - 1 < 2 THEN NIL ELSE stack'[r][n - 2]
      <4>1. r \in Coroutine
        BY <1>1, <1>2 DEF TypeOK
      <4>2. PCallMap'[r] = IF n >= 2 THEN (IF n = 2 THEN NIL ELSE s[n - 2]) ELSE PCallMap[r]
        BY <3>1, <4>1, <1>9
      <4>3. n - 1 >= 2 => n - 2 \in 1..n - 1 /\ stack'[r][n - 2] = s[n - 2]
        BY <1>3, <1>5, <1>6
      <4>4. CASE n = 1
        BY <4>2, <4>4, <1>7
      <4>5. CASE n = 2
        BY <4>2, <4>5
      <4>6. CASE n >= 3
        BY <4>2, <4>3, <4>6, <1>3
      <4>7. n = 1 \/ n = 2 \/ n >= 3
        <5>1. n \in Nat /\ n >= 1
          BY <1>3
        <5> HIDE DEF n
        <5> QED BY <5>1
      <4> QED BY <4>4, <4>5, <4>6, <4>7
    <3>3. ASSUME NEW i \in 1..n - 1
          PROVE  PCallMap'[stack'[r][i]] = Entry(r, i)'
      <4>1. Entry(r, i)' = IF i = n - 1 THEN r ELSE IF i = 1 THEN NIL ELSE t[i - 1]
        BY <1>5, <1>6 DEF Entry
      <4>2. i \in 1..n /\ n \in 1..n /\ i # n /\ n >= 2 /\ n - 1 \in 1..n
        BY <1>3
      <4>3. stack'[r][i] = s[i] /\ s[i] # s[n] /\ s[i] # r /\ s[i] \in Coroutine
        <5>1. stack'[r][i] = s[i]
          BY <1>5, <1>6
        <5>2. s[i] # s[n]
          BY <4>2, <1>4
        <5>3. s[i] # r /\ s[i] \in Coroutine
          BY <4>2, <1>1, <1>3
        <5> QED BY <5>1, <5>2, <5>3
      <4>4. CASE i = n - 1
        BY <4>1, <4>2, <4>3, <4>4, <1>9
      <4>5. CASE i # n - 1
        <5>1. s[i] # s[n - 1]
          BY <4>2, <4>5, <1>4
        <5>2. PCallMap'[s[i]] = PCallMap[s[i]]
          BY <4>3, <5>1, <1>9
        <5>3. PCallMap[s[i]] = IF i = 1 THEN NIL ELSE s[i - 1]
          BY <4>2, <1>1 DEF Inv, ChainKept, Entry
        <5>4. i # 1 => i - 1 \in 1..n - 1
          OBVIOUS
        <5> QED BY <4>1, <4>3, <4>5, <5>2, <5>3, <5>4, <1>5
      <4> QED BY <4>4, <4>5
    <3> QED BY <3>2, <3>3
  <2>3. ASSUME NEW q \in roots, q # r
        PROVE  /\ PCallMap'[q] = IF Len(stack'[q]) < 2 THEN NIL
                                 ELSE stack'[q][Len(stack'[q]) - 1]
               /\ \A i \in 1..Len(stack'[q]) : PCallMap'[stack'[q][i]] = Entry(q, i)'
    <3>0. n \in 1..n /\ (n >= 2 => n - 1 \in 1..n)
      BY <1>3
    <3>1. q \in Coroutine /\ stack'[q] = stack[q] /\ q # s[n] /\ (n >= 2 => q # s[n - 1])
      <4>1. s[n] \notin roots /\ (n >= 2 => s[n - 1] \notin roots)
        BY <3>0, <1>3
      <4> QED BY <2>3, <4>1, <1>2, <1>6 DEF TypeOK
    <3>2. PCallMap'[q] = PCallMap[q]
      BY <2>3, <3>1, <1>9
    <3>3. ASSUME NEW i \in 1..Len(stack[q])
          PROVE  PCallMap'[stack[q][i]] = PCallMap[stack[q][i]]
      <4>1. stack[q][i] # s[n] /\ (n >= 2 => stack[q][i] # s[n - 1])
        BY <2>3, <3>0, <1>1, <1>2 DEF TypeOK
      <4>2. stack[q][i] \in Coroutine /\ stack[q][i] # r
        BY <1>1, <1>2, StackFacts
      <4> QED BY <4>1, <4>2, <1>9
    <3>4. \A i \in 1..Len(stack[q]) : Entry(q, i)' = Entry(q, i)
      BY <3>1 DEF Entry
    <3> QED BY <2>3, <3>1, <3>2, <3>3, <3>4 DEF Inv, ChainKept
  <2> QED BY <1>1, <1>5, <1>6, <2>1, <2>2, <2>3 DEF ChainKept
<1> QED BY <1>12, <1>13 DEF Inv

(* Coroutines created outside pcall, and roots that end, have no entries.  *)
LEMMA CreateFinishKeep ==
  ASSUME Inv, NEW c \in Coroutine, Create(c) \/ Finish(c)
  PROVE  Inv'
<1>1. PCallMap' = PCallMap /\ stack' = stack
  BY DEF Create, Finish
<1>2. TypeOK
  BY DEF Inv
<1>3. \A q \in Coroutine : Calls(q)' = Calls(q)
  BY <1>1 DEF Calls
<1>4. \A q \in Coroutine : \A i \in 1..Len(stack[q]) : Entry(q, i)' = Entry(q, i)
  BY <1>1 DEF Entry
<1>5. CASE Create(c)
  <2>1. c \notin Busy /\ roots' = roots \cup {c} /\ stack[c] = <<>>
    BY <1>2, <1>5 DEF Create, TypeOK, Busy
  <2>2. Calls(c) = {} /\ Len(stack[c]) = 0
    BY <2>1 DEF Calls
  <2>3. \A q \in roots : q \in Coroutine /\ c \notin Calls(q)
    BY <1>2, <2>1 DEF TypeOK, Busy
  <2>4. Busy' = Busy \cup {c}
    BY <1>3, <2>1, <2>2, <2>3 DEF Busy
  <2>5. TypeOK'
    <3>1. \A q \in roots' : Calls(q)' \cap roots' = {}
      BY <1>2, <1>3, <2>1, <2>2, <2>3 DEF TypeOK
    <3>2. \A q, u \in roots' : \A i \in 1..Len(stack'[q]), j \in 1..Len(stack'[u]) :
            stack'[q][i] = stack'[u][j] => q = u /\ i = j
      <4>1. SUFFICES ASSUME NEW q \in roots', NEW u \in roots',
                            NEW i \in 1..Len(stack[q]), NEW j \in 1..Len(stack[u]),
                            stack[q][i] = stack[u][j]
                     PROVE  q = u /\ i = j
        BY <1>1
      <4>2. \A k : k \notin 1..Len(stack[c])
        BY <2>2
      <4>3. q # c /\ u # c
        BY <4>2
      <4> QED BY <4>1, <4>3, <1>2, <2>1 DEF TypeOK
    <3> QED BY <1>1, <1>2, <2>1, <3>1, <3>2 DEF TypeOK
  <2>6. ChainKept'
    BY <1>1, <1>4, <2>1, <2>2, <2>3, <2>4 DEF Inv, ChainKept
  <2> QED BY <2>5, <2>6 DEF Inv
<1>6. CASE Finish(c)
  <2>1. c \in roots /\ roots' = roots \ {c} /\ stack[c] = <<>>
    BY <1>6 DEF Finish
  <2>2. Calls(c) = {} /\ Len(stack[c]) = 0
    BY <2>1 DEF Calls
  <2>3. \A q \in roots : q \in Coroutine
    BY <1>2 DEF TypeOK
  <2>4. Busy \subseteq Busy' \cup {c}
    BY <1>3, <2>1, <2>2, <2>3 DEF Busy
  <2>5. TypeOK'
    BY <1>1, <1>2, <1>3, <2>1, <2>3 DEF TypeOK
  <2>6. PCallMap[c] = NIL
    BY <2>1, <2>2 DEF Inv, ChainKept
  <2>7. ChainKept'
    BY <1>1, <1>4, <2>1, <2>3, <2>4, <2>6 DEF Inv, ChainKept
  <2> QED BY <2>5, <2>7 DEF Inv
<1> QED BY <1>5, <1>6

(* The entries of PCallMap are those ChainKept says, in every state.       *)
THEOREM ChainInvariant == Spec => [](TypeOK /\ ChainKept)
<1>1. Init => Inv
  <2> SUFFICES ASSUME Init PROVE Inv
    OBVIOUS
  <2>1. roots = {} /\ Busy = {}
    BY DEF Init, Busy
  <2>2. TypeOK
    BY <2>1 DEF Init, TypeOK
  <2> QED BY <2>1, <2>2 DEF Init, Inv, ChainKept
<1>2. Inv /\ [Next]_vars => Inv'
  <2> SUFFICES ASSUME Inv, [Next]_vars PROVE Inv'
    OBVIOUS
  <2>1. ASSUME NEW c \in Coroutine, Create(c) \/ Finish(c) PROVE Inv'
    BY <2>1, CreateFinishKeep
  <2>2. ASSUME NEW c \in Coroutine, Return(c) PROVE Inv'
    BY <2>2, ReturnKeeps
  <2>3. ASSUME NEW r \in Coroutine, NEW p \in Coroutine, Pcall(r, p) PROVE Inv'
    BY <2>3, PcallKeeps
  <2>4. CASE UNCHANGED vars
    BY <2>4 DEF vars, Inv, TypeOK, ChainKept, Calls, Busy, Entry
  <2> QED BY <2>1, <2>2, <2>3, <2>4 DEF Next
<1> QED BY <1>1, <1>2, PTL DEF Spec, Inv

(* checkcurrent() finds the scheduled routine: its assertion never fails.  *)
THEOREM CheckCurrentHolds == Spec => []CheckCurrent
<1>1. TypeOK /\ ChainKept => CheckCurrent
  <2> SUFFICES ASSUME TypeOK, ChainKept, NEW r \in roots, Innermost(r) # r
               PROVE  PCallMap[Innermost(r)] = r
    BY DEF CheckCurrent
  <2>1. stack[r] # <<>> /\ Innermost(r) = stack[r][Len(stack[r])]
    BY DEF Innermost
  <2>2. Len(stack[r]) \in 1..Len(stack[r])
    BY <2>1, StackFacts
  <2> QED BY <2>1, <2>2 DEF ChainKept, Entry
<1> QED BY <1>1, ChainInvariant, PTL
=============================================================================
