---------------------------- MODULE LoginProofs ----------------------------
(* Proofs about the rejected logins: the detector, the worker threads of    *)
(* the web process that share it, and the terminal monitor that reads their *)
(* log, for every threshold, window, set of addresses, number of threads    *)
(* and every interleaving, failure and restart.                             *)
EXTENDS SecurityMonitor, SequenceTheorems, FiniteSetTheorems, TLAPS

-----------------------------------------------------------------------------
(* What record() does to one deque.                                         *)

(* The eviction loop stops: some number of pops leaves a deque that is      *)
(* empty or whose leftmost entry is in the window (detector.py:40-41).      *)
LEMMA PoppedProperties ==
    ASSUME NEW h \in Seq(Nat), NEW t \in Nat, NEW w \in Nat
    PROVE  /\ Popped(h, t, w) \in 0 .. Len(h)
           /\ \A i \in 1 .. Popped(h, t, w) : Expired(h[i], t, w)
           /\ Popped(h, t, w) < Len(h) => ~ Expired(h[Popped(h, t, w) + 1], t, w)
<1> DEFINE Stops == {n \in 0 .. Len(h) : n < Len(h) => ~ Expired(h[n + 1], t, w)}
<1>1. Len(h) \in Nat
  BY LenProperties
<1>2. Len(h) \in Stops /\ Stops \subseteq Nat
  BY <1>1
<1>3. PICK n \in Stops : \A m \in Stops : ~ (<<m, n>> \in OpToRel(<, Nat))
  <2>1. Stops # {}
    BY <1>2
  <2> QED
    BY <2>1, <1>2, NatLessThanWellFounded, WFMin
<1>4. \A m \in Stops : ~ (m < n)
  BY <1>2, <1>3 DEF OpToRel
<1>5. \A i \in 1 .. n : Expired(h[i], t, w)
  <2> SUFFICES ASSUME NEW i \in 1 .. n, ~ Expired(h[i], t, w) PROVE FALSE
    OBVIOUS
  <2>1. i - 1 \in Stops /\ i - 1 < n
    BY <1>1
  <2> QED
    BY <2>1, <1>4
<1>6. /\ n \in 0 .. Len(h)
      /\ \A i \in 1 .. n : Expired(h[i], t, w)
      /\ n < Len(h) => ~ Expired(h[n + 1], t, w)
  BY <1>5
<1> QED
  BY <1>6 DEF Popped

(* p entries of the deque h leave on the left, all of them out of the       *)
(* window, and r is what record() makes of the rest.                        *)
RecordedAfter(h, t, w, r, p) ==
    /\ r.count = Len(h) + 1 - p
    /\ \A i \in 1 .. p : Expired(h[i], t, w)
    /\ p < Len(h) => ~ Expired(h[p + 1], t, w)
    /\ ~ r.alarm => /\ Len(r.history) = r.count
                    /\ \A i \in 1 .. Len(h) - p : r.history[i] = h[p + i]
                    /\ r.history[r.count] = t

(* One call of record(): p entries leave on the left, all of them out of    *)
(* the window; the entry just appended is never among them.                 *)
LEMMA RecordAttemptProperties ==
    ASSUME NEW S \in SUBSET Nat, NEW h \in Seq(S), NEW t \in S, NEW w \in Nat,
           NEW r, r = RecordAttempt(h, t, w)
    PROVE  /\ r.history \in Seq(S)
           /\ r.count \in Nat \ {0}
           /\ r.alarm \in BOOLEAN
           /\ r.alarm <=> r.count >= Threshold
           /\ r.alarm => r.history = <<>>
           /\ \E p \in 0 .. Len(h) : RecordedAfter(h, t, w, r, p)
<1> DEFINE g    == Append(h, t)
           p    == Popped(g, t, w)
           kept == SubSeq(g, p + 1, Len(g))
<1>1. /\ Len(h) \in Nat
      /\ g \in Seq(S)
      /\ Len(g) = Len(h) + 1
      /\ \A i \in 1 .. Len(h) : g[i] = h[i]
      /\ g[Len(h) + 1] = t
  BY AppendProperties, LenProperties
<1>2. g \in Seq(Nat)
  BY <1>1, SeqMonotonic
<1>3. /\ p \in 0 .. Len(g)
      /\ \A i \in 1 .. p : Expired(g[i], t, w)
      /\ p < Len(g) => ~ Expired(g[p + 1], t, w)
  <2> HIDE DEF g
  <2> QED
    BY <1>2, PoppedProperties
<1>4. p \in 0 .. Len(h)
  <2>1. ~ Expired(t, t, w)
    BY DEF Expired
  <2> QED
    BY <1>1, <1>3, <2>1
<1>5. /\ kept \in Seq(S)
      /\ Len(kept) = Len(h) + 1 - p
      /\ \A i \in 1 .. Len(h) + 1 - p : kept[i] = g[p + i]
  <2>1. \A i \in p + 1 .. Len(g) : g[i] \in S
    BY <1>1, <1>4, ElementOfSeq
  <2> HIDE DEF g, p
  <2>2. p + 1 \in Int /\ Len(g) \in Int
    BY <1>1, <1>4
  <2>3. /\ kept \in Seq(S)
        /\ Len(kept) = IF p + 1 <= Len(g) THEN Len(g) - (p + 1) + 1 ELSE 0
        /\ \A i \in 1 .. Len(g) - (p + 1) + 1 : kept[i] = g[(p + 1) + i - 1]
    BY <2>1, <2>2, SubSeqProperties
  <2> QED
    BY <2>3, <1>1, <1>4
<1>6. /\ r.history = IF Len(kept) >= Threshold THEN <<>> ELSE kept
      /\ r.alarm = (Len(kept) >= Threshold)
      /\ r.count = Len(kept)
  BY DEF RecordAttempt, Evict
<1> HIDE DEF g, p, kept
<1>7. r.history \in Seq(S) /\ (r.alarm => r.history = <<>>)
  BY <1>5, <1>6, EmptySeq
<1>8. \A i \in 1 .. p : Expired(h[i], t, w)
  BY <1>1, <1>3, <1>4
<1>9. p < Len(h) => ~ Expired(h[p + 1], t, w)
  <2> SUFFICES ASSUME p < Len(h) PROVE ~ Expired(h[p + 1], t, w)
    OBVIOUS
  <2>1. p < Len(g) /\ g[p + 1] = h[p + 1]
    BY <1>1, <1>4
  <2> QED
    BY <2>1, <1>3
<1>10. ~ r.alarm => /\ Len(r.history) = r.count
                    /\ \A i \in 1 .. Len(h) - p : r.history[i] = h[p + i]
                    /\ r.history[r.count] = t
  <2> SUFFICES ASSUME ~ r.alarm PROVE /\ Len(r.history) = r.count
                                      /\ \A i \in 1 .. Len(h) - p : r.history[i] = h[p + i]
                                      /\ r.history[r.count] = t
    OBVIOUS
  <2>1. r.history = kept
    BY <1>6
  <2>2. \A i \in 1 .. Len(h) - p : kept[i] = h[p + i]
    <3> TAKE i \in 1 .. Len(h) - p
    <3>1. i \in 1 .. Len(h) + 1 - p /\ p + i \in 1 .. Len(h)
      BY <1>1, <1>4
    <3> QED
      BY <3>1, <1>1, <1>5
  <2>3. kept[Len(h) + 1 - p] = t
    <3>1. Len(h) + 1 - p \in 1 .. Len(h) + 1 - p /\ p + (Len(h) + 1 - p) = Len(h) + 1
      BY <1>1, <1>4
    <3> QED
      BY <3>1, <1>1, <1>5
  <2> QED
    BY <2>1, <2>2, <2>3, <1>5, <1>6
<1>11. /\ r.count = Len(h) + 1 - p
       /\ r.count \in Nat \ {0}
  BY <1>1, <1>4, <1>5, <1>6
<1>12. r.alarm \in BOOLEAN /\ (r.alarm <=> r.count >= Threshold)
  <2>1. (Len(kept) >= Threshold) \in BOOLEAN
    OBVIOUS
  <2>2. r.alarm <=> Len(kept) >= Threshold
    BY <1>6, Zenon
  <2> QED
    BY <1>6, <2>1, <2>2, Zenon
<1>13. RecordedAfter(h, t, w, r, p)
  BY <1>8, <1>9, <1>10, <1>11 DEF RecordedAfter
<1> QED
  BY <1>4, <1>7, <1>11, <1>12, <1>13

-----------------------------------------------------------------------------
(* Type correctness.                                                        *)

(* Deques and answers stay well-typed through any attempts and restarts of  *)
(* the process (app/__init__.py:183-185).                                   *)
THEOREM TypeCorrect == DetectorSpec => []TypeOK
<1>1. DetectorInit => TypeOK
  BY MaxTimeAssumption, EmptySeq DEF DetectorInit, TypeOK, NoAnswer
<1>2. TypeOK /\ [DetectorNext]_detectorVars => TypeOK'
  <2> SUFFICES ASSUME TypeOK, [DetectorNext]_detectorVars PROVE TypeOK'
    OBVIOUS
  <2>1. CASE Tick
    BY <2>1, MaxTimeAssumption DEF TypeOK, Tick
  <2>2. CASE DetectorRestart
    BY <2>2, EmptySeq DEF TypeOK, DetectorRestart, NoAnswer
  <2>3. CASE \E ip \in IPs : Attempt(ip)
    <3>1. PICK ip \in IPs : Record(ip, now)
      BY <2>3 DEF Attempt
    <3> DEFINE r == RecordAttempt(histories[ip], now, Window)
    <3>2. /\ now \in 0 .. MaxTime /\ 0 .. MaxTime \in SUBSET Nat
          /\ histories[ip] \in Seq(0 .. MaxTime)
          /\ sinceAlarm[ip] \in Seq(0 .. MaxTime)
      BY MaxTimeAssumption DEF TypeOK
    <3>3. /\ r.history \in Seq(0 .. MaxTime)
          /\ r.count \in Nat \ {0}
          /\ r.alarm \in BOOLEAN
      <4> DEFINE S == 0 .. MaxTime
                 h == histories[ip]
      <4>1. r = RecordAttempt(h, now, Window) /\ S \in SUBSET Nat /\ h \in Seq(S) /\ now \in S
        BY <3>2
      <4> HIDE DEF r, S, h
      <4> QED
        BY <4>1, RecordAttemptProperties, WindowAssumption DEF S
    <3>4. Append(sinceAlarm[ip], now) \in Seq(0 .. MaxTime) /\ <<>> \in Seq(0 .. MaxTime)
      BY <3>2, AppendProperties, EmptySeq
    <3> HIDE DEF r
    <3>5. /\ histories' = [histories EXCEPT ![ip] = r.history]
          /\ answer' = [answer EXCEPT ![ip] = [alarm |-> r.alarm, count |-> r.count]]
          /\ sinceAlarm' = [sinceAlarm EXCEPT ![ip] =
                               IF r.alarm THEN <<>> ELSE Append(sinceAlarm[ip], now)]
          /\ now' = now
      BY <3>1 DEF Record, r
    <3> QED
      BY <3>3, <3>4, <3>5 DEF TypeOK
  <2>4. CASE UNCHANGED detectorVars
    BY <2>4 DEF TypeOK, detectorVars
  <2> QED
    BY <2>1, <2>2, <2>3, <2>4 DEF DetectorNext
<1> QED
  BY <1>1, <1>2, PTL DEF DetectorSpec

-----------------------------------------------------------------------------
(* The deque holds the window.                                              *)

(* Everything the proofs need of the deque h of an IP, the attempts s of    *)
(* that IP since its last alarm, the clock t and the window w.              *)
WindowInv(h, s, t, w) ==
    /\ InOrder(s, t)
    /\ DequeIsTail(h, s, t, w)
    /\ Len(h) < Threshold
    /\ NoBurst(s, w)

(* r counts all attempts of s but the k oldest, and the new one made at t;  *)
(* exactly the k oldest are out of the window.                              *)
CountsAllBut(s, t, r, k, w) ==
    /\ r.count = Len(s) + 1 - k
    /\ \A i \in 1 .. k : Expired(s[i], t, w)
    /\ \A i \in k + 1 .. Len(s) : ~ Expired(s[i], t, w)
    /\ ~ r.alarm => /\ Len(r.history) = r.count
                    /\ \A i \in 1 .. Len(s) - k : r.history[i] = s[k + i]
                    /\ r.history[r.count] = t

(* One attempt counts the attempts in the window, although record() has     *)
(* only the deque to look at.                                               *)
LEMMA AttemptCountsTheWindow ==
    ASSUME NEW h \in Seq(Nat), NEW s \in Seq(Nat), NEW t \in Nat, NEW w \in Nat,
           InOrder(s, t), DequeIsTail(h, s, t, w),
           NEW r, r = RecordAttempt(h, t, w)
    PROVE  \E k \in 0 .. Len(s) : CountsAllBut(s, t, r, k, w)
<1>1. /\ Len(h) \in Nat /\ Len(s) \in Nat
      /\ \A i \in 1 .. Len(s) : s[i] \in Nat
  BY LenProperties, ElementOfSeq
<1>2. PICK j \in 0 .. Len(s) :
         /\ Len(h) = Len(s) - j
         /\ \A i \in 1 .. Len(h) : h[i] = s[j + i]
         /\ \A i \in 1 .. j : Expired(s[i], t, w)
  BY DEF DequeIsTail
<1>3. PICK p \in 0 .. Len(h) : RecordedAfter(h, t, w, r, p)
  BY RecordAttemptProperties
<1>4. /\ r.count = Len(h) + 1 - p
      /\ \A i \in 1 .. p : Expired(h[i], t, w)
      /\ p < Len(h) => ~ Expired(h[p + 1], t, w)
      /\ ~ r.alarm =>
            /\ Len(r.history) = r.count
            /\ \A i \in 1 .. Len(h) - p : r.history[i] = h[p + i]
            /\ r.history[r.count] = t
  BY <1>3 DEF RecordedAfter
<1> DEFINE k == j + p
<1>5. k \in 0 .. Len(s)
  BY <1>1, <1>2
<1>6. r.count = Len(s) + 1 - k
  BY <1>1, <1>2, <1>4
<1>7. \A i \in 1 .. k : Expired(s[i], t, w)
  <2> TAKE i \in 1 .. k
  <2>1. CASE i <= j
    <3>1. i \in 1 .. j
      BY <2>1, <1>1
    <3> QED
      BY <3>1, <1>2
  <2>2. CASE i > j
    <3>1. i - j \in 1 .. p /\ i - j \in 1 .. Len(h) /\ j + (i - j) = i
      BY <2>2, <1>1, <1>2
    <3> QED
      BY <3>1, <1>2, <1>4
  <2> QED
    BY <2>1, <2>2, <1>1
<1>8. \A i \in k + 1 .. Len(s) : ~ Expired(s[i], t, w)
  <2> TAKE i \in k + 1 .. Len(s)
  <2>1. p < Len(h) /\ p + 1 \in 1 .. Len(h) /\ j + (p + 1) = k + 1
    BY <1>1, <1>2
  <2>2. ~ Expired(s[k + 1], t, w)
    BY <2>1, <1>2, <1>4
  <2>3. k + 1 \in 1 .. Len(s) /\ i \in 1 .. Len(s) /\ k + 1 <= i
    BY <1>1, <1>5
  <2>4. s[k + 1] <= s[i] /\ s[k + 1] \in Nat /\ s[i] \in Nat
    BY <2>3, <1>1 DEF InOrder
  <2> QED
    BY <2>2, <2>4 DEF Expired
<1>9. ~ r.alarm => \A i \in 1 .. Len(s) - k : r.history[i] = s[k + i]
  <2> SUFFICES ASSUME ~ r.alarm, NEW i \in 1 .. Len(s) - k
               PROVE  r.history[i] = s[k + i]
    OBVIOUS
  <2>1. i \in 1 .. Len(h) - p /\ p + i \in 1 .. Len(h) /\ j + (p + i) = k + i
    BY <1>1, <1>2
  <2> QED
    BY <2>1, <1>2, <1>4
<1> HIDE DEF k
<1>10. CountsAllBut(s, t, r, k, w)
  BY <1>4, <1>6, <1>7, <1>8, <1>9 DEF CountsAllBut
<1> QED
  BY <1>5, <1>10

(* The deque of an address that was never seen, or was just cleared by an   *)
(* alarm (detector.py:44), holds the window.                                *)
LEMMA EmptyWindow == ASSUME NEW t \in Nat, NEW w \in Nat PROVE WindowInv(<<>>, <<>>, t, w)
<1>1. Len(<<>>) = 0 /\ 1 .. 0 = {} /\ 0 \in 0 .. 0
  BY EmptySeq
<1>2. InOrder(<<>>, t) /\ NoBurst(<<>>, w)
  BY <1>1 DEF InOrder, NoBurst
<1>3. DequeIsTail(<<>>, <<>>, t, w)
  BY <1>1 DEF DequeIsTail
<1> QED
  BY <1>1, <1>2, <1>3, ThresholdAssumption DEF WindowInv

(* Time passing only takes attempts out of the window.                      *)
LEMMA TimeKeepsWindow ==
    ASSUME NEW h \in Seq(Nat), NEW s \in Seq(Nat), NEW t \in Nat, NEW w \in Nat,
           WindowInv(h, s, t, w), NEW u \in Nat, t <= u
    PROVE  WindowInv(h, s, u, w)
<1>1. Len(s) \in Nat /\ \A i \in 1 .. Len(s) : s[i] \in Nat
  BY LenProperties, ElementOfSeq
<1>2. InOrder(s, u)
  BY <1>1 DEF WindowInv, InOrder
<1>3. \A i \in 1 .. Len(s) : Expired(s[i], t, w) => Expired(s[i], u, w)
  BY <1>1 DEF Expired
<1>4. DequeIsTail(h, s, u, w)
  <2>1. PICK k \in 0 .. Len(s) :
           /\ Len(h) = Len(s) - k
           /\ \A i \in 1 .. Len(h) : h[i] = s[k + i]
           /\ \A i \in 1 .. k : Expired(s[i], t, w)
    BY DEF WindowInv, DequeIsTail
  <2>2. \A i \in 1 .. k : Expired(s[i], u, w)
    BY <1>1, <1>3, <2>1
  <2> QED
    BY <2>1, <2>2 DEF DequeIsTail
<1> QED
  BY <1>2, <1>4 DEF WindowInv

(* One call of record() keeps the deque the window's.                       *)
LEMMA AttemptKeepsWindow ==
    ASSUME NEW h \in Seq(Nat), NEW s \in Seq(Nat), NEW t \in Nat, NEW w \in Nat,
           WindowInv(h, s, t, w),
           NEW r, r = RecordAttempt(h, t, w)
    PROVE  WindowInv(r.history, IF r.alarm THEN <<>> ELSE Append(s, t), t, w)
<1>1. /\ r.alarm \in BOOLEAN
      /\ r.alarm <=> r.count >= Threshold
      /\ r.alarm => r.history = <<>>
  BY RecordAttemptProperties
<1>2. CASE r.alarm
  BY <1>1, <1>2, EmptyWindow
<1>3. CASE ~ r.alarm
  <2>1. PICK k \in 0 .. Len(s) : CountsAllBut(s, t, r, k, w)
    BY AttemptCountsTheWindow DEF WindowInv
  <2> DEFINE g == Append(s, t)
             n == Len(s)
  <2>2. /\ n \in Nat /\ k \in 0 .. n /\ Len(g) = n + 1
        /\ \A i \in 1 .. n : s[i] \in Nat /\ g[i] = s[i]
        /\ g[n + 1] = t
    BY AppendProperties, LenProperties, ElementOfSeq
  <2>3. /\ Len(r.history) = n + 1 - k
        /\ n + 1 - k < Threshold
        /\ \A i \in 1 .. k : Expired(s[i], t, w)
        /\ \A i \in 1 .. n - k : r.history[i] = s[k + i]
        /\ r.history[n + 1 - k] = t
    BY <1>1, <1>3, <2>1, <2>2, ThresholdAssumption DEF CountsAllBut
  <2> HIDE DEF g, n
  <2>4. InOrder(g, t)
    <3>1. \A i \in 1 .. n : s[i] <= t
      BY DEF WindowInv, InOrder, n
    <3>2. \A i, j \in 1 .. n : i <= j => s[i] <= s[j]
      BY DEF WindowInv, InOrder, n
    <3>3. \A i \in 1 .. n + 1 : g[i] <= t
      BY <2>2, <3>1
    <3>4. \A i, j \in 1 .. n + 1 : i <= j => g[i] <= g[j]
      <4> SUFFICES ASSUME NEW i \in 1 .. n + 1, NEW j \in 1 .. n + 1, i <= j
                   PROVE  g[i] <= g[j]
        OBVIOUS
      <4>1. CASE j = n + 1
        BY <4>1, <2>2, <3>3
      <4>2. CASE j # n + 1
        <5>1. i \in 1 .. n /\ j \in 1 .. n
          BY <4>2, <2>2
        <5> QED
          BY <5>1, <2>2, <3>2
      <4> QED
        BY <4>1, <4>2
    <3> QED
      BY <2>2, <3>3, <3>4 DEF InOrder
  <2>5. DequeIsTail(r.history, g, t, w)
    <3>1. k \in 0 .. Len(g) /\ Len(r.history) = Len(g) - k
      BY <2>2, <2>3
    <3>2. \A i \in 1 .. k : Expired(g[i], t, w)
      BY <2>2, <2>3
    <3>3. \A i \in 1 .. n + 1 - k : r.history[i] = g[k + i]
      <4> TAKE i \in 1 .. n + 1 - k
      <4>1. CASE i = n + 1 - k
        <5>1. k + i = n + 1
          BY <4>1, <2>2
        <5> QED
          BY <4>1, <5>1, <2>2, <2>3
      <4>2. CASE i # n + 1 - k
        <5>1. i \in 1 .. n - k /\ k + i \in 1 .. n
          BY <4>2, <2>2
        <5> QED
          BY <5>1, <2>2, <2>3
      <4> QED
        BY <4>1, <4>2
    <3> QED
      BY <3>1, <3>2, <3>3, <2>3 DEF DequeIsTail
  <2>6. NoBurst(g, w)
    <3> SUFFICES ASSUME NEW i \in 1 .. Len(g), i + Threshold - 1 <= Len(g)
                 PROVE  g[i] + w < g[i + Threshold - 1]
      BY DEF NoBurst
    <3>1. CASE i + Threshold - 1 <= n
      <4>1. i \in 1 .. n /\ i + Threshold - 1 \in 1 .. n
        BY <3>1, <2>2, ThresholdAssumption
      <4>2. s[i] + w < s[i + Threshold - 1]
        BY <3>1, <4>1 DEF WindowInv, NoBurst, n
      <4> QED
        BY <4>1, <4>2, <2>2
    <3>2. CASE i + Threshold - 1 > n
      <4>1. i + Threshold - 1 = n + 1
        BY <3>2, <2>2, ThresholdAssumption
      <4>2. i \in 1 .. k /\ i \in 1 .. n
        <5>1. n + 1 - k < Threshold
          BY <2>3
        <5> QED
          BY <4>1, <5>1, <2>2, ThresholdAssumption
      <4>3. Expired(s[i], t, w) /\ g[i] = s[i] /\ g[i + Threshold - 1] = t
        BY <4>1, <4>2, <2>2, <2>3
      <4> QED
        BY <4>3 DEF Expired
    <3> QED
      BY <3>1, <3>2, <2>2, ThresholdAssumption
  <2>7. Len(r.history) < Threshold
    BY <2>3
  <2> QED
    BY <1>3, <2>4, <2>5, <2>6, <2>7 DEF WindowInv, g
<1> QED
  BY <1>1, <1>2, <1>3

-----------------------------------------------------------------------------
(* The invariant of the specification.                                      *)

WindowsHold == \A ip \in IPs : WindowInv(histories[ip], sinceAlarm[ip], now, Window)
Inv == TypeOK /\ WindowsHold

(* What TypeOK says of the deque and the attempts of one address.           *)
LEMMA TypeFacts ==
    ASSUME TypeOK
    PROVE  /\ now \in Nat
           /\ \A ip \in IPs : histories[ip] \in Seq(Nat) /\ sinceAlarm[ip] \in Seq(Nat)
<1>1. 0 .. MaxTime \subseteq Nat
  BY MaxTimeAssumption
<1>2. now \in Nat
  BY <1>1 DEF TypeOK
<1>3. ASSUME NEW ip \in IPs
      PROVE  histories[ip] \in Seq(Nat) /\ sinceAlarm[ip] \in Seq(Nat)
  <2>1. histories[ip] \in Seq(0 .. MaxTime) /\ sinceAlarm[ip] \in Seq(0 .. MaxTime)
    BY DEF TypeOK
  <2> QED
    BY <1>1, <2>1, SeqMonotonic
<1> QED
  BY <1>2, <1>3

(* The deque of every IP is a tail of its attempts since the last alarm     *)
(* that holds the whole window, is shorter than the threshold, and no burst *)
(* has gone unnoticed: inductive once the types are known.                  *)
THEOREM WindowInvariant == DetectorSpec => []Inv
<1>1. DetectorInit => WindowsHold
  BY EmptyWindow, WindowAssumption DEF DetectorInit, WindowsHold
<1>2. TypeOK /\ WindowsHold /\ [DetectorNext]_detectorVars => WindowsHold'
  <2> SUFFICES ASSUME TypeOK, WindowsHold, [DetectorNext]_detectorVars, NEW ip \in IPs
               PROVE  WindowInv(histories'[ip], sinceAlarm'[ip], now', Window)
    BY DEF WindowsHold
  <2> DEFINE h == histories[ip]
             s == sinceAlarm[ip]
  <2>1. /\ h \in Seq(Nat) /\ s \in Seq(Nat) /\ now \in Nat
        /\ WindowInv(h, s, now, Window)
    BY TypeFacts DEF WindowsHold
  <2>2. CASE Tick
    BY <2>1, <2>2, TimeKeepsWindow, WindowAssumption DEF Tick
  <2>3. CASE DetectorRestart
    <3>1. /\ now' = now
          /\ histories'[ip] = <<>>
          /\ sinceAlarm'[ip] = <<>>
      BY <2>3 DEF DetectorRestart
    <3> QED
      BY <2>1, <3>1, EmptyWindow, WindowAssumption
  <2>4. CASE \E x \in IPs : Attempt(x)
    <3>1. PICK x \in IPs : Attempt(x)
      BY <2>4
    <3>2. CASE x = ip
      <4> DEFINE r == RecordAttempt(h, now, Window)
      <4>1. /\ now' = now
            /\ histories'[ip] = r.history
            /\ sinceAlarm'[ip] = IF r.alarm THEN <<>> ELSE Append(s, now)
        BY <3>1, <3>2 DEF Attempt, Record, TypeOK
      <4>2. r = RecordAttempt(h, now, Window)
        OBVIOUS
      <4> HIDE DEF r, h, s
      <4> QED
        BY <2>1, <4>1, <4>2, AttemptKeepsWindow, WindowAssumption
    <3>3. CASE x # ip
      <4>1. /\ now' = now
            /\ histories'[ip] = h
            /\ sinceAlarm'[ip] = s
        BY <3>1, <3>3 DEF Attempt, Record, TypeOK
      <4> QED
        BY <2>1, <4>1
    <3> QED
      BY <3>2, <3>3
  <2>5. CASE UNCHANGED detectorVars
    BY <2>1, <2>5 DEF detectorVars
  <2> QED
    BY <2>2, <2>3, <2>4, <2>5 DEF DetectorNext
<1> QED
  BY <1>1, <1>2, TypeCorrect, PTL DEF DetectorSpec, Inv

(* No deque ever reaches the threshold between two calls.                   *)
THEOREM HistoryShort == DetectorSpec => []HistoryBelowThreshold
<1>1. Inv => HistoryBelowThreshold
  BY DEF Inv, WindowsHold, WindowInv, HistoryBelowThreshold
<1> QED
  BY <1>1, WindowInvariant, PTL

(* No Threshold attempts inside one window go without an alarm.             *)
THEOREM BurstsNoticed == DetectorSpec => []NoMissedBurst
<1>1. Inv => NoMissedBurst
  BY DEF Inv, WindowsHold, WindowInv, NoMissedBurst
<1> QED
  BY <1>1, WindowInvariant, PTL

(* The deque never forgets an attempt that is still in the window.          *)
THEOREM WindowHeld == DetectorSpec => []DequeHoldsTheWindow
<1>1. Inv => DequeHoldsTheWindow
  BY DEF Inv, WindowsHold, WindowInv, DequeHoldsTheWindow
<1> QED
  BY <1>1, WindowInvariant, PTL

-----------------------------------------------------------------------------
(* The detector implements the abstract alarm.                              *)

(* The attempts g that are in the window w that ends at t.                  *)
Within(g, t, w) == {i \in DOMAIN g : g[i] + w >= t}

(* The attempts in the window, the new one included, are the ones record()  *)
(* counts.                                                                  *)
LEMMA CountIsRecent ==
    ASSUME NEW h \in Seq(Nat), NEW s \in Seq(Nat), NEW t \in Nat, NEW w \in Nat,
           WindowInv(h, s, t, w), NEW r, r = RecordAttempt(h, t, w)
    PROVE  Cardinality(Within(Append(s, t), t, w)) = r.count
<1>1. PICK k \in 0 .. Len(s) : CountsAllBut(s, t, r, k, w)
  BY AttemptCountsTheWindow DEF WindowInv
<1> DEFINE g == Append(s, t)
           n == Len(s)
<1>2. /\ n \in Nat /\ k \in 0 .. n /\ Len(g) = n + 1 /\ DOMAIN g = 1 .. n + 1
      /\ \A i \in 1 .. n : s[i] \in Nat /\ g[i] = s[i]
      /\ g[n + 1] = t
  BY AppendProperties, LenProperties, ElementOfSeq
<1>3. /\ r.count = n + 1 - k
      /\ \A i \in 1 .. k : s[i] + w < t
      /\ \A i \in k + 1 .. n : ~ (s[i] + w < t)
  BY <1>1 DEF CountsAllBut, Expired
<1> HIDE DEF g, n
<1>6. Within(g, t, w) = k + 1 .. n + 1
  <2>1. ASSUME NEW i \in 1 .. n + 1 PROVE g[i] + w >= t <=> i >= k + 1
    <3>1. CASE i <= k
      <4>1. i \in 1 .. k /\ i \in 1 .. n
        BY <3>1, <1>2
      <4>2. g[i] = s[i] /\ s[i] \in Nat /\ s[i] + w < t
        BY <4>1, <1>2, <1>3
      <4> QED
        BY <3>1, <4>2, <1>2
    <3>2. CASE i \in k + 1 .. n
      <4>1. i \in 1 .. n
        BY <3>2, <1>2
      <4>2. g[i] = s[i] /\ s[i] \in Nat /\ ~ (s[i] + w < t)
        BY <3>2, <4>1, <1>2, <1>3
      <4> QED
        BY <3>2, <4>2, <1>2
    <3>3. CASE i = n + 1
      BY <3>3, <1>2
    <3> QED
      BY <3>1, <3>2, <3>3, <1>2
  <2> QED
    BY <1>2, <2>1 DEF Within
<1>7. Cardinality(k + 1 .. n + 1) = n + 1 - k
  BY <1>2, FS_Interval
<1> QED
  BY <1>3, <1>6, <1>7 DEF g

(* The Cardinality of the instance is that of FiniteSets.                   *)
LEMMA SameCardinality == \A S : Alarm!Cardinality(S) = Cardinality(S)
  BY DEF Alarm!Cardinality, Cardinality

(* Whatever the threshold, the window and the arrival of attempts, the      *)
(* deque gives the answers of a detector that forgets nothing.              *)
THEOREM Implementation == DetectorSpec => ImplementsBruteForceAlarm
<1>1. DetectorInit => Alarm!Init
  BY DEF DetectorInit, Alarm!Init, NoAnswer, Alarm!NoAnswer
<1>2. Inv /\ [DetectorNext]_detectorVars => [Alarm!Next]_(Alarm!vars)
  <2> SUFFICES ASSUME Inv, [DetectorNext]_detectorVars
               PROVE  [Alarm!Next]_(Alarm!vars)
    OBVIOUS
  <2>1. CASE Tick
    BY <2>1 DEF Tick, Alarm!Next, Alarm!Tick
  <2>2. CASE DetectorRestart
    BY <2>2 DEF DetectorRestart, Alarm!Next, Alarm!Restart, NoAnswer, Alarm!NoAnswer
  <2>3. CASE \E ip \in IPs : Attempt(ip)
    <3>1. PICK ip \in IPs : Attempt(ip)
      BY <2>3
    <3> DEFINE h == histories[ip]
               s == sinceAlarm[ip]
               r == RecordAttempt(h, now, Window)
               c == Cardinality(Alarm!Recent(Append(s, now), now))
    <3>2. /\ h \in Seq(Nat) /\ s \in Seq(Nat) /\ now \in Nat
          /\ WindowInv(h, s, now, Window)
      BY TypeFacts DEF Inv, WindowsHold
    <3>3. r = RecordAttempt(h, now, Window)
      OBVIOUS
    <3>4. /\ now' = now
          /\ answer' = [answer EXCEPT ![ip] = [alarm |-> r.alarm, count |-> r.count]]
          /\ sinceAlarm' = [sinceAlarm EXCEPT ![ip] = IF r.alarm THEN <<>> ELSE Append(s, now)]
      BY <3>1 DEF Attempt, Record
    <3>5. c = r.count /\ r.alarm \in BOOLEAN /\ (r.alarm <=> r.count >= Threshold)
      <4> HIDE DEF r, h, s
      <4>1. c = r.count
        <5>1. Cardinality(Within(Append(s, now), now, Window)) = r.count
          BY <3>2, <3>3, CountIsRecent, WindowAssumption
        <5> QED
          BY <5>1 DEF c, Alarm!Recent, Within
      <4>2. r.alarm \in BOOLEAN /\ (r.alarm <=> r.count >= Threshold)
        BY <3>2, <3>3, RecordAttemptProperties, WindowAssumption
      <4> QED
        BY <4>1, <4>2
    <3> HIDE DEF r, h, c
    <3>6. r.alarm = (c >= Threshold)
      BY <3>5
    <3>7. Alarm!Attempt(ip)
      BY <3>4, <3>5, <3>6, SameCardinality DEF Alarm!Attempt, c
    <3> QED
      BY <3>7 DEF Alarm!Next
  <2>4. CASE UNCHANGED detectorVars
    BY <2>4 DEF detectorVars, Alarm!vars
  <2> QED
    BY <2>1, <2>2, <2>3, <2>4 DEF DetectorNext
<1> QED
  BY <1>1, <1>2, WindowInvariant, PTL DEF DetectorSpec, ImplementsBruteForceAlarm, Alarm!Spec


-----------------------------------------------------------------------------
(* A thread in a handler has a request.                                     *)

RequestsOK ==
    /\ pc \in [Threads -> Steps]
    /\ req = [t \in Threads |-> req[t]]
    /\ \A t \in Threads : pc[t] # "idle" => req[t].ip \in IPs

(* At any step but the first, a thread works on a request of some address.  *)
LEMMA RequestsStep == RequestsOK /\ [Next]_vars => RequestsOK'
<1> SUFFICES ASSUME RequestsOK, [Next]_vars PROVE RequestsOK'
  OBVIOUS
<1> USE DEF RequestsOK, Steps
<1>1. CASE ClockTick \/ Quiescent \/ UNCHANGED vars
  BY <1>1 DEF ClockTick, Quiescent, vars, handlerVars
<1>2. CASE Restart
  BY <1>2 DEF Restart
<1>3. ASSUME NEW t \in Threads, NEW ip \in IPs, Stamp(t, ip) PROVE RequestsOK'
  BY <1>3 DEF Stamp, Goto
<1>4. ASSUME NEW t \in Threads, Step(t) PROVE RequestsOK'
  BY <1>4 DEF Step, WriteLog, StoreFailed, Detect, StoreAlarm, Notify, Reject, Finish, Goto
<1>5. ASSUME NEW t \in Threads, LogFails(t) \/ StoreFails(t) PROVE RequestsOK'
  BY <1>5 DEF LogFails, StoreFails, Finish, Goto
<1> QED
  BY <1>1, <1>2, <1>3, <1>4, <1>5 DEF Next

(* Every worker thread that is past the login form has the request's IP.    *)
THEOREM RequestsInvariant == Spec => []RequestsOK
<1>1. Init => RequestsOK
  BY DEF Init, RequestsOK, Steps
<1> QED
  BY <1>1, RequestsStep, PTL DEF Spec

-----------------------------------------------------------------------------
(* The detector called from interleaved handlers is the detector.           *)

(* What a step of the web process does to the shared detector is a step of  *)
(* the detector or none: DETECTOR_LOCK covers the call and its clock        *)
(* (app/__init__.py:183-184).                                               *)
LEMMA DetectorStep == RequestsOK /\ [Next]_vars => [DetectorNext]_detectorVars
<1> SUFFICES ASSUME RequestsOK, [Next]_vars PROVE [DetectorNext]_detectorVars
  OBVIOUS
<1>1. CASE ClockTick \/ Quiescent \/ UNCHANGED vars
  BY <1>1 DEF ClockTick, Quiescent, vars, DetectorNext
<1>2. CASE Restart
  BY <1>2 DEF Restart, DetectorNext
<1>3. ASSUME NEW t \in Threads, NEW ip \in IPs, Stamp(t, ip) PROVE UNCHANGED detectorVars
  BY <1>3 DEF Stamp
<1>4. ASSUME NEW t \in Threads, Detect(t) PROVE DetectorNext
  <2>1. req[t].ip \in IPs /\ Record(req[t].ip, now)
    BY <1>4 DEF Detect, RequestsOK
  <2> QED
    BY <2>1 DEF DetectorNext, Attempt
<1>5. ASSUME NEW t \in Threads, Step(t), ~ Detect(t) PROVE UNCHANGED detectorVars
  BY <1>5 DEF Step, WriteLog, StoreFailed, StoreAlarm, Notify
<1>6. ASSUME NEW t \in Threads, LogFails(t) \/ StoreFails(t) PROVE UNCHANGED detectorVars
  BY <1>6 DEF LogFails, StoreFails
<1> QED
  BY <1>1, <1>2, <1>3, <1>4, <1>5, <1>6 DEF Next

(* The pipeline drives the detector only through its operations.            *)
THEOREM RunsTheDetector == Spec => DetectorSpec
<1>1. Init => DetectorInit
  BY DEF Init
<1> QED
  BY <1>1, DetectorStep, RequestsInvariant, PTL DEF Spec, DetectorSpec

(* However handlers interleave and whatever fails around it, the detector   *)
(* of the web process answers as the one that forgets nothing.              *)
THEOREM PipelineImplements == Spec => ImplementsBruteForceAlarm
BY RunsTheDetector, Implementation, PTL

(* The deque invariant carries over to the pipeline.                        *)
THEOREM PipelineWindows == Spec => []Inv
BY RunsTheDetector, WindowInvariant, PTL

-----------------------------------------------------------------------------
(* The threads at one step, counted.                                        *)

(* A thread joins a set of threads or leaves it.                            *)
LEMMA CountThreads ==
    ASSUME NEW A \in SUBSET Threads
    PROVE  /\ Cardinality(A) \in Nat
           /\ \A t \in Threads \ A : Cardinality(A \cup {t}) = Cardinality(A) + 1
           /\ \A t \in A : Cardinality(A \ {t}) = Cardinality(A) - 1
           /\ Cardinality({}) = 0
BY ThreadsAssumption, FS_Subset, FS_CardinalityType, FS_AddElement, FS_RemoveElement, FS_EmptySet

(* Thread t goes on to step q, the others stay where they are.              *)
Moves(t, q) == /\ pc' = [pc EXCEPT ![t] = q]
               /\ \A u \in Threads \ {t} : req'[u] = req[u]

(* A move between other steps, or of a request of another address.          *)
LEMMA AtStays ==
    ASSUME RequestsOK, NEW t \in Threads, NEW q, Moves(t, q), NEW s, NEW ip,
           ~ (pc[t] = s /\ req[t].ip = ip), ~ (q = s /\ req'[t].ip = ip)
    PROVE  At(s, ip)' = At(s, ip)
BY DEF RequestsOK, Moves, At

(* Thread t arrives at step q with a request of ip.                         *)
LEMMA AtJoins ==
    ASSUME RequestsOK, NEW t \in Threads, NEW q, Moves(t, q), NEW ip,
           pc[t] # q, req'[t].ip = ip
    PROVE  Cardinality(At(q, ip)') = Cardinality(At(q, ip)) + 1
<1>1. t \in Threads \ At(q, ip) /\ At(q, ip)' = At(q, ip) \cup {t}
  BY DEF RequestsOK, Moves, At
<1>2. At(q, ip) \in SUBSET Threads
  BY DEF At
<1> QED
  BY <1>1, <1>2, CountThreads

(* Thread t leaves step s with a request of ip.                             *)
LEMMA AtLeaves ==
    ASSUME RequestsOK, NEW t \in Threads, NEW q, Moves(t, q), NEW s, NEW ip,
           pc[t] = s, q # s, req[t].ip = ip
    PROVE  /\ Cardinality(At(s, ip)') = Cardinality(At(s, ip)) - 1
           /\ Cardinality(At(s, ip)) > 0
<1>1. t \in At(s, ip) /\ At(s, ip)' = At(s, ip) \ {t}
  BY DEF RequestsOK, Moves, At
<1>2. At(s, ip) \in SUBSET Threads /\ At(s, ip) \ {t} \in SUBSET Threads
  BY DEF At
<1>3. Cardinality(At(s, ip) \ {t}) = Cardinality(At(s, ip)) - 1
  BY <1>1, <1>2, CountThreads
<1> QED
  BY <1>1, <1>2, <1>3, CountThreads

(* What an address has been charged and what its rows can pay: b and a are  *)
(* its alarms stored and on their way, l the length of its deque, s its     *)
(* rows not yet counted, f all its rows.                                    *)
Paid(b, a, l, s, f) == Threshold * (b + a) + l + s <= f

(* The account stays in credit when a row is added, counted with or without *)
(* an alarm, and when an alarm is stored or lost.                           *)
LEMMA PaidSteps ==
    ASSUME NEW b \in Nat, NEW a \in Nat, NEW l \in Nat, NEW s \in Nat, NEW f \in Nat,
           Paid(b, a, l, s, f)
    PROVE  /\ Paid(b, a, l, s + 1, f + 1)
           /\ \A m \in Nat : m <= l + 1 /\ s > 0 => Paid(b, a, m, s - 1, f)
           /\ Threshold <= l + 1 /\ s > 0 => Paid(b, a + 1, 0, s - 1, f)
           /\ a > 0 => Paid(b + 1, a - 1, l, s, f) /\ Paid(b, a - 1, l, s, f)
           /\ Paid(b, 0, 0, 0, f)
<1> DEFINE p == Threshold * (b + a)
<1>1. Threshold \in Nat
  BY ThresholdAssumption
<1>2. p \in Nat /\ p + l + s <= f
  BY <1>1 DEF Paid
<1>3. Threshold * (b + (a + 1)) = p + Threshold
  BY <1>1
<1>4. a > 0 => /\ (b + 1) + (a - 1) = b + a
               /\ Threshold * (b + (a - 1)) = p - Threshold
  BY <1>1
<1>5. Threshold * (b + 0) <= p
  <2>1. p = Threshold * b + Threshold * a /\ Threshold * a \in Nat /\ Threshold * b \in Nat
    BY <1>1
  <2> QED
    BY <2>1
<1>6. Paid(b, a, l, s + 1, f + 1)
  BY <1>2 DEF Paid
<1>7. \A m \in Nat : m <= l + 1 /\ s > 0 => Paid(b, a, m, s - 1, f)
  BY <1>2 DEF Paid
<1>8. Threshold <= l + 1 /\ s > 0 => Paid(b, a + 1, 0, s - 1, f)
  BY <1>1, <1>2, <1>3 DEF Paid
<1>9. a > 0 => Paid(b + 1, a - 1, l, s, f) /\ Paid(b, a - 1, l, s, f)
  <2> HIDE DEF p
  <2>1. ASSUME a > 0 PROVE Paid(b + 1, a - 1, l, s, f)
    BY <1>2, <1>4, <2>1 DEF Paid, p
  <2>2. ASSUME a > 0 PROVE Paid(b, a - 1, l, s, f)
    BY <1>1, <1>2, <1>4, <2>2 DEF Paid
  <2> QED
    BY <2>1, <2>2
<1>10. Paid(b, 0, 0, 0, f)
  <2> HIDE DEF p
  <2>1. Threshold * (b + 0) \in Nat
    BY <1>1
  <2> QED
    BY <1>2, <1>5, <2>1 DEF Paid
<1> QED
  BY <1>6, <1>7, <1>8, <1>9, <1>10

-----------------------------------------------------------------------------
(* No failed login pays for two alarms.                                     *)

(* What record() returns costs no more than the deque and the new attempt.  *)
LEMMA RecordCosts ==
    ASSUME NEW h \in Seq(Nat), NEW t \in Nat, NEW r, r = RecordAttempt(h, t, Window)
    PROVE  /\ r.alarm \in BOOLEAN
           /\ r.alarm => r.history = <<>> /\ Threshold <= Len(h) + 1
           /\ Len(r.history) \in Nat /\ Len(r.history) <= Len(h) + 1
<1>1. PICK p \in 0 .. Len(h) : RecordedAfter(h, t, Window, r, p)
  BY RecordAttemptProperties, WindowAssumption
<1>2. /\ r.history \in Seq(Nat) /\ r.count \in Nat /\ r.alarm \in BOOLEAN
      /\ r.alarm <=> r.count >= Threshold
      /\ r.alarm => r.history = <<>>
  BY RecordAttemptProperties, WindowAssumption
<1>3. r.count = Len(h) + 1 - p /\ (~ r.alarm => Len(r.history) = r.count)
  BY <1>1 DEF RecordedAfter
<1>4. Len(h) \in Nat /\ Len(r.history) \in Nat /\ Len(<<>>) = 0
  BY <1>2, LenProperties, EmptySeq
<1> QED
  BY <1>2, <1>3, <1>4, ThresholdAssumption

Account(ip) == Paid(brute[ip], Cardinality(At("alarmed", ip)), Len(histories[ip]),
                    Cardinality(At("stored", ip)), failed[ip])

Accounts == /\ brute \in [IPs -> Nat] /\ failed \in [IPs -> Nat]
            /\ \A ip \in IPs : Account(ip)

(* Everything an account is made of is a number.                            *)
LEMMA AccountTypes ==
    ASSUME Accounts, Inv, NEW ip \in IPs
    PROVE  /\ brute[ip] \in Nat /\ failed[ip] \in Nat
           /\ Len(histories[ip]) \in Nat
           /\ \A s : Cardinality(At(s, ip)) \in Nat
<1>1. histories[ip] \in Seq(Nat)
  BY TypeFacts DEF Inv
<1>2. \A s : At(s, ip) \in SUBSET Threads
  BY DEF At
<1> QED
  BY <1>1, <1>2, CountThreads, LenProperties DEF Accounts

(* A step that moves thread t on without touching rows or deques leaves     *)
(* every account in credit, unless it comes from "stored" or goes to        *)
(* "alarmed" or "stored".                                                   *)
LEMMA MovesKeepAccounts ==
    ASSUME RequestsOK, Inv, Accounts, NEW t \in Threads, NEW q, Moves(t, q),
           q # "alarmed", q # "stored", pc[t] # "stored",
           UNCHANGED <<histories, brute, failed>>
    PROVE  Accounts'
<1> SUFFICES ASSUME NEW ip \in IPs PROVE Account(ip)'
  BY DEF Accounts
<1>1. At("stored", ip)' = At("stored", ip)
  BY AtStays
<1>2. CASE pc[t] = "alarmed" /\ req[t].ip = ip
  <2>1. /\ Cardinality(At("alarmed", ip)') = Cardinality(At("alarmed", ip)) - 1
        /\ Cardinality(At("alarmed", ip)) > 0
    BY <1>2, AtLeaves
  <2> QED
    BY <1>1, <2>1, AccountTypes, PaidSteps DEF Account, Accounts
<1>3. CASE ~ (pc[t] = "alarmed" /\ req[t].ip = ip)
  <2>1. At("alarmed", ip)' = At("alarmed", ip)
    BY <1>3, AtStays
  <2> QED
    BY <1>1, <2>1 DEF Account, Accounts
<1> QED
  BY <1>2, <1>3

(* A failed_login row is one more to pay with (app/__init__.py:182).        *)
LEMMA StoreFailedKeepsAccounts ==
    ASSUME RequestsOK, Inv, Accounts, NEW t \in Threads, StoreFailed(t)
    PROVE  Accounts'
<1> DEFINE x == req[t].ip
<1>1. /\ x \in IPs /\ pc[t] = "logged" /\ Moves(t, "stored") /\ req' = req
      /\ failed' = [failed EXCEPT ![x] = @ + 1]
      /\ UNCHANGED <<histories, brute>>
  BY DEF StoreFailed, Goto, Moves, RequestsOK, detectorVars
<1>2. failed' \in [IPs -> Nat] /\ brute' \in [IPs -> Nat]
  BY <1>1 DEF Accounts
<1>3. ASSUME NEW ip \in IPs PROVE Account(ip)'
  <2>1. At("alarmed", ip)' = At("alarmed", ip)
    BY <1>1, AtStays
  <2>2. CASE ip = x
    <3> DEFINE b == brute[ip]
               a == Cardinality(At("alarmed", ip))
               l == Len(histories[ip])
               s == Cardinality(At("stored", ip))
               f == failed[ip]
    <3>1. Cardinality(At("stored", ip)') = s + 1
      BY <1>1, <2>2, AtJoins
    <3>2. failed'[ip] = f + 1
      BY <1>1, <2>2 DEF Accounts
    <3>8. Paid(b, a, l, s, f) /\ b \in Nat /\ a \in Nat /\ l \in Nat /\ s \in Nat /\ f \in Nat
      BY AccountTypes DEF Account, Accounts
    <3> HIDE DEF b, a, l, s, f
    <3>9. Paid(b, a, l, s + 1, f + 1)
      BY <3>8, PaidSteps
    <3> QED
      BY <1>1, <2>1, <3>1, <3>2, <3>9 DEF Account, b, a, l
  <2>3. CASE ip # x
    <3>1. At("stored", ip)' = At("stored", ip)
      BY <1>1, <2>3, AtStays
    <3>2. failed'[ip] = failed[ip]
      BY <1>1, <2>3 DEF Accounts
    <3> QED
      BY <1>1, <2>1, <3>1, <3>2 DEF Account, Accounts
  <2> QED
    BY <2>2, <2>3
<1> QED
  BY <1>2, <1>3 DEF Accounts

(* The detector takes one row and holds it in the deque, or clears the      *)
(* deque for an alarm (monitor/detector.py:43-45).                          *)
LEMMA DetectKeepsAccounts ==
    ASSUME RequestsOK, Inv, Accounts, NEW t \in Threads, Detect(t)
    PROVE  Accounts'
<1> DEFINE x == req[t].ip
           r == RecordAttempt(histories[x], now, Window)
<1>1. x \in IPs /\ pc[t] = "stored" /\ Record(x, now) /\ UNCHANGED <<failed, brute>>
  BY DEF Detect, RequestsOK
<1>2. histories[x] \in Seq(Nat) /\ now \in Nat
  BY <1>1, TypeFacts DEF Inv
<1>3. /\ r.alarm \in BOOLEAN
      /\ r.alarm => r.history = <<>> /\ Threshold <= Len(histories[x]) + 1
      /\ Len(r.history) \in Nat /\ Len(r.history) <= Len(histories[x]) + 1
  BY <1>2, RecordCosts
<1>4. /\ histories' = [histories EXCEPT ![x] = r.history]
      /\ answer' = [answer EXCEPT ![x] = [alarm |-> r.alarm, count |-> r.count]]
  BY <1>1 DEF Record
<1> HIDE DEF r
<1>5. /\ answer'[x].alarm = r.alarm
      /\ histories'[x] = r.history
      /\ \A ip \in IPs \ {x} : histories'[ip] = histories[ip]
  BY <1>1, <1>4 DEF Inv, TypeOK
<1>6. IF r.alarm THEN Moves(t, "alarmed") /\ req' = req ELSE Moves(t, "idle")
  BY <1>3, <1>5 DEF Detect, Goto, Reject, Finish, Moves, RequestsOK
<1>7. ASSUME NEW ip \in IPs PROVE Account(ip)'
  <2>1. CASE ip = x
    <3> DEFINE b == brute[ip]
               a == Cardinality(At("alarmed", ip))
               l == Len(histories[ip])
               s == Cardinality(At("stored", ip))
               f == failed[ip]
    <3>1. Cardinality(At("stored", ip)') = s - 1 /\ s > 0
      BY <1>1, <1>6, <2>1, AtLeaves
    <3>8. Paid(b, a, l, s, f) /\ b \in Nat /\ a \in Nat /\ l \in Nat /\ s \in Nat /\ f \in Nat
      BY AccountTypes DEF Account, Accounts
    <3>2. CASE r.alarm
      <4>1. Cardinality(At("alarmed", ip)') = a + 1
        BY <1>1, <1>6, <2>1, <3>2, AtJoins
      <4>2. Len(histories'[ip]) = 0 /\ Threshold <= l + 1
        BY <1>3, <1>5, <2>1, <3>2, EmptySeq
      <4> HIDE DEF b, a, l, s, f
      <4>3. Paid(b, a + 1, 0, s - 1, f)
        BY <3>1, <3>8, <4>2, PaidSteps
      <4> QED
        BY <1>1, <3>1, <4>1, <4>2, <4>3 DEF Account, b, f
    <3>3. CASE ~ r.alarm
      <4>1. At("alarmed", ip)' = At("alarmed", ip)
        BY <1>1, <1>6, <3>3, AtStays
      <4>2. Len(histories'[ip]) \in Nat /\ Len(histories'[ip]) <= l + 1
        BY <1>3, <1>5, <2>1
      <4> HIDE DEF b, a, l, s, f
      <4>3. Paid(b, a, Len(histories'[ip]), s - 1, f)
        BY <3>1, <3>8, <4>2, PaidSteps
      <4> QED
        BY <1>1, <3>1, <4>1, <4>3 DEF Account, b, a, f
    <3> QED
      BY <3>2, <3>3
  <2>2. CASE ip # x
    <3>1. At("stored", ip)' = At("stored", ip)
      BY <1>1, <1>6, <2>2, AtStays
    <3>2. At("alarmed", ip)' = At("alarmed", ip)
      BY <1>1, <1>6, <2>2, AtStays
    <3> QED
      BY <1>1, <1>5, <2>2, <3>1, <3>2 DEF Account, Accounts
  <2> QED
    BY <2>1, <2>2
<1> QED
  BY <1>1, <1>7 DEF Accounts

(* An alarm on its way becomes a brute_force row.                           *)
LEMMA StoreAlarmKeepsAccounts ==
    ASSUME RequestsOK, Inv, Accounts, NEW t \in Threads, StoreAlarm(t)
    PROVE  Accounts'
<1> DEFINE x == req[t].ip
<1>1. /\ x \in IPs /\ pc[t] = "alarmed" /\ Moves(t, "notifying")
      /\ brute' = [brute EXCEPT ![x] = @ + 1]
      /\ UNCHANGED <<histories, failed>>
  BY DEF StoreAlarm, Goto, Moves, RequestsOK, detectorVars
<1>2. failed' \in [IPs -> Nat] /\ brute' \in [IPs -> Nat]
  BY <1>1 DEF Accounts
<1>3. ASSUME NEW ip \in IPs PROVE Account(ip)'
  <2>1. At("stored", ip)' = At("stored", ip)
    BY <1>1, AtStays
  <2>2. CASE ip = x
    <3> DEFINE b == brute[ip]
               a == Cardinality(At("alarmed", ip))
               l == Len(histories[ip])
               s == Cardinality(At("stored", ip))
               f == failed[ip]
    <3>1. Cardinality(At("alarmed", ip)') = a - 1 /\ a > 0
      BY <1>1, <2>2, AtLeaves
    <3>2. brute'[ip] = b + 1
      BY <1>1, <2>2 DEF Accounts
    <3>8. Paid(b, a, l, s, f) /\ b \in Nat /\ a \in Nat /\ l \in Nat /\ s \in Nat /\ f \in Nat
      BY AccountTypes DEF Account, Accounts
    <3> HIDE DEF b, a, l, s, f
    <3>9. Paid(b + 1, a - 1, l, s, f)
      BY <3>1, <3>8, PaidSteps
    <3> QED
      BY <1>1, <2>1, <3>1, <3>2, <3>9 DEF Account, l, s, f
  <2>3. CASE ip # x
    <3>1. At("alarmed", ip)' = At("alarmed", ip)
      BY <1>1, <2>3, AtStays
    <3>2. brute'[ip] = brute[ip]
      BY <1>1, <2>3 DEF Accounts
    <3> QED
      BY <1>1, <2>1, <3>1, <3>2 DEF Account, Accounts
  <2> QED
    BY <2>2, <2>3
<1> QED
  BY <1>2, <1>3 DEF Accounts

(* A restart forgets deques, alarms on their way and rows not yet counted.  *)
LEMMA RestartKeepsAccounts ==
    ASSUME RequestsOK, Inv, Accounts, Restart
    PROVE  Accounts'
<1>1. /\ UNCHANGED <<brute, failed>> /\ \A ip \in IPs : histories'[ip] = <<>>
      /\ \A t \in Threads : pc'[t] = "idle"
  BY DEF Restart, DetectorRestart
<1>2. ASSUME NEW ip \in IPs PROVE Account(ip)'
  <2>1. At("alarmed", ip)' = {} /\ At("stored", ip)' = {}
    BY <1>1 DEF At
  <2>2. Cardinality(At("alarmed", ip)') = 0 /\ Cardinality(At("stored", ip)') = 0
    BY <2>1, CountThreads
  <2>3. Len(histories'[ip]) = 0
    BY <1>1, EmptySeq
  <2> QED
    BY <1>1, <2>2, <2>3, AccountTypes, PaidSteps DEF Account, Accounts
<1> QED
  BY <1>1, <1>2 DEF Accounts

(* Every step of the web process leaves every account in credit.            *)
LEMMA AccountsStep == RequestsOK /\ Inv /\ Accounts /\ [Next]_vars => Accounts'
<1> SUFFICES ASSUME RequestsOK, Inv, Accounts, [Next]_vars PROVE Accounts'
  OBVIOUS
<1>1. CASE ClockTick \/ Quiescent \/ UNCHANGED vars
  <2>1. UNCHANGED <<histories, brute, failed, pc, req>>
    BY <1>1 DEF ClockTick, Tick, Quiescent, vars, detectorVars, handlerVars
  <2> QED
    BY <2>1 DEF Accounts, Account, At
<1>2. CASE Restart
  BY <1>2, RestartKeepsAccounts
<1>3. ASSUME NEW t \in Threads, NEW ip \in IPs, Stamp(t, ip) PROVE Accounts'
  <2>1. /\ pc[t] = "idle" /\ Moves(t, "stamped")
        /\ UNCHANGED <<histories, brute, failed>>
    BY <1>3 DEF Stamp, Goto, Moves, RequestsOK, detectorVars
  <2> QED
    BY <2>1, MovesKeepAccounts
<1>4. ASSUME NEW t \in Threads, WriteLog(t) PROVE Accounts'
  <2>1. /\ pc[t] = "stamped" /\ Moves(t, "logged")
        /\ UNCHANGED <<histories, brute, failed>>
    BY <1>4 DEF WriteLog, Goto, Moves, RequestsOK, detectorVars
  <2> QED
    BY <2>1, MovesKeepAccounts
<1>5. ASSUME NEW t \in Threads, Notify(t) \/ LogFails(t) \/ StoreFails(t) PROVE Accounts'
  <2>1. /\ pc[t] # "stored" /\ Moves(t, "idle")
        /\ UNCHANGED <<histories, brute, failed>>
    BY <1>5 DEF Notify, LogFails, StoreFails, Reject, Finish, Goto, Moves, RequestsOK,
                detectorVars
  <2> QED
    BY <2>1, MovesKeepAccounts
<1>6. ASSUME NEW t \in Threads, Step(t) PROVE Accounts'
  BY <1>4, <1>5, <1>6, StoreFailedKeepsAccounts, DetectKeepsAccounts, StoreAlarmKeepsAccounts
     DEF Step
<1> QED
  BY <1>1, <1>2, <1>3, <1>5, <1>6 DEF Next

(* However many threads work on the logins of an address, and whatever      *)
(* fails or is restarted: every alarm, stored or on its way, rests on       *)
(* Threshold failed_login rows that no other alarm has used.                *)
THEOREM NoRowPaysTwice == Spec => []AlarmsAreBacked
<1>1. Init => Accounts
  <2> SUFFICES ASSUME Init, NEW ip \in IPs PROVE Account(ip)
    BY DEF Init, Accounts
  <2>1. At("alarmed", ip) = {} /\ At("stored", ip) = {}
    BY DEF Init, At
  <2>2. /\ Cardinality(At("alarmed", ip)) = 0 /\ Cardinality(At("stored", ip)) = 0
        /\ Len(histories[ip]) = 0 /\ brute[ip] = 0 /\ failed[ip] = 0
    BY <2>1, FS_EmptySet, EmptySeq DEF Init, DetectorInit
  <2>3. Paid(0, 0, 0, 0, 0)
    BY ThresholdAssumption DEF Paid
  <2> QED
    BY <2>2, <2>3 DEF Account
<1>2. Accounts => AlarmsAreBacked
  BY DEF Accounts, Account, Paid, AlarmsAreBacked
<1> QED
  BY <1>1, <1>2, AccountsStep, RequestsInvariant, PipelineWindows, PTL DEF Spec

-----------------------------------------------------------------------------
(* No row without its line, no answer without its row.                      *)

(* What a line of the log file holds.                                       *)
LogLine == [ip : IPs, stamp : Nat]

LogOK == /\ log \in Seq(LogLine)
         /\ \A t \in Threads : pc[t] # "idle" => req[t] \in LogLine

(* The whole seconds of a time are a number.                                *)
LEMMA WholeSeconds == ASSUME NEW a \in Nat, NEW b \in Nat \ {0} PROVE a \div b \in Nat
  OBVIOUS

(* Requests and the lines they become are well-typed.                       *)
LEMMA LogStep == RequestsOK /\ Inv /\ LogOK /\ [Next]_vars => LogOK'
<1> SUFFICES ASSUME RequestsOK, Inv, LogOK, [Next]_vars PROVE LogOK'
  OBVIOUS
<1> USE DEF LogOK, RequestsOK, Steps
<1>1. CASE ClockTick \/ Quiescent \/ UNCHANGED vars
  BY <1>1 DEF ClockTick, Quiescent, vars, handlerVars
<1>2. CASE Restart
  BY <1>2 DEF Restart
<1>3. ASSUME NEW t \in Threads, NEW ip \in IPs, Stamp(t, ip) PROVE LogOK'
  <2>1. LogStamp \in Nat
    BY TypeFacts, WholeSeconds, TicksPerSecondAssumption DEF Inv, LogStamp
  <2> QED
    BY <1>3, <2>1 DEF Stamp, Goto, LogLine
<1>4. ASSUME NEW t \in Threads, Step(t) PROVE LogOK'
  <2>1. CASE WriteLog(t)
    <3>1. req[t] \in LogLine /\ log' = Append(log, req[t])
      BY <2>1 DEF WriteLog
    <3>2. log' \in Seq(LogLine)
      BY <3>1, AppendProperties
    <3> QED
      BY <2>1, <3>2 DEF WriteLog, Goto
  <2>2. CASE ~ WriteLog(t)
    BY <1>4, <2>2 DEF Step, StoreFailed, Detect, StoreAlarm, Notify, Reject, Finish, Goto
  <2> QED
    BY <2>1, <2>2
<1>5. ASSUME NEW t \in Threads, LogFails(t) \/ StoreFails(t) PROVE LogOK'
  <2>1. log' \in Seq(LogLine)
    <3>1. pc[t] = "stamped" => req[t] \in LogLine /\ Append(log, req[t]) \in Seq(LogLine)
      BY AppendProperties
    <3> QED
      BY <1>5, <3>1 DEF LogFails, StoreFails
  <2> QED
    BY <1>5, <2>1 DEF LogFails, StoreFails, Finish, Goto
<1> QED
  BY <1>1, <1>2, <1>3, <1>4, <1>5 DEF Next

(* The line of a thread is counted for its address, and for no other.       *)
LEMMA LinesGrow ==
    ASSUME NEW r \in LogLine, LogOK, NEW ip
    PROVE  /\ Lines(ip) \in Nat
           /\ log' = log => Lines(ip)' = Lines(ip)
           /\ log' = Append(log, r) =>
                 Lines(ip)' = IF r.ip = ip THEN Lines(ip) + 1 ELSE Lines(ip)
<1> DEFINE n == Len(log)
           A == {i \in 1 .. n : log[i].ip = ip}
<1>1. n \in Nat
  BY LenProperties DEF LogOK
<1>2. IsFiniteSet(A) /\ n + 1 \notin A
  <2>1. A \subseteq 1 .. n /\ n + 1 \notin 1 .. n /\ IsFiniteSet(1 .. n)
    BY <1>1, FS_Interval
  <2> QED
    BY <2>1, FS_Subset
<1>3. ASSUME log' = Append(log, r)
      PROVE  {i \in 1 .. Len(log') : log'[i].ip = ip} = IF r.ip = ip THEN A \cup {n + 1} ELSE A
  <2>1. /\ Len(log') = n + 1 /\ log'[n + 1] = r /\ \A i \in 1 .. n : log'[i] = log[i]
        /\ 1 .. n + 1 = (1 .. n) \cup {n + 1}
    BY <1>1, <1>3, AppendProperties DEF LogOK
  <2> HIDE DEF n
  <2> QED
    BY <1>1, <2>1
<1>4. Lines(ip) \in Nat
  BY <1>2, FS_CardinalityType DEF Lines
<1> QED
  BY <1>2, <1>3, <1>4, FS_AddElement DEF Lines

(* What is known of an address: l lines, f rows, a answers, w threads with  *)
(* a line and no row yet, and s, g, n threads with a row and no answer yet. *)
Covered(l, f, a, w, s, g, n) == f + w <= l /\ a + s + g + n <= f

Coverage(ip) ==
    Covered(Lines(ip), failed[ip], acked[ip],
            Cardinality(At("logged", ip)), Cardinality(At("stored", ip)),
            Cardinality(At("alarmed", ip)), Cardinality(At("notifying", ip)))

RowsCovered == /\ failed \in [IPs -> Nat] /\ acked \in [IPs -> Nat]
               /\ \A ip \in IPs : Coverage(ip)

(* Everything a coverage is made of is a number.                            *)
LEMMA CoverageTypes ==
    ASSUME RowsCovered, LogOK, NEW ip \in IPs
    PROVE  /\ failed[ip] \in Nat /\ acked[ip] \in Nat /\ Lines(ip) \in Nat
           /\ \A s : Cardinality(At(s, ip)) \in Nat
<1>1. \A s : At(s, ip) \in SUBSET Threads
  BY DEF At
<1>2. [ip |-> ip, stamp |-> 0] \in LogLine
  BY DEF LogLine
<1> QED
  BY <1>1, <1>2, CountThreads, LinesGrow DEF RowsCovered

(* A move of thread t from step p to step q changes the counts of the       *)
(* request's address at these two steps, and no other count.                *)
LEMMA CountsMove ==
    ASSUME RequestsOK, NEW t \in Threads, NEW p, pc[t] = p, NEW q, Moves(t, q), q # p, NEW ip
    PROVE  /\ req[t].ip = ip => /\ Cardinality(At(p, ip)') = Cardinality(At(p, ip)) - 1
                                /\ Cardinality(At(p, ip)) > 0
           /\ req'[t].ip = ip => Cardinality(At(q, ip)') = Cardinality(At(q, ip)) + 1
           /\ \A s : (s # p \/ req[t].ip # ip) /\ (s # q \/ req'[t].ip # ip) =>
                 Cardinality(At(s, ip)') = Cardinality(At(s, ip))
<1>1. ASSUME req[t].ip = ip
      PROVE  /\ Cardinality(At(p, ip)') = Cardinality(At(p, ip)) - 1
             /\ Cardinality(At(p, ip)) > 0
  BY <1>1, AtLeaves
<1>2. ASSUME req'[t].ip = ip PROVE Cardinality(At(q, ip)') = Cardinality(At(q, ip)) + 1
  BY <1>2, AtJoins
<1>3. ASSUME NEW s, s # p \/ req[t].ip # ip, s # q \/ req'[t].ip # ip
      PROVE  Cardinality(At(s, ip)') = Cardinality(At(s, ip))
  BY <1>3, AtStays
<1> QED
  BY <1>1, <1>2, <1>3


(* Thread t moves on for x and changes what is known of x alone: what is    *)
(* known of the other addresses stays covered.                              *)
LEMMA OthersCovered ==
    ASSUME RequestsOK, RowsCovered, NEW t \in Threads, NEW p, pc[t] = p, NEW q, Moves(t, q),
           q # p, NEW ip \in IPs, req[t].ip # ip, q = "idle" \/ req'[t].ip # ip,
           Lines(ip)' = Lines(ip), failed'[ip] = failed[ip], acked'[ip] = acked[ip]
    PROVE  Coverage(ip)'
<1>1. \A s : s # "idle" => Cardinality(At(s, ip)') = Cardinality(At(s, ip))
  BY CountsMove
<1> QED
  BY <1>1 DEF Coverage, RowsCovered

(* The steps of a request: from where to where, and how many lines, rows    *)
(* and answers its address has more of (app/__init__.py:179-195).           *)
Moved(p, q, dl, df, da) ==
    \/ p = "stamped"   /\ q = "logged"    /\ dl = 1 /\ df = 0 /\ da = 0
    \/ p = "logged"    /\ q = "stored"    /\ dl = 0 /\ df = 1 /\ da = 0
    \/ p = "stored"    /\ q = "alarmed"   /\ dl = 0 /\ df = 0 /\ da = 0
    \/ p = "stored"    /\ q = "idle"      /\ dl = 0 /\ df = 0 /\ da = 1
    \/ p = "alarmed"   /\ q = "notifying" /\ dl = 0 /\ df = 0 /\ da = 0
    \/ p = "notifying" /\ q = "idle"      /\ dl = 0 /\ df = 0 /\ da = 1
    \/ p \in {"logged", "alarmed"} /\ q = "idle" /\ dl = 0 /\ df = 0 /\ da = 0
    \/ p = "stamped"   /\ q = "idle" /\ dl \in {0, 1} /\ df = 0 /\ da = 0

(* Thread t moves from p to q with a request of address x.                  *)
Passes(t, p, q, x) == /\ pc[t] = p /\ req[t].ip = x /\ Moves(t, q)
                      /\ q = "idle" \/ req'[t].ip = x

(* The count of address x is d more, the others are what they were.         *)
Raised(count, x, d) == [ip \in IPs |-> IF ip = x THEN count[ip] + d ELSE count[ip]]

(* Address x has dl lines, df rows and da answers more, no other has.       *)
Charged(x, dl, df, da) ==
    /\ failed' = Raised(failed, x, df) /\ acked' = Raised(acked, x, da)
    /\ \A ip \in IPs : Lines(ip)' = IF ip = x THEN Lines(ip) + dl ELSE Lines(ip)

(* A table that is left alone, and one whose count of x goes up by one.     *)
LEMMA RaisedCount ==
    ASSUME NEW count \in [IPs -> Nat], NEW x \in IPs
    PROVE  /\ count = Raised(count, x, 0)
           /\ [count EXCEPT ![x] = @ + 1] = Raised(count, x, 1)
<1>1. count = [ip \in IPs |-> count[ip]] /\ \A ip \in IPs : count[ip] \in Nat
  OBVIOUS
<1>2. \A ip \in IPs : (IF ip = x THEN count[ip] + 0 ELSE count[ip]) = count[ip]
  BY <1>1
<1>3. count = Raised(count, x, 0)
  BY <1>1, <1>2 DEF Raised
<1>4. [count EXCEPT ![x] = @ + 1] = Raised(count, x, 1)
  BY <1>1 DEF Raised
<1> QED
  BY <1>3, <1>4

(* Each of them leaves the rows covered.                                    *)
LEMMA MovesStayCovered ==
    ASSUME RequestsOK, RowsCovered, LogOK, NEW t \in Threads, NEW x \in IPs,
           NEW p, NEW q, Passes(t, p, q, x),
           NEW dl, NEW df, NEW da, Moved(p, q, dl, df, da), Charged(x, dl, df, da)
    PROVE  RowsCovered'
<1> USE DEF Passes, Charged, Raised
<1>1. p # q /\ df \in Nat /\ da \in Nat /\ dl \in Nat
  BY DEF Moved
<1>2. /\ failed' \in [IPs -> Nat] /\ acked' \in [IPs -> Nat]
      /\ \A ip \in IPs \ {x} : failed'[ip] = failed[ip] /\ acked'[ip] = acked[ip]
      /\ failed'[x] = failed[x] + df /\ acked'[x] = acked[x] + da
  BY <1>1 DEF RowsCovered
<1>3. ASSUME NEW ip \in IPs, ip # x PROVE Coverage(ip)'
  BY <1>1, <1>2, <1>3, OthersCovered
<1>4. Coverage(x)'
  <2> DEFINE c(s) == Cardinality(At(s, x))
             d(s) == Cardinality(At(s, x)')
  <2>1. c(p) > 0 /\ d(p) = c(p) - 1
    BY <1>1, CountsMove
  <2>2. q # "idle" => d(q) = c(q) + 1
    BY <1>1, CountsMove
  <2>3. \A s : s # p /\ s # q => d(s) = c(s)
    BY <1>1, CountsMove
  <2>4. \A s : c(s) \in Nat
    BY CoverageTypes
  <2>5. Lines(x)' = Lines(x) + dl /\ failed[x] \in Nat /\ acked[x] \in Nat /\ Lines(x) \in Nat
    BY CoverageTypes
  <2>6. Covered(Lines(x), failed[x], acked[x], c("logged"), c("stored"), c("alarmed"),
                c("notifying"))
    BY DEF RowsCovered, Coverage
  <2> HIDE DEF c, d
  <2>7. Covered(Lines(x) + dl, failed[x] + df, acked[x] + da, d("logged"), d("stored"),
                d("alarmed"), d("notifying"))
    BY <2>1, <2>2, <2>3, <2>4, <2>5, <2>6 DEF Covered, Moved
  <2> QED
    BY <1>2, <2>5, <2>7 DEF Coverage, d
<1> QED
  BY <1>2, <1>3, <1>4 DEF RowsCovered

(* Every step of the web process keeps them covered.                        *)
LEMMA CoveredStep == RequestsOK /\ LogOK /\ RowsCovered /\ [Next]_vars => RowsCovered'
<1> SUFFICES ASSUME RequestsOK, LogOK, RowsCovered, [Next]_vars PROVE RowsCovered'
  OBVIOUS
<1>1. CASE ClockTick \/ Quiescent \/ UNCHANGED vars
  <2>1. UNCHANGED <<log, failed, acked, pc, req>>
    BY <1>1 DEF ClockTick, Quiescent, vars, handlerVars
  <2> QED
    BY <2>1 DEF RowsCovered, Coverage, Lines, At
<1>2. CASE Restart
  <2>1. UNCHANGED <<log, failed, acked>> /\ \A t \in Threads : pc'[t] = "idle"
    BY <1>2 DEF Restart
  <2>2. ASSUME NEW ip \in IPs PROVE Coverage(ip)'
    <3>1. \A s : s # "idle" => At(s, ip)' = {}
      BY <2>1 DEF At
    <3>2. \A s : s # "idle" => Cardinality(At(s, ip)') = 0
      BY <3>1, CountThreads
    <3>3. Lines(ip)' = Lines(ip)
      BY <2>1 DEF Lines
    <3>4. Coverage(ip)
      BY DEF RowsCovered
    <3> QED
      BY <2>1, <3>2, <3>3, <3>4, CoverageTypes DEF Coverage, Covered
  <2> QED
    BY <2>1, <2>2 DEF RowsCovered
<1>3. ASSUME NEW t \in Threads, NEW ip \in IPs, Stamp(t, ip) PROVE RowsCovered'
  <2>1. /\ UNCHANGED <<log, failed, acked>> /\ pc[t] = "idle" /\ Moves(t, "stamped")
    BY <1>3 DEF Stamp, Goto, Moves, RequestsOK
  <2>2. ASSUME NEW i \in IPs PROVE Coverage(i)'
    <3>1. \A s : s # "idle" /\ s # "stamped" => At(s, i)' = At(s, i)
      BY <2>1, AtStays
    <3>2. Lines(i)' = Lines(i)
      BY <2>1 DEF Lines
    <3> QED
      BY <2>1, <3>1, <3>2 DEF RowsCovered, Coverage
  <2> QED
    BY <2>1, <2>2 DEF RowsCovered
<1>4. ASSUME NEW t \in Threads, Step(t) \/ LogFails(t) \/ StoreFails(t) PROVE RowsCovered'
  <2>1. req[t].ip \in IPs /\ req[t] \in LogLine
    BY <1>4 DEF Step, WriteLog, StoreFailed, Detect, StoreAlarm, Notify, LogFails, StoreFails,
                RequestsOK, LogOK
  <2>2. PICK x \in IPs : req[t].ip = x
    BY <2>1
  <2>3. CASE WriteLog(t)
    <3>1. Passes(t, "stamped", "logged", x)
      BY <2>2, <2>3 DEF WriteLog, Goto, Passes, Moves, RequestsOK
    <3>2. log' = Append(log, req[t]) /\ failed' = failed /\ acked' = acked
      BY <2>2, <2>3 DEF WriteLog, Goto
    <3>3. Charged(x, 1, 0, 0)
      BY <2>1, <2>2, <3>2, LinesGrow, RaisedCount DEF RowsCovered, Charged
    <3>4. Moved("stamped", "logged", 1, 0, 0)
      BY DEF Moved
    <3> QED
      BY <3>1, <3>3, <3>4, MovesStayCovered
  <2>4. CASE StoreFailed(t)
    <3>1. Passes(t, "logged", "stored", x)
      BY <2>2, <2>4 DEF StoreFailed, Goto, Passes, Moves, RequestsOK
    <3>2. log' = log /\ failed' = [failed EXCEPT ![x] = @ + 1] /\ acked' = acked
      BY <2>2, <2>4 DEF StoreFailed, Goto
    <3>3. Charged(x, 0, 1, 0)
      BY <2>1, <2>2, <3>2, LinesGrow, RaisedCount DEF RowsCovered, Charged
    <3>4. Moved("logged", "stored", 0, 1, 0)
      BY DEF Moved
    <3> QED
      BY <3>1, <3>3, <3>4, MovesStayCovered
  <2>5. CASE Detect(t) /\ pc'[t] # "idle"
    <3>1. Passes(t, "stored", "alarmed", x)
      BY <2>2, <2>5 DEF Detect, Reject, Finish, Goto, Passes, Moves, RequestsOK
    <3>2. log' = log /\ failed' = failed /\ acked' = acked
      BY <2>2, <2>5 DEF Detect, Reject, Finish, Goto, RequestsOK
    <3>3. Charged(x, 0, 0, 0)
      BY <2>1, <2>2, <3>2, LinesGrow, RaisedCount DEF RowsCovered, Charged
    <3>4. Moved("stored", "alarmed", 0, 0, 0)
      BY DEF Moved
    <3> QED
      BY <3>1, <3>3, <3>4, MovesStayCovered
  <2>6. CASE Detect(t) /\ pc'[t] = "idle"
    <3>1. Passes(t, "stored", "idle", x)
      BY <2>2, <2>6 DEF Detect, Reject, Finish, Goto, Passes, Moves, RequestsOK
    <3>2. log' = log /\ failed' = failed /\ acked' = [acked EXCEPT ![x] = @ + 1]
      BY <2>2, <2>6 DEF Detect, Reject, Finish, Goto, RequestsOK
    <3>3. Charged(x, 0, 0, 1)
      BY <2>1, <2>2, <3>2, LinesGrow, RaisedCount DEF RowsCovered, Charged
    <3>4. Moved("stored", "idle", 0, 0, 1)
      BY DEF Moved
    <3> QED
      BY <3>1, <3>3, <3>4, MovesStayCovered
  <2>7. CASE StoreAlarm(t)
    <3>1. Passes(t, "alarmed", "notifying", x)
      BY <2>2, <2>7 DEF StoreAlarm, Goto, Passes, Moves, RequestsOK
    <3>2. log' = log /\ failed' = failed /\ acked' = acked
      BY <2>2, <2>7 DEF StoreAlarm, Goto
    <3>3. Charged(x, 0, 0, 0)
      BY <2>1, <2>2, <3>2, LinesGrow, RaisedCount DEF RowsCovered, Charged
    <3>4. Moved("alarmed", "notifying", 0, 0, 0)
      BY DEF Moved
    <3> QED
      BY <3>1, <3>3, <3>4, MovesStayCovered
  <2>8. CASE Notify(t)
    <3>1. Passes(t, "notifying", "idle", x)
      BY <2>2, <2>8 DEF Notify, Reject, Finish, Goto, Passes, Moves, RequestsOK
    <3>2. log' = log /\ failed' = failed /\ acked' = [acked EXCEPT ![x] = @ + 1]
      BY <2>2, <2>8 DEF Notify, Reject, Finish, Goto
    <3>3. Charged(x, 0, 0, 1)
      BY <2>1, <2>2, <3>2, LinesGrow, RaisedCount DEF RowsCovered, Charged
    <3>4. Moved("notifying", "idle", 0, 0, 1)
      BY DEF Moved
    <3> QED
      BY <3>1, <3>3, <3>4, MovesStayCovered
  <2>9. CASE LogFails(t) /\ log' = log
    <3>1. Passes(t, "stamped", "idle", x)
      BY <2>2, <2>9 DEF LogFails, Finish, Goto, Passes, Moves, RequestsOK
    <3>2. log' = log /\ failed' = failed /\ acked' = acked
      BY <2>2, <2>9 DEF LogFails, Finish, Goto
    <3>3. Charged(x, 0, 0, 0)
      BY <2>1, <2>2, <3>2, LinesGrow, RaisedCount DEF RowsCovered, Charged
    <3>4. Moved("stamped", "idle", 0, 0, 0)
      BY DEF Moved
    <3> QED
      BY <3>1, <3>3, <3>4, MovesStayCovered
  <2>10. CASE LogFails(t) /\ log' # log
    <3>1. Passes(t, "stamped", "idle", x)
      BY <2>2, <2>10 DEF LogFails, Finish, Goto, Passes, Moves, RequestsOK
    <3>2. log' = Append(log, req[t]) /\ failed' = failed /\ acked' = acked
      BY <2>2, <2>10 DEF LogFails, Finish, Goto
    <3>3. Charged(x, 1, 0, 0)
      BY <2>1, <2>2, <3>2, LinesGrow, RaisedCount DEF RowsCovered, Charged
    <3>4. Moved("stamped", "idle", 1, 0, 0)
      BY DEF Moved
    <3> QED
      BY <3>1, <3>3, <3>4, MovesStayCovered
  <2>11. CASE StoreFails(t)
    <3>1. PICK p \in {"logged", "alarmed"} : Passes(t, p, "idle", x)
      BY <2>2, <2>11 DEF StoreFails, Finish, Goto, Passes, Moves, RequestsOK
    <3>2. log' = log /\ failed' = failed /\ acked' = acked
      BY <2>11 DEF StoreFails
    <3>3. Charged(x, 0, 0, 0)
      BY <2>1, <2>2, <3>2, LinesGrow, RaisedCount DEF RowsCovered, Charged
    <3>4. Moved(p, "idle", 0, 0, 0)
      BY DEF Moved
    <3> QED
      BY <3>1, <3>3, <3>4, MovesStayCovered
  <2> QED
    BY <1>4, <2>3, <2>4, <2>5, <2>6, <2>7, <2>8, <2>9, <2>10, <2>11 DEF Step
<1> QED
  BY <1>1, <1>2, <1>3, <1>4 DEF Next

(* Whatever fails or dies, however requests interleave: an answer           *)
(* "incorrect" has its failed_login row and the row its line in the file.   *)
THEOREM RowsStayLogged == Spec => []RowsAreLogged
<1>1. Init => LogOK /\ RowsCovered
  <2> SUFFICES ASSUME Init PROVE LogOK /\ RowsCovered
    OBVIOUS
  <2>1. LogOK
    BY EmptySeq DEF Init, LogOK
  <2>2. failed \in [IPs -> Nat] /\ acked \in [IPs -> Nat]
    BY DEF Init
  <2>3. ASSUME NEW ip \in IPs PROVE Coverage(ip)
    <3>1. \A s : s # "idle" => At(s, ip) = {}
      BY DEF Init, At
    <3>2. \A s : s # "idle" => Cardinality(At(s, ip)) = 0
      BY <3>1, FS_EmptySet
    <3>3. {i \in 1 .. Len(log) : log[i].ip = ip} = {}
      BY EmptySeq DEF Init
    <3>4. Lines(ip) = 0 /\ failed[ip] = 0 /\ acked[ip] = 0
      BY <3>3, FS_EmptySet DEF Lines, Init
    <3> QED
      BY <3>2, <3>4 DEF Coverage, Covered
  <2> QED
    BY <2>1, <2>2, <2>3 DEF RowsCovered
<1>2. RowsCovered /\ LogOK => RowsAreLogged
  <2> SUFFICES ASSUME RowsCovered, LogOK, NEW ip \in IPs
               PROVE  /\ failed[ip] + Cardinality(At("logged", ip)) <= Lines(ip)
                      /\ acked[ip] + Cardinality(At("stored", ip)) <= failed[ip]
    BY DEF RowsAreLogged
  <2>1. Coverage(ip)
    BY DEF RowsCovered
  <2> QED
    BY <2>1, CoverageTypes DEF Coverage, Covered
<1> QED
  BY <1>1, <1>2, LogStep, CoveredStep, RequestsInvariant, PipelineWindows, PTL DEF Spec

-----------------------------------------------------------------------------
(* The terminal monitor reads what the web process writes.                  *)

(* The time printed in the line read last.                                  *)
LastStamp == IF position = 0 THEN 0 ELSE log[position].stamp

MonitorTyped ==
    /\ position \in 0 .. Len(log)
    /\ deques \in [IPs -> Seq(Nat)]
    /\ unspent \in [IPs -> Seq(Nat)]
    /\ verdict = [ip \in IPs |-> verdict[ip]]

(* Of lines in the order of their times, the monitor's deque of an address  *)
(* holds the window.                                                        *)
MonitorWindows ==
    OrderedUpTo(position) =>
        \A ip \in IPs : WindowInv(deques[ip], unspent[ip], LastStamp, WindowSeconds)

MonitorInv == RequestsOK /\ LogOK /\ MonitorTyped /\ MonitorWindows

(* The window of the monitor, in seconds.                                   *)
LEMMA SecondsAreNat == WindowSeconds \in Nat
BY WholeSeconds, WindowAssumption, TicksPerSecondAssumption DEF WindowSeconds

(* A step of the monitor is one of the web process, or leaves it alone but  *)
(* for the count of failures.                                               *)
LEMMA MonitorSteps ==
    ASSUME [MonitorNext]_allVars
    PROVE  \/ [Next]_vars /\ UNCHANGED monitorVars
           \/ ReadLine
           \/ MonitorRestart
BY DEF MonitorNext, allVars

(* The monitor leaves the detector of the web process and its handlers      *)
(* alone (monitor/detector.py:104-118 opens the log file and nothing else). *)
LEMMA MonitorKeepsPipeline ==
    ASSUME RequestsOK, [MonitorNext]_allVars
    PROVE  RequestsOK' /\ [DetectorNext]_detectorVars
<1>1. CASE [Next]_vars
  BY <1>1, RequestsStep, DetectorStep
<1>2. CASE ReadLine \/ MonitorRestart
  BY <1>2 DEF ReadLine, MonitorRestart, vars, handlerVars, detectorVars, RequestsOK
<1> QED
  BY <1>1, <1>2, MonitorSteps

(* The detector of the web process runs the same beside a monitor.          *)
THEOREM MonitorRunsTheDetector == MonitorSpec => DetectorSpec
<1>1. MonitorInit => RequestsOK /\ DetectorInit
  BY DEF MonitorInit, Init, RequestsOK, Steps
<1>2. RequestsOK /\ [MonitorNext]_allVars => RequestsOK'
  BY MonitorKeepsPipeline
<1>3. RequestsOK /\ [MonitorNext]_allVars => [DetectorNext]_detectorVars
  BY MonitorKeepsPipeline
<1> QED
  BY <1>1, <1>2, <1>3, PTL DEF MonitorSpec, DetectorSpec

(* Nothing but appending happens to the log file.                           *)
LEMMA LogOnlyGrows ==
    ASSUME RequestsOK, LogOK, [Next]_vars
    PROVE  \/ log' = log
           \/ \E r \in LogLine : log' = Append(log, r)
<1>1. CASE ClockTick \/ Restart \/ Quiescent \/ UNCHANGED vars
  BY <1>1 DEF ClockTick, Restart, Quiescent, vars, handlerVars
<1>2. ASSUME NEW t \in Threads, NEW ip \in IPs, Stamp(t, ip) PROVE log' = log
  BY <1>2 DEF Stamp
<1>3. ASSUME NEW t \in Threads, Step(t) \/ LogFails(t) \/ StoreFails(t)
      PROVE  log' = log \/ (pc[t] = "stamped" /\ log' = Append(log, req[t]))
  BY <1>3 DEF Step, WriteLog, StoreFailed, Detect, StoreAlarm, Notify, LogFails, StoreFails
<1>4. \A t \in Threads : pc[t] = "stamped" => req[t] \in LogLine
  BY DEF LogOK
<1> QED
  BY <1>1, <1>2, <1>3, <1>4 DEF Next

(* One more line in the file changes nothing of what was read.              *)
LEMMA WritesKeepMonitor ==
    ASSUME MonitorInv, [Next]_vars, UNCHANGED monitorVars
    PROVE  MonitorTyped' /\ MonitorWindows'
<1>1. /\ position' = position /\ deques' = deques /\ unspent' = unspent /\ verdict' = verdict
      /\ position \in 0 .. Len(log) /\ Len(log) \in Nat
  BY LenProperties DEF monitorVars, MonitorInv, MonitorTyped, LogOK
<1>2. /\ Len(log') \in Nat /\ Len(log) <= Len(log')
      /\ \A i \in 1 .. Len(log) : log'[i] = log[i]
  <2>1. CASE log' = log
    BY <1>1, <2>1
  <2>2. ASSUME NEW r \in LogLine, log' = Append(log, r)
        PROVE  /\ Len(log') \in Nat /\ Len(log) <= Len(log')
               /\ \A i \in 1 .. Len(log) : log'[i] = log[i]
    BY <1>1, <2>2, AppendProperties DEF MonitorInv, LogOK
  <2> QED
    BY <2>1, <2>2, LogOnlyGrows DEF MonitorInv
<1>3. MonitorTyped'
  BY <1>1, <1>2 DEF MonitorInv, MonitorTyped
<1>4. \A i \in 1 .. position : log'[i] = log[i]
  BY <1>1, <1>2
<1>5. LastStamp' = LastStamp /\ (OrderedUpTo(position)' => OrderedUpTo(position))
  <2>1. position # 0 => position \in 1 .. position
    BY <1>1
  <2>2. LastStamp' = LastStamp
    BY <1>1, <1>4, <2>1 DEF LastStamp
  <2> QED
    BY <1>1, <1>4, <2>2 DEF OrderedUpTo
<1>6. MonitorWindows'
  BY <1>1, <1>5 DEF MonitorInv, MonitorWindows, WindowSeconds
<1> QED
  BY <1>3, <1>6

(* A monitor that starts knows nothing, which is the whole window.          *)
LEMMA FreshMonitor ==
    ASSUME LogOK, NEW p \in 0 .. Len(log)
    PROVE  p = 0 \/ log[p].stamp \in Nat
<1>1. \A i \in 1 .. Len(log) : log[i].stamp \in Nat
  <2>1. \A i \in 1 .. Len(log) : log[i] \in LogLine
    BY ElementOfSeq DEF LogOK
  <2> QED
    BY <2>1 DEF LogLine
<1> QED
  BY <1>1, LenProperties DEF LogOK

(* What the next line says, and what recording it makes of the deque of its *)
(* address.                                                                 *)
LEMMA LineRead ==
    ASSUME MonitorInv, ReadLine, NEW x, x = log[position + 1].ip,
           NEW u, u = log[position + 1].stamp,
           NEW r, r = RecordAttempt(deques[x], u, WindowSeconds)
    PROVE  /\ x \in IPs /\ u \in Nat
           /\ position \in Nat /\ position' = position + 1 /\ position' \in 0 .. Len(log)
           /\ log' = log
           /\ deques' = [deques EXCEPT ![x] = r.history]
           /\ verdict' = [verdict EXCEPT ![x] = [alarm |-> r.alarm, count |-> r.count]]
           /\ unspent' = [unspent EXCEPT ![x] =
                             IF r.alarm THEN <<>> ELSE Append(unspent[x], u)]
<1>1. /\ position < Len(log) /\ position \in 0 .. Len(log) /\ Len(log) \in Nat
      /\ log \in Seq(LogLine)
  BY LenProperties DEF MonitorInv, MonitorTyped, LogOK, ReadLine
<1>2. log[position + 1] \in LogLine
  BY <1>1, ElementOfSeq
<1>3. x \in IPs /\ u \in Nat
  BY <1>2 DEF LogLine
<1>4. position' = position + 1 /\ log' = log
  BY DEF ReadLine, vars, handlerVars
<1>5. /\ deques' = [deques EXCEPT ![x] = r.history]
      /\ verdict' = [verdict EXCEPT ![x] = [alarm |-> r.alarm, count |-> r.count]]
      /\ unspent' = [unspent EXCEPT ![x] = IF r.alarm THEN <<>> ELSE Append(unspent[x], u)]
  BY DEF ReadLine
<1> QED
  BY <1>1, <1>3, <1>4, <1>5

(* Of lines in order, all deques held the window at the time of the line    *)
(* that is read now.                                                        *)
LEMMA WindowsAtLine ==
    ASSUME MonitorInv, ReadLine, OrderedUpTo(position + 1), NEW ip \in IPs,
           NEW u, u = log[position + 1].stamp
    PROVE  WindowInv(deques[ip], unspent[ip], u, WindowSeconds)
<1>1. u \in Nat /\ position \in Nat /\ position + 1 \in 0 .. Len(log)
  <2>1. PICK x, r : x = log[position + 1].ip /\ r = RecordAttempt(deques[x], u, WindowSeconds)
    OBVIOUS
  <2>2. u \in Nat /\ position \in Nat /\ position' = position + 1 /\ position' \in 0 .. Len(log)
    BY <2>1, LineRead
  <2> QED
    BY <2>2
<1>2. OrderedUpTo(position)
  BY <1>1 DEF OrderedUpTo
<1>3. WindowInv(deques[ip], unspent[ip], LastStamp, WindowSeconds)
  BY <1>2 DEF MonitorInv, MonitorWindows
<1>4. LastStamp \in Nat /\ LastStamp <= u
  <2>1. CASE position = 0
    BY <1>1, <2>1 DEF LastStamp
  <2>2. CASE position # 0
    <3>1. position \in 1 .. position + 1 /\ position + 1 \in 1 .. position + 1
      BY <1>1, <2>2
    <3>2. log[position].stamp <= u
      BY <1>1, <3>1 DEF OrderedUpTo
    <3>3. log[position].stamp \in Nat
      BY <1>1, <2>2, FreshMonitor DEF MonitorInv, MonitorTyped
    <3> QED
      BY <2>2, <3>2, <3>3 DEF LastStamp
  <2> QED
    BY <2>1, <2>2
<1>5. deques[ip] \in Seq(Nat) /\ unspent[ip] \in Seq(Nat)
  BY DEF MonitorInv, MonitorTyped
<1> QED
  BY <1>1, <1>3, <1>4, <1>5, TimeKeepsWindow, SecondsAreNat

(* Reading a line keeps the windows of the monitor.                         *)
LEMMA ReadLineKeepsMonitor ==
    ASSUME MonitorInv, ReadLine
    PROVE  MonitorTyped' /\ MonitorWindows'
<1>1. PICK x, u, r : /\ x = log[position + 1].ip /\ u = log[position + 1].stamp
                     /\ r = RecordAttempt(deques[x], u, WindowSeconds)
  OBVIOUS
<1>2. /\ x \in IPs /\ u \in Nat
      /\ position \in Nat /\ position' = position + 1 /\ position' \in 0 .. Len(log)
      /\ log' = log
      /\ deques' = [deques EXCEPT ![x] = r.history]
      /\ verdict' = [verdict EXCEPT ![x] = [alarm |-> r.alarm, count |-> r.count]]
      /\ unspent' = [unspent EXCEPT ![x] = IF r.alarm THEN <<>> ELSE Append(unspent[x], u)]
  <2>1. /\ x \in IPs /\ u \in Nat
        /\ position \in Nat /\ position' = position + 1 /\ position' \in 0 .. Len(log)
        /\ log' = log
    BY <1>1, LineRead
  <2>2. /\ deques' = [deques EXCEPT ![x] = r.history]
        /\ verdict' = [verdict EXCEPT ![x] = [alarm |-> r.alarm, count |-> r.count]]
        /\ unspent' = [unspent EXCEPT ![x] = IF r.alarm THEN <<>> ELSE Append(unspent[x], u)]
    BY <1>1 DEF ReadLine
  <2> QED
    BY <2>1, <2>2
<1>3. deques \in [IPs -> Seq(Nat)] /\ unspent \in [IPs -> Seq(Nat)]
  BY DEF MonitorInv, MonitorTyped
<1>4. r.history \in Seq(Nat)
  <2>1. deques[x] \in Seq(Nat)
    BY <1>2, <1>3
  <2> QED
    BY <1>1, <1>2, <2>1, RecordAttemptProperties, SecondsAreNat
<1>5. <<>> \in Seq(Nat) /\ Append(unspent[x], u) \in Seq(Nat)
  <2>1. unspent[x] \in Seq(Nat)
    BY <1>2, <1>3
  <2> QED
    BY <1>2, <2>1, EmptySeq, AppendProperties
<1>6. MonitorTyped'
  <2>1. verdict' = [ip \in IPs |-> verdict'[ip]]
    BY <1>2 DEF MonitorInv, MonitorTyped
  <2>2. deques' \in [IPs -> Seq(Nat)]
    BY <1>2, <1>3, <1>4
  <2>3. unspent' \in [IPs -> Seq(Nat)]
    BY <1>2, <1>3, <1>5
  <2> QED
    BY <1>2, <2>1, <2>2, <2>3 DEF MonitorTyped
<1>7. MonitorWindows'
  <2> SUFFICES ASSUME OrderedUpTo(position)', NEW ip \in IPs
               PROVE  WindowInv(deques'[ip], unspent'[ip], LastStamp', WindowSeconds)
    BY DEF MonitorWindows, WindowSeconds
  <2>1. OrderedUpTo(position + 1)
    BY <1>2 DEF OrderedUpTo
  <2>2. LastStamp' = u
    BY <1>1, <1>2 DEF LastStamp
  <2>3. WindowInv(deques[ip], unspent[ip], u, WindowSeconds)
    BY <1>1, <2>1, WindowsAtLine
  <2>4. CASE ip = x
    <3>1. /\ deques'[ip] = r.history
          /\ unspent'[ip] = IF r.alarm THEN <<>> ELSE Append(unspent[ip], u)
      BY <1>2, <1>3, <2>4
    <3>2. deques[ip] \in Seq(Nat) /\ unspent[ip] \in Seq(Nat)
      BY <1>3
    <3> QED
      BY <1>1, <1>2, <2>2, <2>3, <2>4, <3>1, <3>2, AttemptKeepsWindow, SecondsAreNat
  <2>5. CASE ip # x
    <3>1. deques'[ip] = deques[ip] /\ unspent'[ip] = unspent[ip]
      BY <1>2, <1>3, <2>5
    <3> QED
      BY <2>2, <2>3, <3>1
  <2> QED
    BY <2>4, <2>5
<1> QED
  BY <1>6, <1>7

(* Starting again keeps them too: the deques are empty, wherever the        *)
(* monitor takes up the file.                                               *)
LEMMA StartKeepsMonitor ==
    ASSUME LogOK, Fresh(StartPosition) \/ Fresh(0)
    PROVE  MonitorTyped /\ MonitorWindows
<1>1. Len(log) \in Nat
  BY LenProperties DEF LogOK
<1>2. /\ position \in 0 .. Len(log)
      /\ deques = [ip \in IPs |-> <<>>] /\ unspent = [ip \in IPs |-> <<>>]
      /\ verdict = [ip \in IPs |-> NoAnswer]
  BY <1>1 DEF Fresh, StartPosition
<1>3. MonitorTyped
  BY <1>2, EmptySeq DEF MonitorTyped
<1>4. LastStamp \in Nat
  BY <1>2, FreshMonitor DEF LastStamp
<1>5. MonitorWindows
  BY <1>2, <1>4, EmptyWindow, SecondsAreNat DEF MonitorWindows
<1> QED
  BY <1>3, <1>5

(* The windows of the monitor through all of this: inductive.               *)
LEMMA MonitorStep == Inv /\ MonitorInv /\ [MonitorNext]_allVars => MonitorInv'
<1> SUFFICES ASSUME Inv, MonitorInv, [MonitorNext]_allVars PROVE MonitorInv'
  OBVIOUS
<1>1. RequestsOK'
  BY MonitorKeepsPipeline DEF MonitorInv
<1>2. CASE [Next]_vars /\ UNCHANGED monitorVars
  <2>1. LogOK'
    BY <1>2, LogStep DEF MonitorInv
  <2> QED
    BY <1>1, <1>2, <2>1, WritesKeepMonitor DEF MonitorInv
<1>3. CASE ReadLine
  <2>1. LogOK'
    BY <1>3 DEF ReadLine, vars, handlerVars, MonitorInv, LogOK
  <2> QED
    BY <1>1, <1>3, <2>1, ReadLineKeepsMonitor DEF MonitorInv
<1>4. CASE MonitorRestart
  <2>1. LogOK'
    BY <1>4 DEF MonitorRestart, MonitorInv, LogOK
  <2>2. Fresh(StartPosition)'
    BY <1>4 DEF MonitorRestart, Fresh, StartPosition
  <2>3. MonitorTyped' /\ MonitorWindows'
    BY <2>1, <2>2, StartKeepsMonitor, PTL
  <2> QED
    BY <1>1, <2>1, <2>3 DEF MonitorInv
<1> QED
  BY <1>2, <1>3, <1>4, MonitorSteps

(* As long as the lines are in the order of their times, what the monitor   *)
(* keeps of an address is its window.                                       *)
THEOREM MonitorInvariant == MonitorSpec => [](Inv /\ MonitorInv)
<1>1. MonitorInit => MonitorInv
  <2> SUFFICES ASSUME MonitorInit PROVE MonitorInv
    OBVIOUS
  <2>1. RequestsOK /\ LogOK
    BY EmptySeq DEF MonitorInit, Init, RequestsOK, Steps, LogOK
  <2> QED
    BY <2>1, StartKeepsMonitor DEF MonitorInit, MonitorInv
<1> QED
  BY <1>1, MonitorStep, MonitorRunsTheDetector, WindowInvariant, PTL DEF MonitorSpec

(* One line of a file in order: the number printed is the number of times   *)
(* in the window that ends with the line.                                   *)
LEMMA LineCountsTheWindow ==
    ASSUME MonitorInv, ReadLine, OrderedUpTo(position'),
           NEW x, x = log[position + 1].ip, NEW u, u = log[position + 1].stamp
    PROVE  verdict'[x].count = Cardinality(InWindow(Append(unspent[x], u), u))
<1> DEFINE h == deques[x]
           s == unspent[x]
           r == RecordAttempt(h, u, WindowSeconds)
<1>1. r = RecordAttempt(deques[x], u, WindowSeconds)
  OBVIOUS
<1> HIDE DEF r
<1>2. /\ x \in IPs /\ u \in Nat /\ position' = position + 1 /\ log' = log
      /\ verdict' = [verdict EXCEPT ![x] = [alarm |-> r.alarm, count |-> r.count]]
  BY <1>1, LineRead
<1>3. h \in Seq(Nat) /\ s \in Seq(Nat) /\ verdict'[x].count = r.count
  BY <1>2 DEF MonitorInv, MonitorTyped
<1>4. WindowInv(h, s, u, WindowSeconds)
  <2>1. OrderedUpTo(position + 1)
    BY <1>2 DEF OrderedUpTo
  <2> QED
    BY <1>2, <2>1, WindowsAtLine
<1> HIDE DEF h
<1>5. Cardinality(Within(Append(s, u), u, WindowSeconds)) = r.count
  BY <1>1, <1>2, <1>3, <1>4, CountIsRecent, SecondsAreNat DEF h
<1>6. InWindow(Append(s, u), u) = Within(Append(s, u), u, WindowSeconds)
  <2> DEFINE g == Append(s, u)
  <2>1. DOMAIN g = 1 .. Len(s) + 1 /\ Len(s) \in Nat /\ g[Len(s) + 1] = u
        /\ \A i \in 1 .. Len(s) : g[i] = s[i]
    BY <1>2, <1>3, AppendProperties, LenProperties
  <2>2. \A i \in 1 .. Len(s) : s[i] <= u
    BY <1>4 DEF WindowInv, InOrder
  <2> HIDE DEF g
  <2>3. ASSUME NEW i \in DOMAIN g PROVE g[i] <= u
    <3>1. CASE i = Len(s) + 1
      BY <1>2, <2>1, <3>1
    <3>2. CASE i # Len(s) + 1
      <4>1. i \in 1 .. Len(s)
        BY <2>1, <3>2
      <4> QED
        BY <2>1, <2>2, <4>1
    <3> QED
      BY <3>1, <3>2
  <2>4. \A i : i \in InWindow(g, u) <=> i \in Within(g, u, WindowSeconds)
    BY <2>3 DEF InWindow, Within
  <2>5. InWindow(g, u) = Within(g, u, WindowSeconds)
    BY <2>4 DEF InWindow, Within
  <2> QED
    BY <2>5 DEF g
<1> QED
  BY <1>3, <1>5, <1>6

(* Whatever the threads of the web process and the monitor's own restarts   *)
(* do between two lines: as long as the log is in order, the count printed  *)
(* for a line is that of the attempts in its window.                        *)
THEOREM MonitorCounts == MonitorSpec => CountsTheWindow
<1>1. Inv /\ MonitorInv /\ [MonitorNext]_allVars =>
         (ReadLine /\ OrderedUpTo(position') =>
             LET line == log[position + 1]
                 s    == Append(unspent[line.ip], line.stamp)
             IN  verdict'[line.ip].count = Cardinality(InWindow(s, line.stamp)))
  BY LineCountsTheWindow
<1> QED
  BY <1>1, MonitorInvariant, PTL DEF MonitorSpec, CountsTheWindow
=============================================================================
