--------------------------- MODULE LoginLabProofs ---------------------------
(* The authentication lab for any number of overlapping requests, threshold *)
(* and window: no alert without its attempts, and, while requests come one  *)
(* at a time and nothing fails, incidents that link one burst each.         *)
EXTENDS LoginLab, SequenceTheorems, FiniteSetTheorems, FunctionTheorems,
        WellFoundedInduction, TLAPS

-----------------------------------------------------------------------------
(* Lists of a session.                                                      *)

\* The constants as numbers.
LEMMA Numbers ==
    /\ Threshold \in Nat /\ Threshold > 0 /\ Window \in Nat /\ Window > 0
    /\ MaxTime \in Nat /\ MaxFaults \in Nat
BY ThresholdAssumption, WindowAssumption, BoundsAssumption

\* In the order of the clock.
Ordered(s) == \A i, j \in 1 .. Len(s) : i <= j => s[i] <= s[j]

\* r is the end of s.
IsTail(r, s) ==
    /\ Len(r) \in 0 .. Len(s)
    /\ \A i \in 1 .. Len(r) : r[i] = s[Len(s) - Len(r) + i]

\* The end of a list from one place on.
LEMMA TailFrom ==
    ASSUME NEW S, NEW s \in Seq(S), NEW a \in 1 .. Len(s) + 1
    PROVE  /\ SubSeq(s, a, Len(s)) \in Seq(S)
           /\ Len(SubSeq(s, a, Len(s))) = Len(s) - a + 1
           /\ \A i \in 1 .. Len(s) - a + 1 : SubSeq(s, a, Len(s))[i] = s[a + i - 1]
           /\ IsTail(SubSeq(s, a, Len(s)), s)
<1> DEFINE r == SubSeq(s, a, Len(s))
<1>1. Len(s) \in Nat /\ a \in Int /\ Len(s) \in Int /\ a <= Len(s) + 1 /\ 1 <= a
  OBVIOUS
<1>2. \A i \in a .. Len(s) : s[i] \in S
  BY <1>1
<1>3. /\ r \in Seq(S) /\ Len(r) = IF a <= Len(s) THEN Len(s) - a + 1 ELSE 0
      /\ \A i \in 1 .. Len(s) - a + 1 : r[i] = s[a + i - 1]
  BY <1>1, <1>2, SubSeqProperties
<1> HIDE DEF r
<1>4. Len(r) = Len(s) - a + 1
  BY <1>1, <1>3
<1>5. ASSUME NEW i \in 1 .. Len(r) PROVE r[i] = s[Len(s) - Len(r) + i]
  <2>1. i \in 1 .. Len(s) - a + 1 /\ a + i - 1 = Len(s) - Len(r) + i
    BY <1>1, <1>4
  <2> QED
    BY <1>3, <2>1
<1>6. Len(r) \in 0 .. Len(s)
  BY <1>1, <1>4
<1>7. IsTail(r, s)
  BY <1>5, <1>6 DEF IsTail
<1> QED
  BY <1>3, <1>4, <1>7 DEF r

\* The slice [-n:].
LEMMA LastOfFacts ==
    ASSUME NEW S, NEW s \in Seq(S), NEW n \in Nat
    PROVE  /\ LastOf(s, n) \in Seq(S) /\ IsTail(LastOf(s, n), s)
           /\ Len(LastOf(s, n)) = IF Len(s) > n THEN n ELSE Len(s)
<1> DEFINE a == IF Len(s) > n THEN Len(s) - n + 1 ELSE 1
<1>1. a \in 1 .. Len(s) + 1 /\ Len(s) \in Nat
      /\ Len(s) - a + 1 = IF Len(s) > n THEN n ELSE Len(s)
  OBVIOUS
<1>2. LastOf(s, n) = SubSeq(s, a, Len(s))
  BY DEF LastOf
<1> HIDE DEF a
<1> QED
  BY <1>1, <1>2, TailFrom

\* The stamps that are not old yet are the end of a list in order.
LEMMA LiveFacts ==
    ASSUME NEW S \in SUBSET Nat, NEW s \in Seq(S), Ordered(s), now \in Nat
    PROVE  /\ Live(s) \in Seq(S) /\ IsTail(Live(s), s)
           /\ \A i \in 1 .. Len(Live(s)) : now < Live(s)[i] + Window
<1> DEFINE kept == {i \in DOMAIN s : now < s[i] + Window}
           Place(i) == Cardinality({k \in kept : k <= i})
<1>1. /\ Len(s) \in Nat /\ DOMAIN s = 1 .. Len(s) /\ \A i \in 1 .. Len(s) : s[i] \in Nat
      /\ Window \in Nat
  <2>1. \A i \in 1 .. Len(s) : s[i] \in S
    BY ElementOfSeq
  <2> QED
    BY <2>1, Numbers, LenProperties
<1>2. PICK a \in 1 .. Len(s) + 1 : kept = a .. Len(s)
  <2> DEFINE froms == {a \in 1 .. Len(s) + 1 : \A i \in a .. Len(s) : i \in kept}
  <2>1. Len(s) + 1 \in froms /\ froms \subseteq Nat
    BY <1>1
  <2>6. \A i : i \in froms <=> i \in 1 .. Len(s) + 1 /\ \A j \in i .. Len(s) : j \in kept
    OBVIOUS
  <2> HIDE DEF froms
  <2>2. PICK a \in froms : \A b \in froms : ~(<<b, a>> \in OpToRel(<, Nat))
    BY <2>1, NatLessThanWellFounded, WFMin
  <2>3. \A b \in froms : ~(b < a)
    BY <2>1, <2>2 DEF OpToRel
  <2>4. ASSUME NEW i \in kept PROVE i \in a .. Len(s)
    <3>1. i \in 1 .. Len(s) /\ now < s[i] + Window
      BY <1>1
    <3>2. \A j \in i .. Len(s) : j \in 1 .. Len(s) /\ s[i] <= s[j]
      BY <1>1, <3>1 DEF Ordered
    <3>3. \A j \in i .. Len(s) : j \in kept
      BY <1>1, <3>1, <3>2
    <3>4. i \in froms
      BY <1>1, <2>6, <3>1, <3>3
    <3>5. a \in Nat /\ ~(i < a)
      BY <2>1, <2>2, <2>3, <3>4
    <3> QED
      BY <1>1, <3>1, <3>5
  <2>5. a \in 1 .. Len(s) + 1 /\ a .. Len(s) \subseteq kept
    BY <2>2, <2>6
  <2> QED
    BY <2>4, <2>5
<1> DEFINE m == Len(s) - a + 1
<1>3. m \in Nat /\ Cardinality(kept) = m /\ a \in Nat /\ a >= 1
  <2>1. a \in Int /\ Len(s) \in Int /\ 1 <= a /\ a <= Len(s) + 1
    BY <1>1
  <2>2. Cardinality(a .. Len(s)) = IF a > Len(s) THEN 0 ELSE Len(s) - a + 1
    BY <2>1, FS_Interval
  <2> HIDE DEF kept
  <2> QED
    BY <1>2, <2>1, <2>2
<1>4. ASSUME NEW i \in kept PROVE Place(i) = i - a + 1
  <2> HIDE DEF kept
  <2>1. {k \in kept : k <= i} = a .. i
    BY <1>1, <1>2, <1>3
  <2>2. i \in Int /\ a \in Int /\ a <= i
    BY <1>1, <1>2, <1>3
  <2>3. Cardinality(a .. i) = i - a + 1
    BY <2>2, FS_Interval
  <2> QED
    BY <2>1, <2>3
<1>5. Live(s) = [n \in 1 .. Cardinality(kept) |-> s[CHOOSE i \in kept : Place(i) = n]]
  BY DEF Live
<1> HIDE DEF kept, Place
<1>6. ASSUME NEW n \in 1 .. m PROVE (CHOOSE i \in kept : Place(i) = n) = a + n - 1
  <2>1. a + n - 1 \in kept /\ Place(a + n - 1) = n
    <3>1. a + n - 1 \in a .. Len(s)
      BY <1>1, <1>3
    <3> QED
      BY <1>2, <1>3, <1>4, <3>1
  <2>2. \A i \in kept : Place(i) = n => i = a + n - 1
    BY <1>1, <1>2, <1>3, <1>4
  <2> QED
    BY <2>1, <2>2
<1>7. Live(s) = [n \in 1 .. m |-> s[a + n - 1]]
  BY <1>3, <1>5, <1>6
<1> DEFINE r == SubSeq(s, a, Len(s))
<1>8. /\ r \in Seq(S) /\ Len(r) = m /\ IsTail(r, s)
      /\ \A i \in 1 .. m : r[i] = s[a + i - 1]
  BY <1>2, TailFrom
<1> HIDE DEF r
<1>9. Live(s) = r
  <2> HIDE DEF m
  <2>1. r = [n \in 1 .. m |-> r[n]]
    BY <1>8
  <2> QED
    BY <1>7, <1>8, <2>1
<1>10. \A i \in 1 .. m : now < r[i] + Window
  <2>1. ASSUME NEW i \in 1 .. m PROVE a + i - 1 \in kept
    BY <1>1, <1>2, <1>3
  <2> QED
    BY <1>8, <2>1 DEF kept
<1> QED
  BY <1>8, <1>9, <1>10

-----------------------------------------------------------------------------
(* The times of a session and the attempts that were made.                  *)

\* The list s is made of members of the list a, each taken once and in order.
Drawn(s, a) ==
    \E f \in [1 .. Len(s) -> 1 .. Len(a)] :
        /\ \A i, j \in 1 .. Len(s) : i < j => f[i] < f[j]
        /\ \A i \in 1 .. Len(s) : s[i] = a[f[i]]

\* The empty list.
LEMMA DrawnEmpty == ASSUME NEW a PROVE Drawn(<<>>, a)
<1> DEFINE f == [i \in 1 .. 0 |-> 1]
<1>1. Len(<<>>) = 0 /\ 1 .. 0 = {}
  OBVIOUS
<1>2. f \in [1 .. 0 -> 1 .. Len(a)]
  BY <1>1
<1> QED
  BY <1>1, <1>2 DEF Drawn

\* What is drawn from a list is drawn from the longer one.
LEMMA DrawnLonger ==
    ASSUME NEW s \in Seq(Nat), NEW a \in Seq(Nat), NEW x \in Nat, Drawn(s, a)
    PROVE  Drawn(s, Append(a, x)) /\ Drawn(Append(s, x), Append(a, x))
<1>1. PICK f \in [1 .. Len(s) -> 1 .. Len(a)] :
          /\ \A i, j \in 1 .. Len(s) : i < j => f[i] < f[j]
          /\ \A i \in 1 .. Len(s) : s[i] = a[f[i]]
  BY DEF Drawn
<1>2. /\ Len(s) \in Nat /\ Len(a) \in Nat
      /\ Len(Append(s, x)) = Len(s) + 1 /\ Len(Append(a, x)) = Len(a) + 1
      /\ \A i \in 1 .. Len(s) : Append(s, x)[i] = s[i]
      /\ \A i \in 1 .. Len(a) : Append(a, x)[i] = a[i]
      /\ Append(s, x)[Len(s) + 1] = x /\ Append(a, x)[Len(a) + 1] = x
  BY AppendProperties, LenProperties
<1>3. \A i \in 1 .. Len(s) : f[i] \in 1 .. Len(a)
  OBVIOUS
<1>4. Drawn(s, Append(a, x))
  <2>1. f \in [1 .. Len(s) -> 1 .. Len(Append(a, x))]
    BY <1>2
  <2>2. \A i \in 1 .. Len(s) : s[i] = Append(a, x)[f[i]]
    BY <1>1, <1>2, <1>3
  <2> QED
    BY <1>1, <2>1, <2>2 DEF Drawn
<1>5. Drawn(Append(s, x), Append(a, x))
  <2> DEFINE g == [i \in 1 .. Len(s) + 1 |-> IF i <= Len(s) THEN f[i] ELSE Len(a) + 1]
  <2>1. ASSUME NEW i \in 1 .. Len(s) + 1
        PROVE  (i \in 1 .. Len(s) /\ g[i] = f[i]) \/ (i = Len(s) + 1 /\ g[i] = Len(a) + 1)
    <3>1. CASE i <= Len(s)
      <4>1. i \in 1 .. Len(s)
        BY <1>2, <3>1
      <4> QED
        BY <3>1, <4>1
    <3>2. CASE ~(i <= Len(s))
      <4>1. i = Len(s) + 1
        BY <1>2, <3>2
      <4> QED
        BY <3>2, <4>1
    <3> QED
      BY <3>1, <3>2
  <2>2. g \in [1 .. Len(s) + 1 -> 1 .. Len(a) + 1]
    <3>1. \A i \in 1 .. Len(s) + 1 : g[i] \in 1 .. Len(a) + 1
      BY <1>2, <1>3, <2>1
    <3> QED
      BY <3>1
  <2> HIDE DEF g
  <2>3. ASSUME NEW i \in 1 .. Len(s) + 1, NEW j \in 1 .. Len(s) + 1, i < j
        PROVE  g[i] < g[j]
    <3>1. i \in 1 .. Len(s) /\ g[i] = f[i] /\ f[i] \in 1 .. Len(a)
      BY <1>2, <1>3, <2>1, <2>3
    <3>2. CASE j \in 1 .. Len(s) /\ g[j] = f[j]
      BY <1>1, <2>3, <3>1, <3>2
    <3>3. CASE j = Len(s) + 1 /\ g[j] = Len(a) + 1
      BY <1>2, <3>1, <3>3
    <3> QED
      BY <2>1, <3>2, <3>3
  <2>4. \A i \in 1 .. Len(s) + 1 : Append(s, x)[i] = Append(a, x)[g[i]]
    BY <1>1, <1>2, <1>3, <2>1
  <2> QED
    BY <1>2, <2>2, <2>3, <2>4 DEF Drawn
<1> QED
  BY <1>4, <1>5

\* The end of a list that is drawn.
LEMMA DrawnTail ==
    ASSUME NEW s \in Seq(Nat), NEW r \in Seq(Nat), NEW a \in Seq(Nat), IsTail(r, s), Drawn(s, a)
    PROVE  Drawn(r, a)
<1>1. PICK f \in [1 .. Len(s) -> 1 .. Len(a)] :
          /\ \A i, j \in 1 .. Len(s) : i < j => f[i] < f[j]
          /\ \A i \in 1 .. Len(s) : s[i] = a[f[i]]
  BY DEF Drawn
<1>2. /\ Len(s) \in Nat /\ Len(r) \in 0 .. Len(s)
      /\ \A i \in 1 .. Len(r) : r[i] = s[Len(s) - Len(r) + i]
  BY LenProperties DEF IsTail
<1> DEFINE d == Len(s) - Len(r)
           g == [i \in 1 .. Len(r) |-> f[d + i]]
<1>3. d \in Nat /\ \A i \in 1 .. Len(r) : d + i \in 1 .. Len(s)
  BY <1>2
<1>4. g \in [1 .. Len(r) -> 1 .. Len(a)] /\ \A i \in 1 .. Len(r) : g[i] = f[d + i]
  BY <1>3
<1>5. \A i \in 1 .. Len(r) : r[i] = s[d + i]
  BY <1>2
<1> HIDE DEF d, g
<1>6. \A i, j \in 1 .. Len(r) : i < j => g[i] < g[j]
  <2>1. \A i, j \in 1 .. Len(r) : i < j => d + i < d + j
    BY <1>2, <1>3
  <2> QED
    BY <1>1, <1>3, <1>4, <2>1
<1>7. \A i \in 1 .. Len(r) : r[i] = a[g[i]]
  BY <1>1, <1>3, <1>4, <1>5
<1> QED
  BY <1>4, <1>6, <1>7 DEF Drawn

\* What is drawn from attempts in order is in order, and none of it is newer
\* than they are.
LEMMA DrawnOrdered ==
    ASSUME NEW s \in Seq(Nat), NEW a \in Seq(Nat), NEW n \in Nat, Ordered(a),
           \A i \in 1 .. Len(a) : a[i] <= n, Drawn(s, a)
    PROVE  Ordered(s) /\ \A i \in 1 .. Len(s) : s[i] <= n
<1>1. PICK f \in [1 .. Len(s) -> 1 .. Len(a)] :
          /\ \A i, j \in 1 .. Len(s) : i < j => f[i] < f[j]
          /\ \A i \in 1 .. Len(s) : s[i] = a[f[i]]
  BY DEF Drawn
<1>2. Len(s) \in Nat /\ Len(a) \in Nat /\ \A i \in 1 .. Len(s) : f[i] \in 1 .. Len(a)
  BY LenProperties
<1>3. \A i, j \in 1 .. Len(s) : i <= j => f[i] <= f[j]
  BY <1>1, <1>2
<1>4. Ordered(s)
  BY <1>1, <1>2, <1>3 DEF Ordered
<1> QED
  BY <1>1, <1>2, <1>4

\* All of the times lie in the window that ends with the last.
OneWindow(s) == s # <<>> /\ \A i \in 1 .. Len(s) : s[i] <= Last(s) /\ Last(s) < s[i] + Window

\* Times in one window stand for as many attempts in it.
LEMMA DrawnCounted ==
    ASSUME NEW s \in Seq(Nat), NEW a \in Seq(Nat), Drawn(s, a), OneWindow(s)
    PROVE  Len(s) <= Cardinality(Recent(a, Last(s)))
<1> DEFINE recent == Recent(a, Last(s))
<1>1. PICK f \in [1 .. Len(s) -> 1 .. Len(a)] :
          /\ \A i, j \in 1 .. Len(s) : i < j => f[i] < f[j]
          /\ \A i \in 1 .. Len(s) : s[i] = a[f[i]]
  BY DEF Drawn
<1>2. Len(s) \in Nat /\ Len(a) \in Nat /\ DOMAIN a = 1 .. Len(a)
  BY LenProperties
<1>3. \A i \in 1 .. Len(s) : f[i] \in recent
  BY <1>1, <1>2 DEF OneWindow, Recent
<1>4. IsFiniteSet(recent)
  <2>1. IsFiniteSet(1 .. Len(a)) /\ recent \in SUBSET (1 .. Len(a))
    BY <1>2, FS_Interval DEF Recent
  <2> HIDE DEF recent
  <2> QED
    BY <2>1, FS_Subset
<1> HIDE DEF recent
<1>5. f \in [1 .. Len(s) -> recent]
  BY <1>3
<1>6. \A i, j \in 1 .. Len(s) : f[i] = f[j] => i = j
  <2>1. \A i \in 1 .. Len(s) : f[i] \in Nat
    <3>1. \A i \in 1 .. Len(s) : f[i] \in 1 .. Len(a)
      BY <1>1
    <3> QED
      BY <1>2, <3>1
  <2> QED
    BY <1>1, <1>2, <2>1
<1>7. f \in Injection(1 .. Len(s), recent)
  BY <1>5, <1>6, Fun_IsInj
<1>8. Cardinality(1 .. Len(s)) <= Cardinality(recent)
  BY <1>4, <1>7, FS_Injection
<1>9. Cardinality(1 .. Len(s)) = Len(s)
  <2>1. 1 \in Int /\ Len(s) \in Int
    BY <1>2
  <2>2. Cardinality(1 .. Len(s)) = IF 1 > Len(s) THEN 0 ELSE Len(s) - 1 + 1
    BY <2>1, FS_Interval
  <2> QED
    BY <1>2, <2>2
<1> QED
  BY <1>8, <1>9 DEF recent

-----------------------------------------------------------------------------
(* What holds of a session at any time.                                     *)

\* The ids of s are among the first n rows.
IdsUpTo(s, n) == \A i \in 1 .. Len(s.ids) : s.ids[i] \in 1 .. n

\* The session s, when there are n rows and the attempts a were made.
Sound(s, n, a) ==
    /\ s \in Sessions
    /\ Len(s.times) <= Threshold /\ Len(s.ids) <= Threshold
    /\ IdsUpTo(s, n)
    /\ Drawn(s.times, a)

\* Its lists.
LEMMA SessionLists ==
    ASSUME NEW s \in Sessions
    PROVE  /\ s.times \in Seq(0 .. MaxTime) /\ s.times \in Seq(Nat) /\ Len(s.times) \in Nat
           /\ s.ids \in Seq(Nat) /\ Len(s.ids) \in Nat
           /\ s.alerted \in BOOLEAN
<1>1. s.times \in Seq(0 .. MaxTime) /\ s.ids \in Seq(Nat) /\ s.alerted \in BOOLEAN
  BY DEF Sessions
<1>2. s.times \in Seq(Nat)
  BY <1>1, Numbers
<1> QED
  BY <1>1, <1>2, LenProperties

\* A session stays sound when a row is written or an attempt made.
LEMMA SoundStays ==
    ASSUME NEW s, NEW n \in Nat, NEW m \in Nat, n <= m, NEW a \in Seq(Nat), NEW x \in Nat,
           NEW b, b = a \/ b = Append(a, x), Sound(s, n, a)
    PROVE  Sound(s, m, b)
<1>1. s \in Sessions /\ s.times \in Seq(Nat) /\ Drawn(s.times, a)
  BY SessionLists DEF Sound
<1>2. Drawn(s.times, b)
  BY <1>1, DrawnLonger
<1>3. IdsUpTo(s, m)
  BY DEF Sound, IdsUpTo
<1> QED
  BY <1>2, <1>3 DEF Sound

\* The session of a new browser.
LEMMA SoundFresh == ASSUME NEW n \in Nat, NEW a PROVE Sound(Fresh, n, a)
<1>1. Fresh.times = <<>> /\ Fresh.ids = <<>> /\ Len(<<>>) = 0
  BY DEF Fresh
<1>2. Fresh \in Sessions
  <2>1. <<>> \in Seq(0 .. MaxTime) /\ <<>> \in Seq(Nat)
    BY EmptySeq
  <2> QED
    BY <2>1 DEF Fresh, Sessions
<1>3. Drawn(Fresh.times, a)
  BY <1>1, DrawnEmpty
<1>4. IdsUpTo(Fresh, n)
  BY <1>1 DEF IdsUpTo
<1> QED
  BY <1>1, <1>2, <1>3, <1>4, Numbers DEF Sound

\* The end of a list has members of the list only.
LEMMA TailMembers ==
    ASSUME NEW S, NEW r \in Seq(S), NEW s \in Seq(S), IsTail(r, s)
    PROVE  /\ Len(r) \in Nat /\ Len(s) \in Nat /\ Len(r) <= Len(s)
           /\ \A i \in 1 .. Len(r) : \E j \in 1 .. Len(s) : r[i] = s[j] /\ j = Len(s) - Len(r) + i
<1>1. Len(r) \in Nat /\ Len(s) \in Nat /\ Len(r) <= Len(s)
  BY LenProperties DEF IsTail
<1>2. ASSUME NEW i \in 1 .. Len(r)
      PROVE  \E j \in 1 .. Len(s) : r[i] = s[j] /\ j = Len(s) - Len(r) + i
  <2>1. Len(s) - Len(r) + i \in 1 .. Len(s)
    BY <1>1
  <2> QED
    BY <2>1 DEF IsTail
<1> QED
  BY <1>1, <1>2

\* The times a rejected attempt leaves (app/__init__.py:349-354).
Counted(times) == LastOf(Append(Live(times), now), Threshold)

\* They lie in one window, and are what was there, cut at the front, with the
\* attempt at its end.
LEMMA CountedFacts ==
    ASSUME NEW s \in Seq(0 .. MaxTime), NEW a \in Seq(Nat), now \in 0 .. MaxTime,
           Ordered(a), \A i \in 1 .. Len(a) : a[i] <= now, Drawn(s, a)
    PROVE  /\ Counted(s) \in Seq(0 .. MaxTime)
           /\ Len(Counted(s)) \in 1 .. Threshold
           /\ OneWindow(Counted(s)) /\ Last(Counted(s)) = now
           /\ Drawn(Counted(s), Append(a, now))
           /\ Len(Counted(s)) - 1 <= Len(s)
           /\ \A i \in 1 .. Len(Counted(s)) - 1 :
                 Counted(s)[i] = s[Len(s) - (Len(Counted(s)) - 1) + i]
<1> DEFINE k == Live(s)
           w == Append(k, now)
           c == LastOf(w, Threshold)
<1>1. s \in Seq(Nat) /\ now \in Nat
  BY Numbers
<1>2. Ordered(s) /\ \A i \in 1 .. Len(s) : s[i] <= now
  BY <1>1, DrawnOrdered
<1>3. /\ k \in Seq(0 .. MaxTime) /\ IsTail(k, s)
      /\ \A i \in 1 .. Len(k) : now < k[i] + Window
  <2>1. 0 .. MaxTime \in SUBSET Nat
    BY Numbers
  <2> QED
    BY <1>1, <1>2, <2>1, LiveFacts
<1>4. k \in Seq(Nat) /\ Len(k) \in Nat /\ Len(s) \in Nat /\ Len(k) <= Len(s)
  BY <1>1, <1>3, Numbers, TailMembers
<1>5. \A i \in 1 .. Len(k) : k[i] <= now
  BY <1>2, <1>3, TailMembers
<1>6. Drawn(k, a)
  BY <1>1, <1>3, <1>4, DrawnTail
<1> HIDE DEF k
<1>7. Drawn(w, Append(a, now))
  BY <1>1, <1>4, <1>6, DrawnLonger
<1>8. /\ w \in Seq(0 .. MaxTime) /\ w \in Seq(Nat) /\ Len(w) = Len(k) + 1
      /\ \A i \in 1 .. Len(k) : w[i] = k[i]
      /\ w[Len(k) + 1] = now
  BY <1>1, <1>3, <1>4, AppendProperties
<1> HIDE DEF w
<1>9. /\ c \in Seq(0 .. MaxTime) /\ IsTail(c, w)
      /\ Len(c) = IF Len(w) > Threshold THEN Threshold ELSE Len(w)
  BY <1>8, Numbers, LastOfFacts
<1> HIDE DEF c
<1>10. c \in Seq(Nat) /\ Len(c) \in 1 .. Threshold
  BY <1>4, <1>8, <1>9, Numbers
<1>11. Drawn(c, Append(a, now))
  <2>1. Append(a, now) \in Seq(Nat)
    BY <1>1, AppendProperties
  <2> QED
    BY <1>7, <1>8, <1>9, <1>10, <2>1, DrawnTail
<1>12. \A i \in 1 .. Len(c) : c[i] = w[Len(w) - Len(c) + i]
  BY <1>9 DEF IsTail
<1>13. c[Len(c)] = now
  <2>1. Len(c) \in 1 .. Len(c) /\ Len(w) - Len(c) + Len(c) = Len(k) + 1
    BY <1>4, <1>8, <1>10, Numbers
  <2>2. c[Len(c)] = w[Len(w) - Len(c) + Len(c)]
    BY <1>12, <2>1
  <2> QED
    BY <1>8, <2>1, <2>2
<1>14. Len(c) <= Len(k) + 1
  BY <1>4, <1>8, <1>9, Numbers
<1>15. ASSUME NEW i \in 1 .. Len(c) - 1
       PROVE  c[i] = s[Len(s) - (Len(c) - 1) + i] /\ c[i] <= now /\ now < c[i] + Window
  <2>1. i \in 1 .. Len(c) /\ Len(w) - Len(c) + i = Len(k) + 1 - Len(c) + i
    BY <1>4, <1>8, <1>10
  <2>2. Len(k) + 1 - Len(c) + i \in 1 .. Len(k)
    BY <1>4, <1>10, <1>14
  <2> DEFINE j == Len(k) + 1 - Len(c) + i
  <2>3. c[i] = k[j]
    BY <1>8, <1>12, <2>1, <2>2
  <2>4. k[j] = s[Len(s) - Len(k) + j]
    BY <1>3, <2>2 DEF IsTail
  <2>5. Len(s) - Len(k) + j = Len(s) - (Len(c) - 1) + i
    BY <1>4, <1>10
  <2> HIDE DEF j
  <2> QED
    BY <1>3, <1>5, <2>2, <2>3, <2>4, <2>5 DEF j
<1>16. OneWindow(c) /\ Last(c) = now
  <2>1. Last(c) = now
    BY <1>13 DEF Last
  <2>2. ASSUME NEW i \in 1 .. Len(c) PROVE c[i] <= now /\ now < c[i] + Window
    <3>1. CASE i = Len(c)
      BY <1>1, <1>13, <3>1, Numbers
    <3>2. CASE i # Len(c)
      <4>1. i \in 1 .. Len(c) - 1
        BY <1>10, <3>2
      <4> QED
        BY <1>15, <4>1
    <3> QED
      BY <3>1, <3>2
  <2>3. c # <<>>
    BY <1>10
  <2> QED
    BY <2>1, <2>2, <2>3 DEF OneWindow
<1>17. Len(c) - 1 <= Len(s)
  BY <1>4, <1>10, <1>14
<1>18. Counted(s) = c
  BY DEF Counted, c, w, k
<1> QED
  BY <1>9, <1>10, <1>11, <1>15, <1>16, <1>17, <1>18

\* What the status page leaves of a session (app/__init__.py:389-394).
LEMMA PrunedFacts ==
    ASSUME NEW s, NEW n \in Nat, NEW a \in Seq(Nat), now \in 0 .. MaxTime, Sound(s, n, a),
           Ordered(a), \A i \in 1 .. Len(a) : a[i] <= now
    PROVE  /\ Sound(Pruned(s), n, a)
           /\ IsTail(Pruned(s).times, s.times) /\ IsTail(Pruned(s).ids, s.ids)
           /\ Len(s.ids) >= Len(s.times) => Len(Pruned(s).ids) = Len(Pruned(s).times)
           /\ Pruned(s).alerted = (s.alerted /\ Pruned(s).times # <<>>)
           /\ Pruned(s).times = <<>> => Pruned(s).ids = <<>>
<1> DEFINE kept == Live(s.times)
           ids == IF kept = <<>> THEN <<>> ELSE LastOf(s.ids, Len(kept))
<1>1. /\ s \in Sessions /\ s.times \in Seq(0 .. MaxTime) /\ s.times \in Seq(Nat)
      /\ Len(s.times) \in Nat /\ s.ids \in Seq(Nat) /\ Len(s.ids) \in Nat
      /\ s.alerted \in BOOLEAN /\ Drawn(s.times, a) /\ IdsUpTo(s, n)
      /\ Len(s.times) <= Threshold /\ Len(s.ids) <= Threshold /\ now \in Nat
  BY SessionLists, Numbers DEF Sound
<1>2. Ordered(s.times)
  BY <1>1, DrawnOrdered
<1>3. kept \in Seq(0 .. MaxTime) /\ IsTail(kept, s.times)
  <2>1. 0 .. MaxTime \in SUBSET Nat
    BY Numbers
  <2> QED
    BY <1>1, <1>2, <2>1, LiveFacts
<1>4. kept \in Seq(Nat) /\ Len(kept) \in Nat /\ Len(kept) <= Len(s.times)
  BY <1>1, <1>3, Numbers, TailMembers
<1>5. Drawn(kept, a)
  BY <1>1, <1>3, <1>4, DrawnTail
<1>6. Pruned(s) = [times |-> kept, ids |-> ids, alerted |-> s.alerted /\ kept # <<>>]
  BY DEF Pruned
<1> HIDE DEF kept
<1>7. /\ ids \in Seq(Nat) /\ IsTail(ids, s.ids)
      /\ Len(s.ids) >= Len(s.times) => Len(ids) = Len(kept)
      /\ kept = <<>> => ids = <<>>
  <2>1. CASE kept = <<>>
    <3>1. ids = <<>> /\ Len(kept) = 0 /\ Len(<<>>) = 0 /\ <<>> \in Seq(Nat)
      BY <2>1, EmptySeq
    <3>2. IsTail(<<>>, s.ids)
      BY <1>1, <3>1 DEF IsTail
    <3> QED
      BY <2>1, <3>1, <3>2
  <2>2. CASE kept # <<>>
    <3>1. /\ LastOf(s.ids, Len(kept)) \in Seq(Nat) /\ IsTail(LastOf(s.ids, Len(kept)), s.ids)
          /\ Len(LastOf(s.ids, Len(kept))) = IF Len(s.ids) > Len(kept) THEN Len(kept) ELSE Len(s.ids)
      BY <1>1, <1>4, LastOfFacts
    <3>2. Len(s.ids) >= Len(s.times) => Len(LastOf(s.ids, Len(kept))) = Len(kept)
      BY <1>1, <1>4, <3>1
    <3> QED
      BY <2>2, <3>1, <3>2
  <2> QED
    BY <2>1, <2>2
<1> HIDE DEF ids
<1>8. /\ Len(ids) \in Nat /\ Len(ids) <= Len(s.ids)
      /\ \A i \in 1 .. Len(ids) : \E j \in 1 .. Len(s.ids) : ids[i] = s.ids[j] /\ j = Len(s.ids) - Len(ids) + i
  <2>1. ids \in Seq(Nat) /\ s.ids \in Seq(Nat) /\ IsTail(ids, s.ids)
    BY <1>1, <1>7
  <2> QED
    BY <2>1, TailMembers
<1>9. Pruned(s) \in Sessions
  BY <1>1, <1>3, <1>6, <1>7 DEF Sessions
<1>10. \A i \in 1 .. Len(ids) : ids[i] \in 1 .. n
  BY <1>1, <1>8 DEF IdsUpTo
<1>11. Len(kept) <= Threshold /\ Len(ids) <= Threshold
  BY <1>1, <1>4, <1>8, Numbers
<1>12. Sound(Pruned(s), n, a)
  BY <1>5, <1>6, <1>9, <1>10, <1>11 DEF Sound, IdsUpTo
<1> QED
  BY <1>3, <1>6, <1>7, <1>12

-----------------------------------------------------------------------------
(* The invariant.                                                           *)

Steps == {"idle", "rejected", "accepted", "status", "reset", "storing", "alarming",
          "opening", "recording", "notifying", "answered"}

RowRecords == [kind : {"failed_login", "brute_force", "login_success"}, stamp : 0 .. MaxTime]

\* A request at this step holds this session and the id of this alarm.
AtStep(step, s, id) ==
    /\ step \in {"storing", "alarming", "opening"} => OneWindow(s.times)
    /\ step \in {"alarming", "opening"} => Len(s.times) = Threshold /\ ~ s.alerted
    /\ step = "opening" => id # 0

\* The id, if there is one, is that of an alarm.
IsAlarm(id, table) == id # 0 => id \in 1 .. Len(table) /\ table[id].kind = "brute_force"

LabInv ==
    /\ now \in 0 .. MaxTime
    /\ rows \in Seq(RowRecords)
    /\ attempts \in Seq(0 .. MaxTime) /\ Ordered(attempts)
    /\ \A i \in 1 .. Len(attempts) : attempts[i] <= now
    /\ Sound(cookie, Len(rows), attempts)
    /\ session \in [Tabs -> Sessions]
    /\ \A t \in Tabs : Sound(session[t], Len(rows), attempts)
    /\ pc \in [Tabs -> Steps] /\ alarmId \in [Tabs -> Nat]
    /\ \A t \in Tabs : AtStep(pc[t], session[t], alarmId[t]) /\ IsAlarm(alarmId[t], rows)
    /\ incidents \in Seq(SUBSET Nat)
    /\ \A i \in 1 .. Len(incidents) : incidents[i] \subseteq 1 .. Len(rows)
    /\ evidence \in Nat /\ alerts \in Nat /\ faults \in Nat
    /\ ruleOn \in BOOLEAN /\ clean \in BOOLEAN

\* It holds at first.
LEMMA LabInit == Init => LabInv
<1> SUFFICES ASSUME Init PROVE LabInv
  OBVIOUS
<1>1. /\ <<>> \in Seq(RowRecords) /\ <<>> \in Seq(0 .. MaxTime) /\ <<>> \in Seq(SUBSET Nat)
      /\ Len(<<>>) = 0
  BY EmptySeq
<1>2. Sound(Fresh, 0, <<>>) /\ Fresh \in Sessions
  BY SoundFresh DEF Sound
<1>3. Ordered(<<>>)
  BY <1>1 DEF Ordered
<1>4. 0 \in 0 .. MaxTime
  BY Numbers
<1>5. \A t \in Tabs : AtStep(pc[t], session[t], alarmId[t]) /\ IsAlarm(alarmId[t], rows)
  BY DEF Init, AtStep, IsAlarm
<1>6. /\ session \in [Tabs -> Sessions] /\ \A t \in Tabs : session[t] = Fresh
      /\ pc \in [Tabs -> Steps] /\ alarmId \in [Tabs -> Nat]
  BY <1>2 DEF Init, Steps
<1>7. /\ now = 0 /\ cookie = Fresh /\ rows = <<>> /\ incidents = <<>> /\ evidence = 0
      /\ ruleOn = TRUE /\ alerts = 0 /\ attempts = <<>> /\ clean = TRUE /\ faults = 0
  BY DEF Init
<1> QED
  BY <1>1, <1>2, <1>3, <1>4, <1>5, <1>6, <1>7 DEF LabInv

\* Request t goes on to a step with a session and an alarm, and no other does.
Turn(t, step, s, id) ==
    /\ pc' \in [Tabs -> Steps] /\ session' \in [Tabs -> Sessions] /\ alarmId' \in [Tabs -> Nat]
    /\ pc'[t] = step /\ session'[t] = s /\ alarmId'[t] = id
    /\ \A u \in Tabs : u # t => /\ pc'[u] = pc[u] /\ session'[u] = session[u]
                                 /\ alarmId'[u] = alarmId[u]

\* What assigns one request's variables is a turn of it.
LEMMA IsTurn ==
    ASSUME LabInv, NEW t \in Tabs, NEW step \in Steps, NEW s \in Sessions, NEW id \in Nat,
           pc' = [pc EXCEPT ![t] = step], session' = [session EXCEPT ![t] = s],
           alarmId' = [alarmId EXCEPT ![t] = id]
    PROVE  Turn(t, step, s, id)
BY DEF LabInv, Turn

\* The tables a request leaves: a row more at most, and an attempt more.
Tables(n, a) ==
    /\ n \in Nat /\ n = Len(rows') /\ n >= Len(rows) /\ rows' \in Seq(RowRecords)
    /\ \A i \in 1 .. Len(rows) : rows'[i] = rows[i]
    /\ a = attempts' /\ (attempts' = attempts \/ attempts' = Append(attempts, now))
    /\ incidents' \in Seq(SUBSET Nat)
    /\ \A i \in 1 .. Len(incidents') : incidents'[i] \subseteq 1 .. n
    /\ evidence' \in Nat /\ alerts' \in Nat /\ faults' \in Nat
    /\ ruleOn' \in BOOLEAN /\ clean' \in BOOLEAN

\* A turn that leaves the request with a sound session keeps the invariant.
LEMMA TurnKeeps ==
    ASSUME LabInv, NEW t \in Tabs, NEW step, NEW s, NEW id, Turn(t, step, s, id),
           now' = now, NEW n, NEW a, Tables(n, a),
           cookie' = cookie \/ cookie' = session[t],
           Sound(s, n, a), AtStep(step, s, id), IsAlarm(id, rows')
    PROVE  LabInv'
<1>1. /\ now \in 0 .. MaxTime /\ now \in Nat /\ attempts \in Seq(0 .. MaxTime)
      /\ attempts \in Seq(Nat)
      /\ Ordered(attempts) /\ \A i \in 1 .. Len(attempts) : attempts[i] <= now
      /\ Len(rows) \in Nat /\ n \in Nat /\ Len(rows) <= n
  BY Numbers DEF LabInv, Tables
<1>2. a \in Seq(0 .. MaxTime) /\ Ordered(a) /\ \A i \in 1 .. Len(a) : a[i] <= now
  <2>1. CASE a = attempts
    BY <1>1, <2>1
  <2>2. CASE a = Append(attempts, now)
    <3>1. /\ a \in Seq(0 .. MaxTime) /\ Len(a) = Len(attempts) + 1 /\ Len(attempts) \in Nat
          /\ \A i \in 1 .. Len(attempts) : a[i] = attempts[i]
          /\ a[Len(attempts) + 1] = now
      BY <1>1, <2>2, AppendProperties
    <3>2. \A i \in 1 .. Len(a) : i \in 1 .. Len(attempts) \/ i = Len(attempts) + 1
      BY <3>1
    <3>3. \A i \in 1 .. Len(a) : a[i] <= now
      BY <1>1, <3>1, <3>2
    <3>4. Ordered(a)
      <4> SUFFICES ASSUME NEW i \in 1 .. Len(a), NEW j \in 1 .. Len(a), i <= j
                   PROVE  a[i] <= a[j]
        BY DEF Ordered
      <4>1. CASE j = Len(attempts) + 1
        BY <3>1, <3>3, <4>1
      <4>2. CASE j \in 1 .. Len(attempts)
        <5>1. i \in 1 .. Len(attempts)
          BY <3>1, <4>2
        <5> QED
          BY <1>1, <3>1, <4>2, <5>1 DEF Ordered
      <4> QED
        BY <3>2, <4>1, <4>2
    <3> QED
      BY <3>1, <3>3, <3>4
  <2> QED
    BY <2>1, <2>2 DEF Tables
<1>3. ASSUME NEW x, Sound(x, Len(rows), attempts) PROVE Sound(x, n, a)
  <2>1. a = attempts \/ a = Append(attempts, now)
    BY DEF Tables
  <2> QED
    BY <1>1, <1>3, <2>1, SoundStays
<1>4. Sound(cookie', n, a)
  BY <1>3 DEF LabInv
<1>5. ASSUME NEW u \in Tabs
      PROVE  /\ Sound(session'[u], n, a)
             /\ AtStep(pc'[u], session'[u], alarmId'[u]) /\ IsAlarm(alarmId'[u], rows')
  <2>1. CASE u = t
    BY <2>1 DEF Turn
  <2>2. CASE u # t
    <3>1. session'[u] = session[u] /\ pc'[u] = pc[u] /\ alarmId'[u] = alarmId[u]
      BY <2>2 DEF Turn
    <3>2. Sound(session[u], n, a)
      BY <1>3 DEF LabInv
    <3>3. AtStep(pc[u], session[u], alarmId[u]) /\ IsAlarm(alarmId[u], rows)
      BY DEF LabInv
    <3>4. IsAlarm(alarmId[u], rows')
      BY <1>1, <3>3 DEF IsAlarm, Tables
    <3> QED
      BY <3>1, <3>2, <3>3, <3>4
  <2> QED
    BY <2>1, <2>2
<1> QED
  BY <1>1, <1>2, <1>4, <1>5 DEF LabInv, Turn, Tables

-----------------------------------------------------------------------------
(* What each action does to its request.                                    *)

\* A session by its parts.
Parts(times, ids, alerted) == [times |-> times, ids |-> ids, alerted |-> alerted]

\* The parts are those it was made of.
LEMMA PartsTyped ==
    ASSUME NEW times \in Seq(0 .. MaxTime), NEW ids \in Seq(Nat), NEW alerted \in BOOLEAN
    PROVE  /\ Parts(times, ids, alerted) \in Sessions
           /\ Parts(times, ids, alerted).times = times /\ Parts(times, ids, alerted).ids = ids
           /\ Parts(times, ids, alerted).alerted = alerted
BY DEF Parts, Sessions

\* A session is its parts, and one of them can be set.
LEMMA PartsSet ==
    ASSUME session \in [Tabs -> Sessions], NEW t \in Tabs, NEW e
    PROVE  LET s == session[t] IN
           /\ s = Parts(s.times, s.ids, s.alerted)
           /\ [session EXCEPT ![t].times = e] = [session EXCEPT ![t] = Parts(e, s.ids, s.alerted)]
           /\ [session EXCEPT ![t].ids = e] = [session EXCEPT ![t] = Parts(s.times, e, s.alerted)]
           /\ [session EXCEPT ![t].alerted = e] = [session EXCEPT ![t] = Parts(s.times, s.ids, e)]
<1>1. session[t] = Parts(session[t].times, session[t].ids, session[t].alerted)
  BY DEF Sessions, Parts
<1>2. /\ [session[t] EXCEPT !.times = e] = Parts(e, session[t].ids, session[t].alerted)
      /\ [session[t] EXCEPT !.ids = e] = Parts(session[t].times, e, session[t].alerted)
      /\ [session[t] EXCEPT !.alerted = e] = Parts(session[t].times, session[t].ids, e)
  BY DEF Sessions, Parts
<1> QED
  BY <1>1, <1>2

\* What was there and is not touched.
LEMMA Unset ==
    ASSUME LabInv, NEW t \in Tabs
    PROVE  /\ [session EXCEPT ![t] = session[t]] = session
           /\ [alarmId EXCEPT ![t] = alarmId[t]] = alarmId
           /\ session \in [Tabs -> Sessions] /\ session[t] \in Sessions /\ cookie \in Sessions
           /\ pc[t] \in Steps /\ alarmId[t] \in Nat
           /\ rows \in Seq(RowRecords) /\ Len(rows) \in Nat
           /\ attempts \in Seq(Nat) /\ now \in 0 .. MaxTime /\ now \in Nat
           /\ session[t].times \in Seq(0 .. MaxTime) /\ session[t].times \in Seq(Nat)
           /\ Len(session[t].times) \in Nat
           /\ session[t].ids \in Seq(Nat) /\ Len(session[t].ids) \in Nat
           /\ session[t].alerted \in BOOLEAN
           /\ Sound(session[t], Len(rows), attempts) /\ Sound(cookie, Len(rows), attempts)
<1>1. session \in [Tabs -> Sessions] /\ alarmId \in [Tabs -> Nat] /\ pc \in [Tabs -> Steps]
  BY DEF LabInv
<1>2. session[t] \in Sessions
  BY <1>1
<1>3. /\ session[t].times \in Seq(0 .. MaxTime) /\ session[t].times \in Seq(Nat)
      /\ Len(session[t].times) \in Nat
      /\ session[t].ids \in Seq(Nat) /\ Len(session[t].ids) \in Nat
      /\ session[t].alerted \in BOOLEAN
  BY <1>2, SessionLists
<1>4. /\ attempts \in Seq(Nat) /\ now \in 0 .. MaxTime /\ now \in Nat
      /\ rows \in Seq(RowRecords) /\ Len(rows) \in Nat
  BY Numbers DEF LabInv
<1>5. Sound(session[t], Len(rows), attempts) /\ Sound(cookie, Len(rows), attempts)
  BY DEF LabInv
<1>6. cookie \in Sessions
  BY <1>5 DEF Sound
<1> QED
  BY <1>1, <1>2, <1>3, <1>4, <1>5, <1>6

\* A row that is written.
LEMMA RowWritten ==
    ASSUME LabInv, NEW row \in RowRecords, rows' = Append(rows, row)
    PROVE  /\ rows' \in Seq(RowRecords) /\ Len(rows') = Len(rows) + 1 /\ Len(rows) \in Nat
           /\ rows'[Len(rows) + 1] = row
           /\ \A i \in 1 .. Len(rows) : rows'[i] = rows[i]
<1>1. rows \in Seq(RowRecords)
  BY DEF LabInv
<1> QED
  BY <1>1, AppendProperties, LenProperties

\* The browser sends its cookie.
LEMMA SendTurn ==
    ASSUME LabInv, NEW t \in Tabs, NEW kind \in {"rejected", "accepted", "status", "reset"},
           Send(t, kind)
    PROVE  /\ Turn(t, kind, cookie, alarmId[t])
           /\ UNCHANGED <<now, cookie, storeVars, attempts, faults>>
           /\ clean' = (clean /\ Busy = {}) /\ pc[t] = "idle"
<1>1. kind \in Steps
  BY DEF Steps
<1> QED
  BY <1>1, Unset, IsTurn DEF Send, Goto

\* An attempt is counted (app/__init__.py:349-354).
LEMMA CountTurn ==
    ASSUME LabInv, NEW t \in Tabs, CountAttempt(t)
    PROVE  /\ Turn(t, "storing", Parts(Counted(session[t].times), session[t].ids,
                                       session[t].alerted), alarmId[t])
           /\ attempts' = Append(attempts, now) /\ pc[t] = "rejected"
           /\ UNCHANGED <<now, cookie, storeVars, clean, faults>>
<1> DEFINE s == Parts(Counted(session[t].times), session[t].ids, session[t].alerted)
<1>1. session' = [session EXCEPT ![t] = s]
  BY Unset, PartsSet DEF CountAttempt, Counted
<1>2. Drawn(session[t].times, attempts)
  BY Unset DEF Sound
<1>3. Counted(session[t].times) \in Seq(0 .. MaxTime)
  BY <1>2, Unset, CountedFacts DEF LabInv
<1>4. s \in Sessions /\ "storing" \in Steps
  BY <1>3, Unset, PartsTyped DEF Steps
<1> HIDE DEF s
<1>5. Turn(t, "storing", s, alarmId[t])
  BY <1>1, <1>4, Unset, IsTurn DEF CountAttempt, Goto
<1> QED
  BY <1>5 DEF CountAttempt, s

\* The ids beside the times (app/__init__.py:363).
Beside(t) == LastOf(Append(session[t].ids, Len(rows) + 1), Len(session[t].times))

\* Its row is written and its id put beside the times (355-366).
LEMMA StoreTurn ==
    ASSUME LabInv, NEW t \in Tabs, StoreAttempt(t)
    PROVE  /\ Turn(t, IF Alarms(session[t]) THEN "alarming" ELSE "answered",
                   Parts(session[t].times, Beside(t), session[t].alerted), alarmId[t])
           /\ rows' = Append(rows, [kind |-> "failed_login", stamp |-> Last(session[t].times)])
           /\ [kind |-> "failed_login", stamp |-> Last(session[t].times)] \in RowRecords
           /\ Beside(t) \in Seq(Nat) /\ pc[t] = "storing"
           /\ IsTail(Beside(t), Append(session[t].ids, Len(rows) + 1))
           /\ Len(Beside(t)) = IF Len(session[t].ids) + 1 > Len(session[t].times)
                               THEN Len(session[t].times) ELSE Len(session[t].ids) + 1
           /\ UNCHANGED <<now, cookie, incidents, evidence, ruleOn, alerts, historyVars>>
<1> DEFINE s == Parts(session[t].times, Beside(t), session[t].alerted)
           row == [kind |-> "failed_login", stamp |-> Last(session[t].times)]
<1>1. /\ Append(session[t].ids, Len(rows) + 1) \in Seq(Nat)
      /\ Len(Append(session[t].ids, Len(rows) + 1)) = Len(session[t].ids) + 1
  BY Unset, AppendProperties
<1>2. /\ Beside(t) \in Seq(Nat) /\ IsTail(Beside(t), Append(session[t].ids, Len(rows) + 1))
      /\ Len(Beside(t)) = IF Len(session[t].ids) + 1 > Len(session[t].times)
                          THEN Len(session[t].times) ELSE Len(session[t].ids) + 1
  BY <1>1, Unset, LastOfFacts DEF Beside
<1>3. pc[t] = "storing" /\ OneWindow(session[t].times)
  BY DEF StoreAttempt, LabInv, AtStep
<1>4. Last(session[t].times) \in 0 .. MaxTime
  <2>1. Len(session[t].times) \in 1 .. Len(session[t].times)
    BY <1>3, Unset, EmptySeq DEF OneWindow
  <2> QED
    BY <2>1, Unset, ElementOfSeq DEF Last
<1>5. row \in RowRecords /\ rows' = Append(rows, row)
  BY <1>4 DEF RowRecords, StoreAttempt
<1>6. Len(rows') = Len(rows) + 1
  BY <1>5, RowWritten
<1>7. session' = [session EXCEPT ![t] = s]
  <2>1. session' = [session EXCEPT ![t].ids = Beside(t)]
    BY <1>6, Unset DEF StoreAttempt, Beside
  <2> QED
    BY <2>1, Unset, PartsSet
<1>8. s \in Sessions /\ (IF Alarms(session[t]) THEN "alarming" ELSE "answered") \in Steps
  BY <1>2, Unset, PartsTyped DEF Steps
<1> HIDE DEF s, row
<1>9. Turn(t, IF Alarms(session[t]) THEN "alarming" ELSE "answered", s, alarmId[t])
  BY <1>7, <1>8, Unset, IsTurn DEF StoreAttempt, Goto
<1> QED
  BY <1>2, <1>3, <1>5, <1>9 DEF StoreAttempt, s, row

\* The row of the alarm (367-368).
LEMMA AlarmTurn ==
    ASSUME LabInv, NEW t \in Tabs, StoreAlarm(t)
    PROVE  /\ Turn(t, "opening", session[t], Len(rows) + 1)
           /\ rows' = Append(rows, [kind |-> "brute_force", stamp |-> Last(session[t].times)])
           /\ [kind |-> "brute_force", stamp |-> Last(session[t].times)] \in RowRecords
           /\ pc[t] = "alarming"
           /\ UNCHANGED <<now, cookie, incidents, evidence, ruleOn, alerts, historyVars>>
<1> DEFINE row == [kind |-> "brute_force", stamp |-> Last(session[t].times)]
<1>1. pc[t] = "alarming" /\ OneWindow(session[t].times)
  BY DEF StoreAlarm, LabInv, AtStep
<1>2. Last(session[t].times) \in 0 .. MaxTime
  <2>1. Len(session[t].times) \in 1 .. Len(session[t].times)
    BY <1>1, Unset, EmptySeq DEF OneWindow
  <2> QED
    BY <2>1, Unset, ElementOfSeq DEF Last
<1>3. row \in RowRecords /\ rows' = Append(rows, row)
  BY <1>2 DEF RowRecords, StoreAlarm
<1>4. Len(rows') = Len(rows) + 1
  BY <1>3, RowWritten
<1> HIDE DEF row
<1>5. Turn(t, "opening", session[t], Len(rows) + 1)
  <2>1. alarmId' = [alarmId EXCEPT ![t] = Len(rows) + 1] /\ session' = [session EXCEPT ![t] = session[t]]
    BY <1>4, Unset DEF StoreAlarm
  <2>2. pc' = [pc EXCEPT ![t] = "opening"] /\ "opening" \in Steps
    BY DEF StoreAlarm, Goto, Steps
  <2>3. Len(rows) + 1 \in Nat
    BY Unset
  <2> QED
    BY <2>1, <2>2, <2>3, Unset, IsTurn
<1> QED
  BY <1>1, <1>3, <1>5 DEF StoreAlarm, row

\* The incident, if the rule is on (369-372, engine.py:49-54).
LEMMA OpenTurn ==
    ASSUME LabInv, NEW t \in Tabs, OpenIncident(t)
    PROVE  /\ Turn(t, IF ruleOn THEN "recording" ELSE "notifying", session[t], alarmId[t])
           /\ incidents' = IF ruleOn THEN Append(incidents, ToSet(session[t].ids) \cup {alarmId[t]})
                           ELSE incidents
           /\ pc[t] = "opening"
           /\ UNCHANGED <<now, cookie, rows, evidence, ruleOn, alerts, historyVars>>
<1>1. pc' = [pc EXCEPT ![t] = IF ruleOn THEN "recording" ELSE "notifying"]
  BY DEF OpenIncident, Goto
<1>2. (IF ruleOn THEN "recording" ELSE "notifying") \in Steps
  BY DEF Steps
<1>3. session' = [session EXCEPT ![t] = session[t]] /\ alarmId' = [alarmId EXCEPT ![t] = alarmId[t]]
  BY Unset DEF OpenIncident
<1>4. Turn(t, IF ruleOn THEN "recording" ELSE "notifying", session[t], alarmId[t])
  BY <1>1, <1>2, <1>3, Unset, IsTurn
<1> QED
  BY <1>4 DEF OpenIncident

\* Its evidence (engine.py:55-63).
LEMMA RecordTurn ==
    ASSUME LabInv, NEW t \in Tabs, RecordEvidence(t)
    PROVE  /\ Turn(t, "notifying", session[t], alarmId[t]) /\ pc[t] = "recording"
           /\ evidence' = evidence + 1
           /\ UNCHANGED <<now, cookie, rows, incidents, ruleOn, alerts, historyVars>>
<1>1. pc' = [pc EXCEPT ![t] = "notifying"] /\ "notifying" \in Steps
  BY DEF RecordEvidence, Goto, Steps
<1>2. session' = [session EXCEPT ![t] = session[t]] /\ alarmId' = [alarmId EXCEPT ![t] = alarmId[t]]
  BY Unset DEF RecordEvidence
<1>3. Turn(t, "notifying", session[t], alarmId[t])
  BY <1>1, <1>2, Unset, IsTurn
<1> QED
  BY <1>3 DEF RecordEvidence

\* The notification and the flag (373-374).
LEMMA NotifyTurn ==
    ASSUME LabInv, NEW t \in Tabs, Notify(t)
    PROVE  /\ Turn(t, "answered", Parts(session[t].times, session[t].ids, TRUE), alarmId[t])
           /\ pc[t] = "notifying" /\ alerts' = alerts + 1
           /\ UNCHANGED <<now, cookie, rows, incidents, evidence, ruleOn, historyVars>>
<1> DEFINE s == Parts(session[t].times, session[t].ids, TRUE)
<1>1. pc' = [pc EXCEPT ![t] = "answered"] /\ "answered" \in Steps
  BY DEF Notify, Goto, Steps
<1>2. session' = [session EXCEPT ![t] = s]
  BY Unset, PartsSet DEF Notify
<1>3. alarmId' = [alarmId EXCEPT ![t] = alarmId[t]]
  BY Unset DEF Notify
<1>4. s \in Sessions
  BY Unset, PartsTyped
<1> HIDE DEF s
<1>5. Turn(t, "answered", s, alarmId[t])
  BY <1>1, <1>2, <1>3, <1>4, Unset, IsTurn
<1> QED
  BY <1>5 DEF Notify, s

\* Valid credentials (342-346).
LEMMA AcceptTurn ==
    ASSUME LabInv, NEW t \in Tabs, Accept(t)
    PROVE  /\ Turn(t, "answered", Fresh, alarmId[t]) /\ pc[t] = "accepted"
           /\ rows' = Append(rows, [kind |-> "login_success", stamp |-> now])
           /\ [kind |-> "login_success", stamp |-> now] \in RowRecords
           /\ UNCHANGED <<now, cookie, incidents, evidence, ruleOn, alerts, historyVars>>
<1>1. pc' = [pc EXCEPT ![t] = "answered"] /\ "answered" \in Steps
  BY DEF Accept, Goto, Steps
<1>2. session' = [session EXCEPT ![t] = Fresh] /\ alarmId' = [alarmId EXCEPT ![t] = alarmId[t]]
  BY Unset DEF Accept
<1>3. Fresh \in Sessions
  BY SoundFresh DEF Sound
<1>4. Turn(t, "answered", Fresh, alarmId[t])
  BY <1>1, <1>2, <1>3, Unset, IsTurn
<1>5. [kind |-> "login_success", stamp |-> now] \in RowRecords
  BY Unset DEF RowRecords
<1> QED
  BY <1>4, <1>5 DEF Accept

\* The reset (401-409).
LEMMA ResetTurn ==
    ASSUME LabInv, NEW t \in Tabs, Reset(t)
    PROVE  /\ Turn(t, "answered", Fresh, alarmId[t]) /\ pc[t] = "reset"
           /\ UNCHANGED <<now, cookie, storeVars, historyVars>>
<1>1. pc' = [pc EXCEPT ![t] = "answered"] /\ "answered" \in Steps
  BY DEF Reset, Goto, Steps
<1>2. session' = [session EXCEPT ![t] = Fresh] /\ alarmId' = [alarmId EXCEPT ![t] = alarmId[t]]
  BY Unset DEF Reset
<1>3. Fresh \in Sessions
  BY SoundFresh DEF Sound
<1>4. Turn(t, "answered", Fresh, alarmId[t])
  BY <1>1, <1>2, <1>3, Unset, IsTurn
<1> QED
  BY <1>4 DEF Reset

\* The status page (386-399).
LEMMA StatusTurn ==
    ASSUME LabInv, NEW t \in Tabs, Status(t)
    PROVE  /\ Turn(t, "answered", Pruned(session[t]), alarmId[t]) /\ pc[t] = "status"
           /\ UNCHANGED <<now, cookie, storeVars, historyVars>>
<1>1. pc' = [pc EXCEPT ![t] = "answered"] /\ "answered" \in Steps
  BY DEF Status, Goto, Steps
<1>2. session' = [session EXCEPT ![t] = Pruned(session[t])]
      /\ alarmId' = [alarmId EXCEPT ![t] = alarmId[t]]
  BY Unset DEF Status
<1>3. Pruned(session[t]) \in Sessions
  BY Unset, PrunedFacts DEF LabInv, Sound
<1>4. Turn(t, "answered", Pruned(session[t]), alarmId[t])
  BY <1>1, <1>2, <1>3, Unset, IsTurn
<1> QED
  BY <1>4 DEF Status

\* The answer, which replaces the cookie.
LEMMA AnswerTurn ==
    ASSUME LabInv, NEW t \in Tabs, Answer(t)
    PROVE  /\ Turn(t, "idle", Fresh, 0) /\ pc[t] = "answered" /\ cookie' = session[t]
           /\ UNCHANGED <<now, storeVars, historyVars>>
<1>1. pc' = [pc EXCEPT ![t] = "idle"] /\ "idle" \in Steps
  BY DEF Answer, Goto, Steps
<1>2. session' = [session EXCEPT ![t] = Fresh] /\ alarmId' = [alarmId EXCEPT ![t] = 0]
  BY DEF Answer
<1>3. Fresh \in Sessions
  BY SoundFresh DEF Sound
<1>4. Turn(t, "idle", Fresh, 0)
  BY <1>1, <1>2, <1>3, Unset, IsTurn
<1> QED
  BY <1>4 DEF Answer

\* A store call that raises.
LEMMA FailTurn ==
    ASSUME LabInv, NEW t \in Tabs, CallFails(t)
    PROVE  /\ Turn(t, "answered", IF pc[t] = "accepted" THEN Fresh ELSE session[t], alarmId[t])
           /\ faults' = faults + 1 /\ clean' = FALSE
           /\ UNCHANGED <<now, cookie, storeVars, attempts>>
<1> DEFINE s == IF pc[t] = "accepted" THEN Fresh ELSE session[t]
<1>1. pc' = [pc EXCEPT ![t] = "answered"] /\ "answered" \in Steps
  BY DEF CallFails, Goto, Steps
<1>2. session' = [session EXCEPT ![t] = s] /\ alarmId' = [alarmId EXCEPT ![t] = alarmId[t]]
  BY Unset DEF CallFails
<1>3. s \in Sessions
  BY Unset, SoundFresh DEF Sound
<1> HIDE DEF s
<1>4. Turn(t, "answered", s, alarmId[t])
  BY <1>1, <1>2, <1>3, Unset, IsTurn
<1> QED
  BY <1>4 DEF CallFails, s

-----------------------------------------------------------------------------
(* Every step keeps the invariant.                                          *)

\* A row more, with what else the handlers change of the tables.
LEMMA TablesKept ==
    ASSUME LabInv, attempts' = attempts \/ attempts' = Append(attempts, now),
           rows' = rows \/ \E row \in RowRecords : rows' = Append(rows, row),
           incidents' = incidents,
           evidence' \in Nat, alerts' \in Nat, faults' \in Nat, ruleOn' \in BOOLEAN, clean' \in BOOLEAN
    PROVE  \E n, a : /\ Tables(n, a) /\ a = attempts' /\ n \in {Len(rows), Len(rows) + 1}
                    /\ n = Len(rows')
<1>1. /\ rows' \in Seq(RowRecords) /\ Len(rows) \in Nat
      /\ Len(rows') \in {Len(rows), Len(rows) + 1}
      /\ \A i \in 1 .. Len(rows) : rows'[i] = rows[i]
  <2>1. CASE rows' = rows
    BY <2>1, LenProperties DEF LabInv
  <2>2. CASE \E row \in RowRecords : rows' = Append(rows, row)
    BY <2>2, RowWritten
  <2> QED
    BY <2>1, <2>2
<1>2. PICK n, a : n = Len(rows') /\ a = attempts'
  OBVIOUS
<1>3. n \in Nat /\ n >= Len(rows) /\ n \in {Len(rows), Len(rows) + 1}
  BY <1>1, <1>2
<1>4. /\ incidents' \in Seq(SUBSET Nat) /\ Len(incidents') \in Nat
      /\ \A i \in 1 .. Len(incidents') : incidents'[i] \subseteq 1 .. n
  <2>1. incidents \in Seq(SUBSET Nat) /\ \A i \in 1 .. Len(incidents) : incidents[i] \subseteq 1 .. Len(rows)
    BY DEF LabInv
  <2>2. 1 .. Len(rows) \subseteq 1 .. n
    BY <1>1, <1>3
  <2> QED
    BY <2>1, <2>2, LenProperties
<1>5. Tables(n, a)
  BY <1>1, <1>2, <1>3, <1>4 DEF Tables
<1> QED
  BY <1>2, <1>3, <1>5

\* The counters and flags after a step.
LEMMA CountsTyped ==
    ASSUME LabInv
    PROVE  /\ evidence \in Nat /\ alerts \in Nat /\ faults \in Nat
           /\ evidence + 1 \in Nat /\ alerts + 1 \in Nat /\ faults + 1 \in Nat
           /\ ruleOn \in BOOLEAN /\ clean \in BOOLEAN /\ FALSE \in BOOLEAN
           /\ (clean /\ Busy = {}) \in BOOLEAN
BY DEF LabInv

\* A request may leave its session, or take the cookie's or a fresh one.
LEMMA SoundTaken ==
    ASSUME LabInv, NEW t \in Tabs, NEW n, NEW a, Tables(n, a),
           NEW s \in {cookie, session[t], Fresh}
    PROVE  Sound(s, n, a)
<1>1. /\ Len(rows) \in Nat /\ n \in Nat /\ Len(rows) <= n /\ attempts \in Seq(Nat) /\ now \in Nat
      /\ a = attempts \/ a = Append(attempts, now)
  BY Unset DEF Tables
<1>2. Sound(s, Len(rows), attempts)
  BY <1>1, Unset, SoundFresh
<1> QED
  BY <1>1, <1>2, SoundStays

\* What an alarm is it stays, however many rows follow.
LEMMA AlarmStays ==
    ASSUME LabInv, NEW t \in Tabs, NEW n, NEW a, Tables(n, a)
    PROVE  IsAlarm(alarmId[t], rows')
<1>1. IsAlarm(alarmId[t], rows) /\ Len(rows) \in Nat
  BY Unset DEF LabInv
<1> QED
  BY <1>1 DEF IsAlarm, Tables

\* A rejected attempt.
LEMMA CountKeeps == ASSUME LabInv, NEW t \in Tabs, CountAttempt(t) PROVE LabInv'
<1> DEFINE s == Parts(Counted(session[t].times), session[t].ids, session[t].alerted)
<1>1. /\ Turn(t, "storing", s, alarmId[t]) /\ attempts' = Append(attempts, now)
      /\ UNCHANGED <<now, cookie, rows, incidents, evidence, ruleOn, alerts, clean, faults>>
  BY CountTurn DEF storeVars
<1>2. PICK n, a : Tables(n, a) /\ a = attempts' /\ n = Len(rows')
  BY <1>1, TablesKept, CountsTyped
<1>3. /\ Counted(session[t].times) \in Seq(0 .. MaxTime)
      /\ Len(Counted(session[t].times)) \in 1 .. Threshold
      /\ OneWindow(Counted(session[t].times))
      /\ Drawn(Counted(session[t].times), Append(attempts, now))
  <2>1. Drawn(session[t].times, attempts)
    BY Unset DEF Sound
  <2> QED
    BY <2>1, Unset, CountedFacts DEF LabInv
<1>4. /\ s \in Sessions /\ s.times = Counted(session[t].times) /\ s.ids = session[t].ids
  BY <1>3, Unset, PartsTyped
<1> HIDE DEF s
<1>5. Sound(session[t], n, a)
  BY <1>2, SoundTaken
<1>6. Sound(s, n, a)
  BY <1>1, <1>2, <1>3, <1>4, <1>5, Numbers DEF Sound, IdsUpTo
<1>7. AtStep("storing", s, alarmId[t])
  BY <1>3, <1>4 DEF AtStep
<1> QED
  BY <1>1, <1>2, <1>6, <1>7, AlarmStays, TurnKeeps

\* Its row.
LEMMA StoreKeeps == ASSUME LabInv, NEW t \in Tabs, StoreAttempt(t) PROVE LabInv'
<1> DEFINE s == Parts(session[t].times, Beside(t), session[t].alerted)
           step == IF Alarms(session[t]) THEN "alarming" ELSE "answered"
<1>1. /\ Turn(t, step, s, alarmId[t]) /\ \E row \in RowRecords : rows' = Append(rows, row)
      /\ UNCHANGED <<now, cookie, incidents, evidence, ruleOn, alerts, attempts, clean, faults>>
      /\ Beside(t) \in Seq(Nat) /\ pc[t] = "storing"
      /\ IsTail(Beside(t), Append(session[t].ids, Len(rows) + 1))
      /\ Len(Beside(t)) = IF Len(session[t].ids) + 1 > Len(session[t].times)
                          THEN Len(session[t].times) ELSE Len(session[t].ids) + 1
  BY StoreTurn DEF historyVars
<1>2. PICK n, a : Tables(n, a) /\ a = attempts' /\ n = Len(rows')
  BY <1>1, TablesKept, CountsTyped
<1>3. n = Len(rows) + 1 /\ Len(rows) \in Nat
  BY <1>1, <1>2, RowWritten
<1>4. /\ s \in Sessions /\ s.times = session[t].times /\ s.ids = Beside(t)
      /\ s.alerted = session[t].alerted
  BY <1>1, Unset, PartsTyped
<1>5. Sound(session[t], n, a)
  BY <1>2, SoundTaken
<1>6. IdsUpTo(s, n)
  <2>1. /\ Append(session[t].ids, Len(rows) + 1) \in Seq(Nat)
        /\ Len(Append(session[t].ids, Len(rows) + 1)) = Len(session[t].ids) + 1
        /\ \A i \in 1 .. Len(session[t].ids) : Append(session[t].ids, Len(rows) + 1)[i] = session[t].ids[i]
        /\ Append(session[t].ids, Len(rows) + 1)[Len(session[t].ids) + 1] = n
    BY <1>3, Unset, AppendProperties
  <2>2. \A i \in 1 .. Len(session[t].ids) + 1 : Append(session[t].ids, Len(rows) + 1)[i] \in 1 .. n
    <3>1. \A i \in 1 .. Len(session[t].ids) : session[t].ids[i] \in 1 .. n
      BY <1>5 DEF Sound, IdsUpTo
    <3>2. \A i \in 1 .. Len(session[t].ids) + 1 : i \in 1 .. Len(session[t].ids) \/ i = Len(session[t].ids) + 1
      BY Unset
    <3>3. n \in 1 .. n
      BY <1>3
    <3> QED
      BY <2>1, <3>1, <3>2, <3>3
  <2>3. \A i \in 1 .. Len(Beside(t)) : \E j \in 1 .. Len(session[t].ids) + 1 :
            Beside(t)[i] = Append(session[t].ids, Len(rows) + 1)[j]
    <3> DEFINE longer == Append(session[t].ids, Len(rows) + 1)
    <3>1. longer \in Seq(Nat) /\ Beside(t) \in Seq(Nat) /\ IsTail(Beside(t), longer)
          /\ Len(longer) = Len(session[t].ids) + 1
      BY <1>1, <2>1
    <3> HIDE DEF longer
    <3>2. \A i \in 1 .. Len(Beside(t)) : \E j \in 1 .. Len(longer) :
              Beside(t)[i] = longer[j] /\ j = Len(longer) - Len(Beside(t)) + i
      BY <3>1, TailMembers
    <3> QED
      BY <3>1, <3>2 DEF longer
  <2> QED
    BY <1>4, <2>2, <2>3 DEF IdsUpTo
<1>7. Sound(s, n, a)
  <2>1. Len(Beside(t)) <= Threshold
    BY <1>1, <1>5, Unset, Numbers DEF Sound
  <2> QED
    BY <1>4, <1>5, <1>6, <2>1 DEF Sound
<1>8. AtStep(step, s, alarmId[t])
  <2>1. OneWindow(session[t].times) /\ Len(session[t].times) <= Threshold
    BY <1>1, <1>5 DEF LabInv, AtStep, Sound
  <2>2. Alarms(session[t]) => Len(session[t].times) = Threshold /\ ~ session[t].alerted
    BY <2>1, Unset, Numbers DEF Alarms
  <2> HIDE DEF s
  <2> QED
    BY <1>4, <2>1, <2>2 DEF AtStep
<1> HIDE DEF s, step
<1> QED
  BY <1>1, <1>2, <1>7, <1>8, AlarmStays, TurnKeeps

\* The row of the alarm.
LEMMA AlarmKeeps == ASSUME LabInv, NEW t \in Tabs, StoreAlarm(t) PROVE LabInv'
<1>1. PICK row \in RowRecords : rows' = Append(rows, row) /\ row.kind = "brute_force"
  <2> DEFINE row == [kind |-> "brute_force", stamp |-> Last(session[t].times)]
  <2>1. row.kind = "brute_force"
    OBVIOUS
  <2> QED
    BY <2>1, AlarmTurn
<1>2. /\ Turn(t, "opening", session[t], Len(rows) + 1) /\ pc[t] = "alarming"
      /\ UNCHANGED <<now, cookie, incidents, evidence, ruleOn, alerts, attempts, clean, faults>>
  BY AlarmTurn DEF historyVars
<1>3. PICK n, a : Tables(n, a) /\ a = attempts' /\ n = Len(rows')
  BY <1>1, <1>2, TablesKept, CountsTyped
<1>4. Sound(session[t], n, a)
  BY <1>3, SoundTaken
<1>5. Len(rows') = Len(rows) + 1 /\ rows'[Len(rows) + 1] = row /\ Len(rows) \in Nat
  BY <1>1, RowWritten
<1>6. AtStep("opening", session[t], Len(rows) + 1)
  <2>1. AtStep("alarming", session[t], alarmId[t])
    BY <1>2 DEF LabInv
  <2> QED
    BY <1>5, <2>1 DEF AtStep
<1>7. IsAlarm(Len(rows) + 1, rows')
  BY <1>1, <1>5 DEF IsAlarm
<1> QED
  BY <1>2, <1>3, <1>4, <1>6, <1>7, TurnKeeps

\* The incident.
LEMMA OpenKeeps == ASSUME LabInv, NEW t \in Tabs, OpenIncident(t) PROVE LabInv'
<1> DEFINE step == IF ruleOn THEN "recording" ELSE "notifying"
           opened == ToSet(session[t].ids) \cup {alarmId[t]}
<1>1. /\ Turn(t, step, session[t], alarmId[t]) /\ pc[t] = "opening"
      /\ incidents' = IF ruleOn THEN Append(incidents, opened) ELSE incidents
      /\ UNCHANGED <<now, cookie, rows, evidence, ruleOn, alerts, attempts, clean, faults>>
  BY OpenTurn DEF historyVars
<1>2. PICK n : n = Len(rows)
  OBVIOUS
<1>3. /\ incidents \in Seq(SUBSET Nat) /\ n \in Nat
      /\ \A i \in 1 .. Len(incidents) : incidents[i] \subseteq 1 .. n
  BY <1>2, Unset DEF LabInv
<1>4. opened \subseteq 1 .. n /\ opened \in SUBSET Nat
  <2>1. alarmId[t] \in 1 .. n
    BY <1>1, <1>2 DEF LabInv, AtStep, IsAlarm
  <2>2. ToSet(session[t].ids) \subseteq 1 .. n
    <3>1. \A i \in 1 .. Len(session[t].ids) : session[t].ids[i] \in 1 .. n
      BY <1>2, Unset DEF Sound, IdsUpTo
    <3>2. DOMAIN session[t].ids = 1 .. Len(session[t].ids)
      BY Unset, LenProperties
    <3> QED
      BY <3>1, <3>2 DEF ToSet
  <2> QED
    BY <1>3, <2>1, <2>2
<1> HIDE DEF opened, step
<1>5. /\ incidents' \in Seq(SUBSET Nat)
      /\ \A i \in 1 .. Len(incidents') : incidents'[i] \subseteq 1 .. n
  <2>1. CASE ruleOn
    <3>1. /\ incidents' \in Seq(SUBSET Nat) /\ Len(incidents') = Len(incidents) + 1
          /\ \A i \in 1 .. Len(incidents) : incidents'[i] = incidents[i]
          /\ incidents'[Len(incidents) + 1] = opened
      BY <1>1, <1>3, <1>4, <2>1, AppendProperties
    <3>2. \A i \in 1 .. Len(incidents') : i \in 1 .. Len(incidents) \/ i = Len(incidents) + 1
      BY <1>3, <3>1, LenProperties
    <3> QED
      BY <1>3, <1>4, <3>1, <3>2
  <2>2. CASE ~ ruleOn
    BY <1>1, <1>3, <2>2
  <2> QED
    BY <2>1, <2>2
<1>6. Tables(n, attempts')
  <2>1. /\ evidence' \in Nat /\ alerts' \in Nat /\ faults' \in Nat
        /\ ruleOn' \in BOOLEAN /\ clean' \in BOOLEAN
    BY <1>1, CountsTyped
  <2>2. rows' = rows /\ rows \in Seq(RowRecords) /\ attempts' = attempts
    BY <1>1, Unset
  <2> QED
    BY <1>2, <1>3, <1>5, <2>1, <2>2 DEF Tables
<1>7. PICK a : a = attempts' /\ Tables(n, a)
  BY <1>6
<1>8. Sound(session[t], n, a)
  BY <1>7, SoundTaken
<1>9. AtStep(step, session[t], alarmId[t])
  BY DEF AtStep, step
<1> QED
  BY <1>1, <1>7, <1>8, <1>9, AlarmStays, TurnKeeps

\* The other steps of a handler, which leave what the cookie or the request had.
LEMMA OthersKeep ==
    ASSUME LabInv, NEW t \in Tabs,
           \/ \E kind \in {"rejected", "accepted", "status", "reset"} : Send(t, kind)
           \/ RecordEvidence(t) \/ Accept(t) \/ Reset(t) \/ Answer(t) \/ CallFails(t)
    PROVE  LabInv'
<1>1. PICK step \in {"rejected", "accepted", "status", "reset", "notifying", "answered", "idle"},
           s \in {cookie, session[t], Fresh}, id \in {alarmId[t], 0} :
          /\ Turn(t, step, s, id)
          /\ UNCHANGED <<now, incidents, attempts>>
          /\ rows' = rows \/ \E row \in RowRecords : rows' = Append(rows, row)
          /\ cookie' = cookie \/ cookie' = session[t]
          /\ evidence' \in Nat /\ alerts' \in Nat /\ faults' \in Nat
          /\ ruleOn' \in BOOLEAN /\ clean' \in BOOLEAN
  <2>1. CASE \E kind \in {"rejected", "accepted", "status", "reset"} : Send(t, kind)
    <3>1. PICK kind \in {"rejected", "accepted", "status", "reset"} : Send(t, kind)
      BY <2>1
    <3> QED
      BY <3>1, SendTurn, CountsTyped DEF storeVars
  <2>2. CASE RecordEvidence(t)
    BY <2>2, RecordTurn, CountsTyped DEF historyVars
  <2>3. CASE Accept(t)
    BY <2>3, AcceptTurn, CountsTyped DEF historyVars
  <2>4. CASE Reset(t)
    BY <2>4, ResetTurn, CountsTyped DEF storeVars, historyVars
  <2>5. CASE Answer(t)
    BY <2>5, AnswerTurn, CountsTyped DEF storeVars, historyVars
  <2>6. CASE CallFails(t)
    BY <2>6, FailTurn, CountsTyped DEF storeVars
  <2> QED
    BY <2>1, <2>2, <2>3, <2>4, <2>5, <2>6
<1>2. PICK n, a : Tables(n, a) /\ a = attempts' /\ n = Len(rows')
  BY <1>1, TablesKept
<1>3. Sound(s, n, a)
  BY <1>2, SoundTaken
<1>4. AtStep(step, s, id)
  BY DEF AtStep
<1>5. IsAlarm(id, rows')
  <2>1. CASE id = 0
    BY <2>1 DEF IsAlarm
  <2>2. CASE id = alarmId[t]
    BY <1>2, <2>2, AlarmStays
  <2> QED
    BY <2>1, <2>2
<1> QED
  BY <1>1, <1>2, <1>3, <1>4, <1>5, TurnKeeps

\* The notification and the status page, which change the session.
LEMMA AlertedKeeps == ASSUME LabInv, NEW t \in Tabs, Notify(t) \/ Status(t) PROVE LabInv'
<1>1. PICK s : /\ Turn(t, "answered", s, alarmId[t]) /\ Sound(s, Len(rows), attempts)
               /\ UNCHANGED <<now, cookie, rows, incidents, evidence, ruleOn, attempts, clean, faults>>
               /\ alerts' \in Nat
  <2>1. CASE Notify(t)
    <3> DEFINE s == Parts(session[t].times, session[t].ids, TRUE)
    <3>1. /\ s \in Sessions /\ s.times = session[t].times /\ s.ids = session[t].ids
      <4>1. /\ session[t].times \in Seq(0 .. MaxTime) /\ session[t].ids \in Seq(Nat)
            /\ TRUE \in BOOLEAN
        BY Unset
      <4> QED
        BY <4>1, PartsTyped
    <3>2. Turn(t, "answered", s, alarmId[t]) /\ alerts' = alerts + 1
          /\ UNCHANGED <<now, cookie, rows, incidents, evidence, ruleOn, attempts, clean, faults>>
      BY <2>1, NotifyTurn DEF historyVars
    <3> HIDE DEF s
    <3>3. Sound(s, Len(rows), attempts)
      BY <3>1, Unset DEF Sound, IdsUpTo
    <3> QED
      BY <3>2, <3>3, CountsTyped
  <2>2. CASE Status(t)
    <3>1. Sound(Pruned(session[t]), Len(rows), attempts)
      BY Unset, PrunedFacts DEF LabInv
    <3>2. /\ Turn(t, "answered", Pruned(session[t]), alarmId[t])
          /\ UNCHANGED <<now, cookie, rows, incidents, evidence, ruleOn, attempts, clean, faults, alerts>>
      BY <2>2, StatusTurn DEF storeVars, historyVars
    <3> QED
      BY <3>1, <3>2, CountsTyped
  <2> QED
    BY <2>1, <2>2
<1>2. PICK n, a : Tables(n, a) /\ a = attempts' /\ n = Len(rows')
  BY <1>1, TablesKept, CountsTyped
<1>3. Sound(s, n, a) /\ AtStep("answered", s, alarmId[t])
  BY <1>1, <1>2 DEF AtStep
<1> QED
  BY <1>1, <1>2, <1>3, AlarmStays, TurnKeeps

\* Every step.
LEMMA LabStep == LabInv /\ [Next]_vars => LabInv'
<1> SUFFICES ASSUME LabInv, [Next]_vars PROVE LabInv'
  OBVIOUS
<1>1. CASE UNCHANGED vars
  BY <1>1 DEF vars, storeVars, historyVars, LabInv
<1>2. CASE Tick
  <2>1. now' \in 0 .. MaxTime /\ now' = now + 1 /\ now \in Nat
    BY <1>2, Numbers DEF Tick, LabInv
  <2>2. UNCHANGED <<cookie, pc, session, alarmId, storeVars, historyVars>>
    BY <1>2 DEF Tick
  <2>3. \A i \in 1 .. Len(attempts) : attempts[i] <= now'
    <3>1. \A i \in 1 .. Len(attempts) : attempts[i] <= now /\ attempts[i] \in Nat
      <4>1. attempts \in Seq(Nat)
        BY Numbers DEF LabInv
      <4> QED
        BY <4>1, ElementOfSeq DEF LabInv
    <3> QED
      BY <2>1, <3>1
  <2> QED
    BY <2>1, <2>2, <2>3 DEF LabInv, storeVars, historyVars
<1>3. CASE ToggleRule
  BY <1>3 DEF ToggleRule, LabInv, historyVars
<1>4. ASSUME NEW t \in Tabs,
             \/ \E kind \in {"rejected", "accepted", "status", "reset"} : Send(t, kind)
             \/ Handler(t) \/ CallFails(t)
      PROVE  LabInv'
  BY <1>4, CountKeeps, StoreKeeps, AlarmKeeps, OpenKeeps, OthersKeep, AlertedKeeps DEF Handler
<1> QED
  BY <1>1, <1>2, <1>3, <1>4 DEF Next

\* The invariant holds in every state.
THEOREM LabInvariant == Spec => []LabInv
BY LabInit, LabStep, PTL DEF Spec

\* The requests whose incident has no evidence yet.
Recording == {t \in Tabs : pc[t] = "recording"}

\* No more evidence is recorded than there are incidents.
EvidenceInv == IsFiniteSet(Recording) /\ evidence + Cardinality(Recording) <= Len(incidents)

\* It holds at first.
LEMMA EvidenceInit == Init => EvidenceInv
<1> SUFFICES ASSUME Init PROVE EvidenceInv
  OBVIOUS
<1>1. Recording = {} /\ evidence = 0 /\ incidents = <<>>
  BY DEF Init, Recording
<1>2. IsFiniteSet({}) /\ Cardinality({}) = 0 /\ Len(<<>>) = 0
  BY FS_EmptySet
<1> QED
  BY <1>1, <1>2 DEF EvidenceInv

\* A turn that neither opens nor records leaves fewer or as many of them.
LEMMA EvidenceTurn ==
    ASSUME LabInv, EvidenceInv, NEW t \in Tabs, NEW step, NEW s, NEW id, Turn(t, step, s, id),
           step # "recording", UNCHANGED <<evidence, incidents>>
    PROVE  EvidenceInv'
<1>1. Recording' \subseteq Recording
  BY DEF Recording, Turn
<1>2. PICK r : r = Recording'
  OBVIOUS
<1>3. /\ IsFiniteSet(Recording) /\ evidence + Cardinality(Recording) <= Len(incidents)
      /\ evidence \in Nat /\ Len(incidents) \in Nat
  BY LenProperties DEF EvidenceInv, LabInv
<1>4. /\ IsFiniteSet(r) /\ Cardinality(r) <= Cardinality(Recording)
      /\ Cardinality(r) \in Nat /\ Cardinality(Recording) \in Nat
  BY <1>1, <1>2, <1>3, FS_Subset, FS_CardinalityType
<1>5. evidence + Cardinality(r) <= Len(incidents)
  BY <1>3, <1>4
<1> QED
  BY <1>2, <1>4, <1>5 DEF EvidenceInv

\* Every step keeps it.
LEMMA EvidenceStep == LabInv /\ EvidenceInv /\ [Next]_vars => EvidenceInv'
<1> SUFFICES ASSUME LabInv, EvidenceInv, [Next]_vars PROVE EvidenceInv'
  OBVIOUS
<1>1. /\ IsFiniteSet(Recording) /\ evidence + Cardinality(Recording) <= Len(incidents)
      /\ evidence \in Nat /\ incidents \in Seq(SUBSET Nat) /\ Len(incidents) \in Nat
      /\ Cardinality(Recording) \in Nat
  BY LenProperties, FS_CardinalityType DEF EvidenceInv, LabInv
<1>2. CASE Tick \/ ToggleRule \/ UNCHANGED vars
  <2>1. UNCHANGED <<pc, evidence, incidents>>
    BY <1>2 DEF Tick, ToggleRule, vars, storeVars, historyVars
  <2> QED
    BY <2>1 DEF EvidenceInv, Recording
<1>3. ASSUME NEW t \in Tabs, OpenIncident(t) PROVE EvidenceInv'
  <2> DEFINE step == IF ruleOn THEN "recording" ELSE "notifying"
             linked == ToSet(session[t].ids) \cup {alarmId[t]}
  <2>1. /\ Turn(t, step, session[t], alarmId[t]) /\ pc[t] = "opening" /\ evidence' = evidence
        /\ incidents' = IF ruleOn THEN Append(incidents, linked) ELSE incidents
    BY <1>3, OpenTurn
  <2>2. CASE ~ ruleOn
    BY <2>1, <2>2, EvidenceTurn
  <2>3. CASE ruleOn
    <3>1. Recording' = Recording \cup {t} /\ t \notin Recording
      BY <2>1, <2>3 DEF Recording, Turn
    <3>2. PICK r : r = Recording'
      OBVIOUS
    <3>3. IsFiniteSet(r) /\ Cardinality(r) = Cardinality(Recording) + 1
      BY <1>1, <3>1, <3>2, FS_AddElement
    <3>4. PICK n : n = Len(incidents')
      OBVIOUS
    <3>5. n = Len(incidents) + 1
      <4>1. Len(Append(incidents, linked)) = Len(incidents) + 1
        <5> HIDE DEF linked
        <5> QED
          BY <1>1
      <4> QED
        BY <2>1, <2>3, <3>4, <4>1
    <3>6. evidence + Cardinality(r) <= n
      BY <1>1, <3>3, <3>5
    <3> QED
      BY <2>1, <3>2, <3>3, <3>4, <3>6 DEF EvidenceInv
  <2> QED
    BY <2>2, <2>3
<1>4. ASSUME NEW t \in Tabs, RecordEvidence(t) PROVE EvidenceInv'
  <2>1. /\ Turn(t, "notifying", session[t], alarmId[t]) /\ pc[t] = "recording"
        /\ evidence' = evidence + 1 /\ incidents' = incidents
    BY <1>4, RecordTurn
  <2>2. Recording' = Recording \ {t} /\ t \in Recording
    BY <2>1 DEF Recording, Turn
  <2>3. PICK r : r = Recording'
    OBVIOUS
  <2>4. IsFiniteSet(r) /\ Cardinality(r) = Cardinality(Recording) - 1
    BY <1>1, <2>2, <2>3, FS_RemoveElement
  <2>5. evidence + 1 + Cardinality(r) <= Len(incidents)
    BY <1>1, <2>4
  <2> QED
    BY <2>1, <2>3, <2>4, <2>5 DEF EvidenceInv
<1>5. ASSUME NEW t \in Tabs,
             \/ \E kind \in {"rejected", "accepted", "status", "reset"} : Send(t, kind)
             \/ CountAttempt(t) \/ StoreAttempt(t) \/ StoreAlarm(t) \/ Notify(t)
             \/ Accept(t) \/ Reset(t) \/ Status(t) \/ Answer(t) \/ CallFails(t)
      PROVE  EvidenceInv'
  <2>1. \E step, s, id : /\ Turn(t, step, s, id) /\ step # "recording"
                         /\ UNCHANGED <<evidence, incidents>>
    <3>1. CASE \E kind \in {"rejected", "accepted", "status", "reset"} : Send(t, kind)
      <4>1. PICK kind \in {"rejected", "accepted", "status", "reset"} : Send(t, kind)
        BY <3>1
      <4> QED
        BY <4>1, SendTurn DEF storeVars
    <3>2. CASE CountAttempt(t) \/ Reset(t) \/ Status(t) \/ Answer(t) \/ CallFails(t)
      BY <3>2, CountTurn, ResetTurn, StatusTurn, AnswerTurn, FailTurn DEF storeVars
    <3>3. CASE StoreAlarm(t) \/ Notify(t) \/ Accept(t)
      BY <3>3, AlarmTurn, NotifyTurn, AcceptTurn
    <3>4. CASE StoreAttempt(t)
      <4>1. (IF Alarms(session[t]) THEN "alarming" ELSE "answered") # "recording"
        OBVIOUS
      <4> QED
        BY <3>4, <4>1, StoreTurn
    <3> QED
      BY <1>5, <3>1, <3>2, <3>3, <3>4
  <2> QED
    BY <2>1, EvidenceTurn
<1> QED
  BY <1>2, <1>3, <1>4, <1>5 DEF Next, Handler

\* The types of the lab's variables, sessions and tables, whatever requests
\* overlap and fail (app/__init__.py:330-409).
THEOREM LabTypeCorrect == Spec => []LabTypeOK
<1>1. LabInv /\ EvidenceInv => LabTypeOK
  <2> SUFFICES ASSUME LabInv, EvidenceInv PROVE LabTypeOK
    OBVIOUS
  <2>1. /\ Len(rows) \in Nat /\ DOMAIN rows = 1 .. Len(rows)
        /\ Len(incidents) \in Nat /\ DOMAIN incidents = 1 .. Len(incidents)
    BY LenProperties DEF LabInv
  <2>2. ASSUME NEW s, Sound(s, Len(rows), attempts) PROVE SessionOK(s)
    <3>1. s \in Sessions /\ DOMAIN s.ids = 1 .. Len(s.ids)
      BY <2>2, SessionLists, LenProperties DEF Sound
    <3> QED
      BY <2>1, <2>2, <3>1 DEF Sound, IdsUpTo, SessionOK
  <2>3. SessionOK(cookie) /\ \A t \in Tabs : SessionOK(session[t])
    BY <2>2 DEF LabInv
  <2>4. \A t \in Tabs : alarmId[t] # 0 => /\ alarmId[t] \in DOMAIN rows
                                          /\ rows[alarmId[t]].kind = "brute_force"
    BY <2>1 DEF LabInv, IsAlarm
  <2>5. incidents \in Seq(SUBSET DOMAIN rows)
    <3>1. \A i \in 1 .. Len(incidents) : incidents[i] \in SUBSET DOMAIN rows
      BY <2>1 DEF LabInv
    <3>2. incidents \in [1 .. Len(incidents) -> SUBSET DOMAIN rows]
      BY <3>1, LenProperties DEF LabInv
    <3> QED
      BY <2>1, <3>2
  <2>6. evidence <= Len(incidents)
    BY <2>1, FS_CardinalityType DEF EvidenceInv, LabInv
  <2> QED
    BY <2>3, <2>4, <2>5, <2>6 DEF LabInv, LabTypeOK, Steps, RowRecords
<1> QED
  BY <1>1, LabInit, LabStep, EvidenceInit, EvidenceStep, PTL DEF Spec

\* However requests overlap, whichever cookie comes back last and whatever
\* fails, an alarm of the lab stands for Threshold rejected attempts in one
\* window (app/__init__.py:350-368).
THEOREM AlarmsOfTheLabAreBacked == Spec => []AlertsAreBacked
<1>1. LabInv => AlertsAreBacked
  <2> SUFFICES ASSUME LabInv, NEW t \in Tabs, pc[t] = "alarming"
               PROVE  Cardinality(Recent(attempts, Last(session[t].times))) >= Threshold
    BY DEF AlertsAreBacked
  <2>1. OneWindow(session[t].times) /\ Len(session[t].times) = Threshold
    BY DEF LabInv, AtStep
  <2>2. Drawn(session[t].times, attempts)
    BY Unset DEF Sound
  <2>3. Len(session[t].times) <= Cardinality(Recent(attempts, Last(session[t].times)))
    BY <2>1, <2>2, Unset, DrawnCounted
  <2>4. Cardinality(Recent(attempts, Last(session[t].times))) \in Nat
    <3>1. DOMAIN attempts = 1 .. Len(attempts) /\ Len(attempts) \in Int /\ 1 \in Int
      BY Unset, LenProperties
    <3>2. IsFiniteSet(1 .. Len(attempts))
      BY <3>1, FS_Interval
    <3>3. Recent(attempts, Last(session[t].times)) \in SUBSET (1 .. Len(attempts))
      BY <3>1 DEF Recent
    <3> QED
      BY <3>2, <3>3, FS_Subset, FS_CardinalityType
  <2> QED
    BY <2>1, <2>3, <2>4, Numbers
<1> QED
  BY <1>1, LabInvariant, PTL

-----------------------------------------------------------------------------
(* Requests one at a time and nothing that fails.                           *)

\* This id is that of a rejected attempt at this time.
Failed(id, stamp, table) ==
    id \in 1 .. Len(table) /\ table[id] = [kind |-> "failed_login", stamp |-> stamp]

\* The first n of the times are those of the last n of the ids.
Paired(times, ids, n, table) ==
    /\ n \in 0 .. Len(ids)
    /\ \A i \in 1 .. n : Failed(ids[Len(ids) - n + i], times[i], table)

Rising(ids) == \A i, j \in 1 .. Len(ids) : i < j => ids[i] < ids[j]

\* Each time has its id.
Matched(s, table) ==
    /\ Len(s.ids) = Len(s.times) /\ Paired(s.times, s.ids, Len(s.times), table)
    /\ Rising(s.ids)

\* While nothing was alerted, none of the ids is linked.
Apart(s, opened) ==
    ~ s.alerted => \A i \in 1 .. Len(opened), k \in 1 .. Len(s.ids) : s.ids[k] \notin opened[i]

\* The session of the only request, at each of its steps.
Current(step, s, id, table, opened) ==
    /\ IF step = "storing" THEN Paired(s.times, s.ids, Len(s.times) - 1, table) /\ Rising(s.ids)
       ELSE Matched(s, table)
    /\ step \notin {"recording", "notifying"} => Apart(s, opened)
    /\ step = "opening" => \A i \in 1 .. Len(opened) : id \notin opened[i]

\* An incident that links one burst.
OneBurst(ids, table) ==
    LET failed == {id \in ids : table[id].kind = "failed_login"}
    IN  /\ Cardinality(failed) = Threshold
        /\ \A a, b \in failed : table[a].stamp < table[b].stamp + Window

Reports(table, opened) ==
    /\ \A i \in 1 .. Len(opened) : OneBurst(opened[i], table)
    /\ \A i, j \in 1 .. Len(opened) : i # j => opened[i] \cap opened[j] = {}

Alone == \A t, u \in Tabs : pc[t] # "idle" /\ pc[u] # "idle" => t = u

CleanInv == clean =>
    /\ Alone
    /\ (\A t \in Tabs : pc[t] = "idle") => Current("idle", cookie, 0, rows, incidents)
    /\ \A t \in Tabs : pc[t] # "idle" => Current(pc[t], session[t], alarmId[t], rows, incidents)
    /\ Reports(rows, incidents)

\* The second table goes on where the first ends.
Grows(table, longer) ==
    /\ Len(table) \in Nat /\ Len(longer) \in Nat /\ Len(table) <= Len(longer)
    /\ \A i \in 1 .. Len(table) : longer[i] = table[i]

\* What was matched stays matched, and so are the incidents.
LEMMA GrowsKeeps ==
    ASSUME NEW table, NEW longer, Grows(table, longer)
    PROVE  /\ \A times, ids, n : Paired(times, ids, n, table) => Paired(times, ids, n, longer)
           /\ \A s : Matched(s, table) => Matched(s, longer)
           /\ \A step, s, id, opened :
                 Current(step, s, id, table, opened) => Current(step, s, id, longer, opened)
           /\ \A opened : /\ \A i \in 1 .. Len(opened) : opened[i] \subseteq 1 .. Len(table)
                         /\ Reports(table, opened)
                         => Reports(longer, opened)
<1>1. \A id, stamp : Failed(id, stamp, table) => Failed(id, stamp, longer)
  BY DEF Failed, Grows
<1>2. \A times, ids, n : Paired(times, ids, n, table) => Paired(times, ids, n, longer)
  BY <1>1 DEF Paired
<1>3. \A s : Matched(s, table) => Matched(s, longer)
  BY <1>2 DEF Matched
<1>4. \A step, s, id, opened :
          Current(step, s, id, table, opened) => Current(step, s, id, longer, opened)
  BY <1>2, <1>3 DEF Current
<1>5. ASSUME NEW ids, ids \subseteq 1 .. Len(table), OneBurst(ids, table)
      PROVE  OneBurst(ids, longer)
  <2>1. \A id \in ids : longer[id] = table[id]
    BY <1>5 DEF Grows
  <2>2. {id \in ids : longer[id].kind = "failed_login"} = {id \in ids : table[id].kind = "failed_login"}
    BY <2>1
  <2> QED
    BY <1>5, <2>1, <2>2 DEF OneBurst
<1> QED
  BY <1>2, <1>3, <1>4, <1>5 DEF Reports

\* A session with nothing in it.
LEMMA FreshCurrent ==
    ASSUME NEW step \in {"idle", "answered"}, NEW id, NEW table, NEW opened
    PROVE  Current(step, Fresh, id, table, opened)
<1>1. Fresh.times = <<>> /\ Fresh.ids = <<>> /\ Len(<<>>) = 0 /\ 1 .. 0 = {}
  BY DEF Fresh
<1>2. Matched(Fresh, table)
  BY <1>1 DEF Matched, Paired, Rising
<1>3. Apart(Fresh, opened)
  BY <1>1 DEF Apart
<1> QED
  BY <1>2, <1>3 DEF Current

\* The invariant holds at first.
LEMMA CleanInit == Init => CleanInv
<1> SUFFICES ASSUME Init PROVE CleanInv
  OBVIOUS
<1>1. /\ cookie = Fresh /\ rows = <<>> /\ incidents = <<>> /\ \A t \in Tabs : pc[t] = "idle"
  BY DEF Init
<1>2. Reports(<<>>, <<>>)
  <2>1. Len(<<>>) = 0 /\ 1 .. 0 = {}
    OBVIOUS
  <2> QED
    BY <2>1 DEF Reports
<1> QED
  BY <1>1, <1>2, FreshCurrent DEF CleanInv, Alone

\* The end of matched lists is matched, when as many are left of each.
LEMMA MatchedTail ==
    ASSUME NEW times \in Seq(Nat), NEW ids \in Seq(Nat), NEW ts \in Seq(Nat), NEW is \in Seq(Nat),
           NEW table, Len(ids) = Len(times), Paired(times, ids, Len(times), table), Rising(ids),
           IsTail(ts, times), IsTail(is, ids), Len(is) = Len(ts)
    PROVE  Paired(ts, is, Len(ts), table) /\ Rising(is)
<1>1. /\ Len(times) \in Nat /\ Len(ids) \in Nat /\ Len(ts) \in Nat /\ Len(is) \in Nat
      /\ Len(ts) <= Len(times)
  BY LenProperties DEF IsTail
<1> DEFINE d == Len(times) - Len(ts)
<1>2. d \in Nat /\ \A i \in 1 .. Len(ts) : d + i \in 1 .. Len(times)
  BY <1>1
<1>3. \A i \in 1 .. Len(ts) : ts[i] = times[d + i] /\ is[i] = ids[d + i]
  BY DEF IsTail
<1> HIDE DEF d
<1>4. \A i \in 1 .. Len(times) : Failed(ids[i], times[i], table)
  <2>1. \A i \in 1 .. Len(times) : Len(ids) - Len(times) + i = i
    BY <1>1
  <2> QED
    BY <2>1 DEF Paired
<1>5. \A i \in 1 .. Len(ts) : Failed(is[i], ts[i], table)
  BY <1>2, <1>3, <1>4
<1>6. Paired(ts, is, Len(ts), table)
  <2>1. \A i \in 1 .. Len(ts) : Len(is) - Len(ts) + i = i
    BY <1>1
  <2>2. Len(ts) \in 0 .. Len(is)
    BY <1>1
  <2> QED
    BY <1>5, <2>1, <2>2 DEF Paired
<1>7. Rising(is)
  <2> SUFFICES ASSUME NEW i \in 1 .. Len(is), NEW j \in 1 .. Len(is), i < j PROVE is[i] < is[j]
    BY DEF Rising
  <2>1. i \in 1 .. Len(ts) /\ j \in 1 .. Len(ts)
    OBVIOUS
  <2>2. is[i] = ids[d + i] /\ is[j] = ids[d + j]
    BY <1>3, <2>1
  <2>3. d + i \in 1 .. Len(ids) /\ d + j \in 1 .. Len(ids)
    BY <1>2, <2>1
  <2>4. d + i < d + j
    BY <1>2
  <2> QED
    BY <2>2, <2>3, <2>4 DEF Rising
<1> QED
  BY <1>6, <1>7

\* The attempt is counted: its id is still to come.
LEMMA CountCurrent ==
    ASSUME LabInv, NEW t \in Tabs, NEW opened,
           Current("rejected", session[t], alarmId[t], rows, opened)
    PROVE  Current("storing", Parts(Counted(session[t].times), session[t].ids, session[t].alerted),
                   alarmId[t], rows, opened)
<1> DEFINE c == Counted(session[t].times)
           times == session[t].times
           ids == session[t].ids
           s == Parts(c, ids, session[t].alerted)
<1>1. /\ c \in Seq(0 .. MaxTime) /\ Len(c) \in 1 .. Threshold /\ Len(c) - 1 <= Len(times)
      /\ \A i \in 1 .. Len(c) - 1 : c[i] = times[Len(times) - (Len(c) - 1) + i]
  <2>1. Drawn(session[t].times, attempts)
    BY Unset DEF Sound
  <2> QED
    BY <2>1, Unset, CountedFacts DEF LabInv
<1>2. s.times = c /\ s.ids = ids /\ s.alerted = session[t].alerted
  BY <1>1, Unset, PartsTyped
<1>3. Len(ids) = Len(times) /\ Paired(times, ids, Len(times), rows) /\ Rising(ids) /\ Apart(session[t], opened)
  BY DEF Current, Matched
<1>4. Len(times) \in Nat /\ Len(ids) \in Nat
  BY Unset
<1> HIDE DEF c, times, ids, s
<1>5. Paired(c, ids, Len(c) - 1, rows)
  <2>1. \A i \in 1 .. Len(times) : Failed(ids[i], times[i], rows)
    <3>1. \A i \in 1 .. Len(times) : Len(ids) - Len(times) + i = i
      BY <1>3, <1>4
    <3> QED
      BY <1>3, <3>1 DEF Paired
  <2>2. ASSUME NEW i \in 1 .. Len(c) - 1 PROVE Failed(ids[Len(ids) - (Len(c) - 1) + i], c[i], rows)
    <3>1. Len(ids) - (Len(c) - 1) + i \in 1 .. Len(times)
      BY <1>1, <1>3, <1>4
    <3>2. Len(ids) - (Len(c) - 1) + i = Len(times) - (Len(c) - 1) + i
      BY <1>3
    <3> QED
      BY <1>1, <2>1, <3>1, <3>2
  <2>3. Len(c) - 1 \in 0 .. Len(ids)
    BY <1>1, <1>3, <1>4, Numbers
  <2> QED
    BY <2>2, <2>3 DEF Paired
<1>6. Apart(s, opened)
  BY <1>2, <1>3 DEF Apart, ids
<1>7. Current("storing", s, alarmId[t], rows, opened)
  BY <1>2, <1>3, <1>5, <1>6 DEF Current
<1> QED
  BY <1>7 DEF s, c, ids, times

\* The row that was just written is the latest.
LEMMA RowGrows ==
    ASSUME LabInv, NEW row \in RowRecords, rows' = Append(rows, row)
    PROVE  Grows(rows, rows') /\ Len(rows') = Len(rows) + 1 /\ rows'[Len(rows) + 1] = row
<1>1. /\ Len(rows') = Len(rows) + 1 /\ Len(rows) \in Nat /\ rows'[Len(rows) + 1] = row
      /\ \A i \in 1 .. Len(rows) : rows'[i] = rows[i]
  BY RowWritten
<1> QED
  BY <1>1 DEF Grows

\* The id of the row is put beside its time.
LEMMA StoreCurrent ==
    ASSUME LabInv, NEW t \in Tabs, StoreAttempt(t),
           Current("storing", session[t], alarmId[t], rows, incidents),
           NEW step \in {"alarming", "answered"}
    PROVE  Current(step, Parts(session[t].times, Beside(t), session[t].alerted), alarmId[t],
                   rows', incidents)
<1> DEFINE times == session[t].times
           ids == session[t].ids
           new == Len(rows) + 1
           longer == Append(ids, new)
           is == Beside(t)
           m == Len(times)
           s == Parts(times, is, session[t].alerted)
<1>1. /\ OneWindow(times) /\ times \in Seq(Nat) /\ m \in Nat /\ ids \in Seq(Nat) /\ Len(ids) \in Nat
      /\ Len(rows) \in Nat /\ new \in Nat
  BY Unset DEF StoreAttempt, LabInv, AtStep
<1>2. m >= 1
  BY <1>1, EmptySeq DEF OneWindow
<1>3. /\ longer \in Seq(Nat) /\ Len(longer) = Len(ids) + 1
      /\ \A i \in 1 .. Len(ids) : longer[i] = ids[i]
      /\ longer[Len(ids) + 1] = new
  BY <1>1, AppendProperties
<1>4. m - 1 \in 0 .. Len(ids) /\ Rising(ids) /\ Apart(session[t], incidents)
      /\ \A i \in 1 .. m - 1 : Failed(ids[Len(ids) - (m - 1) + i], times[i], rows)
  BY DEF Current, Paired
<1>5. /\ is \in Seq(Nat) /\ IsTail(is, longer)
      /\ Len(is) = IF Len(ids) + 1 > m THEN m ELSE Len(ids) + 1
  BY StoreTurn
<1>6. /\ rows' = Append(rows, [kind |-> "failed_login", stamp |-> Last(times)])
      /\ [kind |-> "failed_login", stamp |-> Last(times)] \in RowRecords
  BY StoreTurn
<1>7. /\ Grows(rows, rows') /\ Len(rows') = new
      /\ rows'[new] = [kind |-> "failed_login", stamp |-> Last(times)]
  BY <1>6, RowGrows
<1>8. /\ s.times = times /\ s.ids = is /\ s.alerted = session[t].alerted
  BY <1>5, Unset, PartsTyped
<1> HIDE DEF times, ids, new, longer, is, s
<1>9. Len(is) = m
  BY <1>1, <1>4, <1>5
<1>10. \A i \in 1 .. m : is[i] = longer[Len(ids) + 1 - m + i]
  <2>1. \A i \in 1 .. Len(is) : is[i] = longer[Len(longer) - Len(is) + i]
    BY <1>5 DEF IsTail
  <2> QED
    BY <1>3, <1>9, <2>1
<1>11. ASSUME NEW i \in 1 .. m PROVE Failed(is[i], times[i], rows')
  <2>1. CASE i = m
    <3>1. Len(ids) + 1 - m + i = Len(ids) + 1
      BY <1>1, <2>1
    <3>2. is[i] = new
      BY <1>3, <1>10, <3>1
    <3>3. times[i] = Last(times)
      BY <2>1 DEF Last
    <3>4. new \in 1 .. Len(rows')
      BY <1>1, <1>7 DEF new
    <3> QED
      BY <1>7, <3>2, <3>3, <3>4 DEF Failed
  <2>2. CASE i # m
    <3>1. i \in 1 .. m - 1
      BY <1>1, <2>2
    <3>2. Len(ids) - (m - 1) + i \in 1 .. Len(ids)
      BY <1>1, <1>4, <3>1
    <3>3. Len(ids) + 1 - m + i = Len(ids) - (m - 1) + i
      BY <1>1
    <3>4. is[i] = ids[Len(ids) - (m - 1) + i]
      BY <1>3, <1>10, <3>2, <3>3
    <3>5. Failed(is[i], times[i], rows)
      BY <1>4, <3>1, <3>4
    <3> QED
      BY <1>7, <3>5 DEF Failed, Grows
  <2> QED
    BY <2>1, <2>2
<1>12. Paired(times, is, m, rows')
  <2>1. \A i \in 1 .. m : Len(is) - m + i = i
    BY <1>1, <1>9
  <2>2. m \in 0 .. Len(is)
    BY <1>1, <1>9
  <2> QED
    BY <1>11, <2>1, <2>2 DEF Paired
<1>13. \A i \in 1 .. Len(ids) : ids[i] \in 1 .. Len(rows)
  BY Unset DEF Sound, IdsUpTo, ids
<1>14. Rising(is)
  <2>1. ASSUME NEW i \in 1 .. Len(longer), NEW j \in 1 .. Len(longer), i < j
        PROVE  longer[i] < longer[j]
    <3>4. i \in 1 .. Len(ids)
      <4>1. Len(longer) = Len(ids) + 1
        BY <1>3
      <4> QED
        BY <1>1, <2>1, <4>1
    <3>1. i \in 1 .. Len(ids) /\ longer[i] = ids[i]
      BY <1>3, <3>4
    <3>2. CASE j = Len(ids) + 1
      <4>1. longer[j] = new /\ ids[i] \in 1 .. Len(rows)
        BY <1>3, <1>13, <3>1, <3>2
      <4> QED
        BY <1>1, <3>1, <4>1 DEF new
    <3>3. CASE j # Len(ids) + 1
      <4>1. j \in 1 .. Len(ids)
        BY <1>1, <1>3, <3>3
      <4> QED
        BY <1>3, <1>4, <2>1, <3>1, <4>1 DEF Rising
    <3> QED
      BY <3>2, <3>3
  <2> SUFFICES ASSUME NEW i \in 1 .. Len(is), NEW j \in 1 .. Len(is), i < j PROVE is[i] < is[j]
    BY DEF Rising
  <2> DEFINE d == Len(ids) + 1 - m
  <2>2. d \in Nat /\ i \in 1 .. m /\ j \in 1 .. m
    BY <1>1, <1>4, <1>9
  <2>3. d + i \in 1 .. Len(longer) /\ d + j \in 1 .. Len(longer) /\ d + i < d + j
    <3>1. Len(longer) = d + m
      BY <1>1, <1>3
    <3> HIDE DEF d
    <3> QED
      BY <1>1, <2>2, <3>1
  <2>4. is[i] = longer[d + i] /\ is[j] = longer[d + j]
    BY <1>10, <2>2
  <2> HIDE DEF d
  <2> QED
    BY <2>1, <2>3, <2>4
<1>15. Apart(s, incidents)
  <2> SUFFICES ASSUME ~ s.alerted, NEW i \in 1 .. Len(incidents), NEW k \in 1 .. Len(is)
               PROVE  is[k] \notin incidents[i]
    BY <1>8 DEF Apart
  <2>1. \E j \in 1 .. Len(longer) : is[k] = longer[j]
    <3>1. Len(ids) + 1 - m + k \in 1 .. Len(longer)
      BY <1>1, <1>3, <1>4, <1>9
    <3> QED
      BY <1>9, <1>10, <3>1
  <2>2. PICK j \in 1 .. Len(longer) : is[k] = longer[j]
    BY <2>1
  <2>3. CASE j = Len(ids) + 1
    <3>1. is[k] = new /\ incidents[i] \subseteq 1 .. Len(rows)
      BY <1>3, <2>2, <2>3 DEF LabInv
    <3>2. new \notin 1 .. Len(rows)
      BY <1>1 DEF new
    <3> QED
      BY <3>1, <3>2
  <2>4. CASE j # Len(ids) + 1
    <3>1. j \in 1 .. Len(ids)
      BY <1>1, <1>3, <2>4
    <3>2. is[k] = ids[j]
      BY <1>3, <2>2, <3>1
    <3> QED
      BY <1>4, <1>8, <3>1, <3>2 DEF Apart, ids
  <2> QED
    BY <2>3, <2>4
<1>16. Current(step, s, alarmId[t], rows', incidents)
  BY <1>8, <1>9, <1>12, <1>14, <1>15 DEF Current, Matched
<1> QED
  BY <1>16 DEF s, is, times

\* The status page prunes both lists alike.
LEMMA StatusCurrent ==
    ASSUME LabInv, NEW t \in Tabs, NEW opened,
           Current("status", session[t], alarmId[t], rows, opened)
    PROVE  Current("answered", Pruned(session[t]), alarmId[t], rows, opened)
<1> DEFINE s == session[t]
           p == Pruned(session[t])
<1>1. /\ Sound(p, Len(rows), attempts) /\ IsTail(p.times, s.times) /\ IsTail(p.ids, s.ids)
      /\ Len(s.ids) >= Len(s.times) => Len(p.ids) = Len(p.times)
      /\ p.alerted = (s.alerted /\ p.times # <<>>)
      /\ p.times = <<>> => p.ids = <<>>
  BY Unset, PrunedFacts DEF LabInv
<1>2. /\ p.times \in Seq(Nat) /\ p.ids \in Seq(Nat) /\ Len(p.ids) \in Nat
      /\ s.times \in Seq(Nat) /\ s.ids \in Seq(Nat) /\ Len(s.ids) \in Nat
  BY <1>1, Unset, SessionLists DEF Sound
<1>3. /\ Len(s.ids) = Len(s.times) /\ Paired(s.times, s.ids, Len(s.times), rows)
      /\ Rising(s.ids) /\ Apart(s, opened)
  BY DEF Current, Matched
<1> HIDE DEF s, p
<1>4. Len(p.ids) = Len(p.times)
  BY <1>1, <1>2, <1>3
<1>5. Paired(p.times, p.ids, Len(p.times), rows) /\ Rising(p.ids)
  BY <1>1, <1>2, <1>3, <1>4, MatchedTail
<1>6. Apart(p, opened)
  <2> SUFFICES ASSUME ~ p.alerted, NEW i \in 1 .. Len(opened), NEW k \in 1 .. Len(p.ids)
               PROVE  p.ids[k] \notin opened[i]
    BY DEF Apart
  <2>1. p.times # <<>>
    BY <1>1, EmptySeq
  <2>2. ~ s.alerted
    BY <1>1, <2>1
  <2>3. \E j \in 1 .. Len(s.ids) : p.ids[k] = s.ids[j]
    <3>1. p.ids \in Seq(Nat) /\ s.ids \in Seq(Nat) /\ IsTail(p.ids, s.ids)
      BY <1>1, <1>2
    <3>2. \A m \in 1 .. Len(p.ids) :
             \E j \in 1 .. Len(s.ids) : p.ids[m] = s.ids[j] /\ j = Len(s.ids) - Len(p.ids) + m
      BY <3>1, TailMembers
    <3> QED
      BY <3>2
  <2> QED
    BY <1>3, <2>2, <2>3 DEF Apart
<1>7. Current("answered", p, alarmId[t], rows, opened)
  BY <1>4, <1>5, <1>6 DEF Current, Matched
<1> QED
  BY <1>7 DEF p

\* A list that rises has as many members as places.
LEMMA RisingCounted ==
    ASSUME NEW ids \in Seq(Nat), Rising(ids)
    PROVE  Cardinality(ToSet(ids)) = Len(ids)
<1>1. Len(ids) \in Nat /\ DOMAIN ids = 1 .. Len(ids)
  BY LenProperties
<1>2. \A x : x \in ToSet(ids) <=> \E i \in 1 .. Len(ids) : ids[i] = x
  BY <1>1 DEF ToSet
<1>3. \A i, j \in 1 .. Len(ids) : ids[i] = ids[j] => i = j
  <2> SUFFICES ASSUME NEW i \in 1 .. Len(ids), NEW j \in 1 .. Len(ids), ids[i] = ids[j] PROVE i = j
    OBVIOUS
  <2>1. ids[i] \in Nat /\ ids[j] \in Nat
    BY ElementOfSeq
  <2>2. ~ (i < j) /\ ~ (j < i)
    BY <2>1 DEF Rising
  <2> QED
    BY <1>1, <2>2
<1>4. ids \in [1 .. Len(ids) -> ToSet(ids)]
  <2>1. \A i \in 1 .. Len(ids) : ids[i] \in ToSet(ids)
    BY <1>2
  <2>2. ids \in [1 .. Len(ids) -> Nat]
    BY LenProperties
  <2> QED
    BY <2>1, <2>2
<1>5. ids \in Bijection(1 .. Len(ids), ToSet(ids))
  <2>1. ids \in Injection(1 .. Len(ids), ToSet(ids))
    BY <1>3, <1>4, Fun_IsInj
  <2>2. \A x \in ToSet(ids) : \E i \in 1 .. Len(ids) : ids[i] = x
    BY <1>2
  <2> QED
    BY <1>3, <1>4, <2>2, Fun_IsBij
<1>6. ExistsBijection(1 .. Len(ids), ToSet(ids))
  BY <1>5, Fun_ExistsBij
<1> QED
  BY <1>1, <1>6, FS_CountingElements

\* The incident links the burst, and nothing that another links.
LEMMA OpenReports ==
    ASSUME LabInv, NEW t \in Tabs, pc[t] = "opening", Reports(rows, incidents),
           Current("opening", session[t], alarmId[t], rows, incidents)
    PROVE  Reports(rows, Append(incidents, ToSet(session[t].ids) \cup {alarmId[t]}))
<1> DEFINE times == session[t].times
           ids == session[t].ids
           alarm == alarmId[t]
           linked == ToSet(ids) \cup {alarm}
           more == Append(incidents, linked)
<1>1. /\ OneWindow(times) /\ Len(times) = Threshold /\ ~ session[t].alerted
      /\ alarm \in 1 .. Len(rows) /\ rows[alarm].kind = "brute_force"
  BY DEF LabInv, AtStep, IsAlarm
<1>2. /\ Len(ids) = Len(times) /\ Paired(times, ids, Len(times), rows) /\ Rising(ids)
      /\ Apart(session[t], incidents)
      /\ \A i \in 1 .. Len(incidents) : alarm \notin incidents[i]
  BY DEF Current, Matched
<1>3. /\ times \in Seq(Nat) /\ ids \in Seq(Nat) /\ Len(ids) \in Nat /\ DOMAIN ids = 1 .. Len(ids)
  BY Unset, LenProperties
<1>4. \A i \in 1 .. Len(incidents), k \in 1 .. Len(ids) : ids[k] \notin incidents[i]
  BY <1>1, <1>2 DEF Apart
<1> HIDE DEF times, ids, alarm
<1>5. \A k \in 1 .. Len(ids) : Failed(ids[k], times[k], rows)
  <2>1. \A k \in 1 .. Len(ids) : Len(ids) - Len(times) + k = k
    BY <1>2, <1>3
  <2> QED
    BY <1>2, <2>1 DEF Paired
<1>6. \A x : x \in ToSet(ids) <=> \E k \in 1 .. Len(ids) : ids[k] = x
  BY <1>3 DEF ToSet
<1>7. {id \in linked : rows[id].kind = "failed_login"} = ToSet(ids)
  <2>1. ASSUME NEW id \in ToSet(ids) PROVE rows[id].kind = "failed_login"
    <3>1. PICK k \in 1 .. Len(ids) : ids[k] = id
      BY <1>6
    <3>2. rows[id] = [kind |-> "failed_login", stamp |-> times[k]]
      BY <1>5, <3>1 DEF Failed
    <3> QED
      BY <3>2
  <2>2. rows[alarm].kind # "failed_login"
    BY <1>1
  <2> QED
    BY <2>1, <2>2
<1>8. Cardinality(ToSet(ids)) = Threshold
  BY <1>1, <1>2, <1>3, RisingCounted
<1>9. ASSUME NEW a \in ToSet(ids), NEW b \in ToSet(ids)
      PROVE  rows[a].stamp < rows[b].stamp + Window
  <2>1. PICK i \in 1 .. Len(ids), j \in 1 .. Len(ids) : ids[i] = a /\ ids[j] = b
    BY <1>6
  <2>4. /\ rows[a] = [kind |-> "failed_login", stamp |-> times[i]]
        /\ rows[b] = [kind |-> "failed_login", stamp |-> times[j]]
    BY <1>5, <2>1 DEF Failed
  <2>2. rows[a].stamp = times[i] /\ rows[b].stamp = times[j]
    BY <2>4
  <2>3. /\ times[i] \in Nat /\ times[j] \in Nat /\ Last(times) \in Nat
        /\ times[i] <= Last(times) /\ Last(times) < times[j] + Window
    <3>1. times[i] <= Last(times) /\ Last(times) < times[j] + Window
      BY <1>1, <1>2 DEF OneWindow
    <3>2. Len(times) \in 1 .. Len(times)
      BY <1>1, Numbers
    <3> QED
      BY <1>2, <1>3, <3>1, <3>2, ElementOfSeq DEF Last
  <2> QED
    BY <2>2, <2>3, Numbers
<1>10. OneBurst(linked, rows)
  BY <1>7, <1>8, <1>9 DEF OneBurst
<1>11. \A i \in 1 .. Len(incidents) : linked \cap incidents[i] = {}
  BY <1>2, <1>4, <1>6
<1>12. /\ Len(more) = Len(incidents) + 1 /\ Len(incidents) \in Nat
       /\ \A i \in 1 .. Len(incidents) : more[i] = incidents[i]
       /\ more[Len(incidents) + 1] = linked
  <2>1. incidents \in Seq(SUBSET Nat)
    BY DEF LabInv
  <2>2. linked \in SUBSET Nat
    <3>1. \A x \in ToSet(ids) : x \in Nat
      BY <1>3, <1>6, ElementOfSeq
    <3> QED
      BY <1>1, <3>1
  <2> HIDE DEF linked
  <2> QED
    BY <2>1, <2>2, AppendProperties, LenProperties
<1> HIDE DEF linked, more
<1>13. \A i \in 1 .. Len(more) : i \in 1 .. Len(incidents) \/ i = Len(incidents) + 1
  BY <1>12
<1>14. \A i \in 1 .. Len(more) : OneBurst(more[i], rows)
  BY <1>10, <1>12, <1>13 DEF Reports
<1>15. \A i, j \in 1 .. Len(more) : i # j => more[i] \cap more[j] = {}
  BY <1>11, <1>12, <1>13 DEF Reports
<1>16. Reports(rows, more)
  BY <1>14, <1>15 DEF Reports
<1> QED
  BY <1>16 DEF more, linked, ids, alarm

\* A row more leaves the incidents that were opened what they are.
LEMMA ReportsKept ==
    ASSUME LabInv, Reports(rows, incidents), \E row \in RowRecords : rows' = Append(rows, row)
    PROVE  Reports(rows', incidents)
<1>1. Grows(rows, rows')
  BY RowGrows
<1>2. \A i \in 1 .. Len(incidents) : incidents[i] \subseteq 1 .. Len(rows)
  BY DEF LabInv
<1> QED
  BY <1>1, <1>2, GrowsKeeps

\* What a request that goes on must leave, while requests come one at a time.
LEMMA CleanTurn ==
    ASSUME LabInv, CleanInv, NEW t \in Tabs, NEW step, step # "idle", NEW s, NEW id,
           Turn(t, step, s, id), clean' => clean /\ \A u \in Tabs : u # t => pc[u] = "idle",
           clean' => Current(step, s, id, rows', incidents') /\ Reports(rows', incidents')
    PROVE  CleanInv'
<1> SUFFICES ASSUME clean' PROVE CleanInv'
  BY DEF CleanInv
<1>1. clean /\ \A u \in Tabs : u # t => pc[u] = "idle"
  OBVIOUS
<1>2. \A u \in Tabs : u # t => pc'[u] = "idle"
  BY <1>1 DEF Turn
<1>3. pc'[t] = step /\ session'[t] = s /\ alarmId'[t] = id
  BY DEF Turn
<1>4. Alone'
  BY <1>2 DEF Alone
<1>5. ~ \A u \in Tabs : pc'[u] = "idle"
  BY <1>3
<1>6. \A u \in Tabs : pc'[u] # "idle" =>
          Current(pc'[u], session'[u], alarmId'[u], rows', incidents')
  BY <1>2, <1>3
<1> QED
  BY <1>4, <1>5, <1>6 DEF CleanInv

\* The request that goes on is the only one.
LEMMA OnlyOne ==
    ASSUME CleanInv, NEW t \in Tabs, pc[t] # "idle", clean
    PROVE  /\ \A u \in Tabs : u # t => pc[u] = "idle"
           /\ Current(pc[t], session[t], alarmId[t], rows, incidents) /\ Reports(rows, incidents)
BY DEF CleanInv, Alone

\* A request is sent: with the cookie, that is, the session as the last left it.
LEMMA SendClean ==
    ASSUME LabInv, CleanInv, NEW t \in Tabs,
           NEW kind \in {"rejected", "accepted", "status", "reset"}, Send(t, kind)
    PROVE  CleanInv'
<1>1. /\ Turn(t, kind, cookie, alarmId[t]) /\ UNCHANGED <<rows, incidents>>
      /\ clean' = (clean /\ Busy = {})
  BY SendTurn DEF storeVars
<1>2. clean' => clean /\ \A u \in Tabs : pc[u] = "idle"
  BY <1>1 DEF Busy
<1>3. clean' => Current(kind, cookie, alarmId[t], rows, incidents) /\ Reports(rows, incidents)
  <2>1. clean' => Current("idle", cookie, 0, rows, incidents) /\ Reports(rows, incidents)
    BY <1>2 DEF CleanInv
  <2> QED
    BY <2>1 DEF Current
<1>4. kind # "idle"
  OBVIOUS
<1> QED
  BY <1>1, <1>2, <1>3, <1>4, CleanTurn

\* A rejected attempt is counted, and its row written.
LEMMA AttemptClean ==
    ASSUME LabInv, CleanInv, NEW t \in Tabs, CountAttempt(t) \/ StoreAttempt(t) PROVE CleanInv'
<1>1. CASE CountAttempt(t)
  <2>1. /\ Turn(t, "storing", Parts(Counted(session[t].times), session[t].ids,
                                    session[t].alerted), alarmId[t])
        /\ pc[t] = "rejected" /\ UNCHANGED <<rows, incidents, clean>>
    BY <1>1, CountTurn DEF storeVars
  <2>2. clean => /\ \A u \in Tabs : u # t => pc[u] = "idle"
                 /\ Current("rejected", session[t], alarmId[t], rows, incidents)
                 /\ Reports(rows, incidents)
    BY <2>1, OnlyOne
  <2>3. clean => Current("storing", Parts(Counted(session[t].times), session[t].ids,
                                          session[t].alerted), alarmId[t], rows, incidents)
    BY <2>2, CountCurrent
  <2> QED
    BY <2>1, <2>2, <2>3, CleanTurn
<1>2. CASE StoreAttempt(t)
  <2> DEFINE step == IF Alarms(session[t]) THEN "alarming" ELSE "answered"
             s == Parts(session[t].times, Beside(t), session[t].alerted)
  <2>1. /\ Turn(t, step, s, alarmId[t]) /\ pc[t] = "storing"
        /\ UNCHANGED <<incidents, clean>>
        /\ \E row \in RowRecords : rows' = Append(rows, row)
    BY <1>2, StoreTurn DEF historyVars
  <2>2. clean => /\ \A u \in Tabs : u # t => pc[u] = "idle"
                 /\ Current("storing", session[t], alarmId[t], rows, incidents)
                 /\ Reports(rows, incidents)
    BY <2>1, OnlyOne
  <2>3. step \in {"alarming", "answered"}
    OBVIOUS
  <2>4. clean => Current(step, s, alarmId[t], rows', incidents)
    BY <1>2, <2>2, <2>3, StoreCurrent
  <2>5. clean => Reports(rows', incidents)
    BY <2>1, <2>2, ReportsKept
  <2> HIDE DEF step, s
  <2> QED
    BY <2>1, <2>2, <2>3, <2>4, <2>5, CleanTurn
<1> QED
  BY <1>1, <1>2

\* The alarm's row is new, so no incident links it; the incident links the burst.
LEMMA AlarmClean ==
    ASSUME LabInv, CleanInv, NEW t \in Tabs, StoreAlarm(t) \/ OpenIncident(t) PROVE CleanInv'
<1>1. CASE StoreAlarm(t)
  <2>1. /\ Turn(t, "opening", session[t], Len(rows) + 1) /\ pc[t] = "alarming"
        /\ UNCHANGED <<incidents, clean>>
        /\ \E row \in RowRecords : rows' = Append(rows, row)
    BY <1>1, AlarmTurn DEF historyVars
  <2>2. clean => /\ \A u \in Tabs : u # t => pc[u] = "idle"
                 /\ Current("alarming", session[t], alarmId[t], rows, incidents)
                 /\ Reports(rows, incidents)
    BY <2>1, OnlyOne
  <2>3. \A i \in 1 .. Len(incidents) : Len(rows) + 1 \notin incidents[i]
    <3>1. \A i \in 1 .. Len(incidents) : incidents[i] \subseteq 1 .. Len(rows)
      BY DEF LabInv
    <3>2. Len(rows) + 1 \notin 1 .. Len(rows)
      BY Unset
    <3> QED
      BY <3>1, <3>2
  <2>4. clean => Current("opening", session[t], Len(rows) + 1, rows, incidents)
    BY <2>2, <2>3 DEF Current
  <2>5. Grows(rows, rows')
    BY <2>1, RowGrows
  <2>6. clean => Current("opening", session[t], Len(rows) + 1, rows', incidents)
    BY <2>4, <2>5, GrowsKeeps
  <2>7. clean => Reports(rows', incidents)
    BY <2>1, <2>2, ReportsKept
  <2> QED
    BY <2>1, <2>2, <2>6, <2>7, CleanTurn
<1>2. CASE OpenIncident(t)
  <2> DEFINE step == IF ruleOn THEN "recording" ELSE "notifying"
             linked == ToSet(session[t].ids) \cup {alarmId[t]}
  <2>1. /\ Turn(t, step, session[t], alarmId[t]) /\ pc[t] = "opening"
        /\ UNCHANGED <<rows, clean>>
        /\ incidents' = IF ruleOn THEN Append(incidents, linked) ELSE incidents
    BY <1>2, OpenTurn DEF historyVars
  <2>2. clean => /\ \A u \in Tabs : u # t => pc[u] = "idle"
                 /\ Current("opening", session[t], alarmId[t], rows, incidents)
                 /\ Reports(rows, incidents)
    BY <2>1, OnlyOne
  <2>3. clean => Reports(rows, Append(incidents, linked))
    BY <2>1, <2>2, OpenReports
  <2>4. clean => Matched(session[t], rows)
    BY <2>2 DEF Current
  <2>5. step \in {"recording", "notifying"}
    OBVIOUS
  <2> HIDE DEF step, linked
  <2>6. clean => Current(step, session[t], alarmId[t], rows, incidents')
    BY <2>4, <2>5 DEF Current
  <2>7. clean => Reports(rows, incidents')
    BY <2>1, <2>2, <2>3
  <2> QED
    BY <2>1, <2>2, <2>5, <2>6, <2>7, CleanTurn
<1> QED
  BY <1>1, <1>2

\* The evidence, and the flag that keeps the burst from a second incident.
LEMMA NotifyClean ==
    ASSUME LabInv, CleanInv, NEW t \in Tabs, RecordEvidence(t) \/ Notify(t) PROVE CleanInv'
<1>1. CASE RecordEvidence(t)
  <2>1. /\ Turn(t, "notifying", session[t], alarmId[t]) /\ pc[t] = "recording"
        /\ UNCHANGED <<rows, incidents, clean>>
    BY <1>1, RecordTurn DEF historyVars
  <2>2. clean => /\ \A u \in Tabs : u # t => pc[u] = "idle"
                 /\ Current("recording", session[t], alarmId[t], rows, incidents)
                 /\ Reports(rows, incidents)
    BY <2>1, OnlyOne
  <2>3. clean => Current("notifying", session[t], alarmId[t], rows, incidents)
    BY <2>2 DEF Current
  <2> QED
    BY <2>1, <2>2, <2>3, CleanTurn
<1>2. CASE Notify(t)
  <2> DEFINE s == Parts(session[t].times, session[t].ids, TRUE)
  <2>1. /\ Turn(t, "answered", s, alarmId[t]) /\ pc[t] = "notifying"
        /\ UNCHANGED <<rows, incidents, clean>>
    BY <1>2, NotifyTurn DEF historyVars
  <2>2. clean => /\ \A u \in Tabs : u # t => pc[u] = "idle"
                 /\ Current("notifying", session[t], alarmId[t], rows, incidents)
                 /\ Reports(rows, incidents)
    BY <2>1, OnlyOne
  <2>3. s.times = session[t].times /\ s.ids = session[t].ids /\ s.alerted
    <3>1. /\ session[t].times \in Seq(0 .. MaxTime) /\ session[t].ids \in Seq(Nat)
          /\ TRUE \in BOOLEAN
      BY Unset
    <3> QED
      BY <3>1, PartsTyped
  <2> HIDE DEF s
  <2>4. clean => Matched(session[t], rows)
    BY <2>2 DEF Current
  <2>5. clean => Matched(s, rows)
    BY <2>3, <2>4 DEF Matched
  <2>6. clean => Current("answered", s, alarmId[t], rows, incidents)
    BY <2>3, <2>5 DEF Current, Apart
  <2> QED
    BY <2>1, <2>2, <2>6, CleanTurn
<1> QED
  BY <1>1, <1>2

\* The handlers that clear the session or prune it.
LEMMA PruneClean ==
    ASSUME LabInv, CleanInv, NEW t \in Tabs, Accept(t) \/ Reset(t) \/ Status(t) PROVE CleanInv'
<1>1. CASE Accept(t)
  <2>1. /\ Turn(t, "answered", Fresh, alarmId[t]) /\ pc[t] = "accepted"
        /\ UNCHANGED <<incidents, clean>>
        /\ \E row \in RowRecords : rows' = Append(rows, row)
    BY <1>1, AcceptTurn DEF historyVars
  <2>2. clean => \A u \in Tabs : u # t => pc[u] = "idle"
    BY <2>1, OnlyOne
  <2>3. clean => Reports(rows', incidents)
    BY <2>1, ReportsKept DEF CleanInv
  <2> QED
    BY <2>1, <2>2, <2>3, FreshCurrent, CleanTurn
<1>2. CASE Reset(t)
  <2>1. /\ Turn(t, "answered", Fresh, alarmId[t]) /\ pc[t] = "reset"
        /\ UNCHANGED <<rows, incidents, clean>>
    BY <1>2, ResetTurn DEF storeVars, historyVars
  <2>2. clean => (\A u \in Tabs : u # t => pc[u] = "idle") /\ Reports(rows, incidents)
    BY <2>1, OnlyOne
  <2> QED
    BY <2>1, <2>2, FreshCurrent, CleanTurn
<1>3. CASE Status(t)
  <2>1. /\ Turn(t, "answered", Pruned(session[t]), alarmId[t]) /\ pc[t] = "status"
        /\ UNCHANGED <<rows, incidents, clean>>
    BY <1>3, StatusTurn DEF storeVars, historyVars
  <2>2. clean => /\ \A u \in Tabs : u # t => pc[u] = "idle"
                 /\ Current("status", session[t], alarmId[t], rows, incidents)
                 /\ Reports(rows, incidents)
    BY <2>1, OnlyOne
  <2>3. clean => Current("answered", Pruned(session[t]), alarmId[t], rows, incidents)
    BY <2>2, StatusCurrent
  <2> QED
    BY <2>1, <2>2, <2>3, CleanTurn
<1> QED
  BY <1>1, <1>2, <1>3

\* The answer: its session is the cookie of the next request.
LEMMA AnswerClean == ASSUME LabInv, CleanInv, NEW t \in Tabs, Answer(t) PROVE CleanInv'
<1>1. /\ Turn(t, "idle", Fresh, 0) /\ pc[t] = "answered" /\ cookie' = session[t]
      /\ rows' = rows /\ incidents' = incidents /\ clean' = clean
  BY AnswerTurn DEF storeVars, historyVars
<1>2. CASE clean
  <2>1. /\ \A u \in Tabs : u # t => pc[u] = "idle"
        /\ Current("answered", session[t], alarmId[t], rows, incidents)
        /\ Reports(rows, incidents)
    BY <1>1, <1>2, OnlyOne
  <2>2. Current("idle", cookie', 0, rows', incidents')
    BY <1>1, <2>1 DEF Current
  <2>3. \A u \in Tabs : pc'[u] = "idle"
    BY <1>1, <2>1 DEF Turn
  <2>4. Reports(rows', incidents')
    BY <1>1, <2>1
  <2> QED
    BY <2>2, <2>3, <2>4 DEF CleanInv, Alone
<1>3. CASE ~ clean
  BY <1>1, <1>3 DEF CleanInv
<1> QED
  BY <1>2, <1>3

\* Every step.
LEMMA CleanStep == LabInv /\ CleanInv /\ [Next]_vars => CleanInv'
<1> SUFFICES ASSUME LabInv, CleanInv, [Next]_vars PROVE CleanInv'
  OBVIOUS
<1>1. CASE UNCHANGED <<cookie, pc, session, alarmId, rows, incidents, clean>>
  BY <1>1 DEF CleanInv, Alone
<1>2. CASE Tick \/ ToggleRule \/ UNCHANGED vars
  <2>1. UNCHANGED <<cookie, pc, session, alarmId, rows, incidents, clean>>
    BY <1>2 DEF Tick, ToggleRule, vars, storeVars, historyVars
  <2> QED
    BY <1>1, <2>1
<1>3. ASSUME NEW t \in Tabs,
             \/ \E kind \in {"rejected", "accepted", "status", "reset"} : Send(t, kind)
             \/ Handler(t) \/ CallFails(t)
      PROVE  CleanInv'
  <2>1. CASE CallFails(t)
    BY <2>1 DEF CallFails, CleanInv
  <2>2. CASE Handler(t)
    BY <2>2, AttemptClean, AlarmClean, NotifyClean, PruneClean, AnswerClean DEF Handler
  <2>3. CASE \E kind \in {"rejected", "accepted", "status", "reset"} : Send(t, kind)
    BY <2>3, SendClean
  <2> QED
    BY <1>3, <2>1, <2>2, <2>3
<1> QED
  BY <1>2, <1>3 DEF Next

\* Both invariants hold in every state.
THEOREM CleanInvariant == Spec => [](LabInv /\ CleanInv)
BY LabInit, CleanInit, LabStep, CleanStep, PTL DEF Spec

\* While requests come one at a time and no call fails, the ids pruned beside
\* the times stay those of the times: an incident links the Threshold rejected
\* attempts of one window (app/__init__.py:349-372, 389-394).
THEOREM IncidentsOfTheLabLinkTheWindow == Spec => []IncidentsLinkTheWindow
<1>1. LabInv /\ CleanInv => IncidentsLinkTheWindow
  <2> SUFFICES ASSUME LabInv, CleanInv, clean, NEW i \in DOMAIN incidents
               PROVE  /\ Cardinality(Rejected(i)) = Threshold
                      /\ \A a, b \in Rejected(i) : rows[a].stamp < rows[b].stamp + Window
    BY DEF IncidentsLinkTheWindow
  <2>1. i \in 1 .. Len(incidents)
    BY LenProperties DEF LabInv
  <2>2. OneBurst(incidents[i], rows)
    BY <2>1 DEF CleanInv, Reports
  <2> QED
    BY <2>2 DEF OneBurst, Rejected
<1> QED
  BY <1>1, CleanInvariant, PTL

\* And no attempt, nor an alarm's row, is linked by two incidents: the flag in
\* the session keeps a burst that goes on from a second one
\* (app/__init__.py:366-375, 389-394).
THEOREM BurstsOfTheLabAreReportedOnce == Spec => []BurstsAreReportedOnce
<1>1. LabInv /\ CleanInv => BurstsAreReportedOnce
  <2> SUFFICES ASSUME LabInv, CleanInv, clean, NEW i \in DOMAIN incidents,
                      NEW j \in DOMAIN incidents, i # j
               PROVE  incidents[i] \cap incidents[j] = {}
    BY DEF BurstsAreReportedOnce
  <2>1. i \in 1 .. Len(incidents) /\ j \in 1 .. Len(incidents)
    BY LenProperties DEF LabInv
  <2> QED
    BY <2>1 DEF CleanInv, Reports
<1> QED
  BY <1>1, CleanInvariant, PTL
=============================================================================
