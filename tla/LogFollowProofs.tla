-------------------------- MODULE LogFollowProofs --------------------------
(* What follow() delivers, for any number of lines, of rotations and of     *)
(* torn writes: in order, nothing twice, and without a hole while the file  *)
(* is only appended to.                                                     *)
EXTENDS LogFollow, SequenceTheorems, WellFoundedInduction, TLAPS

\* All the reader has taken from files, delivered or still in its buffer.
Taken == delivered \o buffer

\* A sequence of pieces in the order in which they were written.
Increasing(s) == \A i, j \in 1 .. Len(s) : i < j => Before(s[i], s[j])

\* All of s was written before all of t.
Behind(s, t) == \A i \in 1 .. Len(s), j \in 1 .. Len(t) : Before(s[i], t[j])

\* What a sequence has after its first k elements.
After(s, k) == SubSeq(s, k + 1, Len(s))

-----------------------------------------------------------------------------
(* Sequences of pieces.                                                     *)

\* The bounds as numbers.
LEMMA Bounds ==
    /\ MaxLines \in Nat /\ MaxRotations \in Nat /\ TornWrites \in BOOLEAN
BY MaxLinesAssumption, MaxRotationsAssumption, TornWritesAssumption

\* Order of writing is transitive.
LEMMA BeforeTransitive ==
    ASSUME NEW p \in Pieces, NEW q \in Pieces, NEW r \in Pieces, Before(p, q), Before(q, r)
    PROVE  Before(p, r)
<1>1. p[1] \in Nat /\ q[1] \in Nat /\ r[1] \in Nat /\ p[2] \in {1, 2} /\ q[2] \in {1, 2} /\ r[2] \in {1, 2}
  BY Bounds DEF Pieces
<1> QED
  BY <1>1 DEF Before

\* The elements of what is behind a position.
LEMMA AfterFacts ==
    ASSUME NEW S, NEW s \in Seq(S), NEW k \in Nat
    PROVE  /\ After(s, k) \in Seq(S)
           /\ k <= Len(s) => Len(After(s, k)) = Len(s) - k
           /\ k >= Len(s) => After(s, k) = <<>>
           /\ \A i \in 1 .. Len(After(s, k)) : k + i \in 1 .. Len(s) /\ After(s, k)[i] = s[k + i]
<1>1. \A i \in k + 1 .. Len(s) : s[i] \in S
  OBVIOUS
<1>2. /\ After(s, k) \in Seq(S)
      /\ Len(After(s, k)) = IF k + 1 <= Len(s) THEN Len(s) - (k + 1) + 1 ELSE 0
      /\ \A i \in 1 .. Len(s) - (k + 1) + 1 : After(s, k)[i] = s[k + 1 + i - 1]
  BY <1>1, SubSeqProperties DEF After
<1>3. k >= Len(s) => After(s, k) = <<>>
  BY SubSeqEmpty DEF After
<1> QED
  BY <1>2, <1>3

\* Two increasing sequences, one behind the other, are one.
LEMMA JoinIncreases ==
    ASSUME NEW s \in Seq(Pieces), NEW t \in Seq(Pieces), Increasing(s), Increasing(t),
           Behind(s, t)
    PROVE  Increasing(s \o t)
<1>1. /\ Len(s \o t) = Len(s) + Len(t)
      /\ \A i \in 1 .. Len(s) + Len(t) : (s \o t)[i] = IF i <= Len(s) THEN s[i] ELSE t[i - Len(s)]
  BY ConcatProperties
<1> SUFFICES ASSUME NEW i \in 1 .. Len(s) + Len(t), NEW j \in 1 .. Len(s) + Len(t), i < j
             PROVE  Before((s \o t)[i], (s \o t)[j])
  BY <1>1 DEF Increasing
<1>2. CASE j <= Len(s)
  BY <1>1, <1>2 DEF Increasing
<1>3. CASE i <= Len(s) /\ ~(j <= Len(s))
  <2>1. j - Len(s) \in 1 .. Len(t)
    BY <1>3
  <2> QED
    BY <1>1, <1>3, <2>1 DEF Behind
<1>4. CASE ~(i <= Len(s))
  <2>1. i - Len(s) \in 1 .. Len(t) /\ j - Len(s) \in 1 .. Len(t) /\ i - Len(s) < j - Len(s)
    BY <1>4
  <2> QED
    BY <1>1, <1>4, <2>1 DEF Increasing
<1> QED
  BY <1>2, <1>3, <1>4

\* What is behind a sequence and before another.
LEMMA BehindJoin ==
    ASSUME NEW s \in Seq(Pieces), NEW t \in Seq(Pieces), NEW u \in Seq(Pieces)
    PROVE  /\ Behind(s, u) /\ Behind(t, u) => Behind(s \o t, u)
           /\ Behind(u, s) /\ Behind(u, t) => Behind(u, s \o t)
<1>1. /\ Len(s \o t) = Len(s) + Len(t)
      /\ \A i \in 1 .. Len(s) + Len(t) :
            \/ i \in 1 .. Len(s) /\ (s \o t)[i] = s[i]
            \/ i - Len(s) \in 1 .. Len(t) /\ (s \o t)[i] = t[i - Len(s)]
  BY ConcatProperties
<1> QED
  BY <1>1 DEF Behind

\* The rest of an increasing sequence is one.
LEMMA AfterIncreases ==
    ASSUME NEW s \in Seq(Pieces), NEW k \in Nat, Increasing(s)
    PROVE  Increasing(After(s, k))
<1>1. \A i \in 1 .. Len(After(s, k)) : k + i \in 1 .. Len(s) /\ After(s, k)[i] = s[k + i]
  BY AfterFacts
<1> QED
  BY <1>1 DEF Increasing

\* The rest of a sequence that was appended to.
LEMMA AfterJoin ==
    ASSUME NEW s \in Seq(Pieces), NEW t \in Seq(Pieces), NEW k \in Nat, NEW u \in Seq(Pieces),
           Behind(u, After(s, k)), Behind(u, t)
    PROVE  Behind(u, After(s \o t, k))
<1>1. /\ s \o t \in Seq(Pieces) /\ Len(s \o t) = Len(s) + Len(t)
      /\ \A i \in 1 .. Len(s) + Len(t) :
            \/ i \in 1 .. Len(s) /\ (s \o t)[i] = s[i]
            \/ i - Len(s) \in 1 .. Len(t) /\ (s \o t)[i] = t[i - Len(s)]
  BY ConcatProperties
<1> SUFFICES ASSUME NEW i \in 1 .. Len(u), NEW j \in 1 .. Len(After(s \o t, k))
             PROVE  Before(u[i], After(s \o t, k)[j])
  BY DEF Behind
<1>2. k + j \in 1 .. Len(s) + Len(t) /\ After(s \o t, k)[j] = (s \o t)[k + j]
  <2> DEFINE w == s \o t
  <2>1. w \in Seq(Pieces) /\ j \in 1 .. Len(After(w, k))
    BY <1>1
  <2> HIDE DEF w
  <2>2. k + j \in 1 .. Len(w) /\ After(w, k)[j] = w[k + j]
    BY <2>1, AfterFacts
  <2> QED
    BY <1>1, <2>2 DEF w
<1>3. CASE k + j \in 1 .. Len(s) /\ (s \o t)[k + j] = s[k + j]
  <2>1. j \in 1 .. Len(After(s, k))
    BY <1>3, AfterFacts
  <2>2. After(s, k)[j] = s[k + j]
    BY <2>1, AfterFacts
  <2> QED
    BY <1>2, <1>3, <2>1, <2>2 DEF Behind
<1>4. CASE k + j - Len(s) \in 1 .. Len(t) /\ (s \o t)[k + j] = t[k + j - Len(s)]
  BY <1>2, <1>4 DEF Behind
<1> QED
  BY <1>1, <1>2, <1>3, <1>4

\* A line is cut off within the sequence.
LEMMA LineEndsInside ==
    ASSUME NEW s \in Seq(Pieces)
    PROVE  LineEnd(s) \in 0 .. Len(s)
<1>1. CASE ~HasLine(s)
  BY <1>1 DEF LineEnd
<1>2. CASE HasLine(s)
  <2> DEFINE ends == {i \in 1 .. Len(s) : s[i][2] = 2}
  <2>1. ends # {} /\ ends \subseteq Nat
    BY <1>2 DEF HasLine
  <2>2. PICK i \in ends : \A j \in ends : ~(<<j, i>> \in OpToRel(<, Nat))
    BY <2>1, NatLessThanWellFounded, WFMin
  <2>3. \A j \in ends : ~(j < i)
    BY <2>1, <2>2 DEF OpToRel
  <2>4. \A j \in 1 .. i - 1 : s[j] \in Pieces /\ j \in 1 .. Len(s) /\ j < i
    OBVIOUS
  <2>5. \A j \in 1 .. i - 1 : s[j][2] = 1
    BY <2>3, <2>4 DEF Pieces
  <2>6. \E n \in 1 .. Len(s) : s[n][2] = 2 /\ \A j \in 1 .. n - 1 : s[j][2] = 1
    BY <2>5
  <2> QED
    BY <1>2, <2>6 DEF LineEnd
<1> QED
  BY <1>1, <1>2

\* Cutting a sequence in two and joining the parts in order gives it back.
LEMMA CutAndJoin ==
    ASSUME NEW S, NEW d \in Seq(S), NEW s \in Seq(S), NEW k \in 0 .. Len(s)
    PROVE  /\ SubSeq(s, 1, k) \in Seq(S)
           /\ (d \o SubSeq(s, 1, k)) \o After(s, k) = d \o s
<1>1. After(s, k) \in Seq(S) /\ SubSeq(s, 1, k) \in Seq(S)
  <2>1. \A i \in 1 .. k : s[i] \in S
    OBVIOUS
  <2> QED
    BY <2>1, AfterFacts, SubSeqProperties
<1>2. SubSeq(s, 1, k) \o After(s, k) = s
  <2>1. SubSeq(s, 1, k) \o After(s, k) = SubSeq(s, 1, Len(s))
    <3>1. 1 \in 1 .. Len(s) + 1 /\ k \in 1 - 1 .. Len(s) /\ Len(s) \in k .. Len(s)
      BY LenProperties
    <3> QED
      BY <3>1, ConcatAdjacentSubSeq DEF After
  <2> QED
    BY <2>1, SubSeqFull
<1>3. \A a, b \in Seq(S) : (d \o a) \o b = d \o (a \o b)
  BY ConcatAssociative
<1>4. (d \o SubSeq(s, 1, k)) \o After(s, k) = d \o (SubSeq(s, 1, k) \o After(s, k))
  BY <1>1, <1>3
<1> QED
  BY <1>1, <1>2, <1>4

\* Nothing is behind, before or out of order in an empty sequence.
LEMMA EmptyFacts ==
    /\ Increasing(<<>>) /\ \A s : Behind(s, <<>>) /\ Behind(<<>>, s)
    /\ Len(<<>>) = 0 /\ <<>> \in Seq(Pieces)
<1>1. Len(<<>>) = 0 /\ <<>> \in Seq(Pieces)
  OBVIOUS
<1> QED
  BY <1>1 DEF Increasing, Behind

-----------------------------------------------------------------------------
(* The files.  Every piece that is appended was written after all there is, *)
(* in whatever file.                                                        *)

\* Pieces of lines that were begun; the second half of the last one, if it is
\* still to come, is not among them.
Old(s) == \A j \in 1 .. Len(s) :
              s[j][1] <= written /\ (half # Missing => s[j] # <<written, 2>>)

\* There are no more pieces than lines allow.
Fits(n) == n <= 2 * written /\ (half # Missing => n < 2 * written)

\* What is in the files was written before what is going to be; a file that
\* is created next is empty; only the last file is still written to.
FilesInv ==
    /\ \A i \in Inodes : /\ Increasing(content[i]) /\ Old(content[i])
                         /\ Fits(Len(content[i]))
                         /\ i > rotations + 1 => content[i] = <<>>
                         /\ i > rotations /\ path = Missing => content[i] = <<>>
    /\ path <= rotations + 1 /\ half <= rotations + 1
    /\ path = Missing => half <= rotations
    /\ half # Missing => path \in {half, Missing} /\ written > 0

\* The pieces of new were appended to file a, which is the one at the path, or
\* has no name any more.
Appended(a, new) ==
    /\ a \in Inodes /\ new \in Seq(Pieces)
    /\ content' = [content EXCEPT ![a] = content[a] \o new]
    /\ Increasing(new) /\ Old(new)'
    /\ \A s \in Seq(Pieces) : Old(s) => Behind(s, new) /\ Old(s)'
    /\ \A n \in Nat : Fits(n) => Fits(n + Len(new))'
    /\ written' \in 0 .. MaxLines /\ written <= written'
    /\ half' \in {Missing, a} /\ (half' # Missing => path' = a /\ written' > 0)
    /\ a <= rotations + 1 /\ rotations' = rotations
    /\ IF path' = Missing THEN path = Missing /\ a <= rotations ELSE path' = a
    /\ path' = path \/ (path = Missing /\ a > rotations /\ content[a] = <<>>)

\* Types, as numbers.
LEMMA Typed ==
    ASSUME TypeOK
    PROVE  /\ content \in [Inodes -> Seq(Pieces)] /\ DOMAIN content = Inodes
           /\ \A i \in Inodes : content[i] \in Seq(Pieces)
           /\ path \in Nat /\ half \in Nat /\ rfile \in Nat /\ Missing = 0
           /\ path # Missing => path \in Inodes
           /\ half # Missing => half \in Inodes
           /\ rfile # Missing => rfile \in Inodes
           /\ written \in Nat /\ written <= MaxLines /\ MaxLines \in Nat
           /\ rotations \in Nat /\ rotations <= MaxRotations /\ MaxRotations \in Nat
           /\ offset \in Nat
           /\ buffer \in Seq(Pieces) /\ delivered \in Seq(Pieces) /\ Taken \in Seq(Pieces)
<1>1. Taken \in Seq(Pieces)
  BY ConcatProperties DEF TypeOK, Taken
<1> QED
  BY <1>1, Bounds DEF TypeOK, Inodes, Missing

\* A line, or its first half, goes to the file at the path or to a new one.
LEMMA AppendsToTheFile ==
    ASSUME TypeOK, FilesInv, written < MaxLines, half = Missing,
           NEW new \in Seq(Pieces),
           \/ new = <<<<written + 1, 1>>, <<written + 1, 2>>>> /\ half' = Missing
           \/ new = <<<<written + 1, 1>>>> /\ half' = AppendFile,
           content' = [content EXCEPT ![AppendFile] = content[AppendFile] \o new],
           path' = AppendFile, written' = written + 1, rotations' = rotations
    PROVE  Appended(AppendFile, new)
<1> DEFINE a == AppendFile
<1>1. /\ a \in Inodes /\ a <= rotations + 1 /\ a # Missing
      /\ path # Missing => a = path
      /\ path = Missing => a > rotations /\ content[a] = <<>>
  <2>1. /\ path <= rotations + 1
        /\ \A i \in Inodes : i > rotations /\ path = Missing => content[i] = <<>>
    BY DEF FilesInv
  <2>2. CASE path = Missing
    <3>1. a = rotations + 1 /\ rotations + 1 \in Inodes /\ rotations + 1 > rotations
      BY <2>2, Typed DEF AppendFile, Inodes
    <3> QED
      BY <2>1, <2>2, <3>1, Typed
  <2>3. CASE path # Missing
    BY <2>1, <2>3, Typed DEF AppendFile
  <2> QED
    BY <2>2, <2>3
<1>2. \A j \in 1 .. Len(new) : /\ new[j] \in {<<written + 1, 1>>, <<written + 1, 2>>}
                               /\ new[j][1] = written + 1
                               /\ half' # Missing => new[j] = <<written + 1, 1>>
  OBVIOUS
<1>3. Increasing(new)
  BY DEF Increasing, Before
<1>4. Old(new)'
  BY <1>2, Typed DEF Old
<1>5. ASSUME NEW s \in Seq(Pieces), Old(s) PROVE Behind(s, new) /\ Old(s)'
  <2>1. \A i \in 1 .. Len(s) : s[i][1] \in Nat /\ s[i][1] <= written
    BY <1>5, Bounds DEF Old, Pieces
  <2>2. Behind(s, new)
    BY <1>2, <2>1, Typed DEF Behind, Before
  <2>3. \A i \in 1 .. Len(s) : s[i][1] <= written' /\ s[i] # <<written', 2>>
    BY <2>1, Typed
  <2> QED
    BY <2>2, <2>3 DEF Old
<1>6. Len(new) \in {1, 2} /\ (half' # Missing => Len(new) = 1)
  OBVIOUS
<1>7. ASSUME NEW n \in Nat, Fits(n) PROVE Fits(n + Len(new))'
  <2>1. n <= 2 * written /\ written \in Nat /\ written' = written + 1
    BY <1>7, Typed DEF Fits
  <2>2. n + Len(new) <= 2 * written' /\ (half' # Missing => n + Len(new) < 2 * written')
    <3>1. CASE Len(new) = 1
      BY <2>1, <3>1
    <3>2. CASE Len(new) = 2
      BY <1>6, <2>1, <3>2
    <3> QED
      BY <1>6, <3>1, <3>2
  <2> QED
    BY <2>2 DEF Fits
<1>8. /\ written' \in 0 .. MaxLines /\ written <= written'
      /\ half' \in {Missing, a} /\ (half' # Missing => path' = a /\ written' > 0)
  BY Typed
<1> HIDE DEF a
<1> QED
  BY <1>1, <1>3, <1>4, <1>5, <1>7, <1>8 DEF Appended, a

\* Every write appends to one file what is newer than all there is.
LEMMA WritesAppend ==
    ASSUME TypeOK, FilesInv, WriteLine \/ WriteHalf \/ WriteRest
    PROVE  \E a, new : Appended(a, new)
<1>1. CASE WriteLine
  <2> DEFINE new == <<<<written + 1, 1>>, <<written + 1, 2>>>>
  <2>1. new \in Seq(Pieces)
    BY <1>1, Typed DEF WriteLine, Pieces
  <2>2. /\ written < MaxLines /\ half = Missing /\ half' = Missing
        /\ content' = [content EXCEPT ![AppendFile] = content[AppendFile] \o new]
        /\ path' = AppendFile /\ written' = written + 1 /\ rotations' = rotations
    BY <1>1 DEF WriteLine
  <2>3. Appended(AppendFile, new)
    BY <2>1, <2>2, AppendsToTheFile
  <2> QED
    BY <2>3
<1>2. CASE WriteHalf
  <2> DEFINE new == <<<<written + 1, 1>>>>
  <2>1. new \in Seq(Pieces) /\ <<written + 1, 1>> \in Pieces
    BY <1>2, Typed DEF WriteHalf, Pieces
  <2>2. AppendFile \in Inodes
    BY <1>2, Typed DEF WriteHalf, AppendFile, FilesInv, Inodes
  <2>3. Append(content[AppendFile], <<written + 1, 1>>) = content[AppendFile] \o new
    BY <2>1, <2>2, Typed, AppendIsConcat
  <2>4. /\ written < MaxLines /\ half = Missing /\ half' = AppendFile
        /\ content' = [content EXCEPT ![AppendFile] = content[AppendFile] \o new]
        /\ path' = AppendFile /\ written' = written + 1 /\ rotations' = rotations
    BY <1>2, <2>3 DEF WriteHalf
  <2>5. Appended(AppendFile, new)
    BY <2>1, <2>4, AppendsToTheFile
  <2> QED
    BY <2>5
<1>3. CASE WriteRest
  <2> DEFINE new == <<<<written, 2>>>>
  <2>0. half # Missing /\ half \in Inodes
    BY <1>3, Typed DEF WriteRest
  <2>1. new \in Seq(Pieces) /\ <<written, 2>> \in Pieces
    BY <2>0, Typed DEF FilesInv, Pieces
  <2>2. Append(content[half], <<written, 2>>) = content[half] \o new
    BY <2>0, <2>1, Typed, AppendIsConcat
  <2>3. /\ content' = [content EXCEPT ![half] = content[half] \o new]
        /\ half' = Missing /\ UNCHANGED <<path, written, rotations>>
    BY <1>3, <2>2 DEF WriteRest
  <2>4. Increasing(new) /\ Old(new)'
    BY <2>3, Typed DEF Increasing, Old
  <2>5. ASSUME NEW s \in Seq(Pieces), Old(s) PROVE Behind(s, new) /\ Old(s)'
    <3>1. \A i \in 1 .. Len(s) : /\ s[i][1] \in Nat /\ s[i][1] <= written
                                 /\ s[i] = <<s[i][1], s[i][2]>> /\ s[i][2] \in {1, 2}
                                 /\ s[i] # <<written, 2>>
      BY <2>0, <2>5, Bounds DEF Old, Pieces
    <3>2. Behind(s, new)
      <4> SUFFICES ASSUME NEW i \in 1 .. Len(s) PROVE Before(s[i], <<written, 2>>)
        BY DEF Behind
      <4>1. CASE s[i][1] = written
        <5>1. s[i][2] # 2
          BY <3>1, <4>1
        <5> QED
          BY <3>1, <4>1, <5>1 DEF Before
      <4>2. CASE s[i][1] # written
        BY <3>1, <4>2, Typed DEF Before
      <4> QED
        BY <4>1, <4>2
    <3>3. Old(s)'
      BY <2>3, <3>1 DEF Old
    <3> QED
      BY <3>2, <3>3
  <2>6. /\ half <= rotations + 1 /\ path \in {half, Missing}
        /\ path = Missing => half <= rotations
    BY <2>0 DEF FilesInv
  <2>7. Len(new) = 1
    OBVIOUS
  <2>8. ASSUME NEW n \in Nat, Fits(n) PROVE Fits(n + Len(new))'
    BY <2>0, <2>3, <2>7, <2>8, Typed DEF Fits
  <2>9. Appended(half, new)
    <3>1. /\ written' \in 0 .. MaxLines /\ written <= written'
          /\ half' \in {Missing, half} /\ ~(half' # Missing)
      BY <2>3, Typed
    <3>2. /\ IF path' = Missing THEN path = Missing /\ half <= rotations ELSE path' = half
          /\ path' = path
      BY <2>3, <2>6
    <3> QED
      BY <2>0, <2>1, <2>3, <2>4, <2>5, <2>6, <2>8, <3>1, <3>2 DEF Appended
  <2> QED
    BY <2>9
<1> QED
  BY <1>1, <1>2, <1>3

\* The files at first.
LEMMA FilesInit == Init => TypeOK /\ FilesInv
<1> SUFFICES ASSUME Init PROVE TypeOK /\ FilesInv
  OBVIOUS
<1>1. \A i \in Inodes : content[i] = <<>>
  BY DEF Init
<1>2. Old(<<>>) /\ Fits(Len(<<>>))
  BY EmptyFacts, Bounds DEF Old, Fits, Init
<1>3. FilesInv
  BY <1>1, <1>2, EmptyFacts, Bounds DEF Init, FilesInv, Missing, Inodes
<1>4. content \in [Inodes -> Seq(Pieces)]
  BY EmptyFacts DEF Init
<1>5. 1 \in Inodes /\ 0 \in 0 .. MaxLines /\ 0 \in 0 .. MaxRotations /\ 0 \in 0 .. 2 * MaxLines
  BY Bounds DEF Inodes
<1>6. TypeOK
  BY <1>4, <1>5, EmptyFacts DEF Init, TypeOK
<1> QED
  BY <1>3, <1>6

\* What a write leaves in the files.
LEMMA AppendedFiles ==
    ASSUME TypeOK, FilesInv, NEW a, NEW new, Appended(a, new)
    PROVE  /\ content' \in [Inodes -> Seq(Pieces)]
           /\ content'[a] = content[a] \o new /\ content'[a] \in Seq(Pieces)
           /\ Len(content'[a]) = Len(content[a]) + Len(new)
           /\ \A i \in Inodes : i # a => content'[i] = content[i]
<1>1. a \in Inodes /\ new \in Seq(Pieces) /\ content[a] \in Seq(Pieces)
  BY Typed DEF Appended
<1>2. content[a] \o new \in Seq(Pieces) /\ Len(content[a] \o new) = Len(content[a]) + Len(new)
  BY <1>1, ConcatProperties
<1>3. content' = [content EXCEPT ![a] = content[a] \o new]
  BY DEF Appended
<1> QED
  BY <1>1, <1>2, <1>3, Typed

\* Every step of the file keeps it (app/__init__.py:101-106, and whoever
\* rotates the log).
LEMMA FilesAppended ==
    ASSUME TypeOK, FilesInv, NEW a, NEW new, Appended(a, new)
    PROVE  FilesInv'
<1>1. /\ a \in Inodes /\ new \in Seq(Pieces) /\ Increasing(new) /\ Old(new)'
      /\ \A s \in Seq(Pieces) : Old(s) => Behind(s, new) /\ Old(s)'
      /\ \A n \in Nat : Fits(n) => Fits(n + Len(new))'
      /\ Len(new) \in Nat /\ rotations \in Nat /\ Missing = 0
      /\ \A i \in Inodes : content[i] \in Seq(Pieces) /\ Len(content[i]) \in Nat
  BY Typed DEF Appended
<1>2. /\ content'[a] = content[a] \o new
      /\ Len(content'[a]) = Len(content[a]) + Len(new)
      /\ \A i \in Inodes : i # a => content'[i] = content[i]
  BY AppendedFiles
<1>3. ASSUME NEW i \in Inodes PROVE Increasing(content'[i]) /\ Old(content[i])'
  <2>1. Increasing(content[i]) /\ Old(content[i])
    BY DEF FilesInv
  <2>2. CASE i # a
    <3> DEFINE s == content[i]
    <3>1. s \in Seq(Pieces) /\ content'[i] = s /\ Old(s)
      BY <1>1, <1>2, <2>1, <2>2
    <3>2. \A j \in 1 .. Len(s) : s[j][1] <= written' /\ (half' # Missing => s[j] # <<written', 2>>)
      BY <1>1, <3>1 DEF Old
    <3> QED
      BY <2>1, <3>1, <3>2 DEF Old
  <2>3. CASE i = a
    <3>1. content[a] \in Seq(Pieces) /\ Behind(content[a], new)
      BY <1>1, <2>1, <2>3
    <3>2. Increasing(content[a] \o new)
      BY <1>1, <2>1, <2>3, <3>1, JoinIncreases
    <3>3. \A j \in 1 .. Len(content[a]) :
              content[a][j][1] <= written' /\ (half' # Missing => content[a][j] # <<written', 2>>)
      BY <1>1, <2>1, <2>3 DEF Old
    <3>4. \A j \in 1 .. Len(new) :
              new[j][1] <= written' /\ (half' # Missing => new[j] # <<written', 2>>)
      BY <1>1 DEF Old
    <3>5. /\ Len(content[a] \o new) = Len(content[a]) + Len(new)
          /\ \A j \in 1 .. Len(content[a]) + Len(new) :
                \/ j \in 1 .. Len(content[a]) /\ (content[a] \o new)[j] = content[a][j]
                \/ j - Len(content[a]) \in 1 .. Len(new)
                   /\ (content[a] \o new)[j] = new[j - Len(content[a])]
      BY <1>1, <3>1, ConcatProperties
    <3>6. \A j \in 1 .. Len(content'[a]) : content'[a][j][1] <= written'
                          /\ (half' # Missing => content'[a][j] # <<written', 2>>)
      BY <1>2, <3>3, <3>4, <3>5
    <3> QED
      BY <1>2, <2>3, <3>2, <3>6 DEF Old
  <2> QED
    BY <2>2, <2>3
<1>4. ASSUME NEW i \in Inodes PROVE Fits(Len(content[i]))'
  <2> PICK n \in Nat : n = Len(content[i])
    BY <1>1
  <2>1. Fits(n)
    BY DEF FilesInv
  <2>2. Fits(n + Len(new))'
    BY <1>1, <2>1
  <2>3. Len(content'[i]) = n + Len(new) \/ Len(content'[i]) = n
    BY <1>2
  <2> QED
    BY <1>1, <2>2, <2>3 DEF Fits, Appended
<1>5. \A i \in Inodes : /\ i > rotations' + 1 => content'[i] = <<>>
                        /\ i > rotations' /\ path' = Missing => content'[i] = <<>>
  BY <1>1, <1>2 DEF Appended, FilesInv, Inodes
<1>6. /\ path' <= rotations' + 1 /\ half' <= rotations' + 1
      /\ path' = Missing => half' <= rotations'
      /\ half' # Missing => path' \in {half', Missing} /\ written' > 0
  BY <1>1 DEF Appended, FilesInv
<1> QED
  BY <1>3, <1>4, <1>5, <1>6 DEF FilesInv

\* Truncating and removing the file.
LEMMA FilesRotated ==
    ASSUME TypeOK, FilesInv, Truncate \/ RemoveFile
    PROVE  FilesInv' /\ content' \in [Inodes -> Seq(Pieces)]
<1>1. /\ path \in Inodes /\ path # Missing /\ rotations' = rotations + 1
      /\ written' = written /\ half' = half /\ path' \in {path, Missing}
  BY Typed DEF Truncate, RemoveFile, Rotate
<1>2. \A i \in Inodes : content'[i] = content[i] \/ content'[i] = <<>>
  BY Typed DEF Truncate, RemoveFile
<1>3. content' \in [Inodes -> Seq(Pieces)]
  BY <1>1, Typed, EmptyFacts DEF Truncate, RemoveFile
<1>4. \A s : Old(s)' = Old(s) /\ \A n : Fits(n)' = Fits(n)
  BY <1>1 DEF Old, Fits
<1>5. Old(<<>>) /\ Fits(0)
  BY EmptyFacts, Typed DEF Old, Fits, FilesInv
<1>6. ASSUME NEW i \in Inodes
      PROVE  /\ Increasing(content'[i]) /\ Old(content'[i]) /\ Fits(Len(content'[i]))
             /\ i > rotations' + 1 => content'[i] = <<>>
             /\ i > rotations' /\ path' = Missing => content'[i] = <<>>
  <2>1. /\ Increasing(content[i]) /\ Old(content[i]) /\ Fits(Len(content[i]))
        /\ i > rotations + 1 => content[i] = <<>>
    BY DEF FilesInv
  <2>2. i \in Nat /\ rotations \in Nat
    BY Typed DEF Inodes
  <2> QED
    BY <1>1, <1>2, <1>5, <2>1, <2>2, EmptyFacts
<1>7. \A i \in Inodes : Old(content[i])' /\ Fits(Len(content[i]))'
  BY <1>1, <1>6 DEF Old, Fits
<1>8. /\ path' <= rotations' + 1 /\ half' <= rotations' + 1
      /\ path' = Missing => half' <= rotations'
      /\ half' # Missing => path' \in {half', Missing} /\ written' > 0
  BY <1>1, Typed DEF FilesInv
<1> QED
  BY <1>3, <1>6, <1>7, <1>8 DEF FilesInv

-----------------------------------------------------------------------------
(* The reader.                                                              *)

\* What the reader has taken is in order, and older than all it may still
\* take: the rest of its file, and the file it would open next.
ReaderInv ==
    /\ Increasing(Taken) /\ Old(Taken)
    /\ offset <= 2 * written
    /\ rfile <= rotations + 1 /\ (path = Missing => rfile <= rotations)
    /\ rpc \in {"opening", "checking"} => buffer = <<>>
    /\ rfile # Missing <=> rpc \in {"reading", "checking"}
    /\ rfile # Missing =>
        /\ Behind(Taken, After(content[rfile], offset))
        /\ path # Missing /\ rfile # path =>
              Behind(content[rfile], content[path]) /\ Behind(Taken, content[path])
        /\ rfile = path /\ Len(content[path]) < offset => Behind(Taken, content[path])
    /\ rpc = "opening" /\ path # Missing => Behind(Taken, content[path])

\* The generator at first.
LEMMA FollowInit == Init => ReaderInv
<1> SUFFICES ASSUME Init PROVE ReaderInv
  OBVIOUS
<1>1. Taken = <<>>
  BY EmptyFacts, ConcatEmptySeq DEF Init, Taken
<1> QED
  BY <1>1, EmptyFacts DEF Init, ReaderInv, Missing, Old

\* What a step adds to what was taken: nothing, or all that is behind the
\* position (io.TextIOWrapper.readline).
LEMMA YieldTakes ==
    ASSUME TypeOK, rfile \in Inodes, YieldLine
    PROVE  /\ {buffer, delivered}' \subseteq Seq(Pieces)
           /\ \/ Taken' = Taken /\ offset' = offset
              \/ /\ Taken' = Taken \o After(content[rfile], offset)
                 /\ offset' = IF offset > Len(content[rfile]) THEN offset
                              ELSE Len(content[rfile])
<1> DEFINE more == After(content[rfile], offset)
<1>1. /\ buffer \in Seq(Pieces) /\ delivered \in Seq(Pieces) /\ more \in Seq(Pieces)
      /\ offset \in Nat
  BY Typed, AfterFacts
<1>2. Filled \in Seq(Pieces) /\ Filled = IF HasLine(buffer) THEN buffer ELSE buffer \o more
  BY <1>1, ConcatProperties DEF Filled, After
<1>3. LineEnd(Filled) \in 0 .. Len(Filled)
  BY <1>2, LineEndsInside
<1>4. /\ delivered' = delivered \o SubSeq(Filled, 1, LineEnd(Filled))
      /\ buffer' = After(Filled, LineEnd(Filled))
      /\ offset' = IF HasLine(buffer) \/ offset > Len(content[rfile])
                   THEN offset ELSE Len(content[rfile])
  BY DEF YieldLine, NextOffset, After
<1>5. /\ SubSeq(Filled, 1, LineEnd(Filled)) \in Seq(Pieces)
      /\ (delivered \o SubSeq(Filled, 1, LineEnd(Filled))) \o After(Filled, LineEnd(Filled))
            = delivered \o Filled
  <2>1. \A d, s \in Seq(Pieces) : \A k \in 0 .. Len(s) :
            /\ SubSeq(s, 1, k) \in Seq(Pieces)
            /\ (d \o SubSeq(s, 1, k)) \o After(s, k) = d \o s
    BY CutAndJoin
  <2> QED
    BY <1>1, <1>2, <1>3, <2>1
<1>6. Taken' = delivered \o Filled
  BY <1>4, <1>5 DEF Taken
<1>7. delivered' \in Seq(Pieces)
  BY <1>1, <1>4, <1>5, ConcatProperties
<1>8. buffer' \in Seq(Pieces)
  <2>1. LineEnd(Filled) \in Nat
    BY <1>3
  <2> QED
    BY <1>2, <1>4, <2>1, AfterFacts
<1>9. CASE HasLine(buffer)
  BY <1>2, <1>4, <1>6, <1>7, <1>8, <1>9 DEF Taken
<1>10. CASE ~HasLine(buffer)
  <2>1. delivered \o (buffer \o more) = (delivered \o buffer) \o more
    BY <1>1, ConcatAssociative
  <2> QED
    BY <1>2, <1>4, <1>6, <1>7, <1>8, <1>10, <2>1 DEF Taken
<1> QED
  BY <1>9, <1>10

\* What it yields is newer than all it had taken.
LEMMA YieldKeepsOrder ==
    ASSUME TypeOK, FilesInv, ReaderInv, YieldLine, UNCHANGED <<fileVars, startAtEnd, stopped>>
    PROVE  ReaderInv'
<1> DEFINE more == After(content[rfile], offset)
<1>1. /\ rpc = "reading" /\ rpc' = "reading" /\ rfile' = rfile
      /\ rfile # Missing /\ rfile \in Inodes
      /\ UNCHANGED <<content, path, written, half, rotations>>
  BY Typed DEF YieldLine, ReaderInv, fileVars
<1>2. /\ Increasing(Taken) /\ Old(Taken) /\ Behind(Taken, more)
      /\ offset <= 2 * written /\ rfile <= rotations + 1 /\ (path = Missing => rfile <= rotations)
      /\ path # Missing /\ rfile # path =>
              Behind(content[rfile], content[path]) /\ Behind(Taken, content[path])
      /\ rfile = path /\ Len(content[path]) < offset => Behind(Taken, content[path])
  BY <1>1 DEF ReaderInv
<1>3. /\ content[rfile] \in Seq(Pieces) /\ Taken \in Seq(Pieces) /\ offset \in Nat
      /\ more \in Seq(Pieces) /\ (path # Missing => content[path] \in Seq(Pieces))
      /\ Len(content[rfile]) \in Nat /\ written \in Nat
      /\ \A i \in 1 .. Len(more) : offset + i \in 1 .. Len(content[rfile])
                                   /\ more[i] = content[rfile][offset + i]
  BY <1>1, Typed, AfterFacts
<1>4. \A t : Old(t)' <=> \A j \in 1 .. Len(t) :
                 t[j][1] <= written /\ (half # Missing => t[j] # <<written, 2>>)
  BY <1>1 DEF Old
<1>5. CASE Taken' = Taken /\ offset' = offset
  <2>1. Old(Taken)'
    BY <1>1, <1>2, <1>5 DEF Old
  <2>2. Behind(Taken, After(content[rfile], offset))'
    BY <1>1, <1>2, <1>5 DEF Behind, After
  <2> QED
    BY <1>1, <1>2, <1>5, <2>1, <2>2 DEF ReaderInv, Behind, Increasing
<1>6. CASE /\ Taken' = Taken \o more
           /\ offset' = IF offset > Len(content[rfile]) THEN offset ELSE Len(content[rfile])
  <2>1. Increasing(content[rfile]) /\ Old(content[rfile]) /\ Len(content[rfile]) <= 2 * written
    BY <1>1 DEF FilesInv, Fits
  <2>2. Increasing(Taken \o more)
    <3>1. Increasing(more)
      BY <1>3, <2>1, AfterIncreases
    <3> HIDE DEF more
    <3> QED
      BY <1>2, <1>3, <3>1, JoinIncreases
  <2>3. Old(Taken \o more)
    <3>1. /\ Len(Taken \o more) = Len(Taken) + Len(more)
          /\ \A i \in 1 .. Len(Taken) + Len(more) :
                \/ i \in 1 .. Len(Taken) /\ (Taken \o more)[i] = Taken[i]
                \/ i - Len(Taken) \in 1 .. Len(more)
                   /\ (Taken \o more)[i] = more[i - Len(Taken)]
      BY <1>3, ConcatProperties
    <3>2. Old(more)
      BY <1>3, <2>1 DEF Old
    <3> HIDE DEF more
    <3> QED
      BY <1>2, <3>1, <3>2 DEF Old
  <2>4. Old(Taken)'
    BY <1>1, <1>6, <2>3 DEF Old
  <2>5. offset' \in Nat /\ offset' >= Len(content[rfile]) /\ offset' <= 2 * written
        /\ (offset' > Len(content[rfile]) => offset > Len(content[rfile]))
    BY <1>2, <1>3, <1>6, <2>1
  <2>6. After(content[rfile], offset') = <<>>
    BY <1>3, <2>5, AfterFacts
  <2>7. Behind(Taken, After(content[rfile], offset))'
    BY <1>1, <2>6, EmptyFacts DEF After
  <2>8. ASSUME path # Missing, rfile # path PROVE Behind(Taken', content[path])
    <3>1. Behind(more, content[path])
      <4> HIDE DEF more
      <4> QED
        BY <1>2, <1>3, <2>8 DEF Behind
    <3> QED
      BY <1>2, <1>3, <1>6, <2>8, <3>1, BehindJoin
  <2>9. ASSUME rfile = path, Len(content[path]) < offset' PROVE Behind(Taken', content[path])
    <3>1. Len(content[path]) < offset
      BY <1>3, <2>5, <2>9
    <3>2. more = <<>>
      BY <1>3, <2>9, <3>1, AfterFacts
    <3>3. Taken' = Taken
      BY <1>3, <1>6, <3>2, ConcatEmptySeq
    <3> QED
      BY <1>2, <2>9, <3>1, <3>3
  <2>10. Increasing(Taken)'
    BY <1>6, <2>2 DEF Increasing
  <2>11. /\ path' # Missing /\ rfile' # path' =>
              Behind(content[rfile], content[path])' /\ Behind(Taken, content[path])'
         /\ rfile' = path' /\ Len(content'[path']) < offset' => Behind(Taken, content[path])'
    BY <1>1, <1>2, <2>8, <2>9 DEF Behind
  <2> QED
    BY <1>1, <1>2, <2>4, <2>5, <2>7, <2>10, <2>11 DEF ReaderInv
<1> QED
  BY <1>1, <1>5, <1>6, YieldTakes

\* What is written meanwhile is newer than all that was taken; a file created
\* at the path is newer than the one the reader has open.
LEMMA WritesKeepOrder ==
    ASSUME TypeOK, FilesInv, ReaderInv, UNCHANGED readerVars,
           NEW a, NEW new, Appended(a, new)
    PROVE  ReaderInv'
<1>1. /\ a \in Inodes /\ new \in Seq(Pieces) /\ a # Missing
      /\ \A t \in Seq(Pieces) : Old(t) => Behind(t, new)
      /\ written <= written' /\ written' \in Nat /\ rotations' = rotations
      /\ IF path' = Missing THEN path = Missing /\ a <= rotations ELSE path' = a
      /\ path' = path \/ (path = Missing /\ a > rotations /\ content[a] = <<>>)
  BY Bounds DEF Appended, Inodes, Missing
<1>2. /\ content'[a] = content[a] \o new
      /\ Len(content'[a]) = Len(content[a]) + Len(new)
      /\ \A i \in Inodes : i # a => content'[i] = content[i]
  BY AppendedFiles
<1>3. /\ UNCHANGED <<rpc, rfile, offset, buffer>> /\ Taken' = Taken
      /\ \A p \in Seq(Pieces), q \in Seq(Pieces) : Behind(p, q)' <=> Behind(p, q)
  BY DEF readerVars, Taken, Behind
<1>4. /\ Increasing(Taken) /\ Old(Taken) /\ offset <= 2 * written
      /\ rfile <= rotations + 1 /\ (path = Missing => rfile <= rotations)
      /\ rpc \in {"opening", "checking"} => buffer = <<>>
      /\ rfile # Missing <=> rpc \in {"reading", "checking"}
      /\ rfile # Missing => Behind(Taken, After(content[rfile], offset))
      /\ rfile # Missing /\ path # Missing /\ rfile # path =>
              Behind(content[rfile], content[path]) /\ Behind(Taken, content[path])
      /\ rfile # Missing /\ rfile = path /\ Len(content[path]) < offset =>
              Behind(Taken, content[path])
      /\ rpc = "opening" /\ path # Missing => Behind(Taken, content[path])
  BY DEF ReaderInv
<1>5. /\ Taken \in Seq(Pieces) /\ content[a] \in Seq(Pieces)
      /\ rfile # Missing => rfile \in Inodes /\ content[rfile] \in Seq(Pieces) /\ Old(content[rfile])
      /\ rfile \in Nat /\ rotations \in Nat /\ offset \in Nat /\ written \in Nat
      /\ Len(content[a]) \in Nat /\ Len(new) \in Nat
  BY <1>1, Typed DEF FilesInv
<1>6. Behind(Taken, new)
  BY <1>1, <1>4, <1>5
<1>7. Increasing(Taken)' /\ Old(Taken)'
  <2> PICK t \in Seq(Pieces) : t = Taken
    BY <1>5
  <2>1. Old(t)'
    BY <1>4 DEF Appended
  <2> QED
    BY <1>3, <1>4, <2>1 DEF Increasing, Old
<1>8. ASSUME rfile # Missing PROVE Behind(Taken, After(content'[rfile], offset))
  <2>1. CASE rfile = a
    BY <1>2, <1>4, <1>5, <1>1, <1>6, <1>8, <2>1, AfterJoin
  <2>2. CASE rfile # a
    BY <1>2, <1>4, <1>5, <1>8, <2>2
  <2> QED
    BY <2>1, <2>2
\* What was said of the old file at the path holds of the new one.
<1>9. ASSUME path' # Missing, NEW t \in Seq(Pieces), Old(t),
             path # Missing => Behind(t, content[path])
      PROVE  Behind(t, content'[path'])
  <2>1. Behind(t, content[a])
    BY <1>1, <1>9, EmptyFacts
  <2>2. Behind(t, content[a] \o new)
    BY <1>1, <1>5, <1>9, <2>1, BehindJoin
  <2> QED
    BY <1>1, <1>2, <1>9, <2>2
<1>10. ASSUME rfile # Missing, path' # Missing, rfile # path'
       PROVE  Behind(content'[rfile], content'[path']) /\ Behind(Taken, content'[path'])
  <2>1. path # Missing => rfile # path
    BY <1>1, <1>10
  <2>2. Behind(Taken, content'[path'])
    BY <1>4, <1>5, <1>9, <1>10, <2>1
  <2>3. Behind(content[rfile], content'[path'])
    BY <1>4, <1>5, <1>9, <1>10, <2>1
  <2>4. content'[rfile] = content[rfile]
    BY <1>1, <1>2, <1>5, <1>10
  <2> QED
    BY <2>2, <2>3, <2>4
<1>11. ASSUME rfile # Missing, rfile = path', Len(content'[path']) < offset
       PROVE  Behind(Taken, content'[path'])
  <2>1. path' = a /\ path = a
    BY <1>1, <1>4, <1>5, <1>11
  <2>2. Len(content[path]) < offset
    BY <1>2, <1>5, <1>11, <2>1
  <2> QED
    BY <1>1, <1>4, <1>5, <1>9, <1>11, <2>1, <2>2
<1>12. ASSUME rpc = "opening", path' # Missing PROVE Behind(Taken, content'[path'])
  BY <1>4, <1>5, <1>9, <1>12
<1>13. offset <= 2 * written' /\ rfile <= rotations' + 1 /\ (path' = Missing => rfile <= rotations')
  <2>1. offset <= 2 * written'
    <3>1. \A x, y, z \in Nat : x <= 2 * y /\ y <= z => x <= 2 * z
      OBVIOUS
    <3> QED
      BY <1>1, <1>4, <1>5, <3>1
  <2>2. path' = Missing => path = Missing
    BY <1>1
  <2> QED
    BY <1>1, <1>4, <2>1, <2>2
<1>14. /\ rfile' # Missing => Behind(Taken, After(content[rfile], offset))'
       /\ rfile' # Missing /\ path' # Missing /\ rfile' # path' =>
              Behind(content[rfile], content[path])' /\ Behind(Taken, content[path])'
       /\ rfile' # Missing /\ rfile' = path' /\ Len(content'[path']) < offset' =>
              Behind(Taken, content[path])'
       /\ rpc' = "opening" /\ path' # Missing => Behind(Taken, content[path])'
  BY <1>3, <1>8, <1>10, <1>11, <1>12 DEF Behind, After
<1> QED
  BY <1>3, <1>4, <1>7, <1>13, <1>14 DEF ReaderInv

\* A file that is truncated or removed has nothing that could come too late.
LEMMA RotationsKeepOrder ==
    ASSUME TypeOK, FilesInv, ReaderInv, UNCHANGED readerVars, Truncate \/ RemoveFile
    PROVE  ReaderInv'
<1>1. /\ path \in Inodes /\ path # Missing /\ rotations' = rotations + 1
      /\ written' = written /\ half' = half /\ path' \in {path, Missing}
      /\ rotations \in Nat /\ offset \in Nat
  BY Typed DEF Truncate, RemoveFile, Rotate
<1>2. /\ \A i \in Inodes : content'[i] = content[i] \/ content'[i] = <<>>
      /\ path' # Missing => content'[path'] = <<>>
  BY <1>1, Typed DEF Truncate, RemoveFile
<1>3. UNCHANGED <<rpc, rfile, offset, buffer>> /\ Taken' = Taken
  BY DEF readerVars, Taken
<1>4. rfile # Missing => rfile \in Inodes
  BY Typed
<1>5. Increasing(Taken)' /\ Old(Taken)'
  BY <1>1, <1>3 DEF ReaderInv, Increasing, Old
<1>6. ASSUME rfile # Missing PROVE Behind(Taken, After(content'[rfile], offset))
  <2>1. After(<<>>, offset) = <<>>
    <3>1. offset >= Len(<<>>) /\ <<>> \in Seq(Pieces)
      BY <1>1, EmptyFacts
    <3> QED
      BY <1>1, <3>1, AfterFacts
  <2> QED
    BY <1>2, <1>4, <1>6, <2>1, EmptyFacts DEF ReaderInv
<1>7. path' # Missing => Behind(Taken, content'[path']) /\ \A t : Behind(t, content'[path'])
  BY <1>2, EmptyFacts
<1>8. /\ rfile' # Missing => Behind(Taken, After(content[rfile], offset))'
      /\ rfile' # Missing /\ path' # Missing /\ rfile' # path' =>
              Behind(content[rfile], content[path])' /\ Behind(Taken, content[path])'
      /\ rfile' # Missing /\ rfile' = path' /\ Len(content'[path']) < offset' =>
              Behind(Taken, content[path])'
      /\ rpc' = "opening" /\ path' # Missing => Behind(Taken, content[path])'
  BY <1>1, <1>3, <1>4, <1>6, <1>7 DEF Behind, After, Missing
<1>9. rfile' <= rotations' + 1 /\ (path' = Missing => rfile' <= rotations')
  BY <1>1, <1>3, Typed DEF ReaderInv
<1> QED
  BY <1>1, <1>3, <1>5, <1>8, <1>9 DEF ReaderInv

\* A file is opened when all it holds is newer; one that is left was taken up
\* to its end or is replaced by a newer one (monitor/common.py:13-35).
LEMMA ReaderKeepsOrder ==
    ASSUME TypeOK, FilesInv, ReaderInv, UNCHANGED <<fileVars, startAtEnd, stopped>>,
           Open \/ ReadNothing \/ CheckFile \/ Leave
    PROVE  ReaderInv'
<1>1. /\ UNCHANGED <<content, path, written, half, rotations>>
      /\ \A t : Old(t)' <=> \A j \in 1 .. Len(t) :
                 t[j][1] <= written /\ (half # Missing => t[j] # <<written, 2>>)
  BY DEF fileVars, Old
<1>2. /\ Increasing(Taken) /\ Old(Taken) /\ offset <= 2 * written
      /\ rfile <= rotations + 1 /\ (path = Missing => rfile <= rotations)
      /\ rpc \in {"opening", "checking"} => buffer = <<>>
      /\ rfile # Missing <=> rpc \in {"reading", "checking"}
      /\ rfile # Missing => Behind(Taken, After(content[rfile], offset))
      /\ rfile # Missing /\ path # Missing /\ rfile # path =>
              Behind(content[rfile], content[path]) /\ Behind(Taken, content[path])
      /\ rfile # Missing /\ rfile = path /\ Len(content[path]) < offset =>
              Behind(Taken, content[path])
      /\ rpc = "opening" /\ path # Missing => Behind(Taken, content[path])
  BY DEF ReaderInv
<1>3. CASE Taken' = Taken /\ rfile' = rfile /\ offset' = offset /\ buffer' = buffer
           /\ rpc' \in {"reading", "checking"} /\ rpc \in {"reading", "checking"}
           /\ (rpc' = "checking" => buffer = <<>>)
  <2>1. Increasing(Taken)' /\ Old(Taken)'
    BY <1>1, <1>2, <1>3 DEF Increasing, Old
  <2> QED
    BY <1>1, <1>2, <1>3, <2>1 DEF ReaderInv, Behind, After
<1>4. CASE ReadNothing
  <2>1. buffer = <<>>
    <3>1. Filled = <<>> /\ rpc = "reading" /\ rfile \in Inodes
      BY <1>2, <1>4, Typed DEF ReadNothing
    <3>2. buffer \in Seq(Pieces) /\ After(content[rfile], offset) \in Seq(Pieces)
      BY <3>1, Typed, AfterFacts
    <3>3. buffer \o After(content[rfile], offset) = <<>> => buffer = <<>>
      BY <3>2, ConcatEqualIffEmpty
    <3> QED
      BY <3>1, <3>3 DEF Filled, After
  <2>2. Taken' = Taken
    BY <1>4 DEF ReadNothing, Taken
  <2> QED
    BY <1>3, <1>4, <2>1, <2>2 DEF ReadNothing
<1>5. CASE CheckFile /\ ~Replaced
  <2>1. Taken' = Taken
    BY <1>5 DEF CheckFile, Taken
  <2> QED
    BY <1>3, <1>5, <2>1 DEF CheckFile
<1>6. CASE (CheckFile /\ Replaced) \/ Leave
  <2>1. /\ Taken' = Taken /\ rfile' = Missing /\ offset' = offset /\ buffer' = buffer
        /\ (rpc' = "opening" /\ rpc = "checking") \/ rpc' = "done"
    BY <1>6 DEF CheckFile, Leave, Taken
  <2>2. Increasing(Taken)' /\ Old(Taken)'
    BY <1>1, <1>2, <2>1 DEF Increasing, Old
  <2>3. ASSUME rpc' = "opening", path # Missing PROVE Behind(Taken, content[path])
    <3>1. CheckFile /\ Replaced /\ rfile # Missing
      BY <1>2, <1>6, <2>1, <2>3 DEF Leave
    <3>2. Len(content[path]) < offset
      BY <2>3, <3>1 DEF Replaced
    <3> QED
      BY <1>2, <2>3, <3>1, <3>2
  <2>4. rpc' = "opening" => buffer' = <<>>
    BY <1>2, <2>1
  <2>5. rpc' = "opening" /\ path' # Missing => Behind(Taken, content[path])'
    BY <1>1, <2>1, <2>3 DEF Behind
  <2>6. rfile' <= rotations' + 1 /\ (path' = Missing => rfile' <= rotations')
    BY <1>1, <2>1, Typed
  <2> QED
    BY <1>1, <1>2, <2>1, <2>2, <2>4, <2>5, <2>6 DEF ReaderInv
<1>7. CASE Open
  <2>1. /\ rpc = "opening" /\ rpc' = "reading" /\ path # Missing /\ path \in Inodes
        /\ rfile' = path /\ offset' \in {0, Len(content[path])}
        /\ buffer' = <<>> /\ buffer = <<>> /\ delivered' = delivered
        /\ Behind(Taken, content[path])
    BY <1>2, <1>7, Typed DEF Open, StartOffset
  <2>2. Taken' = Taken
    BY <2>1 DEF Taken
  <2>3. Increasing(Taken)' /\ Old(Taken)'
    BY <1>1, <1>2, <2>2 DEF Increasing, Old
  <2>4. /\ content[path] \in Seq(Pieces) /\ Len(content[path]) \in Nat /\ offset' \in Nat
        /\ ~(Len(content[path]) < offset')
    BY <2>1, Typed
  <2>5. Behind(Taken, After(content[path], offset'))
    <3>1. \A i \in 1 .. Len(After(content[path], offset')) :
              /\ offset' + i \in 1 .. Len(content[path])
              /\ After(content[path], offset')[i] = content[path][offset' + i]
      BY <2>4, AfterFacts
    <3> QED
      BY <2>1, <3>1 DEF Behind
  <2>6. Behind(Taken, After(content[rfile], offset))'
    BY <1>1, <2>1, <2>2, <2>5 DEF Behind, After
  <2>7. offset' <= 2 * written
    BY <2>1, Typed DEF FilesInv, Fits
  <2>8. rfile' <= rotations' + 1 /\ (path' = Missing => rfile' <= rotations')
    BY <1>1, <2>1 DEF FilesInv
  <2> QED
    BY <1>1, <2>1, <2>3, <2>4, <2>6, <2>7, <2>8 DEF ReaderInv
<1> QED
  BY <1>4, <1>5, <1>6, <1>7

\* The inductive invariant.
FollowInv == TypeOK /\ FilesInv /\ ReaderInv

\* Every step keeps it.
LEMMA FollowStep == FollowInv /\ [Next]_vars => FollowInv'
<1> SUFFICES ASSUME TypeOK, FilesInv, ReaderInv, [Next]_vars
             PROVE  TypeOK' /\ FilesInv' /\ ReaderInv'
  BY DEF FollowInv
<1>1. CASE UNCHANGED vars
  <2>1. UNCHANGED <<content, path, written, half, rotations, startAtEnd, stopped>>
    BY <1>1 DEF vars, fileVars
  <2>2. UNCHANGED <<rpc, rfile, offset, buffer, delivered>>
    BY <1>1 DEF vars, readerVars
  <2>3. TypeOK'
    BY <2>1, <2>2 DEF TypeOK
  <2>4. FilesInv'
    BY <2>1 DEF FilesInv, Increasing, Old, Fits
  <2>5. ReaderInv'
    BY <2>1, <2>2 DEF ReaderInv, Increasing, Old, Behind, After, Taken
  <2> QED
    BY <2>3, <2>4, <2>5
<1>2. CASE FileStep /\ (WriteLine \/ WriteHalf \/ WriteRest)
  <2>1. PICK a, new : Appended(a, new)
    BY <1>2, WritesAppend
  <2>2. UNCHANGED <<readerVars, startAtEnd, stopped>>
    BY <1>2 DEF FileStep
  <2>3. FilesInv' /\ ReaderInv'
    BY <2>1, <2>2, FilesAppended, WritesKeepOrder
  <2>4. /\ content' \in [Inodes -> Seq(Pieces)]
        /\ a \in Inodes /\ path' \in {a, Missing} /\ half' \in {a, Missing}
        /\ written' \in 0 .. MaxLines /\ written <= written' /\ rotations' = rotations
    BY <2>1, AppendedFiles DEF Appended
  <2>5. offset' \in 0 .. 2 * MaxLines
    BY <2>2, <2>4, Typed DEF readerVars, TypeOK
  <2>6. TypeOK'
    BY <2>2, <2>4, <2>5 DEF TypeOK, readerVars
  <2> QED
    BY <2>3, <2>6
<1>3. CASE FileStep /\ (Truncate \/ RemoveFile)
  <2>1. UNCHANGED <<readerVars, startAtEnd, stopped>>
    BY <1>3 DEF FileStep
  <2>2. FilesInv' /\ ReaderInv' /\ content' \in [Inodes -> Seq(Pieces)]
    BY <1>3, <2>1, FilesRotated, RotationsKeepOrder
  <2>3. /\ path' \in {path, Missing} /\ written' = written /\ half' = half
        /\ rotations' \in 0 .. MaxRotations
    BY <1>3, Typed DEF Truncate, RemoveFile, Rotate
  <2>4. TypeOK'
    BY <2>1, <2>2, <2>3 DEF TypeOK, readerVars
  <2> QED
    BY <2>2, <2>4
<1>4. CASE Reader
  <2>1. UNCHANGED <<fileVars, startAtEnd, stopped>>
    BY <1>4 DEF Reader
  <2>2. UNCHANGED <<content, path, written, half, rotations, startAtEnd, stopped>>
    BY <2>1 DEF fileVars
  <2>3. FilesInv'
    BY <2>2 DEF FilesInv, Increasing, Old, Fits
  <2>4. ReaderInv'
    BY <1>4, <2>1, YieldKeepsOrder, ReaderKeepsOrder DEF Reader
  <2>5. /\ rpc' \in {"opening", "reading", "checking", "done"}
        /\ rfile' \in {rfile, path, Missing}
        /\ {buffer', delivered'} \subseteq Seq(Pieces)
        /\ offset' \in Nat
    <3>1. CASE YieldLine
      <4>1. rfile \in Inodes /\ Len(content[rfile]) \in Nat
        BY <3>1, Typed DEF YieldLine, ReaderInv
      <4>2. {buffer', delivered'} \subseteq Seq(Pieces) /\ offset' \in Nat
        BY <3>1, <4>1, YieldTakes, Typed
      <4> QED
        BY <3>1, <4>2 DEF YieldLine
    <3>2. CASE Open \/ ReadNothing \/ CheckFile \/ Leave
      <4>1. path # Missing => Len(content[path]) \in Nat
        BY Typed
      <4>2. /\ rpc' \in {"opening", "reading", "checking", "done"}
            /\ rfile' \in {rfile, path, Missing}
        BY <3>2 DEF Open, ReadNothing, CheckFile, Leave
      <4>3. delivered' = delivered /\ buffer' \in {buffer, <<>>}
        BY <3>2 DEF Open, ReadNothing, CheckFile, Leave
      <4>4. offset' \in Nat
        <5>1. CASE Open
          BY <4>1, <5>1, Typed DEF Open, StartOffset
        <5>2. CASE ~Open
          BY <3>2, <5>2, Typed DEF ReadNothing, CheckFile, Leave
        <5> QED
          BY <5>1, <5>2
      <4> QED
        BY <4>2, <4>3, <4>4, Typed, EmptyFacts
    <3> QED
      BY <1>4, <3>1, <3>2 DEF Reader
  <2>6. offset' \in 0 .. 2 * MaxLines
    BY <2>2, <2>4, <2>5, Typed DEF ReaderInv
  <2>7. TypeOK'
    BY <2>2, <2>5, <2>6 DEF TypeOK
  <2> QED
    BY <2>3, <2>4, <2>7
<1>5. CASE Stop
  <2>1. UNCHANGED <<content, path, written, half, rotations>>
    BY <1>5 DEF Stop, fileVars
  <2>2. UNCHANGED <<rpc, rfile, offset, buffer, delivered, startAtEnd>> /\ stopped' = TRUE
    BY <1>5 DEF Stop, readerVars
  <2>3. TypeOK'
    BY <2>1, <2>2 DEF TypeOK
  <2>4. FilesInv'
    BY <2>1 DEF FilesInv, Increasing, Old, Fits
  <2>5. ReaderInv'
    BY <2>1, <2>2 DEF ReaderInv, Increasing, Old, Behind, After, Taken
  <2> QED
    BY <2>3, <2>4, <2>5
<1>6. CASE Finished
  BY <1>1, <1>6 DEF Finished
<1> QED
  BY <1>1, <1>2, <1>3, <1>4, <1>5, <1>6 DEF Next, FileStep

\* The invariant holds in every state.
THEOREM FollowInvariant == Spec => []FollowInv
<1>1. Init => FollowInv
  BY FilesInit, FollowInit DEF FollowInv
<1> QED
  BY <1>1, FollowStep, PTL DEF Spec

\* Whatever happens to the file (torn writes, truncation, removal, re-creation),
\* follow() delivers nothing twice and nothing out of order.
THEOREM DeliveredOnce == Spec => []DeliveredInOrderOnce
<1>1. FollowInv => DeliveredInOrderOnce
  <2> SUFFICES ASSUME FollowInv, NEW i \in 1 .. Len(delivered), NEW j \in 1 .. Len(delivered),
                      i < j
               PROVE  Before(delivered[i], delivered[j])
    BY DEF DeliveredInOrderOnce
  <2>1. buffer \in Seq(Pieces) /\ delivered \in Seq(Pieces)
    BY Typed DEF FollowInv
  <2>2. /\ Len(Taken) = Len(delivered) + Len(buffer)
        /\ \A k \in 1 .. Len(delivered) : Taken[k] = delivered[k]
    BY <2>1, ConcatProperties DEF Taken
  <2>3. i \in 1 .. Len(Taken) /\ j \in 1 .. Len(Taken)
    BY <2>1, <2>2
  <2> QED
    BY <2>2, <2>3 DEF FollowInv, ReaderInv, Increasing
<1> QED
  BY <1>1, FollowInvariant, PTL

-----------------------------------------------------------------------------
(* A file that is only appended to.                                         *)

\* What was taken is the file from piece k + 1 up to the position.
Covers(k) ==
    /\ k \in 0 .. offset /\ (~startAtEnd => k = 0)
    /\ Len(Taken) = offset - k
    /\ \A i \in 1 .. Len(Taken) : Taken[i] = content[1][k + i]

\* Before the first rotation the file at the path is the one that was opened,
\* and the position is inside it.
Stretch ==
    rotations = 0 =>
        /\ offset <= Len(content[1])
        /\ (rpc = "opening" => Taken = <<>> /\ offset = 0)
        /\ (rfile # Missing => rfile = 1 /\ path = 1)
        /\ \E k : Covers(k)

\* The generator at first.
LEMMA StretchInit == Init => Stretch
<1> SUFFICES ASSUME Init PROVE Stretch
  OBVIOUS
<1>1. Taken = <<>> /\ Len(Taken) = 0
  BY EmptyFacts, ConcatEmptySeq DEF Init, Taken
<1>2. content[1] = <<>> /\ offset = 0 /\ rfile = Missing
  BY Bounds DEF Init, Inodes
<1>3. Covers(0)
  BY <1>1, <1>2 DEF Covers
<1> QED
  BY <1>1, <1>2, <1>3, EmptyFacts DEF Stretch

\* Before the first rotation there is one file.
LEMMA OneFile ==
    ASSUME FollowInv, rotations = 0
    PROVE  /\ 1 \in Inodes /\ content[1] \in Seq(Pieces) /\ Len(content[1]) \in Nat
           /\ path \in {Missing, 1} /\ rfile \in {Missing, 1}
           /\ offset \in Nat /\ Taken \in Seq(Pieces) /\ Missing = 0
<1>1. 1 \in Inodes
  BY Bounds DEF Inodes
<1>2. path <= 1 /\ rfile <= 1 /\ path \in Nat /\ rfile \in Nat /\ Missing = 0
  BY Typed DEF FollowInv, FilesInv, ReaderInv
<1> QED
  BY <1>1, <1>2, Typed DEF FollowInv

\* A write makes the file longer and changes nothing of it.
LEMMA StretchWritten ==
    ASSUME FollowInv, Stretch, UNCHANGED readerVars, startAtEnd' = startAtEnd,
           NEW a, NEW new, Appended(a, new)
    PROVE  Stretch'
<1> SUFFICES ASSUME rotations = 0 PROVE Stretch'
  BY DEF Stretch, Appended
<1>1. /\ a = 1 /\ new \in Seq(Pieces)
      /\ path' = path \/ path = Missing
      /\ path' = Missing => path = Missing
      /\ path' # Missing => path' = 1
  BY DEF Appended, Inodes
<1>2. /\ content[1] \in Seq(Pieces) /\ content'[1] = content[1] \o new
      /\ Len(content'[1]) = Len(content[1]) + Len(new) /\ Len(new) \in Nat
      /\ Len(content[1]) \in Nat
  BY <1>1, OneFile, AppendedFiles DEF FollowInv
<1>3. \A i \in 1 .. Len(content[1]) : content'[1][i] = content[1][i]
  BY <1>1, <1>2, ConcatProperties
<1>4. UNCHANGED <<rpc, rfile, offset>> /\ Taken' = Taken
  BY DEF readerVars, Taken
<1>5. PICK k : Covers(k)
  BY DEF Stretch
<1>6. offset \in Nat /\ offset <= Len(content[1])
  BY OneFile DEF Stretch
<1>7. Covers(k)'
  <2>1. \A i \in 1 .. Len(Taken) : k + i \in 1 .. Len(content[1])
    BY <1>2, <1>5, <1>6 DEF Covers
  <2> QED
    BY <1>3, <1>4, <1>5, <2>1 DEF Covers
<1>8. offset' <= Len(content'[1])
  BY <1>2, <1>4, <1>6
<1> QED
  BY <1>1, <1>4, <1>7, <1>8 DEF Stretch

\* What is yielded continues what was taken before.
LEMMA StretchYielded ==
    ASSUME FollowInv, Stretch, YieldLine, UNCHANGED <<fileVars, startAtEnd, stopped>>
    PROVE  Stretch'
<1>1. /\ UNCHANGED <<content, path, rotations, rfile, startAtEnd>>
      /\ rpc' = "reading" /\ rpc = "reading"
  BY DEF YieldLine, fileVars
<1> SUFFICES ASSUME rotations = 0 PROVE Stretch'
  BY <1>1 DEF Stretch
<1>2. rfile = 1 /\ path = 1 /\ rfile \in Inodes
  BY <1>1, OneFile DEF FollowInv, ReaderInv, Stretch
<1> DEFINE more == After(content[1], offset)
<1>3. PICK k : Covers(k)
  BY DEF Stretch
<1>4. /\ offset \in Nat /\ offset <= Len(content[1]) /\ Taken \in Seq(Pieces)
      /\ content[1] \in Seq(Pieces) /\ Len(content[1]) \in Nat
  BY OneFile DEF Stretch
<1>5. /\ more \in Seq(Pieces) /\ Len(more) = Len(content[1]) - offset
      /\ \A i \in 1 .. Len(more) : more[i] = content[1][offset + i]
  BY <1>4, AfterFacts
<1>6. \/ Taken' = Taken /\ offset' = offset
      \/ Taken' = Taken \o more /\ offset' = Len(content[1])
  BY <1>2, <1>4, YieldTakes DEF FollowInv
<1>7. CASE Taken' = Taken /\ offset' = offset
  <2>1. Covers(k)'
    BY <1>1, <1>3, <1>7 DEF Covers
  <2> QED
    BY <1>1, <1>2, <1>4, <1>7, <2>1 DEF Stretch
<1>8. CASE Taken' = Taken \o more /\ offset' = Len(content[1])
  <2> HIDE DEF more
  <2>1. /\ Len(Taken \o more) = Len(Taken) + Len(more)
        /\ \A i \in 1 .. Len(Taken) + Len(more) :
              \/ i \in 1 .. Len(Taken) /\ (Taken \o more)[i] = Taken[i]
              \/ i - Len(Taken) \in 1 .. Len(more) /\ (Taken \o more)[i] = more[i - Len(Taken)]
    <3>1. /\ Len(Taken \o more) = Len(Taken) + Len(more)
          /\ \A i \in 1 .. Len(Taken) + Len(more) :
                (Taken \o more)[i] = IF i <= Len(Taken) THEN Taken[i] ELSE more[i - Len(Taken)]
      BY <1>4, <1>5, ConcatProperties
    <3>2. Len(Taken) \in Nat /\ Len(more) \in Nat
      BY <1>4, <1>5
    <3>3. ASSUME NEW i \in 1 .. Len(Taken) + Len(more)
          PROVE  \/ i \in 1 .. Len(Taken) /\ (Taken \o more)[i] = Taken[i]
                 \/ /\ i - Len(Taken) \in 1 .. Len(more)
                    /\ (Taken \o more)[i] = more[i - Len(Taken)]
      <4>1. CASE i <= Len(Taken)
        BY <3>1, <3>2, <4>1
      <4>2. CASE ~(i <= Len(Taken))
        BY <3>1, <3>2, <4>2
      <4> QED
        BY <4>1, <4>2
    <3> QED
      BY <3>1, <3>3
  <2>2. /\ k \in 0 .. offset /\ Len(Taken) = offset - k
        /\ \A i \in 1 .. Len(Taken) : Taken[i] = content[1][k + i]
        /\ (~startAtEnd => k = 0)
    BY <1>3 DEF Covers
  <2>3. Len(Taken') = offset' - k /\ k \in 0 .. offset'
    BY <1>4, <1>5, <1>8, <2>1, <2>2
  <2>4. ASSUME NEW i \in 1 .. Len(Taken') PROVE Taken'[i] = content[1][k + i]
    <3>1. CASE i \in 1 .. Len(Taken) /\ (Taken \o more)[i] = Taken[i]
      BY <1>8, <2>2, <3>1
    <3>2. CASE i - Len(Taken) \in 1 .. Len(more) /\ (Taken \o more)[i] = more[i - Len(Taken)]
      <4>1. more[i - Len(Taken)] = content[1][offset + (i - Len(Taken))]
        BY <1>5, <3>2
      <4>2. offset + (i - Len(Taken)) = k + i
        BY <1>4, <2>2
      <4> QED
        BY <1>8, <3>2, <4>1, <4>2
    <3> QED
      BY <1>8, <2>1, <3>1, <3>2
  <2>5. Covers(k)'
    BY <1>1, <2>2, <2>3, <2>4 DEF Covers
  <2> QED
    BY <1>1, <1>2, <1>4, <1>8, <2>5 DEF Stretch
<1> QED
  BY <1>6, <1>7, <1>8

\* The file is opened once: it is never shorter than the position.
LEMMA StretchRead ==
    ASSUME FollowInv, Stretch, UNCHANGED <<fileVars, startAtEnd, stopped>>,
           Open \/ ReadNothing \/ CheckFile \/ Leave
    PROVE  Stretch'
<1>1. UNCHANGED <<content, path, rotations, startAtEnd>>
  BY DEF fileVars
<1> SUFFICES ASSUME rotations = 0 PROVE Stretch'
  BY <1>1 DEF Stretch
<1>2. PICK k : Covers(k)
  BY DEF Stretch
<1>3. /\ offset \in Nat /\ offset <= Len(content[1]) /\ Len(content[1]) \in Nat
      /\ path \in {Missing, 1}
      /\ (rfile # Missing => rfile = 1 /\ path = 1)
  BY OneFile DEF Stretch
<1>4. CASE Open
  <2>1. /\ path = 1 /\ rfile' = 1 /\ rpc' = "reading" /\ offset' = StartOffset(1)
        /\ buffer' = <<>> /\ delivered' = delivered
    BY <1>3, <1>4 DEF Open
  <2>2. Taken = <<>> /\ buffer = <<>> /\ offset = 0
    BY <1>4 DEF Open, Stretch, FollowInv, ReaderInv
  <2>3. Taken' = <<>> /\ Len(Taken') = 0
    BY <2>1, <2>2, EmptyFacts DEF Taken
  <2>4. /\ offset' \in Nat /\ offset' <= Len(content[1]) /\ (~startAtEnd => offset' = 0)
    BY <1>3, <2>1 DEF StartOffset
  <2>5. PICK n \in Nat : n = offset'
    BY <2>4
  <2>6. Covers(n)'
    <3>0. Len(Taken') = 0
      BY <2>3
    <3>1. n \in 0 .. offset' /\ Len(Taken') = offset' - n
      <4>1. n \in Nat /\ n = offset'
        BY <2>5
      <4>2. n \in 0 .. n /\ 0 = n - n
        OBVIOUS
      <4> QED
        BY <3>0, <4>1, <4>2
    <3>3. ~startAtEnd' => n = 0
      BY <1>1, <2>4, <2>5
    <3>2. \A i \in 1 .. Len(Taken') : Taken'[i] = content'[1][n + i]
      BY <2>3
    <3> QED
      BY <3>1, <3>2, <3>3 DEF Covers
  <2> QED
    BY <1>1, <2>1, <2>4, <2>6 DEF Stretch
<1>5. CASE ReadNothing \/ CheckFile \/ Leave
  <2>1. Taken' = Taken /\ offset' = offset
    BY <1>5 DEF ReadNothing, CheckFile, Leave, Taken
  <2>2. Covers(k)'
    BY <1>1, <1>2, <2>1 DEF Covers
  <2>3. rpc' # "opening" /\ rfile' \in {rfile, Missing}
    <3>1. CASE CheckFile
      <4>1. rfile = 1 /\ path = 1 /\ ~Replaced
        BY <1>3, <3>1, OneFile DEF CheckFile, FollowInv, ReaderInv, Replaced
      <4> QED
        BY <3>1, <4>1 DEF CheckFile
    <3> QED
      BY <1>5, <3>1 DEF ReadNothing, Leave
  <2> QED
    BY <1>1, <1>3, <2>1, <2>2, <2>3 DEF Stretch
<1> QED
  BY <1>4, <1>5

\* Every step keeps it.
LEMMA StretchStep == FollowInv /\ Stretch /\ [Next]_vars => Stretch'
<1> SUFFICES ASSUME FollowInv, Stretch, [Next]_vars PROVE Stretch'
  OBVIOUS
<1>1. CASE UNCHANGED <<content, path, rotations, startAtEnd, readerVars>>
  BY <1>1 DEF Stretch, Covers, Taken, readerVars
<1>2. CASE FileStep /\ (WriteLine \/ WriteHalf \/ WriteRest)
  <2>1. PICK a, new : Appended(a, new)
    BY <1>2, WritesAppend DEF FollowInv
  <2> QED
    BY <1>2, <2>1, StretchWritten DEF FileStep
<1>3. CASE FileStep /\ (Truncate \/ RemoveFile)
  <2>1. rotations' # 0
    BY <1>3, Typed DEF Truncate, RemoveFile, Rotate, FollowInv
  <2> QED
    BY <2>1 DEF Stretch
<1>4. CASE Reader
  BY <1>4, StretchYielded, StretchRead DEF Reader
<1> QED
  BY <1>1, <1>2, <1>3, <1>4 DEF Next, FileStep, Stop, Finished, vars, fileVars

\* While the file is only appended to, torn writes included, what follow()
\* delivers is a stretch of it without a hole (monitor/common.py:17-24).
THEOREM DeliveredWithoutHoles == Spec => []DeliveredIsContiguous
<1>1. FollowInv /\ Stretch => DeliveredIsContiguous
  <2> SUFFICES ASSUME FollowInv, Stretch, rotations = 0
               PROVE  \E k \in 0 .. Len(content[1]) - Len(delivered) :
                         /\ delivered = SubSeq(content[1], k + 1, k + Len(delivered))
                         /\ ~ startAtEnd => k = 0
    BY DEF DeliveredIsContiguous
  <2>1. PICK k : Covers(k)
    BY DEF Stretch
  <2>2. /\ offset \in Nat /\ offset <= Len(content[1]) /\ Len(content[1]) \in Nat
        /\ content[1] \in Seq(Pieces) /\ delivered \in Seq(Pieces) /\ buffer \in Seq(Pieces)
    BY OneFile, Typed DEF Stretch, FollowInv
  <2>3. /\ Len(Taken) = Len(delivered) + Len(buffer)
        /\ \A i \in 1 .. Len(delivered) : Taken[i] = delivered[i]
        /\ Len(delivered) \in Nat /\ Len(buffer) \in Nat
    BY <2>2, ConcatProperties DEF Taken
  <2>4. /\ k \in 0 .. offset /\ Len(Taken) = offset - k /\ (~startAtEnd => k = 0)
        /\ \A i \in 1 .. Len(Taken) : Taken[i] = content[1][k + i]
    BY <2>1 DEF Covers
  <2>5. k \in Nat /\ k + Len(delivered) <= Len(content[1])
    BY <2>2, <2>3, <2>4
  <2>6. delivered = SubSeq(content[1], k + 1, k + Len(delivered))
    <3> DEFINE part == SubSeq(content[1], k + 1, k + Len(delivered))
    <3>1. \A i \in k + 1 .. k + Len(delivered) : content[1][i] \in Pieces
      BY <2>2, <2>3, <2>5
    <3>2. /\ part \in Seq(Pieces)
          /\ Len(part) = IF k + 1 <= k + Len(delivered)
                         THEN k + Len(delivered) - (k + 1) + 1 ELSE 0
          /\ \A i \in 1 .. k + Len(delivered) - (k + 1) + 1 :
                part[i] = content[1][k + 1 + i - 1]
      BY <2>3, <2>5, <3>1, SubSeqProperties
    <3> HIDE DEF part
    <3>3. Len(part) = Len(delivered)
      BY <2>3, <2>5, <3>2
    <3>4. \A i \in 1 .. Len(delivered) : part[i] = delivered[i]
      BY <2>3, <2>4, <2>5, <3>2
    <3>5. part = delivered
      BY <2>2, <3>2, <3>3, <3>4, SeqEqual
    <3> QED
      BY <3>5 DEF part
  <2>7. k \in 0 .. Len(content[1]) - Len(delivered)
    BY <2>2, <2>3, <2>5
  <2>8. ~ startAtEnd => k = 0
    BY <2>4
  <2> QED
    BY <2>6, <2>7, <2>8
<1> QED
  BY <1>1, StretchInit, StretchStep, FollowInvariant, PTL DEF Spec
=============================================================================
