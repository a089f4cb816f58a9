----------------------------- MODULE SnmpProofs -----------------------------
(* SNMP.  The records of the receiver in the web process agree for any      *)
(* number of datagrams, any size of the socket's buffer and any number of   *)
(* failures; the stand-alone receiver reads every trap as it was meant, for *)
(* every object identifier, and takes nothing else for one.                 *)
EXTENDS SnmpService, TrapReceiver, SequenceTheorems, WellFoundedInduction, TLAPS

-----------------------------------------------------------------------------
(* The receiver service, app/services.py.                                   *)

Datagrams == [n : Nat, kind : Kinds]

\* The types the proof needs.
TypesInv ==
    /\ sent \in Nat
    /\ queue \in Seq(Datagrams) /\ packet \in Datagrams
    /\ lines \in Seq(Nat) /\ rows \in Seq(Nat) /\ alerts \in Seq(Nat)

\* Datagrams are numbered in the order in which they are sent, and the
\* receiver takes them in that order: what it has logged is older than the
\* one in hand, and that older than those in the buffer.
OrderInv ==
    /\ Increasing(lines)
    /\ \A i \in DOMAIN lines : lines[i] <= sent
    /\ \A j \in DOMAIN queue : queue[j].n <= sent
    /\ \A i, j \in DOMAIN queue : i < j => queue[i].n < queue[j].n
    /\ \A i \in DOMAIN lines, j \in DOMAIN queue : lines[i] < queue[j].n
    /\ pc \in {"parsing", "writing"} =>
          /\ packet.n <= sent
          /\ \A i \in DOMAIN lines : lines[i] < packet.n
          /\ \A j \in DOMAIN queue : packet.n < queue[j].n

\* t is s, or s and one trap more.
Follows(t, s) == t = s \/ \E n \in Nat : t = Append(s, n)

\* How far the three records are apart, by the step the receiver is at.
RecordsInv ==
    /\ pc \in {"binding", "waiting", "parsing", "writing", "storing", "notifying",
               "reporting", "ending", "dead"}
    /\ pc \in {"binding", "waiting", "parsing", "writing"} => lines = rows /\ rows = alerts
    /\ pc = "storing" => lines = Append(rows, packet.n) /\ rows = alerts
    /\ pc = "notifying" => lines = rows /\ rows = Append(alerts, packet.n)
    /\ Follows(lines, rows) /\ Follows(rows, alerts)

\* Appending to a sequence.
LEMMA AppendFacts ==
    ASSUME NEW S, NEW s \in Seq(S), NEW e \in S
    PROVE  /\ Append(s, e) \in Seq(S) /\ Len(Append(s, e)) = Len(s) + 1
           /\ DOMAIN s = 1 .. Len(s) /\ DOMAIN Append(s, e) = 1 .. Len(s) + 1
           /\ \A k \in 1 .. Len(s) : Append(s, e)[k] = s[k]
           /\ Append(s, e)[Len(s) + 1] = e
  OBVIOUS

\* The numbers of the datagrams in a buffer.
LEMMA NumbersFacts ==
    ASSUME NEW q \in Seq(Datagrams)
    PROVE  \A j \in DOMAIN q : q[j].n \in Nat
<1>1. \A j \in DOMAIN q : q[j] \in Datagrams
  OBVIOUS
<1> QED
  BY <1>1 DEF Datagrams

\* A record that follows another has it as a prefix.
LEMMA FollowsIsPrefix ==
    ASSUME NEW s \in Seq(Nat), NEW t \in Seq(Nat), Follows(t, s)
    PROVE  IsPrefix(s, t) /\ Len(t) - Len(s) <= 1
<1>1. CASE t = s
  BY <1>1 DEF IsPrefix
<1>2. CASE \E n \in Nat : t = Append(s, n)
  <2>1. PICK n \in Nat : t = Append(s, n)
    BY <1>2
  <2>2. Len(t) = Len(s) + 1 /\ \A i \in 1 .. Len(s) : t[i] = s[i]
    BY <2>1
  <2>3. SubSeq(s, 1, Len(s)) = SubSeq(t, 1, Len(s))
    BY <2>2
  <2> QED
    BY <2>2, <2>3 DEF IsPrefix
<1> QED
  BY <1>1, <1>2 DEF Follows

\* A trap in hand that is newer than every logged one keeps the log in order.
LEMMA AppendKeepsOrder ==
    ASSUME NEW s \in Seq(Nat), Increasing(s), NEW n \in Nat, \A i \in DOMAIN s : s[i] < n
    PROVE  /\ Append(s, n) \in Seq(Nat) /\ Increasing(Append(s, n))
           /\ \A i \in DOMAIN Append(s, n) : Append(s, n)[i] <= n
<1>1. /\ DOMAIN s = 1 .. Len(s) /\ DOMAIN Append(s, n) = 1 .. Len(s) + 1
      /\ \A i \in 1 .. Len(s) : Append(s, n)[i] = s[i]
      /\ Append(s, n)[Len(s) + 1] = n
  OBVIOUS
<1>2. Append(s, n) \in Seq(Nat)
  OBVIOUS
<1> QED
  BY <1>1, <1>2 DEF Increasing

\* Before the first datagram.
LEMMA InitHolds == Init => TypesInv /\ OrderInv /\ RecordsInv
BY DEF Init, TypesInv, OrderInv, RecordsInv, Follows, Increasing, NoPacket, Kinds, Datagrams

\* Every step keeps the types.
LEMMA TypesStep == TypesInv /\ [Next]_vars => TypesInv'
<1> SUFFICES ASSUME TypesInv, [Next]_vars PROVE TypesInv'
  OBVIOUS
<1> USE DEF TypesInv, netVars, flagVars, recordVars, receiverVars
<1>1. ASSUME NEW kind \in Kinds, Send(kind) PROVE TypesInv'
  <2>0. [n |-> sent + 1, kind |-> kind] \in Datagrams
    BY <1>1 DEF Datagrams
  <2>1. PICK p \in Datagrams : p = [n |-> sent + 1, kind |-> kind]
    BY <2>0
  <2>2. queue' = queue \/ queue' = Append(queue, p)
    BY <1>1, <2>1 DEF Send
  <2>3. queue' \in Seq(Datagrams)
    <3>1. queue \in Seq(Datagrams)
      BY DEF TypesInv
    <3>2. Append(queue, p) \in Seq(Datagrams)
      BY <3>1, AppendFacts
    <3> QED
      BY <2>2, <3>1, <3>2
  <2>4. sent' = sent + 1 /\ UNCHANGED <<packet, lines, rows, alerts>>
    BY <1>1 DEF Send
  <2> QED
    BY <2>3, <2>4
<1>2. CASE Receive
  <2>1. packet' \in Datagrams /\ queue' \in Seq(Datagrams)
    BY <1>2 DEF Receive
  <2> QED
    BY <1>2, <2>1 DEF Receive
<1>3. CASE WriteAlert \/ WriteFails
  <2>1. packet.n \in Nat
    BY DEF Datagrams
  <2>2. lines' \in {lines, Append(lines, packet.n)} /\ queue' \in {queue, <<>>}
    BY <1>3 DEF WriteAlert, WriteFails, CloseSocket
  <2>3. UNCHANGED <<sent, packet, rows, alerts>>
    BY <1>3 DEF WriteAlert, WriteFails
  <2>4. lines' \in Seq(Nat)
    <3>1. lines \in Seq(Nat) /\ Append(lines, packet.n) \in Seq(Nat)
      BY <2>1, AppendFacts
    <3> QED
      BY <2>2, <3>1
  <2>5. queue' \in Seq(Datagrams)
    <3>1. queue \in Seq(Datagrams) /\ <<>> \in Seq(Datagrams)
      OBVIOUS
    <3> QED
      BY <2>2, <3>1
  <2> QED
    BY <2>3, <2>4, <2>5
<1>4. CASE AddEvent
  <2>1. packet.n \in Nat
    BY DEF Datagrams
  <2> QED
    BY <1>4, <2>1 DEF AddEvent
<1>5. CASE Notify
  <2>1. packet.n \in Nat
    BY DEF Datagrams
  <2> QED
    BY <1>5, <2>1 DEF Notify
<1>6. CASE Bind
  BY <1>6 DEF Bind
<1>7. CASE LeaveLoop
  BY <1>7 DEF LeaveLoop, CloseSocket
<1>8. CASE Parse
  BY <1>8 DEF Parse
<1>9. CASE Report
  BY <1>9 DEF Report
<1>10. CASE End
  BY <1>10 DEF End
<1>11. CASE BindFails
  BY <1>11 DEF BindFails
<1>12. CASE AddEventFails
  BY <1>12 DEF AddEventFails, CloseSocket
<1>13. CASE ReportFails
  BY <1>13 DEF ReportFails
<1>14. CASE Stop
  BY <1>14 DEF Stop
<1>15. CASE Quiet
  BY <1>15 DEF Quiet, vars
<1>16. CASE UNCHANGED vars
  BY <1>16 DEF vars
<1>17. CASE ParseRaises
  BY <1>17 DEF ParseRaises, CloseSocket
<1> QED
  BY <1>1, <1>2, <1>3, <1>4, <1>5, <1>6, <1>7, <1>8, <1>9, <1>10, <1>11, <1>12, <1>13, <1>14, <1>15, <1>16, <1>17
     DEF Next, Receiver, Failure

\* Every step keeps the order: a datagram gets the next number, the receiver
\* takes the oldest of the buffer, and it logs each one once.
LEMMA OrderStep == TypesInv /\ OrderInv /\ [Next]_vars => OrderInv'
<1> SUFFICES ASSUME TypesInv, OrderInv, [Next]_vars PROVE OrderInv'
  OBVIOUS
<1>0. TypesInv'
  BY TypesStep
<1> USE DEF TypesInv, netVars, flagVars, recordVars, receiverVars
<1>1. ASSUME NEW kind \in Kinds, Send(kind) PROVE OrderInv'
  <2> DEFINE p == [n |-> sent + 1, kind |-> kind]
  <2>0. sent' = sent + 1 /\ sent \in Nat /\ UNCHANGED <<pc, packet, lines>> /\ packet.n \in Nat
    BY <1>1 DEF Send, Datagrams
  <2>1. CASE queue' = Append(queue, p)
    <3>1. p \in Datagrams /\ p.n = sent + 1
      BY <1>1 DEF Datagrams
    <3>2. /\ DOMAIN queue = 1 .. Len(queue) /\ DOMAIN queue' = 1 .. Len(queue) + 1
          /\ \A j \in 1 .. Len(queue) : queue'[j] = queue[j]
          /\ queue'[Len(queue) + 1].n = sent + 1
      BY <2>1, <3>1, AppendFacts
    <3>3. \A j \in DOMAIN queue : queue[j].n \in Nat
      BY NumbersFacts
    <3>4. Len(queue) \in Nat /\ \A i \in DOMAIN lines : lines[i] \in Nat
      OBVIOUS
    <3> HIDE DEF TypesInv
    <3> QED
      BY <2>0, <3>2, <3>3, <3>4 DEF OrderInv, Increasing
  <2>2. CASE queue' = queue
    <3>1. \A j \in DOMAIN queue : queue[j].n \in Nat
      BY NumbersFacts
    <3>2. \A i \in DOMAIN lines : lines[i] \in Nat
      OBVIOUS
    <3> QED
      BY <2>0, <2>2, <3>1, <3>2 DEF OrderInv, Increasing
  <2> QED
    BY <1>1, <2>1, <2>2 DEF Send
<1>2. CASE Receive
  <2>1. /\ DOMAIN queue = 1 .. Len(queue) /\ DOMAIN queue' = 1 .. Len(queue) - 1
        /\ \A j \in 1 .. Len(queue) - 1 : queue'[j] = queue[j + 1]
        /\ packet' = queue[1] /\ Len(queue) \in Nat \ {0}
    BY <1>2 DEF Receive
  <2>2. pc' = "parsing" /\ UNCHANGED <<sent, lines>>
    BY <1>2 DEF Receive
  <2>3. \A j \in DOMAIN queue : queue[j].n \in Nat
    BY NumbersFacts
  <2>4. /\ packet'.n = queue[1].n /\ 1 \in DOMAIN queue
        /\ \A j \in DOMAIN queue' : /\ j + 1 \in DOMAIN queue /\ 1 < j + 1
                                    /\ queue'[j].n = queue[j + 1].n
        /\ \A i, j \in DOMAIN queue' : i < j => i + 1 < j + 1
    BY <2>1
  <2> HIDE DEF TypesInv
  <2> QED
    BY <2>2, <2>3, <2>4 DEF OrderInv, Increasing
<1>3. CASE WriteAlert \/ WriteFails
  <2>1. /\ lines' \in {lines, Append(lines, packet.n)} /\ pc = "writing"
        /\ pc' \notin {"parsing", "writing"} /\ sent' = sent
        /\ queue' = queue \/ queue' = <<>>
    BY <1>3 DEF WriteAlert, WriteFails, CloseSocket
  <2>2. CASE lines' = lines
    BY <2>1, <2>2 DEF OrderInv, Increasing
  <2>3. CASE lines' = Append(lines, packet.n)
    <3>1. Increasing(lines') /\ \A i \in DOMAIN lines' : lines'[i] <= packet.n
      <4>1. packet.n \in Nat
        BY DEF Datagrams
      <4> QED
        BY <2>1, <2>3, <4>1, AppendKeepsOrder DEF OrderInv
    <3>2. \A j \in DOMAIN queue' : queue'[j] = queue[j] /\ j \in DOMAIN queue
      BY <2>1
    <3>3. \A j \in DOMAIN queue : packet.n < queue[j].n /\ queue[j].n \in Nat
      <4>1. \A j \in DOMAIN queue : queue[j].n \in Nat
        BY NumbersFacts
      <4> QED
        BY <2>1, <4>1 DEF OrderInv
    <3>4. packet.n <= sent /\ packet.n \in Nat /\ \A i \in DOMAIN lines' : lines'[i] \in Nat
      BY <1>0, <2>1 DEF OrderInv, Datagrams
    <3> QED
      BY <2>1, <3>1, <3>2, <3>3, <3>4 DEF OrderInv
  <2> QED
    BY <2>1, <2>2, <2>3
<1>4. CASE Bind
  BY <1>4 DEF Bind, OrderInv, Increasing
<1>5. CASE LeaveLoop
  BY <1>5 DEF LeaveLoop, CloseSocket, OrderInv, Increasing
<1>6. CASE Parse \/ ParseRaises
  BY <1>6 DEF Parse, ParseRaises, CloseSocket, OrderInv, Increasing
<1>7. CASE AddEvent
  BY <1>7 DEF AddEvent, OrderInv, Increasing
<1>8. CASE Notify
  BY <1>8 DEF Notify, OrderInv, Increasing
<1>9. CASE Report
  BY <1>9 DEF Report, OrderInv, Increasing
<1>10. CASE End
  BY <1>10 DEF End, OrderInv, Increasing
<1>11. CASE BindFails
  BY <1>11 DEF BindFails, OrderInv, Increasing
<1>12. CASE AddEventFails
  BY <1>12 DEF AddEventFails, CloseSocket, OrderInv, Increasing
<1>13. CASE ReportFails
  BY <1>13 DEF ReportFails, OrderInv, Increasing
<1>14. CASE Stop
  BY <1>14 DEF Stop, OrderInv, Increasing
<1>15. CASE Quiet
  BY <1>15 DEF Quiet, vars, OrderInv, Increasing
<1>16. CASE UNCHANGED vars
  BY <1>16 DEF vars, OrderInv, Increasing
<1> QED
  BY <1>1, <1>2, <1>3, <1>4, <1>5, <1>6, <1>7, <1>8, <1>9, <1>10, <1>11, <1>12, <1>13, <1>14, <1>15, <1>16
     DEF Next, Receiver, Failure

\* Every step keeps the records as far apart as its place in _run says
\* (services.py:44-58).
LEMMA RecordsStep == TypesInv /\ RecordsInv /\ [Next]_vars => RecordsInv'
<1> SUFFICES ASSUME TypesInv, RecordsInv, [Next]_vars PROVE RecordsInv'
  OBVIOUS
<1> USE DEF TypesInv, RecordsInv, Follows, netVars, flagVars, recordVars, receiverVars
<1>1. ASSUME NEW kind \in Kinds, Send(kind) PROVE RecordsInv'
  BY <1>1 DEF Send
<1>2. CASE Bind \/ Receive \/ LeaveLoop \/ Parse \/ ParseRaises
  BY <1>2 DEF Bind, Receive, LeaveLoop, CloseSocket, Parse, ParseRaises
<1>3. CASE WriteAlert
  <2>1. packet.n \in Nat /\ packet' = packet
    BY <1>3 DEF WriteAlert, Datagrams
  <2>2. /\ pc = "writing" /\ pc' = "storing" /\ lines' = Append(lines, packet.n)
        /\ UNCHANGED <<rows, alerts>>
    BY <1>3 DEF WriteAlert
  <2> QED
    BY <2>1, <2>2
<1>4. CASE AddEvent
  BY <1>4 DEF AddEvent
<1>5. CASE Notify
  BY <1>5 DEF Notify
<1>6. CASE Report \/ End
  BY <1>6 DEF Report, End
<1>7. CASE WriteFails
  <2>1. packet.n \in Nat
    BY DEF Datagrams
  <2>2. /\ pc = "writing" /\ pc' = "reporting" /\ UNCHANGED <<rows, alerts>>
        /\ lines' = lines \/ lines' = Append(lines, packet.n)
    BY <1>7 DEF WriteFails
  <2> QED
    BY <2>1, <2>2
<1>8. CASE BindFails \/ AddEventFails \/ ReportFails
  BY <1>8 DEF BindFails, AddEventFails, ReportFails, CloseSocket
<1>9. CASE Stop \/ Quiet \/ UNCHANGED vars
  BY <1>9 DEF Stop, Quiet, vars
<1> QED
  BY <1>1, <1>2, <1>3, <1>4, <1>5, <1>6, <1>7, <1>8, <1>9 DEF Next, Receiver, Failure

-----------------------------------------------------------------------------

\* The inductive invariant holds in every reachable state.
THEOREM ReceiverInvariant == Spec => [](TypesInv /\ OrderInv /\ RecordsInv)
BY InitHolds, TypesStep, OrderStep, RecordsStep, PTL DEF Spec

\* The audit log, the events and the notifications tell of the same traps,
\* each once and in the order of arrival, whatever the receiver dies of
\* (services.py:34-58).
THEOREM RecordsStayTogether == Spec => []RecordsAgree
<1>1. TypesInv /\ OrderInv /\ RecordsInv => RecordsAgree
  BY FollowsIsPrefix DEF TypesInv, OrderInv, RecordsInv, RecordsAgree
<1> QED
  BY <1>1, ReceiverInvariant, PTL

-----------------------------------------------------------------------------
(* Induction over the numbers that are in a set: what the functions of      *)
(* TrapCodec that are defined by recursion are shown with.                  *)

\* A set that has each number above all numbers it has has every number.
LEMMA StrongInduction ==
    ASSUME NEW T, \A n \in Nat : (\A m \in 0 .. n - 1 : m \in T) => n \in T
    PROVE  \A n \in Nat : n \in T
<1> DEFINE missing == {n \in Nat : n \notin T}
<1> SUFFICES ASSUME missing # {} PROVE FALSE
  OBVIOUS
<1>1. missing \subseteq Nat /\ \A n \in Nat : n \notin missing => n \in T
  OBVIOUS
<1>2. \A n \in missing : n \notin T
  OBVIOUS
<1> HIDE DEF missing
<1>3. PICK n \in missing : \A m \in missing : ~(<<m, n>> \in OpToRel(<, Nat))
  BY <1>1, NatLessThanWellFounded, WFMin
<1>4. \A m \in missing : ~(m < n)
  BY <1>1, <1>3 DEF OpToRel
<1>5. \A m \in 0 .. n - 1 : m \in T
  <2>1. \A m \in 0 .. n - 1 : m \in Nat /\ m < n
    BY <1>1
  <2> QED
    BY <1>1, <1>4, <2>1
<1> QED
  BY <1>1, <1>2, <1>3, <1>5

\* A set that has 0 and the successor of each of its numbers has every number.
LEMMA Induction ==
    ASSUME NEW T, 0 \in T, \A n \in Nat : n \in T => n + 1 \in T
    PROVE  \A n \in Nat : n \in T
<1>1. ASSUME NEW n \in Nat, \A m \in 0 .. n - 1 : m \in T PROVE n \in T
  <2>1. CASE n = 0
    BY <2>1
  <2>2. CASE n # 0
    <3>1. n - 1 \in Nat /\ n - 1 \in T /\ (n - 1) + 1 = n
      BY <1>1, <2>2
    <3> QED
      BY <3>1
  <2> QED
    BY <2>1, <2>2
<1> QED
  BY <1>1, StrongInduction

-----------------------------------------------------------------------------
(* The BER reader and what it reads: items (snmp_traps.py:33-53).           *)

\* The reads of Items, as a function of how many there were.
LEMMA ItemsExist ==
    ASSUME NEW data, NEW N \in Nat
    PROVE  \E f : f = [k \in 0 .. N |-> IF k = 0 THEN Reader(data) ELSE Item(f[k - 1])]
<1> DEFINE Loop(f, n) == f = [k \in 0 .. n |-> IF k = 0 THEN Reader(data) ELSE Item(f[k - 1])]
           T == {n \in Nat : \E f : Loop(f, n)}
<1>1. 0 \in T
  <2>1. Loop([k \in 0 .. 0 |-> Reader(data)], 0)
    OBVIOUS
  <2> QED
    BY <2>1
<1>2. ASSUME NEW n \in Nat, n \in T PROVE n + 1 \in T
  <2>1. PICK f : Loop(f, n)
    BY <1>2
  <2> DEFINE g == [k \in 0 .. n + 1 |-> IF k = n + 1 THEN Item(f[n]) ELSE f[k]]
  <2>2. ASSUME NEW k \in 0 .. n + 1 PROVE g[k] = IF k = 0 THEN Reader(data) ELSE Item(g[k - 1])
    BY <2>1
  <2>3. Loop(g, n + 1)
    BY <2>2
  <2> HIDE DEF Loop, g
  <2> QED
    BY <2>3
<1> HIDE DEF T
<1>3. N \in T
  BY <1>1, <1>2, Induction
<1> QED
  BY <1>3 DEF T

\* The reads of AllItems, as a function of how many there were.
LEMMA AllItemsExist ==
    ASSUME NEW data, NEW N \in Nat
    PROVE  \E f : f = [k \in 0 .. N |-> IF k = 0 THEN Reader(data) ELSE NextItem(f[k - 1])]
<1> DEFINE Loop(f, n) == f = [k \in 0 .. n |-> IF k = 0 THEN Reader(data) ELSE NextItem(f[k - 1])]
           T == {n \in Nat : \E f : Loop(f, n)}
<1>1. 0 \in T
  <2>1. Loop([k \in 0 .. 0 |-> Reader(data)], 0)
    OBVIOUS
  <2> QED
    BY <2>1
<1>2. ASSUME NEW n \in Nat, n \in T PROVE n + 1 \in T
  <2>1. PICK f : Loop(f, n)
    BY <1>2
  <2> DEFINE g == [k \in 0 .. n + 1 |-> IF k = n + 1 THEN NextItem(f[n]) ELSE f[k]]
  <2>2. ASSUME NEW k \in 0 .. n + 1 PROVE g[k] = IF k = 0 THEN Reader(data) ELSE NextItem(g[k - 1])
    BY <2>1
  <2>3. Loop(g, n + 1)
    BY <2>2
  <2> HIDE DEF Loop, g
  <2> QED
    BY <2>3
<1> HIDE DEF T
<1>3. N \in T
  BY <1>1, <1>2, Induction
<1> QED
  BY <1>3 DEF T

\* All items of data, which ends with the first reader that has nothing left.
LEMMA AllItemsFacts ==
    ASSUME NEW data, Len(data) \in Nat
    PROVE  \E f : /\ AllItems(data) = f[Len(data)] /\ f[0] = Reader(data)
                  /\ \A k \in 1 .. Len(data) : f[k] = NextItem(f[k - 1])
                  /\ \A k \in 0 .. Len(data) : f[k].rest = <<>> => AllItems(data) = f[k]
<1> DEFINE Loop(f) == f = [k \in 0 .. Len(data) |-> IF k = 0 THEN Reader(data) ELSE NextItem(f[k - 1])]
           read == CHOOSE f : Loop(f)
<1>1. AllItems(data) = read[Len(data)]
  BY DEF AllItems
<1>2. \E f : Loop(f)
  BY AllItemsExist
<1>3. Loop(read)
  <2> HIDE DEF Loop
  <2> QED
    BY <1>2
<1> HIDE DEF read
<1>4. read[0] = Reader(data) /\ \A k \in 1 .. Len(data) : read[k] = NextItem(read[k - 1])
  BY <1>3
<1>5. ASSUME NEW k \in 0 .. Len(data), read[k].rest = <<>> PROVE AllItems(data) = read[k]
  <2> DEFINE T == {n \in Nat : k + n <= Len(data) => read[k + n] = read[k]}
  <2>1. 0 \in T
    OBVIOUS
  <2>2. ASSUME NEW n \in Nat, n \in T PROVE n + 1 \in T
    <3> SUFFICES ASSUME k + n + 1 <= Len(data) PROVE read[k + n + 1] = read[k]
      OBVIOUS
    <3>1. read[k + n] = read[k] /\ k + n + 1 \in 1 .. Len(data) /\ (k + n + 1) - 1 = k + n
      BY <2>2
    <3>2. read[k + n + 1] = NextItem(read[k])
      BY <1>4, <3>1
    <3> QED
      BY <1>5, <3>2 DEF NextItem
  <2> HIDE DEF T
  <2>3. \A n \in Nat : n \in T
    BY <2>1, <2>2, Induction
  <2>4. Len(data) - k \in Nat /\ k + (Len(data) - k) = Len(data)
    OBVIOUS
  <2>5. Len(data) - k \in T
    BY <2>3, <2>4
  <2>6. read[k + (Len(data) - k)] = read[k]
    BY <2>4, <2>5 DEF T
  <2> QED
    BY <1>1, <2>4, <2>6
<1> QED
  BY <1>1, <1>4, <1>5

\* A reader that has taken one more item.
Took(r, tag, value, rest) == [ok |-> TRUE, items |-> Append(r.items, [tag |-> tag, value |-> value]), rest |-> rest]

\* A value with its tag and length in front (simulator.py:17-20).
LEMMA TlvFacts ==
    ASSUME NEW tag \in Nat, NEW value \in Seq(Nat)
    PROVE  /\ Tlv(tag, value) \in Seq(Nat) /\ Len(Tlv(tag, value)) = Len(value) + 2
           /\ Tlv(tag, value)[1] = tag /\ Tlv(tag, value)[2] = Len(value)
           /\ SubSeq(Tlv(tag, value), 3, Len(value) + 2) = value
<1>1. PICK L \in Nat : L = Len(value)
  BY LenProperties
<1>2. PICK s : s = <<tag, L>>
  OBVIOUS
<1>3. PICK d : d = s \o value /\ d = Tlv(tag, value)
  BY <1>1, <1>2 DEF Tlv
<1>4. s \in Seq(Nat) /\ Len(s) = 2 /\ s[1] = tag /\ s[2] = L
  BY <1>2
<1>5. d \in Seq(Nat) /\ Len(d) = L + 2 /\ \A i \in 1 .. L + 2 : d[i] = IF i <= 2 THEN s[i] ELSE value[i - 2]
  <2>1. /\ d \in Seq(Nat) /\ Len(d) = Len(s) + Len(value)
        /\ \A i \in 1 .. Len(s) + Len(value) : d[i] = IF i <= Len(s) THEN s[i] ELSE value[i - Len(s)]
    <3>1. s \in Seq(Nat) /\ d = s \o value
      BY <1>3, <1>4
    <3> QED
      BY <3>1, ConcatProperties
  <2>2. 2 + L = L + 2
    OBVIOUS
  <2> QED
    BY <1>1, <1>4, <2>1, <2>2
<1>6. d[1] = tag /\ d[2] = L /\ \A i \in 1 .. L : d[i + 2] = value[i]
  <2>1. 1 \in 1 .. L + 2 /\ 2 \in 1 .. L + 2 /\ \A i \in 1 .. L : i + 2 \in 1 .. L + 2 /\ ~(i + 2 <= 2) /\ (i + 2) - 2 = i
    OBVIOUS
  <2> QED
    BY <1>4, <1>5, <2>1
<1>7. SubSeq(d, 3, L + 2) = value
  <2>1. \A i \in 3 .. L + 2 : d[i] \in Nat
    <3>1. \A i \in 3 .. L + 2 : i \in 1 .. L + 2
      OBVIOUS
    <3> QED
      BY <1>5, <3>1, ElementOfSeq
  <2>2. PICK t : t = SubSeq(d, 3, L + 2)
    OBVIOUS
  <2>3. /\ t \in Seq(Nat) /\ Len(t) = (IF 3 <= L + 2 THEN (L + 2) - 3 + 1 ELSE 0)
        /\ \A i \in 1 .. (L + 2) - 3 + 1 : t[i] = d[3 + i - 1]
    BY <2>1, <2>2, SubSeqProperties
  <2>4. /\ (IF 3 <= L + 2 THEN (L + 2) - 3 + 1 ELSE 0) = L /\ (L + 2) - 3 + 1 = L
        /\ \A i \in 1 .. L : 3 + i - 1 = i + 2
    OBVIOUS
  <2>5. Len(t) = L /\ \A i \in 1 .. L : t[i] = value[i]
    BY <1>6, <2>3, <2>4
  <2> QED
    BY <1>1, <2>2, <2>3, <2>5, SeqEqual
<1> QED
  BY <1>1, <1>3, <1>5, <1>6, <1>7

\* Whatever follows a TLV, item takes it off and leaves the rest.
LEMMA ItemOfTlv ==
    ASSUME NEW r, NEW tag \in Nat, NEW value \in Seq(Nat), NEW more \in Seq(Nat),
           r.ok = TRUE, r.rest = Tlv(tag, value) \o more, Len(value) < 128
    PROVE  Item(r) = Took(r, tag, value, more)
<1>1. PICK L \in Nat : L = Len(value)
  BY LenProperties
<1>2. PICK M \in Nat : M = Len(more)
  BY LenProperties
<1>3. PICK t : t = Tlv(tag, value)
  OBVIOUS
<1>4. t \in Seq(Nat) /\ Len(t) = L + 2 /\ t[1] = tag /\ t[2] = L /\ SubSeq(t, 3, L + 2) = value
  BY <1>1, <1>3, TlvFacts
<1>5. PICK d : d = t \o more /\ d = r.rest
  BY <1>3
<1>6. d \in Seq(Nat) /\ Len(d) = L + 2 + M /\ \A i \in 1 .. L + 2 + M : d[i] = IF i <= L + 2 THEN t[i] ELSE more[i - (L + 2)]
  <2>1. /\ d \in Seq(Nat) /\ Len(d) = Len(t) + Len(more)
        /\ \A i \in 1 .. Len(t) + Len(more) : d[i] = IF i <= Len(t) THEN t[i] ELSE more[i - Len(t)]
    <3>1. t \in Seq(Nat) /\ d = t \o more
      BY <1>4, <1>5
    <3> QED
      BY <3>1, ConcatProperties
  <2> QED
    BY <1>2, <1>4, <2>1
<1>7. d[1] = tag /\ d[2] = L
  <2>1. 1 \in 1 .. L + 2 + M /\ 2 \in 1 .. L + 2 + M /\ 1 <= L + 2 /\ 2 <= L + 2
    OBVIOUS
  <2> QED
    BY <1>4, <1>6, <2>1
<1>8. SubSeq(d, 3, L + 2) = value
  <2>1. CASE L = 0
    <3>1. value = <<>>
      BY <1>1, <2>1, EmptySeq
    <3> QED
      BY <2>1, <3>1, SubSeqEmpty
  <2>2. CASE L # 0
    <3>1. 3 \in 1 .. L + 2 /\ L + 2 \in 1 .. L + 2
      BY <2>2
    <3>2. 3 \in 1 .. Len(t) /\ L + 2 \in 1 .. Len(t)
      BY <1>4, <3>1
    <3>3. t \in Seq(Nat) /\ d = t \o more
      BY <1>4, <1>5
    <3>4. SubSeq(d, 3, L + 2) = SubSeq(t, 3, L + 2)
      BY <3>2, <3>3, SubSeqOfConcat1
    <3> QED
      BY <1>4, <3>4
  <2> QED
    BY <2>1, <2>2
<1>9. SubSeq(d, L + 3, L + 2 + M) = more
  <2>1. CASE M = 0
    <3>1. more = <<>>
      BY <1>2, <2>1, EmptySeq
    <3>2. L + 2 + M < L + 3 /\ L + 3 \in Int /\ L + 2 + M \in Int
      BY <2>1
    <3> QED
      BY <3>1, <3>2, SubSeqEmpty
  <2>2. CASE M # 0
    <3>1. /\ L + 3 \in (L + 2) + 1 .. (L + 2) + M /\ L + 2 + M \in (L + 2) + 1 .. (L + 2) + M
          /\ L + 3 - (L + 2) = 1 /\ L + 2 + M - (L + 2) = M
      BY <2>2
    <3>2. L + 3 \in Len(t) + 1 .. Len(t) + Len(more) /\ L + 2 + M \in Len(t) + 1 .. Len(t) + Len(more)
      BY <1>2, <1>4, <3>1
    <3>3. SubSeq(d, L + 3, L + 2 + M) = SubSeq(more, 1, M)
      <4>1. t \in Seq(Nat) /\ d = t \o more
        BY <1>4, <1>5
      <4>2. PICK m, n : m = L + 3 /\ n = L + 2 + M
        OBVIOUS
      <4>3. m \in Len(t) + 1 .. Len(t) + Len(more) /\ n \in Len(t) + 1 .. Len(t) + Len(more)
        BY <3>2, <4>2
      <4>4. SubSeq(t \o more, m, n) = SubSeq(more, m - Len(t), n - Len(t))
        BY <4>1, <4>3, SubSeqOfConcat2
      <4>5. m - Len(t) = 1 /\ n - Len(t) = M
        BY <1>4, <3>1, <4>2
      <4> QED
        BY <4>1, <4>2, <4>4, <4>5
    <3>4. SubSeq(more, 1, M) = more
      BY <1>2, SubSeqFull
    <3> QED
      BY <1>4, <3>1, <3>3, <3>4
  <2> QED
    BY <2>1, <2>2
<1>10. L < 128
  BY <1>1
<1>11. /\ (2 + 0) + L + 1 = L + 3 /\ (2 + 0) + 1 = 3 /\ (2 + 0) + L = L + 2 /\ 2 + 0 + L <= L + 2 + M
       /\ L + 2 + M >= 2
  OBVIOUS
<1>12. Item(r) = [ok |-> TRUE, rest |-> SubSeq(d, (2 + 0) + L + 1, Len(d)),
                 items |-> Append(r.items, [tag |-> tag, value |-> SubSeq(d, (2 + 0) + 1, (2 + 0) + L)])]
  BY <1>5, <1>6, <1>7, <1>10, <1>11 DEF Item
<1> QED
  BY <1>6, <1>8, <1>9, <1>11, <1>12 DEF Took

-----------------------------------------------------------------------------
(* Object identifiers: oid (simulator.py:23-31) and decode_oid              *)
(* (snmp_traps.py:56-68) are inverse.                                       *)

\* The first byte of an OID is its first two arcs.
OidStart(data) == [arcs |-> <<data[1] \div 40, data[1] % 40>>, current |-> 0]

\* The loop of decode_oid, as a function of the bytes read.
LEMMA OidReadLoop ==
    ASSUME NEW data, NEW N \in Nat, Len(data) = N + 1
    PROVE  \E f : /\ OidRead(data) = f[N] /\ f[0] = OidStart(data)
                  /\ \A k \in 1 .. N : f[k] = OidStep(f[k - 1], data[k + 1])
<1> DEFINE Loop(f, n) == f = [k \in 0 .. n |-> IF k = 0 THEN OidStart(data)
                                              ELSE OidStep(f[k - 1], data[k + 1])]
           T == {n \in Nat : \E f : Loop(f, n)}
           upTo == CHOOSE f : Loop(f, N)
<1>1. 0 \in T
  <2>1. Loop([k \in 0 .. 0 |-> OidStart(data)], 0)
    OBVIOUS
  <2> QED
    BY <2>1
<1>2. ASSUME NEW n \in Nat, n \in T PROVE n + 1 \in T
  <2>1. PICK f : Loop(f, n)
    BY <1>2
  <2> DEFINE g == [k \in 0 .. n + 1 |-> IF k = n + 1 THEN OidStep(f[n], data[(n + 1) + 1]) ELSE f[k]]
  <2>2. ASSUME NEW k \in 0 .. n + 1
        PROVE  g[k] = IF k = 0 THEN OidStart(data) ELSE OidStep(g[k - 1], data[k + 1])
    <3>1. CASE k = n + 1
      <4>1. g[k] = OidStep(f[n], data[k + 1]) /\ k - 1 = n /\ k # 0
        BY <3>1
      <4>2. g[k - 1] = f[n]
        BY <3>1
      <4> QED
        BY <4>1, <4>2
    <3>2. CASE k # n + 1
      <4>1. k \in 0 .. n /\ g[k] = f[k]
        BY <3>2
      <4>2. k # 0 => k - 1 \in 0 .. n /\ g[k - 1] = f[k - 1]
        BY <4>1
      <4> QED
        BY <2>1, <4>1, <4>2
    <3> QED
      BY <3>1, <3>2
  <2>3. Loop(g, n + 1)
    BY <2>2
  <2> HIDE DEF Loop, g
  <2> QED
    BY <2>3
<1>3. \A n \in Nat : n \in T
  <2> HIDE DEF T
  <2> QED
    BY <1>1, <1>2, Induction
<1>4. Loop(upTo, N)
  <2>1. N \in T
    BY <1>3
  <2> HIDE DEF Loop
  <2> QED
    BY <2>1
<1>5. OidRead(data) = upTo[N]
  <2>1. Len(data) - 1 = N
    OBVIOUS
  <2> QED
    BY <2>1 DEF OidRead, OidStart
<1> HIDE DEF upTo, T
<1> QED
  BY <1>4, <1>5

\* An OID of one byte.
LEMMA OidReadOfOne ==
    ASSUME NEW x
    PROVE  OidRead(<<x>>) = [arcs |-> <<x \div 40, x % 40>>, current |-> 0]
<1>1. PICK f : OidRead(<<x>>) = f[0] /\ f[0] = OidStart(<<x>>)
  <2>1. PICK data : data = <<x>>
    OBVIOUS
  <2>2. Len(data) = 0 + 1
    BY <2>1
  <2>3. \E f : OidRead(data) = f[0] /\ f[0] = OidStart(data)
    BY <2>2, OidReadLoop
  <2> QED
    BY <2>1, <2>3
<1>2. OidStart(<<x>>) = [arcs |-> <<x \div 40, x % 40>>, current |-> 0]
  BY DEF OidStart
<1> QED
  BY <1>1, <1>2

\* One byte more is one turn more of the loop (snmp_traps.py:60-65).
LEMMA OidReadOfAppend ==
    ASSUME NEW data \in Seq(Nat), data # <<>>, NEW b \in Nat
    PROVE  OidRead(Append(data, b)) = OidStep(OidRead(data), b)
<1>1. PICK N \in Nat : Len(data) = N + 1
  <2>1. Len(data) \in Nat \ {0}
    BY EmptySeq
  <2> QED
    BY <2>1
<1>2. PICK more : more = Append(data, b)
  OBVIOUS
<1>3. Len(more) = (N + 1) + 1 /\ \A k \in 1 .. N + 1 : more[k] = data[k]
  <2>1. /\ Len(more) = Len(data) + 1 /\ \A k \in 1 .. Len(data) : more[k] = data[k]
    BY <1>2, AppendProperties
  <2> QED
    BY <1>1, <2>1
<1>4. more[N + 2] = b
  <2>1. more[Len(data) + 1] = b
    BY <1>2, AppendProperties
  <2>2. (N + 1) + 1 = N + 2
    OBVIOUS
  <2> QED
    BY <1>1, <2>1, <2>2
<1>5. PICK f : /\ OidRead(data) = f[N] /\ f[0] = OidStart(data)
               /\ \A k \in 1 .. N : f[k] = OidStep(f[k - 1], data[k + 1])
  BY <1>1, OidReadLoop
<1>6. PICK g : /\ OidRead(more) = g[N + 1] /\ g[0] = OidStart(more)
               /\ \A k \in 1 .. N + 1 : g[k] = OidStep(g[k - 1], more[k + 1])
  <2>1. N + 1 \in Nat
    OBVIOUS
  <2> QED
    BY <1>3, <2>1, OidReadLoop
<1>7. f[N] = g[N]
  <2> DEFINE T == {n \in Nat : n <= N => f[n] = g[n]}
  <2>1. 0 \in T
    <3>1. more[1] = data[1]
      BY <1>3
    <3> QED
      BY <1>5, <1>6, <3>1 DEF OidStart
  <2>2. ASSUME NEW n \in Nat, n \in T PROVE n + 1 \in T
    <3> SUFFICES ASSUME n + 1 <= N PROVE f[n + 1] = g[n + 1]
      OBVIOUS
    <3>1. f[n] = g[n]
      BY <2>2
    <3>2. n + 1 \in 1 .. N /\ n + 1 \in 1 .. N + 1 /\ (n + 1) - 1 = n /\ (n + 1) + 1 \in 1 .. N + 1
      OBVIOUS
    <3>3. f[n + 1] = OidStep(f[n], data[(n + 1) + 1])
      BY <1>5, <3>2
    <3>4. g[n + 1] = OidStep(g[n], more[(n + 1) + 1])
      BY <1>6, <3>2
    <3> QED
      BY <1>3, <3>1, <3>2, <3>3, <3>4
  <2> HIDE DEF T
  <2>3. N \in T
    BY <2>1, <2>2, Induction
  <2> QED
    BY <2>3 DEF T
<1>8. g[N + 1] = OidStep(g[N], b)
  <2>1. N + 1 \in 1 .. N + 1 /\ (N + 1) - 1 = N /\ (N + 1) + 1 = N + 2
    OBVIOUS
  <2> QED
    BY <1>4, <1>6, <2>1
<1> QED
  BY <1>2, <1>5, <1>6, <1>7, <1>8

\* Continued is what its definition says: the recursion ends, as n \div 128 is
\* less than n.
LEMMA ContinuedFacts ==
    /\ Continued[0] = <<>>
    /\ \A n \in Nat : n # 0 => Continued[n] = Append(Continued[n \div 128], 128 + (n % 128))
<1> DEFINE Value(f, n) == IF n = 0 THEN <<>> ELSE Append(f[n \div 128], 128 + (n % 128))
           Upto(f, N) == f = [n \in 0 .. N |-> Value(f, n)]
           T == {N \in Nat : \E f : Upto(f, N)}
           part(N) == CHOOSE f : Upto(f, N)
           all == [n \in Nat |-> part(n)[n]]
           Whole(f) == f = [n \in Nat |-> Value(f, n)]
<1>1. \A n \in Nat : n # 0 => n \div 128 \in 0 .. n - 1
  OBVIOUS
<1>2. 0 \in T
  <2>1. Upto([n \in 0 .. 0 |-> <<>>], 0)
    OBVIOUS
  <2> QED
    BY <2>1
<1>3. ASSUME NEW N \in Nat, N \in T PROVE N + 1 \in T
  <2>1. PICK f : Upto(f, N)
    BY <1>3
  <2> DEFINE g == [n \in 0 .. N + 1 |-> IF n = N + 1 THEN Value(f, n) ELSE f[n]]
  <2>2. ASSUME NEW n \in 0 .. N + 1 PROVE g[n] = Value(g, n)
    <3>1. CASE n = 0
      BY <2>1, <3>1
    <3>2. CASE n # 0
      <4>1. n \div 128 \in 0 .. N
        BY <1>1, <3>2
      <4>2. g[n \div 128] = f[n \div 128]
        BY <4>1
      <4>3. g[n] = Value(f, n)
        <5>1. CASE n = N + 1
          BY <5>1
        <5>2. CASE n # N + 1
          <6>1. n \in 0 .. N
            BY <5>2
          <6>2. f[n] = Value(f, n)
            BY <2>1, <6>1
          <6> QED
            BY <5>2, <6>2
        <5> QED
          BY <5>1, <5>2
      <4> QED
        BY <3>2, <4>2, <4>3
    <3> QED
      BY <3>1, <3>2
  <2>3. Upto(g, N + 1)
    BY <2>2
  <2> HIDE DEF Upto, g
  <2> QED
    BY <2>3
<1>4. \A N \in Nat : N \in T
  <2> HIDE DEF T
  <2> QED
    BY <1>2, <1>3, Induction
<1>5. \A N \in Nat : Upto(part(N), N)
  <2> SUFFICES ASSUME NEW N \in Nat PROVE Upto(part(N), N)
    OBVIOUS
  <2>1. \E f : Upto(f, N)
    BY <1>4
  <2> HIDE DEF Upto
  <2> QED
    BY <2>1
<1> HIDE DEF part, T
<1>6. \A N \in Nat : \A n \in 0 .. N : part(N)[n] = Value(part(N), n)
  BY <1>5
<1> HIDE DEF Upto
<1> DEFINE Same == {n \in Nat : \A N, M \in Nat : n <= N /\ n <= M => part(N)[n] = part(M)[n]}
<1>7. \A n \in Nat : n \in Same
  <2>1. ASSUME NEW n \in Nat, \A m \in 0 .. n - 1 : m \in Same PROVE n \in Same
    <3> SUFFICES ASSUME NEW N \in Nat, NEW M \in Nat, n <= N, n <= M
                 PROVE  part(N)[n] = part(M)[n]
      OBVIOUS
    <3>1. part(N)[n] = Value(part(N), n) /\ part(M)[n] = Value(part(M), n)
      BY <1>6
    <3>2. CASE n = 0
      BY <3>1, <3>2
    <3>3. CASE n # 0
      <4>1. n \div 128 \in 0 .. n - 1 /\ n \div 128 <= N /\ n \div 128 <= M
        BY <1>1, <3>3
      <4>2. part(N)[n \div 128] = part(M)[n \div 128]
        BY <2>1, <4>1
      <4> QED
        BY <3>1, <3>3, <4>2
    <3> QED
      BY <3>2, <3>3
  <2> HIDE DEF Same
  <2> QED
    BY <2>1, StrongInduction
<1>8. ASSUME NEW n \in Nat PROVE all[n] = Value(all, n)
  <2>1. part(n)[n] = Value(part(n), n)
    BY <1>6
  <2>2. CASE n = 0
    BY <2>1, <2>2
  <2>3. CASE n # 0
    <3>1. PICK m \in Nat : m = n \div 128 /\ m <= n
      BY <1>1, <2>3
    <3>2. m \in Same
      BY <1>7
    <3>3. part(n)[m] = part(m)[m]
      BY <3>1, <3>2
    <3> QED
      BY <2>1, <2>3, <3>1, <3>3
  <2> QED
    BY <2>2, <2>3
<1>9. Whole(all)
  BY <1>8
<1>10. Continued = CHOOSE f : Whole(f)
  BY DEF Continued
<1> HIDE DEF Whole, all
<1>11. Whole(Continued)
  BY <1>9, <1>10
<1> QED
  BY <1>11 DEF Whole

\* Continued[n] is a sequence of bytes.
LEMMA ContinuedIsSeq ==
    \A n \in Nat : Continued[n] \in Seq(Nat)
<1> DEFINE T == {n \in Nat : Continued[n] \in Seq(Nat)}
<1>1. ASSUME NEW n \in Nat, \A m \in 0 .. n - 1 : m \in T PROVE n \in T
  <2>1. CASE n = 0
    <3>1. Continued[n] = <<>>
      BY <2>1, ContinuedFacts
    <3> QED
      BY <3>1, EmptySeq
  <2>2. CASE n # 0
    <3>1. n \div 128 \in 0 .. n - 1 /\ 128 + (n % 128) \in Nat
      BY <2>2
    <3>2. Continued[n \div 128] \in Seq(Nat)
      BY <1>1, <3>1
    <3>3. Continued[n] = Append(Continued[n \div 128], 128 + (n % 128))
      BY <2>2, ContinuedFacts
    <3>4. Continued[n] \in Seq(Nat)
      BY <3>1, <3>2, <3>3, AppendProperties
    <3> QED
      BY <3>4
  <2> QED
    BY <2>1, <2>2
<1> HIDE DEF T
<1>2. \A n \in Nat : n \in T
  BY <1>1, StrongInduction
<1> QED
  BY <1>2 DEF T

\* Appending to the second of two sequences.
LEMMA ConcatAppend ==
    ASSUME NEW s \in Seq(Nat), NEW t \in Seq(Nat), NEW x \in Nat
    PROVE  s \o Append(t, x) = Append(s \o t, x)
<1>1. <<x>> \in Seq(Nat) /\ s \o t \in Seq(Nat)
  BY ConcatProperties
<1>2. Append(t, x) = t \o <<x>> /\ Append(s \o t, x) = (s \o t) \o <<x>>
  BY <1>1, AppendIsConcat
<1> QED
  BY <1>1, <1>2, ConcatAssociative

\* Two sequences, the first one not empty.
LEMMA ConcatNotEmpty ==
    ASSUME NEW s \in Seq(Nat), NEW t \in Seq(Nat), s # <<>>
    PROVE  s \o t \in Seq(Nat) /\ s \o t # <<>>
BY ConcatProperties, ConcatEqualIffEmpty

\* The bytes with the bit for more leave their value in current.
LEMMA ContinuedIsRead ==
    ASSUME NEW data \in Seq(Nat), data # <<>>, NEW a,
           OidRead(data) = [arcs |-> a, current |-> 0]
    PROVE  \A n \in Nat : OidRead(data \o Continued[n]) = [arcs |-> a, current |-> n]
<1> DEFINE T == {n \in Nat : OidRead(data \o Continued[n]) = [arcs |-> a, current |-> n]}
<1>1. ASSUME NEW n \in Nat, \A m \in 0 .. n - 1 : m \in T PROVE n \in T
  <2>1. CASE n = 0
    <3>1. Continued[0] = <<>> /\ data \o <<>> = data
      BY ContinuedFacts, ConcatEmptySeq
    <3> QED
      BY <2>1, <3>1
  <2>2. CASE n # 0
    <3>1. PICK m \in Nat : m = n \div 128 /\ m \in 0 .. n - 1
      BY <2>2
    <3>2. PICK b \in Nat : b = 128 + (n % 128)
      OBVIOUS
    <3>3. b >= 128 /\ m * 128 + (b - 128) = n
      BY <3>1, <3>2
    <3>4. PICK before : before = data \o Continued[m]
      OBVIOUS
    <3>5. OidRead(before) = [arcs |-> a, current |-> m]
      BY <1>1, <3>1, <3>4
    <3>6. Continued[n] = Append(Continued[m], b)
      BY <2>2, <3>1, <3>2, ContinuedFacts
    <3>7. Continued[m] \in Seq(Nat)
      BY ContinuedIsSeq
    <3>8. data \o Continued[n] = Append(before, b)
      BY <3>4, <3>6, <3>7, ConcatAppend
    <3>9. before \in Seq(Nat) /\ before # <<>>
      BY <3>4, <3>7, ConcatNotEmpty
    <3>10. OidRead(Append(before, b)) = OidStep([arcs |-> a, current |-> m], b)
      BY <3>5, <3>9, OidReadOfAppend
    <3>11. OidStep([arcs |-> a, current |-> m], b) = [arcs |-> a, current |-> m * 128 + (b - 128)]
      <4>1. b >= 128
        BY <3>3
      <4> QED
        BY <4>1 DEF OidStep
    <3>12. OidRead(data \o Continued[n]) = [arcs |-> a, current |-> n]
      BY <3>3, <3>8, <3>10, <3>11
    <3> QED
      BY <3>12
  <2> QED
    BY <2>1, <2>2
<1> HIDE DEF T
<1>2. \A n \in Nat : n \in T
  BY <1>1, StrongInduction
<1> QED
  BY <1>2 DEF T

\* An arc is read as it was written.
LEMMA ArcIsRead ==
    ASSUME NEW data \in Seq(Nat), data # <<>>, NEW a, NEW n \in Nat,
           OidRead(data) = [arcs |-> a, current |-> 0]
    PROVE  /\ data \o Arc(n) \in Seq(Nat) /\ data \o Arc(n) # <<>>
           /\ OidRead(data \o Arc(n)) = [arcs |-> Append(a, n), current |-> 0]
<1>1. PICK m \in Nat : m = n \div 128
  OBVIOUS
<1>2. PICK b \in Nat : b = n % 128
  OBVIOUS
<1>3. b < 128 /\ m * 128 + b = n
  BY <1>1, <1>2
<1>4. PICK before : before = data \o Continued[m]
  OBVIOUS
<1>5. OidRead(before) = [arcs |-> a, current |-> m]
  BY <1>4, ContinuedIsRead
<1>6. Continued[m] \in Seq(Nat)
  BY ContinuedIsSeq
<1>7. Arc(n) = Append(Continued[m], b)
  BY <1>1, <1>2 DEF Arc
<1>8. before \in Seq(Nat) /\ before # <<>>
  BY <1>4, <1>6, ConcatNotEmpty
<1>9. data \o Arc(n) = Append(before, b)
  BY <1>4, <1>6, <1>7, ConcatAppend
<1>10. OidRead(Append(before, b)) = OidStep([arcs |-> a, current |-> m], b)
  BY <1>5, <1>8, OidReadOfAppend
<1>11. OidStep([arcs |-> a, current |-> m], b) = [arcs |-> Append(a, n), current |-> 0]
  <2>1. b < 128
    BY <1>3
  <2>2. OidStep([arcs |-> a, current |-> m], b) = [arcs |-> Append(a, m * 128 + b), current |-> 0]
    BY <2>1 DEF OidStep
  <2> QED
    BY <1>3, <2>2
<1> QED
  BY <1>8, <1>9, <1>10, <1>11, AppendProperties

\* What make_v2c_trap and a device may write: two arcs of which the first byte
\* is made, and any number of others.
IsOid(arcs) == arcs \in Seq(Nat) /\ Len(arcs) >= 2 /\ arcs[1] \in 0 .. 2 /\ arcs[2] \in 0 .. 39

\* The loop of oid, as a function of the arcs written.
LEMMA OidBytesLoop ==
    ASSUME NEW arcs, NEW N \in Nat, Len(arcs) = N + 2
    PROVE  \E f : /\ OidBytes(arcs) = f[N] /\ f[0] = <<40 * arcs[1] + arcs[2]>>
                  /\ \A k \in 1 .. N : f[k] = f[k - 1] \o Arc(arcs[k + 2])
<1> DEFINE Loop(f, n) == f = [k \in 0 .. n |-> IF k = 0 THEN <<40 * arcs[1] + arcs[2]>>
                                              ELSE f[k - 1] \o Arc(arcs[k + 2])]
           T == {n \in Nat : \E f : Loop(f, n)}
           upTo == CHOOSE f : Loop(f, N)
<1>1. 0 \in T
  <2>1. Loop([k \in 0 .. 0 |-> <<40 * arcs[1] + arcs[2]>>], 0)
    OBVIOUS
  <2> QED
    BY <2>1
<1>2. ASSUME NEW n \in Nat, n \in T PROVE n + 1 \in T
  <2>1. PICK f : Loop(f, n)
    BY <1>2
  <2> DEFINE g == [k \in 0 .. n + 1 |-> IF k = n + 1 THEN f[n] \o Arc(arcs[k + 2]) ELSE f[k]]
  <2>2. ASSUME NEW k \in 0 .. n + 1
        PROVE  g[k] = IF k = 0 THEN <<40 * arcs[1] + arcs[2]>> ELSE g[k - 1] \o Arc(arcs[k + 2])
    <3>1. CASE k = n + 1
      <4>1. k - 1 = n /\ k # 0
        BY <3>1
      <4>3. g[k] = f[n] \o Arc(arcs[k + 2])
        BY <3>1, Zenon
      <4>2. g[k - 1] = f[n]
        BY <3>1
      <4> QED
        BY <4>1, <4>2, <4>3
    <3>2. CASE k # n + 1
      <4>1. k \in 0 .. n /\ g[k] = f[k]
        BY <3>2
      <4>2. k # 0 => k - 1 \in 0 .. n /\ g[k - 1] = f[k - 1]
        BY <4>1
      <4> QED
        BY <2>1, <4>1, <4>2
    <3> QED
      BY <3>1, <3>2
  <2>3. Loop(g, n + 1)
    BY <2>2
  <2> HIDE DEF Loop, g
  <2> QED
    BY <2>3
<1>3. \A n \in Nat : n \in T
  <2> HIDE DEF T
  <2> QED
    BY <1>1, <1>2, Induction
<1>4. Loop(upTo, N)
  <2>1. N \in T
    BY <1>3
  <2> HIDE DEF Loop
  <2> QED
    BY <2>1
<1>5. OidBytes(arcs) = upTo[N]
  <2>1. Len(arcs) - 2 = N
    OBVIOUS
  <2> QED
    BY <2>1 DEF OidBytes
<1> HIDE DEF upTo, T
<1> QED
  BY <1>4, <1>5

\* An OID is read as it was written.
LEMMA OidIsRead ==
    ASSUME NEW arcs, IsOid(arcs)
    PROVE  /\ OidBytes(arcs) \in Seq(Nat) /\ OidBytes(arcs) # <<>>
           /\ OidRead(OidBytes(arcs)) = [arcs |-> arcs, current |-> 0]
<1>1. arcs \in Seq(Nat) /\ Len(arcs) >= 2 /\ arcs[1] \in 0 .. 2 /\ arcs[2] \in 0 .. 39
  BY DEF IsOid
<1>2. PICK N \in Nat : Len(arcs) = N + 2
  <2>1. Len(arcs) \in Nat
    BY <1>1, LenProperties
  <2> QED
    BY <1>1, <2>1
<1>3. PICK f : /\ OidBytes(arcs) = f[N] /\ f[0] = <<40 * arcs[1] + arcs[2]>>
               /\ \A k \in 1 .. N : f[k] = f[k - 1] \o Arc(arcs[k + 2])
  BY <1>2, OidBytesLoop
<1> DEFINE T == {k \in Nat : k <= N =>
                   /\ f[k] \in Seq(Nat) /\ f[k] # <<>>
                   /\ OidRead(f[k]) = [arcs |-> SubSeq(arcs, 1, k + 2), current |-> 0]}
<1>4. 0 \in T
  <2>1. PICK x \in 0 .. 2 : x = arcs[1]
    BY <1>1
  <2>2. PICK y \in 0 .. 39 : y = arcs[2]
    BY <1>1
  <2>3. PICK b \in Nat : b = 40 * x + y
    OBVIOUS
  <2>4. b \div 40 = x /\ b % 40 = y
    BY <2>3
  <2>5. f[0] = <<b>> /\ <<b>> \in Seq(Nat) /\ <<b>> # <<>>
    BY <1>3, <2>1, <2>2, <2>3
  <2>6. OidRead(<<b>>) = [arcs |-> <<x, y>>, current |-> 0]
    BY <2>4, OidReadOfOne
  <2>7. SubSeq(arcs, 1, 2) = <<x, y>>
    <3>1. 1 \in 1 .. Len(arcs) /\ 2 \in 1 .. Len(arcs)
      BY <1>2
    <3>2. 1 \in Int /\ 2 \in Int /\ \A i \in 1 .. 2 : arcs[i] \in Nat
      BY <1>1, <3>1, ElementOfSeq
    <3>3. PICK s : s = SubSeq(arcs, 1, 2)
      OBVIOUS
    <3>4. s \in Seq(Nat) /\ Len(s) = 2 /\ s[1] = arcs[1] /\ s[2] = arcs[2]
      BY <3>2, <3>3, SubSeqProperties
    <3>5. <<x, y>> \in Seq(Nat) /\ Len(<<x, y>>) = 2 /\ <<x, y>>[1] = x /\ <<x, y>>[2] = y
      OBVIOUS
    <3>6. s = <<x, y>>
      BY <2>1, <2>2, <3>4, <3>5, SeqEqual
    <3> QED
      BY <3>3, <3>6
  <2>8. 0 + 2 = 2
    OBVIOUS
  <2> QED
    BY <2>5, <2>6, <2>7, <2>8
<1>5. ASSUME NEW k \in Nat, k \in T PROVE k + 1 \in T
  <2> SUFFICES ASSUME k + 1 <= N
               PROVE  /\ f[k + 1] \in Seq(Nat) /\ f[k + 1] # <<>>
                      /\ OidRead(f[k + 1]) = [arcs |-> SubSeq(arcs, 1, (k + 1) + 2), current |-> 0]
    OBVIOUS
  <2>1. k <= N /\ k + 1 \in 1 .. N /\ (k + 1) - 1 = k
    OBVIOUS
  <2>2. PICK m \in Nat : m = (k + 1) + 2 /\ m - 1 = k + 2 /\ 1 <= m /\ m <= N + 2
    OBVIOUS
  <2>3. m \in 1 .. Len(arcs) /\ 1 \in 1 .. Len(arcs) /\ m \in 1 .. Len(arcs) /\ m - 1 \in Int
    BY <1>2, <2>2
  <2>4. PICK n \in Nat : n = arcs[m]
    BY <1>1, <2>3, ElementOfSeq
  <2>5. /\ f[k] \in Seq(Nat) /\ f[k] # <<>>
        /\ OidRead(f[k]) = [arcs |-> SubSeq(arcs, 1, m - 1), current |-> 0]
    BY <1>5, <2>1, <2>2
  <2>6. f[k + 1] = f[k] \o Arc(n)
    BY <1>3, <2>1, <2>2, <2>4
  <2>7. Append(SubSeq(arcs, 1, m - 1), n) = SubSeq(arcs, 1, m)
    <3>1. SubSeq(arcs, 1, m) = SubSeq(arcs, 1, m - 1) \o <<n>>
      BY <1>1, <2>3, <2>4, SubSeqRecursiveSecond
    <3>2. \A i \in 1 .. m - 1 : i \in 1 .. N + 2
      BY <2>2
    <3>3. \A i \in 1 .. m - 1 : arcs[i] \in Nat
      BY <1>1, <1>2, <3>2, ElementOfSeq
    <3>4. SubSeq(arcs, 1, m - 1) \in Seq(Nat)
      BY <2>3, <3>3, SubSeqProperties
    <3> QED
      BY <3>1, <3>4, AppendIsConcat
  <2>8. /\ f[k] \o Arc(n) \in Seq(Nat) /\ f[k] \o Arc(n) # <<>>
        /\ OidRead(f[k] \o Arc(n)) = [arcs |-> Append(SubSeq(arcs, 1, m - 1), n), current |-> 0]
    BY <2>5, ArcIsRead
  <2> QED
    BY <2>2, <2>6, <2>7, <2>8
<1> HIDE DEF T
<1>6. N \in T
  BY <1>4, <1>5, Induction
<1>7. SubSeq(arcs, 1, N + 2) = arcs
  BY <1>1, <1>2, SubSeqFull
<1> QED
  BY <1>3, <1>6, <1>7 DEF T

\* decode_oid gives back the arcs that were encoded.
THEOREM OidRoundTrip ==
    ASSUME NEW arcs, IsOid(arcs)
    PROVE  DecodeOid(OidBytes(arcs)) = arcs /\ arcs # <<>> /\ OidBytes(arcs) \in Seq(Nat)
<1>1. arcs # <<>>
  BY EmptySeq DEF IsOid
<1> QED
  BY <1>1, OidIsRead DEF DecodeOid

-----------------------------------------------------------------------------
(* A message, its length in any form: it is one item, no part of it is one, *)
(* and what follows it is left over.                                        *)

\* int.from_bytes.
LEMMA BigEndianLoop ==
    ASSUME NEW bytes, NEW N \in Nat, Len(bytes) = N
    PROVE  \E f : /\ BigEndian(bytes) = f[N] /\ f[0] = 0
                  /\ \A k \in 1 .. N : f[k] = IF f[k - 1] >= Cap THEN f[k - 1] ELSE f[k - 1] * 256 + bytes[k]
<1> DEFINE Round(m, k) == IF m >= Cap THEN m ELSE m * 256 + bytes[k]
           Loop(f, n) == f = [k \in 0 .. n |-> IF k = 0 THEN 0 ELSE Round(f[k - 1], k)]
           T == {n \in Nat : \E f : Loop(f, n)}
           upTo == CHOOSE f : Loop(f, N)
<1>1. BigEndian(bytes) = upTo[N]
  BY DEF BigEndian
<1> HIDE DEF Round
<1>2. 0 \in T
  <2>1. Loop([k \in 0 .. 0 |-> 0], 0)
    OBVIOUS
  <2> QED
    BY <2>1
<1>3. ASSUME NEW n \in Nat, n \in T PROVE n + 1 \in T
  <2>1. PICK f : Loop(f, n)
    BY <1>3
  <2> DEFINE g == [k \in 0 .. n + 1 |-> IF k = n + 1 THEN Round(f[n], k) ELSE f[k]]
  <2>2. ASSUME NEW k \in 0 .. n + 1
        PROVE  g[k] = IF k = 0 THEN 0 ELSE Round(g[k - 1], k)
    <3>1. CASE k = n + 1
      <4>1. k - 1 = n /\ k # 0
        BY <3>1
      <4>2. g[k] = Round(f[n], k)
        BY <3>1, Zenon
      <4>3. g[k - 1] = f[n]
        BY <3>1
      <4> QED
        BY <4>1, <4>2, <4>3
    <3>2. CASE k # n + 1
      <4>1. k \in 0 .. n /\ g[k] = f[k]
        BY <3>2
      <4>2. k # 0 => k - 1 \in 0 .. n /\ g[k - 1] = f[k - 1]
        BY <4>1
      <4> QED
        BY <2>1, <4>1, <4>2
    <3> QED
      BY <3>1, <3>2
  <2>3. Loop(g, n + 1)
    BY <2>2
  <2> HIDE DEF Loop, g
  <2> QED
    BY <2>3
<1>4. \A n \in Nat : n \in T
  <2> HIDE DEF T
  <2> QED
    BY <1>2, <1>3, Induction
<1>5. Loop(upTo, N)
  <2>1. N \in T
    BY <1>4
  <2> HIDE DEF Loop
  <2> QED
    BY <2>1
<1> HIDE DEF upTo, T
<1>6. upTo[0] = 0 /\ \A k \in 1 .. N : upTo[k] = Round(upTo[k - 1], k)
  BY <1>5
<1> HIDE DEF Loop
<1> QED
  BY <1>1, <1>6 DEF Round

\* Zeros in front of a number do not change it.
LEMMA BigEndianOfPadded ==
    ASSUME NEW bytes, NEW N \in Nat, N # 0, Len(bytes) = N, NEW L \in Nat, bytes[N] = L,
           \A k \in 1 .. N - 1 : bytes[k] = 0
    PROVE  BigEndian(bytes) = L
<1>1. PICK f : /\ BigEndian(bytes) = f[N] /\ f[0] = 0
               /\ \A k \in 1 .. N : f[k] = IF f[k - 1] >= Cap THEN f[k - 1] ELSE f[k - 1] * 256 + bytes[k]
  BY BigEndianLoop
<1>2. f[N - 1] = 0
  <2> DEFINE T == {n \in Nat : n <= N - 1 => f[n] = 0}
  <2>1. 0 \in T
    BY <1>1
  <2>2. ASSUME NEW n \in Nat, n \in T PROVE n + 1 \in T
    <3> SUFFICES ASSUME n + 1 <= N - 1 PROVE f[n + 1] = 0
      OBVIOUS
    <3>1. PICK m \in 1 .. N - 1 : m = n + 1 /\ m \in 1 .. N /\ m - 1 = n
      OBVIOUS
    <3>2. f[m - 1] = 0 /\ bytes[m] = 0
      BY <2>2, <3>1
    <3>3. f[m] = 0
      BY <1>1, <3>1, <3>2 DEF Cap
    <3> QED
      BY <3>1, <3>3
  <2> HIDE DEF T
  <2>3. N - 1 \in T
    <3>1. \A n \in Nat : n \in T
      BY <2>1, <2>2, Induction
    <3>2. N - 1 \in Nat
      OBVIOUS
    <3> QED
      BY <3>1, <3>2
  <2> QED
    BY <2>3 DEF T
<1>3. N \in 1 .. N
  OBVIOUS
<1> QED
  BY <1>1, <1>2, <1>3 DEF Cap

\* What stands at each place of a message with n bytes of length.
IsMessage(w, tag, body, n, L) ==
    /\ w \in Seq(Nat) /\ Len(w) = n + 2 + L /\ w[1] = tag
    /\ w[2] = (IF n = 0 THEN L ELSE 128 + n) /\ w[n + 2] = L
    /\ \A k \in 3 .. n + 1 : w[k] = 0
    /\ SubSeq(w, n + 3, n + 2 + L) = body

\* Every form of a length has its message behind it.
LEMMA LongFormFacts ==
    ASSUME NEW tag \in Nat, NEW body \in Seq(Nat), NEW n \in 0 .. 4
    PROVE  IsMessage(LongForm(Tlv(tag, body), n), tag, body, n, Len(body))
<1>0. PICK L \in Nat : L = Len(body)
  BY LenProperties
<1> SUFFICES ASSUME NEW w, w = LongForm(Tlv(tag, body), n)
             PROVE  /\ w \in Seq(Nat) /\ Len(w) = n + 2 + L /\ w[1] = tag
                    /\ w[2] = (IF n = 0 THEN L ELSE 128 + n) /\ w[n + 2] = L
                    /\ \A k \in 3 .. n + 1 : w[k] = 0
                    /\ SubSeq(w, n + 3, n + 2 + L) = body
  BY <1>0 DEF IsMessage
<1>1. PICK p : p = Tlv(tag, body)
  OBVIOUS
<1>2. /\ p \in Seq(Nat) /\ Len(p) = L + 2 /\ p[1] = tag /\ p[2] = L
      /\ SubSeq(p, 3, L + 2) = body
  BY <1>0, <1>1, TlvFacts
<1>3. CASE n = 0
  <2>1. w = p
    BY <1>1, <1>3 DEF LongForm
  <2>2. 0 + 2 + L = L + 2 /\ 0 + 3 = 3 /\ 0 + 2 = 2 /\ 3 .. 0 + 1 = {}
    OBVIOUS
  <2> QED
    BY <1>2, <1>3, <2>1, <2>2
<1>4. CASE n # 0
  <2>1. PICK h : h = <<tag, 128 + n>>
    OBVIOUS
  <2>2. PICK z : z = [k \in 1 .. n - 1 |-> 0]
    OBVIOUS
  <2>3. PICK t : t = Tail(p)
    OBVIOUS
  <2>4. w = (h \o z) \o t
    BY <1>1, <1>2, <1>4, <2>1, <2>2, <2>3 DEF LongForm
  <2>5. h \in Seq(Nat) /\ Len(h) = 2 /\ h[1] = tag /\ h[2] = 128 + n
    BY <2>1
  <2>6. z \in Seq(Nat) /\ Len(z) = n - 1 /\ \A k \in 1 .. n - 1 : z[k] = 0
    <3>1. n - 1 \in Nat
      BY <1>4
    <3> QED
      BY <2>2, <3>1
  <2>7. t \in Seq(Nat) /\ Len(t) = L + 1 /\ \A k \in 1 .. L + 1 : t[k] = p[k + 1]
    <3>1. p \in Seq(Nat) /\ p # <<>>
      BY <1>2, EmptySeq
    <3>2. t \in Seq(Nat) /\ Len(t) = Len(p) - 1 /\ \A k \in 1 .. Len(t) : t[k] = p[k + 1]
      BY <2>3, <3>1, HeadTailProperties
    <3> QED
      BY <1>2, <3>2
  <2>8. PICK hz : hz = h \o z
    OBVIOUS
  <2>9. /\ hz \in Seq(Nat) /\ Len(hz) = n + 1 /\ hz[1] = tag /\ hz[2] = 128 + n
        /\ \A k \in 3 .. n + 1 : hz[k] = 0
    <3>1. h \in Seq(Nat) /\ z \in Seq(Nat)
      BY <2>5, <2>6
    <3>2. /\ hz \in Seq(Nat) /\ Len(hz) = Len(h) + Len(z)
          /\ \A i \in 1 .. Len(h) + Len(z) : hz[i] = IF i <= Len(h) THEN h[i] ELSE z[i - Len(h)]
      BY <2>8, <3>1, ConcatProperties
    <3>3. Len(hz) = n + 1 /\ \A i \in 1 .. n + 1 : hz[i] = IF i <= 2 THEN h[i] ELSE z[i - 2]
      BY <2>5, <2>6, <3>2
    <3>4. 1 \in 1 .. n + 1 /\ 2 \in 1 .. n + 1
      BY <1>4
    <3>5. \A k \in 3 .. n + 1 : k \in 1 .. n + 1 /\ ~(k <= 2) /\ k - 2 \in 1 .. n - 1
      OBVIOUS
    <3>6. \A k \in 3 .. n + 1 : hz[k] = 0
      BY <2>6, <3>3, <3>5
    <3>7. hz[1] = tag /\ hz[2] = 128 + n
      BY <2>5, <3>3, <3>4
    <3> QED
      BY <3>2, <3>3, <3>6, <3>7
  <2>10. /\ w \in Seq(Nat) /\ Len(w) = n + 2 + L
         /\ \A i \in 1 .. n + 2 + L : w[i] = IF i <= n + 1 THEN hz[i] ELSE t[i - (n + 1)]
    <3>1. hz \in Seq(Nat) /\ t \in Seq(Nat) /\ w = hz \o t
      BY <2>4, <2>7, <2>8, <2>9
    <3>2. /\ w \in Seq(Nat) /\ Len(w) = Len(hz) + Len(t)
          /\ \A i \in 1 .. Len(hz) + Len(t) : w[i] = IF i <= Len(hz) THEN hz[i] ELSE t[i - Len(hz)]
      BY <3>1, ConcatProperties
    <3>3. (n + 1) + (L + 1) = n + 2 + L
      OBVIOUS
    <3> QED
      BY <2>7, <2>9, <3>2, <3>3
  <2>11. w[1] = tag /\ w[2] = 128 + n /\ \A k \in 3 .. n + 1 : w[k] = 0
    <3>1. \A k \in 3 .. n + 1 : k \in 1 .. n + 2 + L /\ k <= n + 1
      OBVIOUS
    <3>2. 1 \in 1 .. n + 2 + L /\ 1 <= n + 1 /\ 2 \in 1 .. n + 2 + L /\ 2 <= n + 1
      BY <1>4
    <3>3. \A k \in 3 .. n + 1 : w[k] = 0
      BY <2>9, <2>10, <3>1
    <3> QED
      BY <2>9, <2>10, <3>2, <3>3
  <2>12. \A j \in 1 .. L + 1 : w[n + 1 + j] = p[j + 1]
    <3>1. \A j \in 1 .. L + 1 : n + 1 + j \in 1 .. n + 2 + L /\ ~(n + 1 + j <= n + 1) /\ (n + 1 + j) - (n + 1) = j
      OBVIOUS
    <3> QED
      BY <2>7, <2>10, <3>1
  <2>13. w[n + 2] = L
    <3>1. 1 \in 1 .. L + 1 /\ n + 1 + 1 = n + 2 /\ 1 + 1 = 2
      OBVIOUS
    <3> QED
      BY <1>2, <2>12, <3>1
  <2>14. SubSeq(w, n + 3, n + 2 + L) = body
    <3>1. \A i \in 1 .. L : body[i] = p[i + 2]
      <4>1. \A i \in 3 .. L + 2 : i \in 1 .. L + 2
        OBVIOUS
      <4>2. \A i \in 3 .. L + 2 : p[i] \in Nat
        BY <1>2, <4>1, ElementOfSeq
      <4>3. \A i \in 1 .. (L + 2) - 3 + 1 : body[i] = p[3 + i - 1]
        BY <1>0, <1>2, <4>2, SubSeqProperties
      <4>4. (L + 2) - 3 + 1 = L /\ \A i \in 1 .. L : 3 + i - 1 = i + 2
        OBVIOUS
      <4> QED
        BY <4>3, <4>4
    <3>2. PICK a \in Nat : a = n + 3
      OBVIOUS
    <3>3. PICK b \in Nat : b = n + 2 + L
      OBVIOUS
    <3>4. PICK s : s = SubSeq(w, a, b)
      OBVIOUS
    <3>5. \A i \in a .. b : i \in 1 .. n + 2 + L
      BY <3>2, <3>3
    <3>6. \A i \in a .. b : w[i] \in Nat
      BY <2>10, <3>5, ElementOfSeq
    <3>7. /\ s \in Seq(Nat) /\ Len(s) = (IF a <= b THEN b - a + 1 ELSE 0)
          /\ \A i \in 1 .. b - a + 1 : s[i] = w[a + i - 1]
      BY <3>4, <3>6, SubSeqProperties
    <3>8. (IF a <= b THEN b - a + 1 ELSE 0) = L /\ b - a + 1 = L
      BY <3>2, <3>3
    <3>9. \A i \in 1 .. L : a + i - 1 = n + 1 + (i + 1) /\ i + 1 \in 1 .. L + 1 /\ (i + 1) + 1 = i + 2
      BY <3>2
    <3>10. Len(s) = L /\ \A i \in 1 .. L : s[i] = w[a + i - 1]
      BY <3>7, <3>8
    <3>11. \A i \in 1 .. L : s[i] = body[i]
      BY <2>12, <3>1, <3>9, <3>10
    <3>12. s = body
      BY <1>0, <3>7, <3>10, <3>11, SeqEqual
    <3> QED
      BY <3>2, <3>3, <3>4, <3>12
  <2> QED
    BY <1>4, <2>10, <2>11, <2>13, <2>14
<1> QED
  BY <1>3, <1>4

\* What item makes of a beginning of such a message, and of one with more
\* behind it.
HasHeader(d, M, n, L) ==
    /\ L < 128 /\ Len(d) = M
    /\ d[2] = (IF n = 0 THEN L ELSE 128 + n) \/ M < 2
    /\ n # 0 /\ M >= n + 2 => (\A k \in 3 .. n + 1 : d[k] = 0) /\ d[n + 2] = L
WholeOrBroken(d, M, n, L) ==
    IF M >= n + 2 + L
    THEN [ok |-> TRUE, rest |-> SubSeq(d, n + L + 3, M),
          items |-> <<[tag |-> d[1], value |-> SubSeq(d, n + 3, n + 2 + L)]>>]
    ELSE Broken

\* What is read of a datagram depends on how much of it is there.
LEMMA ItemOfHeader ==
    ASSUME NEW d, NEW M \in Nat, NEW n \in 0 .. 4, NEW L \in Nat, HasHeader(d, M, n, L)
    PROVE  Item(Reader(d)) = WholeOrBroken(d, M, n, L)
<1> DEFINE r == Reader(d)
<1> SUFFICES Item(r) = IF M >= n + 2 + L
                       THEN [ok |-> TRUE, rest |-> SubSeq(d, n + L + 3, M),
                             items |-> Append(r.items, [tag |-> d[1], value |-> SubSeq(d, n + 3, n + 2 + L)])]
                       ELSE Broken
  BY DEF Reader, WholeOrBroken
<1>0. /\ r.ok = TRUE /\ r.rest = d /\ L < 128 /\ Len(d) = M
      /\ d[2] = (IF n = 0 THEN L ELSE 128 + n) \/ M < 2
      /\ n # 0 /\ M >= n + 2 => (\A k \in 3 .. n + 1 : d[k] = 0) /\ d[n + 2] = L
  BY DEF HasHeader, Reader
<1> USE <1>0
<1> HIDE DEF r
<1>1. CASE M < 2
  <2>1. ~(M >= n + 2 + L) /\ ~(Len(d) >= 2)
    BY <1>1
  <2> QED
    BY <2>1 DEF Item
<1>2. CASE M >= 2 /\ n = 0
  <2>1. d[2] = L /\ d[2] < 128
    BY <1>2
  <2>2. (2 + 0) + L + 1 = 0 + L + 3 /\ (2 + 0) + 1 = 0 + 3 /\ (2 + 0) + L = 0 + 2 + L
    OBVIOUS
  <2>3. CASE M >= 0 + 2 + L
    <3>1. Item(r) = [ok |-> TRUE, rest |-> SubSeq(d, (2 + 0) + L + 1, Len(d)),
                     items |-> Append(r.items, [tag |-> d[1], value |-> SubSeq(d, (2 + 0) + 1, (2 + 0) + L)])]
      BY <1>2, <2>1, <2>3 DEF Item
    <3> QED
      BY <1>2, <2>2, <2>3, <3>1
  <2>4. CASE ~(M >= 0 + 2 + L)
    <3>1. ~((2 + 0) + L <= Len(d))
      BY <2>4
    <3>2. Item(r) = Broken
      BY <2>1, <3>1 DEF Item
    <3> QED
      BY <1>2, <2>4, <3>2
  <2> QED
    BY <2>3, <2>4
<1>3. CASE M >= 2 /\ n # 0
  <2>1. d[2] = 128 + n /\ ~(128 + n < 128) /\ (128 + n) - 128 = n /\ n \in 1 .. 4
    BY <1>3
  <2>2. CASE M < n + 2
    <3>1. ~(2 + n <= Len(d)) /\ ~(M >= n + 2 + L)
      BY <2>2
    <3>2. Item(r) = Broken
      BY <2>1, <3>1 DEF Item
    <3> QED
      BY <3>1, <3>2
  <2>3. CASE M >= n + 2
    <3>1. (\A k \in 3 .. n + 1 : d[k] = 0) /\ d[n + 2] = L
      BY <1>3, <2>3
    <3>2. PICK s : s = SubSeq(d, 3, 2 + n)
      OBVIOUS
    <3>3. \A i \in 3 .. 2 + n : d[i] \in Nat
      <4>1. \A i \in 3 .. 2 + n : i = n + 2 \/ i \in 3 .. n + 1
        OBVIOUS
      <4> QED
        BY <3>1, <4>1
    <3>4. /\ s \in Seq(Nat) /\ Len(s) = (IF 3 <= 2 + n THEN (2 + n) - 3 + 1 ELSE 0)
          /\ \A i \in 1 .. (2 + n) - 3 + 1 : s[i] = d[3 + i - 1]
      BY <3>2, <3>3, SubSeqProperties
    <3>5. (IF 3 <= 2 + n THEN (2 + n) - 3 + 1 ELSE 0) = n /\ (2 + n) - 3 + 1 = n
      BY <1>3
    <3>6. Len(s) = n /\ \A i \in 1 .. n : s[i] = d[3 + i - 1]
      BY <3>4, <3>5
    <3>7. n \in 1 .. n /\ 3 + n - 1 = n + 2 /\ \A i \in 1 .. n - 1 : i \in 1 .. n /\ 3 + i - 1 \in 3 .. n + 1
      BY <1>3
    <3>8. s[n] = L /\ \A i \in 1 .. n - 1 : s[i] = 0
      BY <3>1, <3>6, <3>7
    <3>9. BigEndian(s) = L
      BY <1>3, <3>6, <3>8, BigEndianOfPadded
    <3>10. /\ (2 + n) + L + 1 = n + L + 3 /\ (2 + n) + 1 = n + 3 /\ (2 + n) + L = n + 2 + L
           /\ 2 + n <= M
      BY <2>3
    <3>11. CASE M >= n + 2 + L
      <4>1. (2 + n) + L <= Len(d) /\ Len(d) >= 2 /\ 2 + n <= Len(d)
        BY <1>3, <3>10, <3>11
      <4>2. Item(r) = [ok |-> TRUE, rest |-> SubSeq(d, (2 + n) + L + 1, Len(d)),
                       items |-> Append(r.items, [tag |-> d[1], value |-> SubSeq(d, (2 + n) + 1, (2 + n) + L)])]
        BY <2>1, <3>2, <3>9, <4>1 DEF Item
      <4> QED
        BY <3>10, <3>11, <4>2
    <3>12. CASE ~(M >= n + 2 + L)
      <4>1. ~((2 + n) + L <= M)
        BY <3>12
      <4>2. Item(r) = Broken
        BY <2>1, <3>2, <3>9, <4>1 DEF Item
      <4> QED
        BY <3>12, <4>2
    <3> QED
      BY <3>11, <3>12
  <2> QED
    BY <2>2, <2>3
<1> QED
  BY <1>1, <1>2, <1>3

\* Reading n items is reading one, n times.
LEMMA ItemsUnfolded ==
    ASSUME NEW data
    PROVE  /\ Items(1, data) = Item(Reader(data))
           /\ Items(2, data) = Item(Item(Reader(data)))
           /\ Items(3, data) = Item(Item(Item(Reader(data))))
           /\ Items(4, data) = Item(Item(Item(Item(Reader(data)))))
           /\ Items(6, data) = Item(Item(Item(Item(Item(Item(Reader(data)))))))
<1>1. ASSUME NEW n \in Nat
      PROVE  \E f : /\ Items(n, data) = f[n] /\ f[0] = Reader(data)
                    /\ \A k \in 1 .. n : f[k] = Item(f[k - 1])
  <2> DEFINE Loop(f) == f = [k \in 0 .. n |-> IF k = 0 THEN Reader(data) ELSE Item(f[k - 1])]
             read == CHOOSE f : Loop(f)
  <2>1. Items(n, data) = read[n]
    BY DEF Items
  <2>2. \E f : Loop(f)
    BY ItemsExist
  <2>3. Loop(read)
    <3> HIDE DEF Loop
    <3> QED
      BY <2>2
  <2> HIDE DEF read
  <2>4. read[0] = Reader(data) /\ \A k \in 1 .. n : read[k] = Item(read[k - 1])
    BY <2>3
  <2> HIDE DEF Loop
  <2> QED
    BY <2>1, <2>4
<1>2. PICK f : Items(1, data) = f[1] /\ f[0] = Reader(data) /\ \A k \in 1 .. 1 : f[k] = Item(f[k - 1])
  BY <1>1
<1>3. PICK g : Items(2, data) = g[2] /\ g[0] = Reader(data) /\ \A k \in 1 .. 2 : g[k] = Item(g[k - 1])
  BY <1>1
<1>4. PICK h : Items(3, data) = h[3] /\ h[0] = Reader(data) /\ \A k \in 1 .. 3 : h[k] = Item(h[k - 1])
  BY <1>1
<1>5. PICK i : Items(4, data) = i[4] /\ i[0] = Reader(data) /\ \A k \in 1 .. 4 : i[k] = Item(i[k - 1])
  BY <1>1
<1>6. PICK j : Items(6, data) = j[6] /\ j[0] = Reader(data) /\ \A k \in 1 .. 6 : j[k] = Item(j[k - 1])
  BY <1>1
<1>7. f[1] = Item(f[0]) /\ g[1] = Item(g[0]) /\ g[2] = Item(g[1])
  BY <1>2, <1>3
<1>8. h[1] = Item(h[0]) /\ h[2] = Item(h[1]) /\ h[3] = Item(h[2])
  BY <1>4
<1>9. i[1] = Item(i[0]) /\ i[2] = Item(i[1]) /\ i[3] = Item(i[2]) /\ i[4] = Item(i[3])
  BY <1>5
<1>10. j[1] = Item(j[0]) /\ j[2] = Item(j[1]) /\ j[3] = Item(j[2])
  BY <1>6
<1>11. j[4] = Item(j[3]) /\ j[5] = Item(j[4]) /\ j[6] = Item(j[5])
  BY <1>6
<1> QED
  BY <1>2, <1>3, <1>4, <1>5, <1>6, <1>7, <1>8, <1>9, <1>10, <1>11

\* A message that arrived whole is one item.
LEMMA MessageIsOneItem ==
    ASSUME NEW tag \in Nat, NEW body \in Seq(Nat), NEW n \in 0 .. 4, Len(body) < 128
    PROVE  Items(1, LongForm(Tlv(tag, body), n))
             = [ok |-> TRUE, rest |-> <<>>, items |-> <<[tag |-> tag, value |-> body]>>]
<1>1. PICK L \in Nat : L = Len(body)
  BY LenProperties
<1>2. PICK w : w = LongForm(Tlv(tag, body), n)
  OBVIOUS
<1>3. L < 128
  BY <1>1
<1>4. IsMessage(w, tag, body, n, L)
  BY <1>1, <1>2, LongFormFacts
<1>5. PICK M \in Nat : M = n + 2 + L
  OBVIOUS
<1>6. HasHeader(w, M, n, L) /\ w[1] = tag /\ SubSeq(w, n + 3, n + 2 + L) = body
  BY <1>3, <1>4, <1>5 DEF IsMessage, HasHeader
<1>7. Item(Reader(w)) = WholeOrBroken(w, M, n, L)
  BY <1>6, ItemOfHeader
<1>8. M >= n + 2 + L /\ M < n + L + 3 /\ M \in Int /\ n + L + 3 \in Int
  BY <1>5
<1>9. SubSeq(w, n + L + 3, M) = <<>>
  BY <1>8, SubSeqEmpty
<1>10. Items(1, w) = Item(Reader(w))
  BY ItemsUnfolded
<1> QED
  BY <1>2, <1>6, <1>7, <1>8, <1>9, <1>10 DEF WholeOrBroken

\* The part of a message that is cut off is missed.
LEMMA PartIsNoItem ==
    ASSUME NEW tag \in Nat, NEW body \in Seq(Nat), NEW n \in 0 .. 4, Len(body) < 128,
           NEW w, w = LongForm(Tlv(tag, body), n), NEW m \in 1 .. Len(w) - 1
    PROVE  Items(1, SubSeq(w, 1, m)) = Broken
<1>1. PICK L \in Nat : L = Len(body)
  BY LenProperties
<1>2. L < 128
  BY <1>1
<1>3. /\ w \in Seq(Nat) /\ Len(w) = n + 2 + L
      /\ w[2] = (IF n = 0 THEN L ELSE 128 + n) /\ w[n + 2] = L
      /\ \A k \in 3 .. n + 1 : w[k] = 0
  <2>1. IsMessage(w, tag, body, n, L)
    BY <1>1, LongFormFacts
  <2> QED
    BY <2>1 DEF IsMessage
<1>4. PICK M \in Nat : M = m /\ 1 <= M /\ M < n + 2 + L
  BY <1>3
<1>5. PICK d : d = SubSeq(w, 1, m)
  OBVIOUS
<1>6. Len(d) = M /\ \A i \in 1 .. M : d[i] = w[i]
  <2>1. \A i \in 1 .. M : i \in 1 .. n + 2 + L
    BY <1>4
  <2>2. \A i \in 1 .. M : w[i] \in Nat
    BY <1>3, <2>1, ElementOfSeq
  <2>3. 1 \in Int /\ M \in Int
    OBVIOUS
  <2>4. /\ Len(d) = (IF 1 <= M THEN M - 1 + 1 ELSE 0)
        /\ \A i \in 1 .. M - 1 + 1 : d[i] = w[1 + i - 1]
    BY <1>4, <1>5, <2>2, <2>3, SubSeqProperties
  <2>5. (IF 1 <= M THEN M - 1 + 1 ELSE 0) = M /\ M - 1 + 1 = M /\ \A i \in 1 .. M : 1 + i - 1 = i
    BY <1>4
  <2> QED
    BY <2>4, <2>5
<1>9. d[2] = (IF n = 0 THEN L ELSE 128 + n) \/ M < 2
  <2>1. M >= 2 => 2 \in 1 .. M
    OBVIOUS
  <2> QED
    BY <1>3, <1>6, <2>1
<1>10. n # 0 /\ M >= n + 2 => (\A k \in 3 .. n + 1 : d[k] = 0) /\ d[n + 2] = L
  <2> SUFFICES ASSUME M >= n + 2 PROVE (\A k \in 3 .. n + 1 : d[k] = 0) /\ d[n + 2] = L
    OBVIOUS
  <2>1. n + 2 \in 1 .. M /\ \A k \in 3 .. n + 1 : k \in 1 .. M
    OBVIOUS
  <2> QED
    BY <1>3, <1>6, <2>1
<1>11. Item(Reader(d)) = WholeOrBroken(d, M, n, L)
  <2>1. HasHeader(d, M, n, L)
    BY <1>2, <1>6, <1>9, <1>10 DEF HasHeader
  <2> QED
    BY <2>1, ItemOfHeader
<1>12. ~(M >= n + 2 + L)
  BY <1>4
<1>13. Items(1, d) = Item(Reader(d))
  BY ItemsUnfolded
<1> QED
  BY <1>5, <1>11, <1>12, <1>13 DEF WholeOrBroken

\* What follows a message is left.
LEMMA MoreIsLeft ==
    ASSUME NEW tag \in Nat, NEW body \in Seq(Nat), NEW n \in 0 .. 4, Len(body) < 128,
           NEW w, w = LongForm(Tlv(tag, body), n), NEW b \in Nat
    PROVE  Items(1, Append(w, b)).rest # <<>>
<1>1. PICK L \in Nat : L = Len(body)
  BY LenProperties
<1>2. L < 128
  BY <1>1
<1>3. /\ w \in Seq(Nat) /\ Len(w) = n + 2 + L
      /\ w[2] = (IF n = 0 THEN L ELSE 128 + n) /\ w[n + 2] = L
      /\ \A k \in 3 .. n + 1 : w[k] = 0
  <2>1. IsMessage(w, tag, body, n, L)
    BY <1>1, LongFormFacts
  <2> QED
    BY <2>1 DEF IsMessage
<1>4. PICK M \in Nat : M = n + L + 3
  OBVIOUS
<1>5. PICK d : d = Append(w, b)
  OBVIOUS
<1>6. d \in Seq(Nat) /\ Len(d) = M /\ \A i \in 1 .. n + 2 + L : d[i] = w[i]
  <2>1. w \in Seq(Nat)
    BY <1>3
  <2>2. d \in Seq(Nat) /\ Len(d) = Len(w) + 1 /\ \A i \in 1 .. Len(w) : d[i] = w[i]
    BY <1>5, <2>1, AppendProperties
  <2>3. n + 2 + L + 1 = M
    BY <1>4
  <2> QED
    BY <1>3, <2>2, <2>3
<1>9. d[2] = (IF n = 0 THEN L ELSE 128 + n) /\ d[n + 2] = L /\ \A k \in 3 .. n + 1 : d[k] = 0
  <2>1. 2 \in 1 .. n + 2 + L /\ n + 2 \in 1 .. n + 2 + L /\ \A k \in 3 .. n + 1 : k \in 1 .. n + 2 + L
    OBVIOUS
  <2> QED
    BY <1>3, <1>6, <2>1
<1>10. Item(Reader(d)) = WholeOrBroken(d, M, n, L)
  <2>1. HasHeader(d, M, n, L)
    BY <1>2, <1>6, <1>9 DEF HasHeader
  <2> QED
    BY <2>1, ItemOfHeader
<1>11. M >= n + 2 + L
  BY <1>4
<1>12. Item(Reader(d)).rest = SubSeq(d, M, M)
  BY <1>4, <1>10, <1>11 DEF WholeOrBroken
<1>13. SubSeq(d, M, M) # <<>>
  <2>1. M \in 1 .. M /\ M \in Int
    BY <1>4
  <2>2. d[M] \in Nat
    BY <1>6, <2>1, ElementOfSeq
  <2>3. \A i \in M .. M : d[i] \in Nat
    BY <2>2
  <2>4. PICK s : s = SubSeq(d, M, M)
    OBVIOUS
  <2>5. Len(s) = (IF M <= M THEN M - M + 1 ELSE 0)
    BY <2>1, <2>3, <2>4, SubSeqProperties
  <2>6. Len(s) = 1
    BY <2>5
  <2>7. Len(<<>>) = 0 /\ 0 # 1
    OBVIOUS
  <2> QED
    BY <2>4, <2>6, <2>7, Zenon
<1>14. Items(1, d) = Item(Reader(d))
  BY ItemsUnfolded
<1> QED
  BY <1>5, <1>12, <1>13, <1>14

\* parse_trap takes nothing but one whole message.
LEMMA DamagedIsInvalid ==
    ASSUME NEW datagram, Items(1, datagram).ok # TRUE \/ Items(1, datagram).rest # <<>>
    PROVE  ParseTrap(datagram) = Invalid
BY DEF ParseTrap, NothingFollows

-----------------------------------------------------------------------------
(* Items one behind the other.                                              *)

\* t is s with e behind its n elements.
OneMore(t, s, e, n, S) ==
    /\ s \in Seq(S) /\ Len(s) = n /\ t \in Seq(S) /\ Len(t) = n + 1
    /\ \A i \in 1 .. n : t[i] = s[i]
    /\ e \in S /\ t[n + 1] = e

\* Appending to a sequence, by its elements.
LEMMA AppendedIs ==
    ASSUME NEW S, NEW n \in Nat, NEW s, NEW e, NEW t, OneMore(t, s, e, n, S)
    PROVE  Append(s, e) = t
<1>1. PICK a : a = Append(s, e)
  OBVIOUS
<1>2. /\ s \in Seq(S) /\ Len(s) = n /\ t \in Seq(S) /\ Len(t) = n + 1
      /\ \A i \in 1 .. n : t[i] = s[i]
      /\ e \in S /\ t[n + 1] = e
  BY DEF OneMore
<1>3. a \in Seq(S) /\ Len(a) = Len(s) + 1 /\ (\A i \in 1 .. Len(s) : a[i] = s[i]) /\ a[Len(s) + 1] = e
  <2>1. s \in Seq(S) /\ e \in S
    BY <1>2
  <2> QED
    BY <1>1, <2>1, AppendProperties
<1>4. a \in Seq(S) /\ Len(a) = n + 1 /\ (\A i \in 1 .. n : a[i] = s[i]) /\ a[n + 1] = e
  BY <1>2, <1>3
<1>5. \A i \in 1 .. n + 1 : i \in 1 .. n \/ i = n + 1
  OBVIOUS
<1>6. \A i \in 1 .. n + 1 : a[i] = t[i]
  BY <1>2, <1>4, <1>5
<1>7. a = t
  BY <1>2, <1>4, <1>6, SeqEqual
<1> QED
  BY <1>1, <1>7

\* Appending to tuples.
LEMMA Tuples ==
    /\ \A p : Append(<<>>, p) = <<p>>
    /\ \A p, q : Append(<<p>>, q) = <<p, q>>
    /\ \A p, q, r : Append(<<p, q>>, r) = <<p, q, r>>
    /\ \A p, q, r, s : Append(<<p, q, r>>, s) = <<p, q, r, s>>
    /\ \A p, q, r, s, t : Append(<<p, q, r, s>>, t) = <<p, q, r, s, t>>
    /\ \A p, q, r, s, t, u : Append(<<p, q, r, s, t>>, u) = <<p, q, r, s, t, u>>
<1>1. ASSUME NEW p PROVE Append(<<>>, p) = <<p>>
  OBVIOUS
<1>2. ASSUME NEW p, NEW q PROVE Append(<<p>>, q) = <<p, q>>
  <2>1. PICK x : x = <<p>>
    OBVIOUS
  <2>2. PICK y : y = <<p, q>>
    OBVIOUS
  <2>3. OneMore(y, x, q, 1, {p, q})
    BY <2>1, <2>2 DEF OneMore
  <2>4. Append(x, q) = y
    BY <2>3, AppendedIs
  <2> QED
    BY <2>1, <2>2, <2>4
<1>3. ASSUME NEW p, NEW q, NEW r PROVE Append(<<p, q>>, r) = <<p, q, r>>
  <2>1. PICK x : x = <<p, q>>
    OBVIOUS
  <2>2. PICK y : y = <<p, q, r>>
    OBVIOUS
  <2>3. OneMore(y, x, r, 2, {p, q, r})
    BY <2>1, <2>2 DEF OneMore
  <2>4. Append(x, r) = y
    BY <2>3, AppendedIs
  <2> QED
    BY <2>1, <2>2, <2>4
<1>4. ASSUME NEW p, NEW q, NEW r, NEW s PROVE Append(<<p, q, r>>, s) = <<p, q, r, s>>
  <2>1. PICK x : x = <<p, q, r>>
    OBVIOUS
  <2>2. PICK y : y = <<p, q, r, s>>
    OBVIOUS
  <2>3. OneMore(y, x, s, 3, {p, q, r, s})
    BY <2>1, <2>2 DEF OneMore
  <2>4. Append(x, s) = y
    BY <2>3, AppendedIs
  <2> QED
    BY <2>1, <2>2, <2>4
<1>5. ASSUME NEW p, NEW q, NEW r, NEW s, NEW t PROVE Append(<<p, q, r, s>>, t) = <<p, q, r, s, t>>
  <2>1. PICK x : x = <<p, q, r, s>>
    OBVIOUS
  <2>2. PICK y : y = <<p, q, r, s, t>>
    OBVIOUS
  <2>3. OneMore(y, x, t, 4, {p, q, r, s, t})
    BY <2>1, <2>2 DEF OneMore
  <2>4. Append(x, t) = y
    BY <2>3, AppendedIs
  <2> QED
    BY <2>1, <2>2, <2>4
<1>6. ASSUME NEW p, NEW q, NEW r, NEW s, NEW t, NEW u PROVE Append(<<p, q, r, s, t>>, u) = <<p, q, r, s, t, u>>
  <2>1. PICK x : x = <<p, q, r, s, t>>
    OBVIOUS
  <2>2. PICK y : y = <<p, q, r, s, t, u>>
    OBVIOUS
  <2>3. OneMore(y, x, u, 5, {p, q, r, s, t, u})
    BY <2>1, <2>2 DEF OneMore
  <2>4. Append(x, u) = y
    BY <2>3, AppendedIs
  <2> QED
    BY <2>1, <2>2, <2>4
<1> QED
  BY <1>1, <1>2, <1>3, <1>4, <1>5, <1>6

\* A sequence that fits the short form of a length, an item whose value does.
Short(s) == s \in Seq(Nat) /\ Len(s) < 128
IsTlv(tag, value) == tag \in Nat /\ Short(value)
\* A reader with items read and bytes left; one item.
Left(items, rest) == [ok |-> TRUE, items |-> items, rest |-> rest]
Part(tag, value) == [tag |-> tag, value |-> value]

\* Of a short sequence both parts are short.
LEMMA ShortParts ==
    ASSUME NEW s \in Seq(Nat), NEW t \in Seq(Nat), Short(s \o t)
    PROVE  Short(s) /\ Short(t)
<1>1. PICK m \in Nat : m = Len(s)
  BY LenProperties
<1>2. PICK n \in Nat : n = Len(t)
  BY LenProperties
<1>3. m + n < 128
  <2>1. Len(s \o t) = Len(s) + Len(t)
    BY ConcatProperties
  <2> QED
    BY <1>1, <1>2, <2>1 DEF Short
<1>4. m < 128 /\ n < 128
  BY <1>3
<1> QED
  BY <1>1, <1>2, <1>4 DEF Short

\* An item that is short has a short value.
LEMMA ShortValue ==
    ASSUME NEW tag \in Nat, NEW value \in Seq(Nat), Short(Tlv(tag, value))
    PROVE  IsTlv(tag, value)
<1>1. PICK n \in Nat : n = Len(value)
  BY LenProperties
<1>2. Len(Tlv(tag, value)) = n + 2
  BY <1>1, TlvFacts
<1>3. n + 2 < 128
  BY <1>2 DEF Short
<1>4. n < 128
  BY <1>3
<1> QED
  BY <1>1, <1>4 DEF IsTlv, Short

\* An item is a sequence of numbers, and not empty.
LEMMA TlvIsSeq ==
    ASSUME NEW tag, NEW value, IsTlv(tag, value)
    PROVE  Tlv(tag, value) \in Seq(Nat) /\ Tlv(tag, value) # <<>>
<1>1. tag \in Nat /\ value \in Seq(Nat)
  BY DEF IsTlv, Short
<1>2. PICK n \in Nat : n = Len(value)
  BY <1>1, LenProperties
<1>3. PICK t : t = Tlv(tag, value)
  OBVIOUS
<1>4. t \in Seq(Nat) /\ Len(t) = n + 2
  BY <1>1, <1>2, <1>3, TlvFacts
<1>5. Len(<<>>) = 0 /\ 0 # n + 2
  OBVIOUS
<1>6. t # <<>>
  BY <1>4, <1>5, Zenon
<1> QED
  BY <1>3, <1>4, <1>6

\* An item in front of others is taken,
LEMMA TakeTlv ==
    ASSUME NEW items, NEW tag, NEW value, IsTlv(tag, value), NEW more \in Seq(Nat)
    PROVE  Item(Left(items, Tlv(tag, value) \o more)) = Left(Append(items, Part(tag, value)), more)
<1>1. tag \in Nat /\ value \in Seq(Nat) /\ Len(value) < 128
  BY DEF IsTlv, Short
<1>2. PICK r : r = Left(items, Tlv(tag, value) \o more)
  OBVIOUS
<1>3. r.ok = TRUE /\ r.rest = Tlv(tag, value) \o more /\ r.items = items
  BY <1>2 DEF Left
<1>4. Item(r) = Took(r, tag, value, more)
  BY <1>1, <1>3, ItemOfTlv
<1> QED
  BY <1>2, <1>3, <1>4 DEF Took, Left, Part

\* and so is the last one.
LEMMA TakeLast ==
    ASSUME NEW items, NEW tag, NEW value, IsTlv(tag, value)
    PROVE  Item(Left(items, Tlv(tag, value))) = Left(Append(items, Part(tag, value)), <<>>)
<1>1. PICK nil \in Seq(Nat) : nil = <<>>
  BY EmptySeq
<1>2. Tlv(tag, value) \o nil = Tlv(tag, value)
  BY <1>1, TlvIsSeq, ConcatEmptySeq
<1>3. Item(Left(items, Tlv(tag, value) \o nil)) = Left(Append(items, Part(tag, value)), nil)
  BY TakeTlv
<1> QED
  BY <1>1, <1>2, <1>3

\* A reader that has not begun.
LEMMA ReaderLeft ==
    ASSUME NEW data
    PROVE  Reader(data) = Left(<<>>, data)
BY DEF Reader, Left

\* Two, three, four and six values, one behind the other.
LEMMA Assoc ==
    ASSUME NEW s \in Seq(Nat), NEW t \in Seq(Nat), NEW u \in Seq(Nat)
    PROVE  (s \o t) \o u = s \o (t \o u)
BY ConcatAssociative

\* A list of two values, read by item() or by the loop of _varbinds.
LEMMA TwoItems ==
    ASSUME NEW t1, NEW v1, NEW t2, NEW v2, IsTlv(t1, v1), IsTlv(t2, v2)
    PROVE  /\ Items(2, Tlv(t1, v1) \o Tlv(t2, v2)) = Left(<<Part(t1, v1), Part(t2, v2)>>, <<>>)
           /\ AllItems(Tlv(t1, v1) \o Tlv(t2, v2)) = Left(<<Part(t1, v1), Part(t2, v2)>>, <<>>)
<1>1. PICK a : a = Tlv(t1, v1)
  OBVIOUS
<1>2. PICK b : b = Tlv(t2, v2)
  OBVIOUS
<1>3. a \in Seq(Nat) /\ a # <<>> /\ b \in Seq(Nat) /\ b # <<>>
  BY <1>1, <1>2, TlvIsSeq
<1>4. PICK p : p = Part(t1, v1)
  OBVIOUS
<1>5. PICK q : q = Part(t2, v2)
  OBVIOUS
<1>6. Item(Left(<<>>, a \o b)) = Left(<<p>>, b)
  <2>1. \A nil : Item(Left(nil, a \o b)) = Left(Append(nil, p), b)
    BY <1>1, <1>3, <1>4, TakeTlv
  <2>2. Append(<<>>, p) = <<p>>
    BY Tuples
  <2> QED
    BY <2>1, <2>2
<1>7. Item(Left(<<p>>, b)) = Left(<<p, q>>, <<>>)
  <2>1. Item(Left(<<p>>, b)) = Left(Append(<<p>>, q), <<>>)
    BY <1>2, <1>5, TakeLast
  <2>2. Append(<<p>>, q) = <<p, q>>
    BY Tuples
  <2> QED
    BY <2>1, <2>2
<1>8. Items(2, a \o b) = Left(<<p, q>>, <<>>)
  BY <1>6, <1>7, ReaderLeft, ItemsUnfolded
<1>9. AllItems(a \o b) = Left(<<p, q>>, <<>>)
  <2>1. PICK d : d = a \o b
    OBVIOUS
  <2>2. d \in Seq(Nat) /\ d # <<>>
    BY <1>3, <2>1, ConcatProperties, ConcatEqualIffEmpty
  <2>3. PICK N \in Nat : N = Len(d)
    BY <2>2, LenProperties
  <2>4. N >= 2
    <3>1. PICK m \in Nat : m = Len(a) /\ m # 0
      BY <1>3, LenProperties, EmptySeq
    <3>2. PICK n \in Nat : n = Len(b) /\ n # 0
      BY <1>3, LenProperties, EmptySeq
    <3>3. N = m + n
      <4>1. Len(d) = Len(a) + Len(b)
        BY <1>3, <2>1, ConcatProperties
      <4> QED
        BY <2>3, <3>1, <3>2, <4>1
    <3> QED
      BY <3>1, <3>2, <3>3
  <2>5. PICK f : /\ f[0] = Reader(d) /\ \A k \in 1 .. N : f[k] = NextItem(f[k - 1])
                 /\ \A k \in 0 .. N : f[k].rest = <<>> => AllItems(d) = f[k]
    BY <2>3, AllItemsFacts
  <2>6. 1 \in 1 .. N /\ 2 \in 1 .. N /\ 2 \in 0 .. N /\ 1 - 1 = 0 /\ 2 - 1 = 1
    BY <2>4
  <2>7. f[0] = Left(<<>>, d)
    BY <2>5, ReaderLeft
  <2>8. f[1] = Left(<<p>>, b)
    <3>1. f[1] = NextItem(f[0])
      BY <2>5, <2>6
    <3>2. Left(<<>>, d).rest # <<>>
      BY <2>2 DEF Left
    <3>3. NextItem(Left(<<>>, d)) = Item(Left(<<>>, d))
      BY <3>2 DEF NextItem
    <3> QED
      BY <1>6, <2>1, <2>7, <3>1, <3>3
  <2>9. f[2] = Left(<<p, q>>, <<>>)
    <3>1. f[2] = NextItem(f[1])
      BY <2>5, <2>6
    <3>2. Left(<<p>>, b).rest # <<>>
      BY <1>3 DEF Left
    <3>3. NextItem(Left(<<p>>, b)) = Item(Left(<<p>>, b))
      BY <3>2 DEF NextItem
    <3> QED
      BY <1>7, <2>8, <3>1, <3>3
  <2>10. f[2].rest = <<>>
    BY <2>9 DEF Left
  <2> QED
    BY <2>1, <2>5, <2>6, <2>9, <2>10
<1> QED
  BY <1>1, <1>2, <1>4, <1>5, <1>8, <1>9

\* A list of one value.
LEMMA OneItem ==
    ASSUME NEW t, NEW v, IsTlv(t, v)
    PROVE  AllItems(Tlv(t, v)) = Left(<<Part(t, v)>>, <<>>)
<1>1. PICK d : d = Tlv(t, v)
  OBVIOUS
<1>2. d \in Seq(Nat) /\ d # <<>>
  BY <1>1, TlvIsSeq
<1>3. PICK N \in Nat : N = Len(d) /\ N # 0
  BY <1>2, LenProperties, EmptySeq
<1>4. PICK f : /\ f[0] = Reader(d) /\ \A k \in 1 .. N : f[k] = NextItem(f[k - 1])
               /\ \A k \in 0 .. N : f[k].rest = <<>> => AllItems(d) = f[k]
  BY <1>3, AllItemsFacts
<1>5. 1 \in 1 .. N /\ 1 \in 0 .. N /\ 1 - 1 = 0
  BY <1>3
<1>6. f[0] = Left(<<>>, d)
  BY <1>4, ReaderLeft
<1>7. f[1] = NextItem(f[0])
  BY <1>4, <1>5
<1>8. NextItem(Left(<<>>, d)) = Item(Left(<<>>, d))
  BY <1>2 DEF NextItem, Left
<1>9. f[1] = Left(<<Part(t, v)>>, <<>>)
  <2>1. Item(Left(<<>>, d)) = Left(Append(<<>>, Part(t, v)), <<>>)
    BY <1>1, TakeLast
  <2>2. PICK p : p = Part(t, v)
    OBVIOUS
  <2>3. Append(<<>>, p) = <<p>>
    OBVIOUS
  <2> QED
    BY <1>6, <1>7, <1>8, <2>1, <2>2, <2>3
<1>10. f[1].rest = <<>>
  BY <1>9 DEF Left
<1> QED
  BY <1>1, <1>4, <1>5, <1>9, <1>10

\* The three values of a message.
LEMMA ThreeItems ==
    ASSUME NEW t1, NEW v1, NEW t2, NEW v2, NEW t3, NEW v3, IsTlv(t1, v1), IsTlv(t2, v2), IsTlv(t3, v3)
    PROVE  Items(3, Tlv(t1, v1) \o Tlv(t2, v2) \o Tlv(t3, v3))
             = Left(<<Part(t1, v1), Part(t2, v2), Part(t3, v3)>>, <<>>)
<1>1. PICK a, b, c : a = Tlv(t1, v1) /\ b = Tlv(t2, v2) /\ c = Tlv(t3, v3)
  OBVIOUS
<1>2. PICK p, q, r : p = Part(t1, v1) /\ q = Part(t2, v2) /\ r = Part(t3, v3)
  OBVIOUS
<1>3. a \in Seq(Nat) /\ b \in Seq(Nat) /\ c \in Seq(Nat)
  BY <1>1, TlvIsSeq
<1>4. PICK bc \in Seq(Nat) : bc = b \o c
  BY <1>3, ConcatProperties
<1>10. a \o b \o c = a \o bc
  BY <1>3, <1>4, Assoc, Zenon
<1>5. \A nil : Item(Left(nil, a \o bc)) = Left(Append(nil, p), bc)
  BY <1>1, <1>2, TakeTlv
<1>6. Item(Left(<<p>>, bc)) = Left(Append(<<p>>, q), c)
  BY <1>1, <1>2, <1>3, <1>4, TakeTlv
<1>7. Item(Left(<<p, q>>, c)) = Left(Append(<<p, q>>, r), <<>>)
  BY <1>1, <1>2, TakeLast
<1>8. Append(<<>>, p) = <<p>> /\ Append(<<p>>, q) = <<p, q>> /\ Append(<<p, q>>, r) = <<p, q, r>>
  BY Tuples
<1>9. Items(3, a \o b \o c) = Left(<<p, q, r>>, <<>>)
  BY <1>5, <1>6, <1>7, <1>8, <1>10, ReaderLeft, ItemsUnfolded
<1> QED
  BY <1>1, <1>2, <1>9

\* The four values of a PDU of version 2c.
LEMMA FourItems ==
    ASSUME NEW t1, NEW v1, NEW t2, NEW v2, NEW t3, NEW v3, NEW t4, NEW v4,
           IsTlv(t1, v1), IsTlv(t2, v2), IsTlv(t3, v3), IsTlv(t4, v4)
    PROVE  Items(4, Tlv(t1, v1) \o Tlv(t2, v2) \o Tlv(t3, v3) \o Tlv(t4, v4))
             = Left(<<Part(t1, v1), Part(t2, v2), Part(t3, v3), Part(t4, v4)>>, <<>>)
<1>1. PICK a, b, c, d : a = Tlv(t1, v1) /\ b = Tlv(t2, v2) /\ c = Tlv(t3, v3) /\ d = Tlv(t4, v4)
  OBVIOUS
<1>2. PICK p, q, r, s : p = Part(t1, v1) /\ q = Part(t2, v2) /\ r = Part(t3, v3) /\ s = Part(t4, v4)
  OBVIOUS
<1>3. a \in Seq(Nat) /\ b \in Seq(Nat) /\ c \in Seq(Nat) /\ d \in Seq(Nat)
  BY <1>1, TlvIsSeq
<1>4. PICK cd \in Seq(Nat) : cd = c \o d
  BY <1>3, ConcatProperties
<1>5. PICK bd \in Seq(Nat) : bd = b \o cd
  BY <1>3, ConcatProperties
<1>6. PICK ab \in Seq(Nat) : ab = a \o b
  BY <1>3, ConcatProperties
<1>7. a \o b \o c \o d = a \o bd
  <2>1. (ab \o c) \o d = ab \o (c \o d)
    BY <1>3, Assoc, Zenon
  <2>2. (a \o b) \o cd = a \o (b \o cd)
    <3>1. a \in Seq(Nat) /\ b \in Seq(Nat) /\ cd \in Seq(Nat)
      BY <1>3, <1>4
    <3> QED
      BY ONLY <3>1, Assoc
  <2> QED
    BY <1>4, <1>5, <1>6, <2>1, <2>2
<1>8. \A nil : Item(Left(nil, a \o bd)) = Left(Append(nil, p), bd)
  BY <1>1, <1>2, TakeTlv
<1>9. Item(Left(<<p>>, bd)) = Left(Append(<<p>>, q), cd)
  BY <1>1, <1>2, <1>5, TakeTlv
<1>10. Item(Left(<<p, q>>, cd)) = Left(Append(<<p, q>>, r), d)
  BY <1>1, <1>2, <1>3, <1>4, TakeTlv
<1>11. Item(Left(<<p, q, r>>, d)) = Left(Append(<<p, q, r>>, s), <<>>)
  BY <1>1, <1>2, TakeLast
<1>12. /\ Append(<<>>, p) = <<p>> /\ Append(<<p>>, q) = <<p, q>> /\ Append(<<p, q>>, r) = <<p, q, r>>
       /\ Append(<<p, q, r>>, s) = <<p, q, r, s>>
  <2>1. Append(<<>>, p) = <<p>> /\ Append(<<p>>, q) = <<p, q>>
    BY Tuples
  <2>2. Append(<<p, q>>, r) = <<p, q, r>>
    BY Tuples
  <2>3. Append(<<p, q, r>>, s) = <<p, q, r, s>>
    BY Tuples
  <2> QED
    BY <2>1, <2>2, <2>3
<1>13. Items(4, a \o b \o c \o d) = Left(<<p, q, r, s>>, <<>>)
  BY <1>7, <1>8, <1>9, <1>10, <1>11, <1>12, ReaderLeft, ItemsUnfolded
<1> QED
  BY <1>1, <1>2, <1>13

\* The six values of a PDU of version 1.
LEMMA SixItems ==
    ASSUME NEW t1, NEW v1, NEW t2, NEW v2, NEW t3, NEW v3, NEW t4, NEW v4, NEW t5, NEW v5, NEW t6, NEW v6,
           IsTlv(t1, v1), IsTlv(t2, v2), IsTlv(t3, v3), IsTlv(t4, v4), IsTlv(t5, v5), IsTlv(t6, v6)
    PROVE  Items(6, Tlv(t1, v1) \o Tlv(t2, v2) \o Tlv(t3, v3) \o Tlv(t4, v4) \o Tlv(t5, v5) \o Tlv(t6, v6))
             = Left(<<Part(t1, v1), Part(t2, v2), Part(t3, v3), Part(t4, v4), Part(t5, v5), Part(t6, v6)>>, <<>>)
<1>1. PICK a, b, c : a = Tlv(t1, v1) /\ b = Tlv(t2, v2) /\ c = Tlv(t3, v3)
  OBVIOUS
<1>2. PICK d, e, f : d = Tlv(t4, v4) /\ e = Tlv(t5, v5) /\ f = Tlv(t6, v6)
  OBVIOUS
<1>3. PICK p, q, r : p = Part(t1, v1) /\ q = Part(t2, v2) /\ r = Part(t3, v3)
  OBVIOUS
<1>4. PICK s, t, u : s = Part(t4, v4) /\ t = Part(t5, v5) /\ u = Part(t6, v6)
  OBVIOUS
<1>5. a \in Seq(Nat) /\ b \in Seq(Nat) /\ c \in Seq(Nat)
  BY <1>1, TlvIsSeq
<1>6. d \in Seq(Nat) /\ e \in Seq(Nat) /\ f \in Seq(Nat)
  BY <1>2, TlvIsSeq
<1>7. PICK ef \in Seq(Nat) : ef = e \o f
  BY <1>6, ConcatProperties
<1>8. PICK df \in Seq(Nat) : df = d \o ef
  BY <1>6, ConcatProperties
<1>9. PICK cf \in Seq(Nat) : cf = c \o df
  BY <1>5, ConcatProperties
<1>10. PICK bf \in Seq(Nat) : bf = b \o cf
  BY <1>5, ConcatProperties
<1>11. PICK ab \in Seq(Nat) : ab = a \o b
  BY <1>5, ConcatProperties
<1>12. PICK ac \in Seq(Nat) : ac = ab \o c
  BY <1>5, ConcatProperties
<1>13. PICK ad \in Seq(Nat) : ad = ac \o d
  BY <1>6, ConcatProperties
<1>14. a \o b \o c \o d \o e \o f = a \o bf
  <2>0. /\ ef \in Seq(Nat) /\ df \in Seq(Nat) /\ cf \in Seq(Nat)
        /\ ab \in Seq(Nat) /\ ac \in Seq(Nat) /\ ad \in Seq(Nat)
    BY <1>7, <1>8, <1>9, <1>11, <1>12, <1>13
  <2>1. (ad \o e) \o f = ad \o (e \o f)
    <3>1. ad \in Seq(Nat) /\ e \in Seq(Nat) /\ f \in Seq(Nat)
      BY <1>6, <2>0
    <3> QED
      BY ONLY <3>1, Assoc
  <2>2. (ac \o d) \o ef = ac \o (d \o ef)
    <3>1. ac \in Seq(Nat) /\ d \in Seq(Nat) /\ ef \in Seq(Nat)
      BY <1>6, <2>0
    <3> QED
      BY ONLY <3>1, Assoc
  <2>3. (ab \o c) \o df = ab \o (c \o df)
    <3>1. ab \in Seq(Nat) /\ c \in Seq(Nat) /\ df \in Seq(Nat)
      BY <1>5, <2>0
    <3> QED
      BY ONLY <3>1, Assoc
  <2>4. (a \o b) \o cf = a \o (b \o cf)
    <3>1. \A x \in Seq(Nat) : (a \o b) \o x = a \o (b \o x)
      BY <1>5, Assoc
    <3> QED
      BY <2>0, <3>1, Zenon
  <2>5. a \o b \o c \o d \o e \o f = ad \o ef
    BY <1>7, <1>11, <1>12, <1>13, <2>1
  <2>6. ad \o ef = a \o bf
    BY <1>8, <1>9, <1>10, <1>11, <1>12, <1>13, <2>2, <2>3, <2>4
  <2> QED
    BY <2>5, <2>6
<1>15. \A nil : Item(Left(nil, a \o bf)) = Left(Append(nil, p), bf)
  BY <1>1, <1>3, TakeTlv
<1>16. Item(Left(<<p>>, bf)) = Left(Append(<<p>>, q), cf)
  BY <1>1, <1>3, <1>10, TakeTlv
<1>17. Item(Left(<<p, q>>, cf)) = Left(Append(<<p, q>>, r), df)
  BY <1>1, <1>3, <1>9, TakeTlv
<1>18. Item(Left(<<p, q, r>>, df)) = Left(Append(<<p, q, r>>, s), ef)
  BY <1>2, <1>4, <1>8, TakeTlv
<1>19. Item(Left(<<p, q, r, s>>, ef)) = Left(Append(<<p, q, r, s>>, t), f)
  BY <1>2, <1>4, <1>6, <1>7, TakeTlv
<1>20. Item(Left(<<p, q, r, s, t>>, f)) = Left(Append(<<p, q, r, s, t>>, u), <<>>)
  BY <1>2, <1>4, TakeLast
<1>21. Append(<<>>, p) = <<p>> /\ Append(<<p>>, q) = <<p, q>> /\ Append(<<p, q>>, r) = <<p, q, r>>
  BY Tuples
<1>22. /\ Append(<<p, q, r>>, s) = <<p, q, r, s>> /\ Append(<<p, q, r, s>>, t) = <<p, q, r, s, t>>
       /\ Append(<<p, q, r, s, t>>, u) = <<p, q, r, s, t, u>>
  <2>1. Append(<<p, q, r>>, s) = <<p, q, r, s>>
    BY Tuples
  <2>2. Append(<<p, q, r, s>>, t) = <<p, q, r, s, t>>
    BY Tuples
  <2>3. Append(<<p, q, r, s, t>>, u) = <<p, q, r, s, t, u>>
    BY Tuples
  <2> QED
    BY <2>1, <2>2, <2>3
<1>23. Item(Item(Item(Left(<<>>, a \o bf)))) = Left(<<p, q, r>>, df)
  BY <1>15, <1>16, <1>17, <1>21
<1>24. Item(Item(Item(Left(<<p, q, r>>, df)))) = Left(<<p, q, r, s, t, u>>, <<>>)
  BY <1>18, <1>19, <1>20, <1>22
<1>25. Items(6, a \o bf) = Left(<<p, q, r, s, t, u>>, <<>>)
  BY <1>23, <1>24, ReaderLeft, ItemsUnfolded
<1> QED
  BY <1>1, <1>2, <1>3, <1>4, <1>14, <1>25

-----------------------------------------------------------------------------
(* Variables, and the map _varbinds makes of them (snmp_traps.py:86-99).    *)

\* One variable.
LEMMA PairOfVarbind ==
    ASSUME NEW arcs, IsOid(arcs), IsTlv(Oid, OidBytes(arcs)), NEW t, NEW v, IsTlv(t, v)
    PROVE  Pair(Part(List, Tlv(Oid, OidBytes(arcs)) \o Tlv(t, v)))
             = IF DecodeValue(Part(t, v)) = BadOid THEN BadPair ELSE [name |-> arcs, value |-> DecodeValue(Part(t, v))]
<1>1. PICK body : body = Tlv(Oid, OidBytes(arcs)) \o Tlv(t, v)
  OBVIOUS
<1>2. PICK p : p = Part(Oid, OidBytes(arcs))
  OBVIOUS
<1>3. PICK q : q = Part(t, v)
  OBVIOUS
<1>4. Items(2, body) = Left(<<p, q>>, <<>>)
  BY <1>1, <1>2, <1>3, TwoItems
<1>5. Items(2, body).ok = TRUE /\ Items(2, body).items[1] = p /\ Items(2, body).items[2] = q
  BY <1>4 DEF Left
<1>6. p.tag = Oid /\ p.value = OidBytes(arcs)
  BY <1>2 DEF Part
<1>7. DecodeOid(p.value) = arcs /\ arcs # <<>>
  BY <1>6, OidRoundTrip
<1>8. Part(List, body).tag = List /\ Part(List, body).value = body
  BY DEF Part
<1>9. Pair(Part(List, body)) = IF DecodeValue(q) # BadOid THEN [name |-> arcs, value |-> DecodeValue(q)] ELSE BadPair
  BY <1>5, <1>6, <1>7, <1>8 DEF Pair
<1> QED
  BY <1>1, <1>3, <1>9

\* What decode_value makes of the three kinds of values in a trap of ours.
LEMMA ValueFacts ==
    ASSUME NEW v
    PROVE  /\ DecodeValue(Part(67, v)) = Digits
           /\ DecodeValue(Part(Oid, v)) = [as |-> "oid", value |-> DecodeOid(v)]
           /\ DecodeValue(Part(OctetString, v)) = IF Ascii(v) THEN [as |-> "text", value |-> v] ELSE Digits
BY DEF DecodeValue, Part, Oid, OctetString

\* The map of _varbinds, as a function of the items read.
Pairs(items) == [k \in DOMAIN items |-> Pair(items[k])]
LaterOf(items, name) ==
    CHOOSE k \in DOMAIN Pairs(items) :
        Pairs(items)[k].name = name /\ \A j \in DOMAIN Pairs(items) : j > k => Pairs(items)[j].name # name
NoneBad(items) == \A k \in DOMAIN Pairs(items) : Pairs(items)[k] # BadPair
Names(items) == {Pairs(items)[k].name : k \in DOMAIN Pairs(items)}
MapOf(items) == [name \in Names(items) |-> Pairs(items)[LaterOf(items, name)].value]
IsPair(p, name, value) == Pair(p) = [name |-> name, value |-> value] /\ name # <<>>

\* _varbinds of items that were all read.
LEMMA VarbindsAre ==
    ASSUME NEW data, NEW items, AllItems(data) = Left(items, <<>>)
    PROVE  Varbinds(data).ok = NoneBad(items) /\ Varbinds(data).map = MapOf(items)
<1>1. AllItems(data).ok = TRUE /\ AllItems(data).items = items
  BY DEF Left
<1>2. Varbinds(data).ok = (AllItems(data).ok /\ NoneBad(AllItems(data).items))
  BY DEF Varbinds, NoneBad, Pairs
<1>3. Varbinds(data).map = MapOf(AllItems(data).items)
  BY DEF Varbinds, MapOf, Names, LaterOf, Pairs
<1>4. NoneBad(AllItems(data).items) = NoneBad(items)
  BY <1>1
<1>5. NoneBad(items) \in BOOLEAN
  BY DEF NoneBad
<1>6. (TRUE /\ NoneBad(items)) = NoneBad(items)
  BY <1>5
<1> QED
  BY <1>1, <1>2, <1>3, <1>4, <1>6

\* The pairs of one and of two variables.
LEMMA PairsOf ==
    ASSUME NEW p, NEW q
    PROVE  /\ DOMAIN Pairs(<<p, q>>) = {1, 2}
           /\ Pairs(<<p, q>>)[1] = Pair(p) /\ Pairs(<<p, q>>)[2] = Pair(q)
           /\ DOMAIN Pairs(<<p>>) = {1} /\ Pairs(<<p>>)[1] = Pair(p)
BY DEF Pairs

\* A second variable that raises ends it all.
LEMMA BadVarbind ==
    ASSUME NEW data, NEW p, NEW q, AllItems(data) = Left(<<p, q>>, <<>>), Pair(q) = BadPair
    PROVE  Varbinds(data).ok = FALSE
<1>1. PICK items : items = <<p, q>>
  OBVIOUS
<1>2. DOMAIN Pairs(items) = {1, 2} /\ Pairs(items)[2] = Pair(q)
  BY <1>1, PairsOf
<1>3. NoneBad(items) = FALSE
  BY <1>2 DEF NoneBad
<1> QED
  BY <1>1, <1>3, VarbindsAre

\* Of two variables both are in the map, under their own names.
LEMMA TwoVarbinds ==
    ASSUME NEW data, NEW p, NEW q, AllItems(data) = Left(<<p, q>>, <<>>), NEW m, NEW n, NEW x, NEW y,
           IsPair(p, m, x), IsPair(q, n, y)
    PROVE  /\ Varbinds(data).ok = TRUE
           /\ n \in DOMAIN Varbinds(data).map /\ Varbinds(data).map[n] = y
           /\ \A a \in DOMAIN Varbinds(data).map : Varbinds(data).map[a] \in {x, y}
<1>1. PICK items : items = <<p, q>>
  OBVIOUS
<1>0. PICK pair : pair = Pairs(items)
  OBVIOUS
<1>2. DOMAIN pair = {1, 2} /\ pair[1] = Pair(p) /\ pair[2] = Pair(q)
  BY <1>0, <1>1, PairsOf
<1>3. /\ pair[1].name = m /\ pair[1].value = x /\ m # <<>>
      /\ pair[2].name = n /\ pair[2].value = y /\ n # <<>>
  BY <1>2 DEF IsPair
<1>4. BadPair.name = <<>>
  BY DEF BadPair
<1>5. pair[1] # BadPair /\ pair[2] # BadPair
  BY <1>3, <1>4
<1>6. NoneBad(items) = TRUE
  BY <1>0, <1>2, <1>5 DEF NoneBad
<1>7. LaterOf(items, n) = 2
  <2>1. 2 \in DOMAIN pair /\ pair[2].name = n /\ \A j \in DOMAIN pair : j > 2 => pair[j].name # n
    BY <1>2, <1>3
  <2>2. \A k \in DOMAIN pair : (\A j \in DOMAIN pair : j > k => pair[j].name # n) => k = 2
    BY <1>2, <1>3
  <2> QED
    BY <1>0, <2>1, <2>2 DEF LaterOf
<1>8. LaterOf(items, m) \in {1, 2}
  <2>1. CASE m = n
    BY <1>7, <2>1
  <2>2. CASE m # n
    <3>1. 1 \in DOMAIN pair /\ pair[1].name = m /\ \A j \in DOMAIN pair : j > 1 => pair[j].name # m
      BY <1>2, <1>3, <2>2
    <3>2. LaterOf(items, m) \in DOMAIN pair
      BY <1>0, <3>1 DEF LaterOf
    <3> QED
      BY <1>2, <3>2
  <2> QED
    BY <2>1, <2>2
<1>9. Names(items) = {m, n}
  BY <1>0, <1>2, <1>3 DEF Names
<1>10. DOMAIN MapOf(items) = {m, n}
       /\ \A a \in {m, n} : MapOf(items)[a] = pair[LaterOf(items, a)].value
  BY <1>0, <1>9 DEF MapOf
<1>11. MapOf(items)[n] = y /\ MapOf(items)[m] \in {x, y}
  BY <1>3, <1>7, <1>8, <1>10
<1>12. Varbinds(data).ok = NoneBad(items) /\ Varbinds(data).map = MapOf(items)
  BY <1>1, VarbindsAre
<1> QED
  BY <1>6, <1>10, <1>11, <1>12

\* One variable is in the map, and nothing else.
LEMMA OneVarbind ==
    ASSUME NEW data, NEW p, AllItems(data) = Left(<<p>>, <<>>), NEW m, NEW x, IsPair(p, m, x)
    PROVE  /\ Varbinds(data).ok = TRUE
           /\ DOMAIN Varbinds(data).map = {m} /\ Varbinds(data).map[m] = x
<1>1. PICK items : items = <<p>>
  OBVIOUS
<1>0. PICK pair : pair = Pairs(items)
  OBVIOUS
<1>2. DOMAIN pair = {1} /\ pair[1] = Pair(p)
  BY <1>0, <1>1, PairsOf
<1>3. pair[1].name = m /\ pair[1].value = x /\ m # <<>>
  BY <1>2 DEF IsPair
<1>4. BadPair.name = <<>>
  BY DEF BadPair
<1>5. pair[1] # BadPair
  BY <1>3, <1>4
<1>6. NoneBad(items) = TRUE
  BY <1>0, <1>2, <1>5 DEF NoneBad
<1>7. LaterOf(items, m) = 1
  <2>1. 1 \in DOMAIN pair /\ pair[1].name = m /\ \A j \in DOMAIN pair : j > 1 => pair[j].name # m
    BY <1>2, <1>3
  <2> QED
    BY <1>0, <1>2, <2>1 DEF LaterOf
<1>8. Names(items) = {m}
  BY <1>0, <1>2, <1>3 DEF Names
<1>9. DOMAIN MapOf(items) = {m} /\ MapOf(items)[m] = pair[LaterOf(items, m)].value
  BY <1>0, <1>8 DEF MapOf
<1>10. Varbinds(data).ok = NoneBad(items) /\ Varbinds(data).map = MapOf(items)
  BY <1>1, VarbindsAre
<1> QED
  BY <1>3, <1>6, <1>7, <1>9, <1>10

-----------------------------------------------------------------------------
(* parse_trap of a whole trap (snmp_traps.py:102-140).                      *)

\* A sequence that is short has short values in it.
LEMMA ShortTwo ==
    ASSUME NEW t1 \in Nat, NEW v1 \in Seq(Nat), NEW t2 \in Nat, NEW v2 \in Seq(Nat)
    PROVE  /\ Tlv(t1, v1) \o Tlv(t2, v2) \in Seq(Nat)
           /\ Short(Tlv(t1, v1) \o Tlv(t2, v2)) => IsTlv(t1, v1) /\ IsTlv(t2, v2)
<1>1. PICK a : a = Tlv(t1, v1)
  OBVIOUS
<1>2. PICK b : b = Tlv(t2, v2)
  OBVIOUS
<1>3. a \in Seq(Nat) /\ b \in Seq(Nat)
  BY <1>1, <1>2, TlvFacts
<1>4. a \o b \in Seq(Nat)
  BY <1>3, ConcatProperties
<1>5. Short(a \o b) => Short(a) /\ Short(b)
  BY <1>3, ShortParts
<1>6. Short(a) => IsTlv(t1, v1)
  BY <1>1, ShortValue
<1>7. Short(b) => IsTlv(t2, v2)
  BY <1>2, ShortValue
<1> QED
  BY <1>1, <1>2, <1>4, <1>5, <1>6, <1>7

\* One item more.
LEMMA ShortMore ==
    ASSUME NEW s \in Seq(Nat), NEW t \in Nat, NEW v \in Seq(Nat)
    PROVE  /\ s \o Tlv(t, v) \in Seq(Nat)
           /\ Short(s \o Tlv(t, v)) => Short(s) /\ IsTlv(t, v)
<1>1. PICK a : a = Tlv(t, v)
  OBVIOUS
<1>2. a \in Seq(Nat)
  BY <1>1, TlvFacts
<1>3. s \o a \in Seq(Nat)
  BY <1>2, ConcatProperties
<1>4. Short(s \o a) => Short(s) /\ Short(a)
  BY <1>2, ShortParts
<1>5. Short(a) => IsTlv(t, v)
  BY <1>1, ShortValue
<1> QED
  BY <1>1, <1>3, <1>4, <1>5

\* Three items.
LEMMA ShortThree ==
    ASSUME NEW t1 \in Nat, NEW v1 \in Seq(Nat), NEW t2 \in Nat, NEW v2 \in Seq(Nat), NEW t3 \in Nat, NEW v3 \in Seq(Nat)
    PROVE  /\ Tlv(t1, v1) \o Tlv(t2, v2) \o Tlv(t3, v3) \in Seq(Nat)
           /\ Short(Tlv(t1, v1) \o Tlv(t2, v2) \o Tlv(t3, v3)) => IsTlv(t1, v1) /\ IsTlv(t2, v2) /\ IsTlv(t3, v3)
<1>1. PICK s \in Seq(Nat) : s = Tlv(t1, v1) \o Tlv(t2, v2)
  BY ShortTwo
<1>2. Short(s) => IsTlv(t1, v1) /\ IsTlv(t2, v2)
  BY <1>1, ShortTwo
<1>3. s \o Tlv(t3, v3) \in Seq(Nat) /\ (Short(s \o Tlv(t3, v3)) => Short(s) /\ IsTlv(t3, v3))
  BY ShortMore
<1> QED
  BY <1>1, <1>2, <1>3

\* Four items.
LEMMA ShortFour ==
    ASSUME NEW t1 \in Nat, NEW v1 \in Seq(Nat), NEW t2 \in Nat, NEW v2 \in Seq(Nat),
           NEW t3 \in Nat, NEW v3 \in Seq(Nat), NEW t4 \in Nat, NEW v4 \in Seq(Nat)
    PROVE  /\ Tlv(t1, v1) \o Tlv(t2, v2) \o Tlv(t3, v3) \o Tlv(t4, v4) \in Seq(Nat)
           /\ Short(Tlv(t1, v1) \o Tlv(t2, v2) \o Tlv(t3, v3) \o Tlv(t4, v4))
                => IsTlv(t1, v1) /\ IsTlv(t2, v2) /\ IsTlv(t3, v3) /\ IsTlv(t4, v4)
<1>1. PICK s \in Seq(Nat) : s = Tlv(t1, v1) \o Tlv(t2, v2) \o Tlv(t3, v3)
  BY ShortThree
<1>2. Short(s) => IsTlv(t1, v1) /\ IsTlv(t2, v2) /\ IsTlv(t3, v3)
  BY <1>1, ShortThree
<1>3. s \o Tlv(t4, v4) \in Seq(Nat) /\ (Short(s \o Tlv(t4, v4)) => Short(s) /\ IsTlv(t4, v4))
  BY ShortMore
<1> QED
  BY <1>1, <1>2, <1>3

\* A number of one byte.
LEMMA BigEndianOfOne ==
    ASSUME NEW n \in Nat
    PROVE  BigEndian(<<n>>) = n
<1>1. PICK bytes : bytes = <<n>>
  OBVIOUS
<1>2. PICK one \in Nat : one = 1
  OBVIOUS
<1>3. Len(bytes) = one /\ bytes[one] = n /\ one # 0 /\ \A k \in 1 .. one - 1 : bytes[k] = 0
  BY <1>1, <1>2
<1> QED
  BY <1>1, <1>3, BigEndianOfPadded

\* The two names a trap of ours has in it.
LEMMA KnownOids ==
    IsOid(SysUpTime) /\ IsOid(SnmpTrapOid)
<1>1. IsOid(SysUpTime)
  <2>1. SysUpTime \in Seq(Nat)
    BY DEF SysUpTime
  <2>2. Len(SysUpTime) >= 2 /\ SysUpTime[1] = 1 /\ SysUpTime[2] = 3
    BY DEF SysUpTime
  <2> QED
    BY <2>1, <2>2 DEF IsOid
<1>2. IsOid(SnmpTrapOid)
  <2>1. SnmpTrapOid \in Seq(Nat)
    BY DEF SnmpTrapOid
  <2>2. Len(SnmpTrapOid) >= 2 /\ SnmpTrapOid[1] = 1 /\ SnmpTrapOid[2] = 3
    BY DEF SnmpTrapOid
  <2> QED
    BY <2>1, <2>2 DEF IsOid
<1> QED
  BY <1>1, <1>2

\* The severity of a trap, and what is logged of it.
Grade(arcs, text) ==
    IF arcs \in {LinkDown, AuthenticationFailure} \/ text \in CriticalTexts THEN "critical"
    ELSE IF text \in WarningTexts THEN "warning" ELSE "info"
Logged(version, community, arcs, text) ==
    [version |-> version, community |-> community, oid |-> [as |-> "oid", value |-> arcs], severity |-> Grade(arcs, text)]

\* Without a text the severity is that of the trap's OID.
LEMMA GradeWithoutText ==
    ASSUME NEW arcs, NEW binds, \A a \in DOMAIN binds : binds[a].as # "text"
    PROVE  Severity([as |-> "oid", value |-> arcs], binds) = Grade(arcs, <<>>)
<1>1. PICK oid : oid = [as |-> "oid", value |-> arcs]
  OBVIOUS
<1>2. oid.as = "oid" /\ oid.value = arcs
  BY <1>1
<1>3. \A v \in {oid} \cup {binds[a] : a \in DOMAIN binds} : v.as # "text"
  BY <1>2
<1>4. <<>> \notin CriticalTexts /\ <<>> \notin WarningTexts
  BY TextsAssumption
<1>5. Severity(oid, binds) = Grade(arcs, <<>>)
  BY <1>2, <1>3, <1>4 DEF Severity, Grade
<1> QED
  BY <1>1, <1>5

\* With a text it is that of the OID or of the text.
LEMMA GradeOfText ==
    ASSUME NEW arcs, NEW text, NEW binds, NEW m, DOMAIN binds = {m}, binds[m] = [as |-> "text", value |-> text]
    PROVE  Severity([as |-> "oid", value |-> arcs], binds) = Grade(arcs, text)
<1>1. PICK oid : oid = [as |-> "oid", value |-> arcs]
  OBVIOUS
<1>2. oid.as = "oid" /\ oid.value = arcs
  BY <1>1
<1>3. PICK said : said = binds[m]
  OBVIOUS
<1>4. said.as = "text" /\ said.value = text
  BY <1>3
<1>5. PICK values : values = {oid} \cup {binds[a] : a \in DOMAIN binds}
  OBVIOUS
<1>6. values = {oid, said}
  BY <1>3, <1>5
<1>7. \A texts : (\E v \in values : v.as = "text" /\ v.value \in texts) <=> text \in texts
  BY <1>2, <1>4, <1>6
<1>8. Severity(oid, binds) = Grade(arcs, text)
  BY <1>2, <1>5, <1>7 DEF Severity, Grade
<1> QED
  BY <1>1, <1>8

\* A variable binding of ours, as a value in the list.
LEMMA VarbindIs ==
    ASSUME NEW arcs, IsOid(arcs), NEW t \in Nat, NEW v \in Seq(Nat)
    PROVE  /\ Tlv(Oid, OidBytes(arcs)) \o Tlv(t, v) \in Seq(Nat)
           /\ Varbind(arcs, Tlv(t, v)) = Tlv(List, Tlv(Oid, OidBytes(arcs)) \o Tlv(t, v))
           /\ IsTlv(List, Tlv(Oid, OidBytes(arcs)) \o Tlv(t, v)) =>
                Pair(Part(List, Tlv(Oid, OidBytes(arcs)) \o Tlv(t, v)))
                  = IF DecodeValue(Part(t, v)) = BadOid THEN BadPair ELSE [name |-> arcs, value |-> DecodeValue(Part(t, v))]
<1>1. OidBytes(arcs) \in Seq(Nat) /\ Oid \in Nat
  BY OidRoundTrip DEF Oid
<1>2. /\ Tlv(Oid, OidBytes(arcs)) \o Tlv(t, v) \in Seq(Nat)
      /\ Short(Tlv(Oid, OidBytes(arcs)) \o Tlv(t, v)) => IsTlv(Oid, OidBytes(arcs)) /\ IsTlv(t, v)
  BY <1>1, ShortTwo
<1>3. Varbind(arcs, Tlv(t, v)) = Tlv(List, Tlv(Oid, OidBytes(arcs)) \o Tlv(t, v))
  BY DEF Varbind
<1>4. ASSUME IsTlv(List, Tlv(Oid, OidBytes(arcs)) \o Tlv(t, v))
      PROVE  Pair(Part(List, Tlv(Oid, OidBytes(arcs)) \o Tlv(t, v)))
               = IF DecodeValue(Part(t, v)) = BadOid THEN BadPair ELSE [name |-> arcs, value |-> DecodeValue(Part(t, v))]
  <2>1. IsTlv(Oid, OidBytes(arcs)) /\ IsTlv(t, v)
    BY <1>2, <1>4 DEF IsTlv
  <2> QED
    BY <2>1, PairOfVarbind
<1> QED
  BY <1>2, <1>3, <1>4

\* The parts of the two traps, from the inside out.
Uptime == Tlv(Oid, OidBytes(SysUpTime)) \o Tlv(67, <<1, 226, 64>>)
Identity(oid) == Tlv(Oid, OidBytes(SnmpTrapOid)) \o Tlv(Oid, oid)
V2cPdu(oid) == Tlv(Integer, <<1>>) \o Tlv(Integer, <<0>>) \o Tlv(Integer, <<0>>)
                 \o Tlv(List, Tlv(List, Uptime) \o Tlv(List, Identity(oid)))
V2cBody(oid, community) == Tlv(Integer, <<1>>) \o Tlv(OctetString, community) \o Tlv(TrapV2, V2cPdu(oid))
SaidBy(text) == Tlv(Oid, OidBytes(SysUpTime)) \o Tlv(OctetString, text)
V1Pdu(oid, text) == Tlv(Oid, oid) \o Tlv(64, <<127, 0, 0, 1>>) \o Tlv(Integer, <<6>>)
                      \o Tlv(Integer, <<1>>) \o Tlv(67, <<1>>) \o Tlv(List, Tlv(List, SaidBy(text)))
V1Body(oid, community, text) ==
    Tlv(Integer, <<0>>) \o Tlv(OctetString, community) \o Tlv(TrapV1, V1Pdu(oid, text))

\* The two traps of the model, by their parts.
LEMMA TrapIs ==
    ASSUME NEW oid, NEW community, NEW text
    PROVE  /\ Trap("2c", oid, community, text) = Tlv(List, V2cBody(oid, community))
           /\ Trap("1", oid, community, text) = Tlv(List, V1Body(oid, community, text))
<1>1. Trap("2c", oid, community, text) = V2cTrap(oid, community)
  BY DEF Trap
<1>2. Trap("1", oid, community, text) = V1Trap(oid, community, text)
  BY DEF Trap
<1>3. V2cTrap(oid, community) = Tlv(List, V2cBody(oid, community))
  BY DEF V2cTrap, V2cBody, V2cPdu, Uptime, Identity, Varbind
<1>4. V1Trap(oid, community, text) = Tlv(List, V1Body(oid, community, text))
  BY DEF V1Trap, V1Body, V1Pdu, SaidBy, Varbind
<1> QED
  BY <1>1, <1>2, <1>3, <1>4

\* Tags and values are numbers and sequences of numbers.
LEMMA Numbers ==
    /\ Integer \in Nat /\ OctetString \in Nat /\ Oid \in Nat /\ List \in Nat /\ TrapV1 \in Nat /\ TrapV2 \in Nat
    /\ <<0>> \in Seq(Nat) /\ <<1>> \in Seq(Nat) /\ <<6>> \in Seq(Nat)
    /\ <<1, 226, 64>> \in Seq(Nat) /\ <<127, 0, 0, 1>> \in Seq(Nat)
BY DEF Integer, OctetString, Oid, List, TrapV1, TrapV2

\* Version 2c: the second variable is the trap's OID.
LEMMA PduOfV2c ==
    ASSUME NEW oid \in Seq(Nat), NEW community
    PROVE  /\ V2cPdu(oid) \in Seq(Nat)
           /\ Short(V2cPdu(oid)) =>
                ParseV2c(community, V2cPdu(oid))
                  = IF DecodeOid(oid) = <<>> THEN Invalid ELSE Logged("2c", community, DecodeOid(oid), <<>>)
<1>1. PICK uptime \in Seq(Nat) : uptime = Uptime
  BY Numbers, KnownOids, VarbindIs DEF Uptime
<1>2. PICK identity \in Seq(Nat) : identity = Identity(oid)
  BY Numbers, KnownOids, VarbindIs DEF Identity
<1>3. PICK list \in Seq(Nat) : list = Tlv(List, uptime) \o Tlv(List, identity)
  BY Numbers, ShortTwo
<1>a. PICK one \in Seq(Nat) : one = <<1>>
  BY Numbers
<1>b. PICK zero \in Seq(Nat) : zero = <<0>>
  BY Numbers
<1>c. PICK ticks \in Seq(Nat) : ticks = <<1, 226, 64>>
  BY Numbers
<1>n. Integer \in Nat /\ List \in Nat /\ 67 \in Nat /\ Oid \in Nat
  BY Numbers
<1>4. PICK pdu \in Seq(Nat) : pdu = Tlv(Integer, one) \o Tlv(Integer, zero) \o Tlv(Integer, zero) \o Tlv(List, list)
  BY <1>n, ShortFour
<1>5. pdu = V2cPdu(oid)
  BY <1>1, <1>2, <1>3, <1>4, <1>a, <1>b DEF V2cPdu
<1>6. ASSUME Short(pdu)
      PROVE  ParseV2c(community, pdu)
               = IF DecodeOid(oid) = <<>> THEN Invalid ELSE Logged("2c", community, DecodeOid(oid), <<>>)
  <2>1. IsTlv(Integer, one) /\ IsTlv(Integer, zero) /\ IsTlv(List, list)
    BY <1>4, <1>6, <1>n, ShortFour
  <2>2. IsTlv(List, uptime) /\ IsTlv(List, identity)
    BY <1>3, <2>1, Numbers, ShortTwo DEF IsTlv
  <2>3. PICK a : a = Part(Integer, one)
    OBVIOUS
  <2>4. PICK b : b = Part(Integer, zero)
    OBVIOUS
  <2>5. PICK c : c = Part(List, list)
    OBVIOUS
  <2>6. Items(4, pdu) = Left(<<a, b, b, c>>, <<>>)
    BY <1>4, <2>1, <2>3, <2>4, <2>5, FourItems
  <2>7. PICK p : p = Part(List, uptime)
    OBVIOUS
  <2>8. PICK q : q = Part(List, identity)
    OBVIOUS
  <2>9. AllItems(list) = Left(<<p, q>>, <<>>)
    BY <1>3, <2>2, <2>7, <2>8, TwoItems
  <2>10. Pair(p) = [name |-> SysUpTime, value |-> Digits]
    <3>0. uptime = Tlv(Oid, OidBytes(SysUpTime)) \o Tlv(67, ticks)
      BY <1>1, <1>c DEF Uptime
    <3>1. Pair(p) = IF DecodeValue(Part(67, ticks)) = BadOid THEN BadPair
                    ELSE [name |-> SysUpTime, value |-> DecodeValue(Part(67, ticks))]
      BY <1>n, <2>2, <2>7, <3>0, KnownOids, VarbindIs
    <3>2. DecodeValue(Part(67, ticks)) = Digits
      BY ValueFacts
    <3>3. Digits # BadOid
      BY DEF Digits, BadOid
    <3> QED
      BY <3>1, <3>2, <3>3
  <2>11. PICK y : y = [as |-> "oid", value |-> DecodeOid(oid)]
    OBVIOUS
  <2>12. Pair(q) = IF y = BadOid THEN BadPair ELSE [name |-> SnmpTrapOid, value |-> y]
    <3>1. Pair(q) = IF DecodeValue(Part(Oid, oid)) = BadOid THEN BadPair
                    ELSE [name |-> SnmpTrapOid, value |-> DecodeValue(Part(Oid, oid))]
      BY <1>2, <2>2, <2>8, Numbers, KnownOids, VarbindIs DEF Identity
    <3>2. DecodeValue(Part(Oid, oid)) = y
      BY <2>11, ValueFacts
    <3> QED
      BY <3>1, <3>2
  <2>13. y = BadOid <=> DecodeOid(oid) = <<>>
    <3>1. y.as = "oid" /\ y.value = DecodeOid(oid)
      BY <2>11
    <3> QED
      BY <2>11, <3>1 DEF BadOid
  <2>14. PICK read : read = Items(4, pdu)
    OBVIOUS
  <2>15. /\ read.ok = TRUE /\ read.items[1].tag = Integer /\ read.items[2].tag = Integer
         /\ read.items[3].tag = Integer /\ read.items[4].tag = List /\ read.items[4].value = list
    <3>1. a.tag = Integer /\ b.tag = Integer /\ c.tag = List /\ c.value = list
      BY <2>3, <2>4, <2>5 DEF Part
    <3>2. read.ok = TRUE /\ read.items = <<a, b, b, c>>
      BY <2>6, <2>14 DEF Left
    <3> QED
      BY <3>1, <3>2
  <2>16. CASE DecodeOid(oid) = <<>>
    <3>1. Pair(q) = BadPair
      BY <2>12, <2>13, <2>16
    <3>2. Varbinds(list).ok = FALSE
      BY <2>9, <3>1, BadVarbind
    <3>3. ParseV2c(community, pdu) = Invalid
      BY <2>14, <2>15, <3>2 DEF ParseV2c
    <3> QED
      BY <2>16, <3>3
  <2>17. CASE DecodeOid(oid) # <<>>
    <3>1. y # BadOid /\ Pair(q) = [name |-> SnmpTrapOid, value |-> y]
      BY <2>12, <2>13, <2>17
    <3>2. SysUpTime # <<>> /\ SnmpTrapOid # <<>>
      BY KnownOids, OidRoundTrip
    <3>3. PICK binds : binds = Varbinds(list)
      OBVIOUS
    <3>4. /\ binds.ok = TRUE
          /\ SnmpTrapOid \in DOMAIN binds.map /\ binds.map[SnmpTrapOid] = y
          /\ \A n \in DOMAIN binds.map : binds.map[n] \in {Digits, y}
      <4>1. PICK m : m = SysUpTime
        OBVIOUS
      <4>2. PICK n : n = SnmpTrapOid
        OBVIOUS
      <4>3. PICK x : x = Digits
        OBVIOUS
      <4>4. /\ Varbinds(list).ok = TRUE
            /\ n \in DOMAIN Varbinds(list).map /\ Varbinds(list).map[n] = y
            /\ \A k \in DOMAIN Varbinds(list).map : Varbinds(list).map[k] \in {x, y}
        <5>1. IsPair(p, m, x)
          BY <2>10, <3>2, <4>1, <4>3 DEF IsPair
        <5>2. IsPair(q, n, y)
          BY <3>1, <3>2, <4>2 DEF IsPair
        <5> QED
          BY <2>9, <5>1, <5>2, TwoVarbinds
      <4> QED
        BY <3>3, <4>2, <4>3, <4>4
    <3>5. y.as # "text" /\ Digits.as # "text"
      BY <2>11 DEF Digits
    <3>6. \A n \in DOMAIN binds.map : binds.map[n].as # "text"
      BY <3>4, <3>5
    <3>7. Severity(y, binds.map) = Grade(DecodeOid(oid), <<>>)
      BY <2>11, <3>6, GradeWithoutText
    <3>8. ParseV2c(community, pdu) = Event("2c", community, y, binds.map)
      <4>1. \A k \in 1 .. 3 : read.items[k].tag = Integer
        BY <2>15
      <4> QED
        BY <2>14, <2>15, <3>3, <3>4, <4>1 DEF ParseV2c
    <3>9. Event("2c", community, y, binds.map) = Logged("2c", community, DecodeOid(oid), <<>>)
      BY <2>11, <3>1, <3>7 DEF Event, Logged
    <3> QED
      BY <2>17, <3>8, <3>9
  <2> QED
    BY <2>16, <2>17
<1> QED
  BY <1>5, <1>6

\* Version 1: six values, the first one the OID, the last one the list.
LEMMA PduOfV1 ==
    ASSUME NEW oid \in Seq(Nat), NEW community, NEW text \in Seq(Nat), Ascii(text)
    PROVE  /\ V1Pdu(oid, text) \in Seq(Nat)
           /\ Short(V1Pdu(oid, text)) =>
                ParseV1(community, V1Pdu(oid, text))
                  = IF DecodeOid(oid) = <<>> THEN Invalid ELSE Logged("1", community, DecodeOid(oid), text)
<1>n. Integer \in Nat /\ List \in Nat /\ 67 \in Nat /\ Oid \in Nat /\ 64 \in Nat /\ OctetString \in Nat
  BY Numbers
<1>1. PICK said \in Seq(Nat) : said = SaidBy(text)
  BY <1>n, KnownOids, VarbindIs DEF SaidBy
<1>2. PICK list \in Seq(Nat) : list = Tlv(List, said)
  BY <1>n, TlvFacts
<1>a. PICK one \in Seq(Nat) : one = <<1>>
  BY Numbers
<1>b. PICK six \in Seq(Nat) : six = <<6>>
  BY Numbers
<1>c. PICK address \in Seq(Nat) : address = <<127, 0, 0, 1>>
  BY Numbers
<1>f. PICK three \in Seq(Nat) : three = Tlv(Oid, oid) \o Tlv(64, address) \o Tlv(Integer, six)
  BY <1>n, ShortThree
<1>d. PICK four \in Seq(Nat) : four = three \o Tlv(Integer, one)
  BY <1>n, ShortMore
<1>e. PICK five \in Seq(Nat) : five = four \o Tlv(67, one)
  BY <1>n, ShortMore
<1>4. PICK pdu \in Seq(Nat) : pdu = five \o Tlv(List, list)
  BY <1>n, ShortMore
<1>7. pdu = Tlv(Oid, oid) \o Tlv(64, address) \o Tlv(Integer, six) \o Tlv(Integer, one) \o Tlv(67, one) \o Tlv(List, list)
  BY <1>f, <1>d, <1>e, <1>4
<1>5. pdu = V1Pdu(oid, text)
  BY <1>1, <1>2, <1>7, <1>a, <1>b, <1>c DEF V1Pdu
<1>6. ASSUME Short(pdu)
      PROVE  ParseV1(community, pdu)
               = IF DecodeOid(oid) = <<>> THEN Invalid ELSE Logged("1", community, DecodeOid(oid), text)
  <2>1. /\ IsTlv(Oid, oid) /\ IsTlv(64, address) /\ IsTlv(Integer, six)
        /\ IsTlv(Integer, one) /\ IsTlv(67, one) /\ IsTlv(List, list)
    <3>1. Short(five) /\ IsTlv(List, list)
      BY <1>4, <1>6, <1>n, ShortMore
    <3>2. Short(four) /\ IsTlv(67, one)
      BY <1>e, <1>n, <3>1, ShortMore
    <3>3. Short(three) /\ IsTlv(Integer, one)
      BY <1>d, <1>n, <3>2, ShortMore
    <3>4. IsTlv(Oid, oid) /\ IsTlv(64, address) /\ IsTlv(Integer, six)
      BY <1>f, <1>n, <3>3, ShortThree
    <3> QED
      BY <3>1, <3>2, <3>3, <3>4
  <2>2. IsTlv(List, said)
    BY <1>2, <1>n, <2>1, ShortValue DEF IsTlv
  <2>3. PICK a : a = Part(Oid, oid)
    OBVIOUS
  <2>4. PICK b : b = Part(64, address)
    OBVIOUS
  <2>5. PICK c : c = Part(Integer, six)
    OBVIOUS
  <2>6. PICK d : d = Part(Integer, one)
    OBVIOUS
  <2>7. PICK e : e = Part(67, one)
    OBVIOUS
  <2>8. PICK f : f = Part(List, list)
    OBVIOUS
  <2>9. Items(6, pdu) = Left(<<a, b, c, d, e, f>>, <<>>)
    BY <1>7, <2>1, <2>3, <2>4, <2>5, <2>6, <2>7, <2>8, SixItems
  <2>10. PICK p : p = Part(List, said)
    OBVIOUS
  <2>11. AllItems(list) = Left(<<p>>, <<>>)
    BY <1>2, <2>2, <2>10, OneItem
  <2>12. PICK y : y = [as |-> "text", value |-> text]
    OBVIOUS
  <2>13. PICK m : m = SysUpTime
    OBVIOUS
  <2>14. IsPair(p, m, y)
    <3>1. said = Tlv(Oid, OidBytes(SysUpTime)) \o Tlv(OctetString, text)
      BY <1>1 DEF SaidBy
    <3>2. Pair(p) = IF DecodeValue(Part(OctetString, text)) = BadOid THEN BadPair
                    ELSE [name |-> SysUpTime, value |-> DecodeValue(Part(OctetString, text))]
      BY <1>n, <2>2, <2>10, <3>1, KnownOids, VarbindIs
    <3>3. DecodeValue(Part(OctetString, text)) = y
      BY <2>12, ValueFacts
    <3>4. y # BadOid
      <4>1. y.as = "text" /\ BadOid.as = "oid"
        BY <2>12 DEF BadOid
      <4> QED
        BY <4>1
    <3>5. SysUpTime # <<>>
      BY KnownOids, OidRoundTrip
    <3> QED
      BY <2>13, <3>2, <3>3, <3>4, <3>5 DEF IsPair
  <2>15. PICK read : read = Items(6, pdu)
    OBVIOUS
  <2>16. /\ read.ok = TRUE /\ read.items[1].tag = Oid /\ read.items[1].value = oid
         /\ read.items[6].tag = List /\ read.items[6].value = list
    <3>1. a.tag = Oid /\ a.value = oid /\ f.tag = List /\ f.value = list
      BY <2>3, <2>8 DEF Part
    <3>2. read.ok = TRUE /\ read.items = <<a, b, c, d, e, f>>
      BY <2>9, <2>15 DEF Left
    <3> QED
      BY <3>1, <3>2
  <2>17. PICK binds : binds = Varbinds(list)
    OBVIOUS
  <2>18. binds.ok = TRUE /\ DOMAIN binds.map = {m} /\ binds.map[m] = y
    BY <2>11, <2>14, <2>17, OneVarbind
  <2>19. PICK x : x = [as |-> "oid", value |-> DecodeOid(oid)]
    OBVIOUS
  <2>20. ParseV1(community, pdu) = Event("1", community, x, binds.map)
    BY <2>15, <2>16, <2>17, <2>18, <2>19 DEF ParseV1
  <2>21. Severity(x, binds.map) = Grade(DecodeOid(oid), text)
    BY <2>12, <2>18, <2>19, GradeOfText
  <2>22. x = BadOid <=> DecodeOid(oid) = <<>>
    <3>1. x.as = "oid" /\ x.value = DecodeOid(oid)
      BY <2>19
    <3> QED
      BY <2>19, <3>1 DEF BadOid
  <2> QED
    BY <2>19, <2>20, <2>21, <2>22 DEF Event, Logged
<1> QED
  BY <1>5, <1>6

\* A message in the short form has a short body.
LEMMA ShortBody ==
    ASSUME NEW body \in Seq(Nat), Len(Tlv(List, body)) <= 129
    PROVE  Short(body)
<1>1. PICK n \in Nat : n = Len(body)
  BY LenProperties
<1>2. Len(Tlv(List, body)) = n + 2
  BY <1>1, Numbers, TlvFacts
<1>3. n + 2 <= 129
  BY <1>2
<1>4. n < 128
  BY <1>3
<1> QED
  BY <1>1, <1>4 DEF Short

\* A whole message: the three values of its header, and the PDU they choose.
Whole(body, version, community, tag, pdu) ==
    /\ version \in Nat /\ community \in Seq(Nat) /\ tag \in Nat /\ pdu \in Seq(Nat)
    /\ body = Tlv(Integer, <<version>>) \o Tlv(OctetString, community) \o Tlv(tag, pdu)
    /\ Len(Tlv(List, body)) <= 129

\* The header of a message.
LEMMA PartsOfBody ==
    ASSUME NEW body, NEW version, NEW community, NEW tag, NEW pdu, Whole(body, version, community, tag, pdu)
    PROVE  /\ Short(body) /\ Short(pdu)
           /\ Items(3, body) = Left(<<Part(Integer, <<version>>), Part(OctetString, community), Part(tag, pdu)>>, <<>>)
<1>n. Integer \in Nat /\ OctetString \in Nat
  BY Numbers
<1>h. /\ version \in Nat /\ community \in Seq(Nat) /\ tag \in Nat /\ pdu \in Seq(Nat)
      /\ body = Tlv(Integer, <<version>>) \o Tlv(OctetString, community) \o Tlv(tag, pdu)
      /\ Len(Tlv(List, body)) <= 129
  BY DEF Whole
<1>0. <<version>> \in Seq(Nat)
  BY <1>h
<1>1. PICK v \in Seq(Nat) : v = <<version>>
  BY <1>0, Zenon
<1>2. body \in Seq(Nat) /\ body = Tlv(Integer, v) \o Tlv(OctetString, community) \o Tlv(tag, pdu)
  BY <1>1, <1>h, <1>n, ShortThree
<1>3. Short(body)
  BY <1>2, <1>h, ShortBody
<1>4. IsTlv(Integer, v) /\ IsTlv(OctetString, community) /\ IsTlv(tag, pdu)
  <2>1. v \in Seq(Nat) /\ community \in Seq(Nat) /\ tag \in Nat /\ pdu \in Seq(Nat)
    BY <1>1, <1>h
  <2>2. Short(Tlv(Integer, v) \o Tlv(OctetString, community) \o Tlv(tag, pdu))
    BY <1>2, <1>3
  <2> QED
    BY ONLY <1>n, <2>1, <2>2, ShortThree
<1>5. Items(3, body) = Left(<<Part(Integer, v), Part(OctetString, community), Part(tag, pdu)>>, <<>>)
  BY <1>2, <1>4, ThreeItems
<1> QED
  BY <1>1, <1>3, <1>4, <1>5 DEF IsTlv

\* The version and the tag of the PDU choose the parser (snmp_traps.py:110-136).
LEMMA BodyIsParsed ==
    ASSUME NEW body, NEW version, NEW community, NEW tag, NEW pdu, Whole(body, version, community, tag, pdu),
           NEW n \in 0 .. 4
    PROVE  /\ tag = TrapV2 /\ version = 1 =>
                ParseTrap(LongForm(Tlv(List, body), n)) = ParseV2c(Replaced(community), pdu)
           /\ tag = TrapV1 /\ version = 0 =>
                ParseTrap(LongForm(Tlv(List, body), n)) = ParseV1(Replaced(community), pdu)
<1>1. PICK v : v = <<version>>
  OBVIOUS
<1>3. PICK a : a = Part(Integer, v)
  OBVIOUS
<1>4. PICK b : b = Part(OctetString, community)
  OBVIOUS
<1>5. PICK c : c = Part(tag, pdu)
  OBVIOUS
<1>6. Items(3, body) = Left(<<a, b, c>>, <<>>) /\ Short(body)
  BY <1>1, <1>3, <1>4, <1>5, PartsOfBody
<1>7. PICK datagram : datagram = LongForm(Tlv(List, body), n)
  OBVIOUS
<1>8. PICK outer : outer = Items(1, datagram)
  OBVIOUS
<1>9. outer.ok = TRUE /\ outer.rest = <<>> /\ outer.items[1].tag = List /\ outer.items[1].value = body
  <2>1. Len(body) < 128 /\ body \in Seq(Nat)
    BY <1>6 DEF Short
  <2>2. outer = [ok |-> TRUE, rest |-> <<>>, items |-> <<[tag |-> List, value |-> body]>>]
    BY <1>7, <1>8, <2>1, Numbers, MessageIsOneItem
  <2>3. outer.items = <<[tag |-> List, value |-> body]>>
    BY <2>2
  <2> QED
    BY <2>2, <2>3
<1>10. PICK header : header = Items(3, body)
  OBVIOUS
<1>11. /\ header.ok = TRUE /\ header.items[1].tag = Integer /\ header.items[1].value = v
       /\ header.items[2].tag = OctetString /\ header.items[2].value = community
       /\ header.items[3].tag = tag /\ header.items[3].value = pdu
  <2>1. /\ a.tag = Integer /\ a.value = v /\ b.tag = OctetString /\ b.value = community
        /\ c.tag = tag /\ c.value = pdu
    BY <1>3, <1>4, <1>5 DEF Part
  <2>2. header.ok = TRUE /\ header.items = <<a, b, c>>
    BY <1>6, <1>10 DEF Left
  <2> QED
    BY <2>1, <2>2
<1>12. BigEndian(v) = version
  BY <1>1, BigEndianOfOne DEF Whole
<1>13. NothingFollows(outer)
  BY <1>9 DEF NothingFollows
<1>14. ParseTrap(datagram) = CASE tag = TrapV2 /\ version = 1 -> ParseV2c(Replaced(community), pdu)
                             [] tag = TrapV1 /\ version = 0 -> ParseV1(Replaced(community), pdu)
                             [] OTHER -> Invalid
  BY <1>8, <1>9, <1>10, <1>11, <1>12, <1>13 DEF ParseTrap
<1>15. TrapV1 # TrapV2
  BY DEF TrapV1, TrapV2
<1> QED
  BY <1>7, <1>14, <1>15

\* What a sender of ours or a device puts together.
IsSent(version, oid, community, text) ==
    /\ version \in {"1", "2c"} /\ oid \in Seq(Nat) /\ community \in Seq(Nat) /\ text \in Seq(Nat)
    /\ Ascii(text) /\ (version = "2c" => text = <<>>)
    /\ Len(Trap(version, oid, community, text)) <= 129

\* What parse_trap makes of a trap that arrives as it was sent.
LEMMA ParsedAsMeant ==
    ASSUME NEW version, NEW oid, NEW community, NEW text, IsSent(version, oid, community, text), NEW n \in 0 .. 4
    PROVE  /\ ParseTrap(LongForm(Trap(version, oid, community, text), n))
                = IF DecodeOid(oid) = <<>> THEN Invalid
                  ELSE Logged(version, Replaced(community), DecodeOid(oid), text)
           /\ \E body : Short(body) /\ Trap(version, oid, community, text) = Tlv(List, body)
<1>1. oid \in Seq(Nat) /\ community \in Seq(Nat) /\ text \in Seq(Nat) /\ Ascii(text)
  BY DEF IsSent
<1>2. TrapV1 # TrapV2 /\ TrapV1 \in Nat /\ TrapV2 \in Nat /\ 0 \in Nat /\ 1 \in Nat
  BY DEF TrapV1, TrapV2
<1>3. CASE version = "2c"
  <2>1. PICK pdu \in Seq(Nat) : pdu = V2cPdu(oid)
    BY <1>1, PduOfV2c
  <2>2. PICK body : body = V2cBody(oid, community)
    OBVIOUS
  <2>3. Trap(version, oid, community, text) = Tlv(List, body)
    BY <1>3, <2>2, TrapIs
  <2>4. Whole(body, 1, community, TrapV2, pdu)
    BY <1>1, <1>2, <2>1, <2>2, <2>3 DEF Whole, V2cBody, IsSent
  <2>5. Short(body) /\ Short(pdu)
    BY <2>4, PartsOfBody
  <2>6. ParseTrap(LongForm(Tlv(List, body), n)) = ParseV2c(Replaced(community), pdu)
    BY <2>4, BodyIsParsed
  <2>7. text = <<>>
    BY <1>3 DEF IsSent
  <2>8. ParseV2c(Replaced(community), pdu) = IF DecodeOid(oid) = <<>> THEN Invalid
                  ELSE Logged("2c", Replaced(community), DecodeOid(oid), <<>>)
    BY <1>1, <2>1, <2>5, PduOfV2c
  <2> QED
    BY <1>3, <2>3, <2>5, <2>6, <2>7, <2>8
<1>4. CASE version = "1"
  <2>1. PICK pdu \in Seq(Nat) : pdu = V1Pdu(oid, text)
    BY <1>1, PduOfV1
  <2>2. PICK body : body = V1Body(oid, community, text)
    OBVIOUS
  <2>3. Trap(version, oid, community, text) = Tlv(List, body)
    BY <1>4, <2>2, TrapIs
  <2>4. Whole(body, 0, community, TrapV1, pdu)
    BY <1>1, <1>2, <2>1, <2>2, <2>3 DEF Whole, V1Body, IsSent
  <2>5. Short(body) /\ Short(pdu)
    BY <2>4, PartsOfBody
  <2>6. ParseTrap(LongForm(Tlv(List, body), n)) = ParseV1(Replaced(community), pdu)
    BY <2>4, BodyIsParsed
  <2>8. ParseV1(Replaced(community), pdu) = IF DecodeOid(oid) = <<>> THEN Invalid
                  ELSE Logged("1", Replaced(community), DecodeOid(oid), text)
    BY <1>1, <2>1, <2>5, PduOfV1
  <2> QED
    BY <1>4, <2>3, <2>5, <2>6, <2>8
<1> QED
  BY <1>3, <1>4 DEF IsSent

-----------------------------------------------------------------------------
(* Object identifiers that end with 128s: the check of decode_oid on the    *)
(* value of its last arc (snmp_traps.py:66).                                *)

\* The first n bytes of an OID, one by one.
FirstOf(s, n) == SubSeq(s, 1, n)

\* They are an OID themselves, and one more byte is appended to them.
LEMMA FirstOfFacts ==
    ASSUME NEW s \in Seq(Nat), NEW N \in Nat, N = Len(s), NEW n \in Nat, 1 <= n, n <= N
    PROVE  /\ FirstOf(s, n) \in Seq(Nat) /\ Len(FirstOf(s, n)) = n /\ FirstOf(s, n) # <<>>
           /\ FirstOf(s, n)[n] = s[n] /\ s[n] \in Nat
           /\ n + 1 <= N => FirstOf(s, n + 1) = Append(FirstOf(s, n), s[n + 1]) /\ s[n + 1] \in Nat
<1>1. FirstOf(s, n) \in Seq(Nat) /\ Len(FirstOf(s, n)) = n /\ \A i \in 1 .. n : FirstOf(s, n)[i] = s[i]
  BY SubSeqProperties DEF FirstOf
<1>2. FirstOf(s, n) # <<>>
  <2>1. Len(<<>>) = 0 /\ 0 # n
    OBVIOUS
  <2> QED
    BY <1>1, <2>1, Zenon
<1>3. \A i \in 1 .. N : s[i] \in Nat
  OBVIOUS
<1>4. ASSUME n + 1 <= N PROVE FirstOf(s, n + 1) = Append(FirstOf(s, n), s[n + 1]) /\ s[n + 1] \in Nat
  <2>0. PICK m \in Nat : m = n + 1 /\ m <= N /\ 1 <= m
    BY <1>4
  <2>1. PICK x \in Nat : x = s[m]
    BY <1>3, <2>0
  <2>2. PICK f \in Seq(Nat) : f = FirstOf(s, n)
    BY <1>1
  <2>a. PICK g : g = FirstOf(s, m)
    OBVIOUS
  <2>3. g \in Seq(Nat) /\ Len(g) = m /\ \A i \in 1 .. m : g[i] = s[i]
    <3>1. \A i \in 1 .. m : s[i] \in Nat
      BY <1>3, <2>0
    <3> QED
      BY <2>0, <2>a, <3>1, SubSeqProperties DEF FirstOf
  <2>5. Len(f) = n /\ \A i \in 1 .. n : f[i] = s[i]
    BY <1>1, <2>2
  <2>b. PICK h : h = Append(f, x)
    OBVIOUS
  <2>7. h \in Seq(Nat) /\ Len(h) = m /\ h[m] = x /\ \A i \in 1 .. n : h[i] = f[i]
    BY <2>0, <2>5, <2>b, AppendProperties
  <2>8. \A i \in 1 .. m : g[i] = h[i]
    BY <2>0, <2>1, <2>3, <2>5, <2>7
  <2>9. g = h
    BY <2>3, <2>7, <2>8, SeqEqual
  <2> QED
    BY <2>0, <2>1, <2>2, <2>a, <2>b, <2>9
<1> QED
  BY <1>1, <1>2, <1>3, <1>4

\* The arc begun is a number, whatever was read.
LEMMA CurrentIsNat ==
    ASSUME NEW s \in Seq(Nat), NEW N \in Nat, N = Len(s)
    PROVE  \A n \in Nat : 1 <= n /\ n <= N => OidRead(FirstOf(s, n)).current \in Nat
<1> DEFINE T == {j \in Nat : j + 1 <= N => OidRead(FirstOf(s, j + 1)).current \in Nat}
<1>1. 0 \in T
  <2>1. ASSUME 1 <= N PROVE OidRead(FirstOf(s, 1)).current = 0
    <3>0. PICK one \in Nat : one = 1 /\ 1 <= one /\ one <= N
      BY <2>1
    <3>1. PICK f \in Seq(Nat) : f = FirstOf(s, one) /\ Len(f) = one
      BY <3>0, FirstOfFacts
    <3>2. PICK x : x = f[1]
      OBVIOUS
    <3>3. f = <<x>>
      BY <3>0, <3>1, <3>2
    <3>4. OidRead(<<x>>).current = 0
      <4>1. OidRead(<<x>>) = [arcs |-> <<x \div 40, x % 40>>, current |-> 0]
        BY OidReadOfOne, Zenon
      <4>2. PICK a : a = <<x \div 40, x % 40>>
        OBVIOUS
      <4> QED
        BY <4>1, <4>2
    <3> QED
      BY <3>0, <3>1, <3>3, <3>4
  <2> QED
    BY <2>1
<1>2. ASSUME NEW j \in Nat, j \in T PROVE j + 1 \in T
  <2>1. ASSUME (j + 1) + 1 <= N PROVE OidRead(FirstOf(s, (j + 1) + 1)).current \in Nat
    <3>1. PICK m \in Nat : m = j + 1 /\ 1 <= m /\ m <= N /\ m + 1 <= N
      BY <2>1
    <3>2. PICK f \in Seq(Nat) : f = FirstOf(s, m) /\ f # <<>>
      BY <3>1, FirstOfFacts
    <3>a. FirstOf(s, m + 1) = Append(FirstOf(s, m), s[m + 1]) /\ s[m + 1] \in Nat
      BY <3>1, FirstOfFacts
    <3>3. PICK b \in Nat : b = s[m + 1] /\ FirstOf(s, m + 1) = Append(f, b)
      BY <3>2, <3>a
    <3>4. PICK c \in Nat : c = OidRead(f).current
      BY <1>2, <3>1, <3>2
    <3>5. OidRead(Append(f, b)) = OidStep(OidRead(f), b)
      BY <3>2, OidReadOfAppend
    <3>6. OidStep(OidRead(f), b).current = IF b >= 128 THEN c * 128 + (b - 128) ELSE 0
      BY <3>4 DEF OidStep
    <3>7. (IF b >= 128 THEN c * 128 + (b - 128) ELSE 0) \in Nat
      OBVIOUS
    <3> QED
      BY <3>1, <3>3, <3>5, <3>6, <3>7, Zenon
  <2> QED
    BY <2>1
<1>3. \A j \in Nat : j \in T
  <2> HIDE DEF T
  <2> QED
    BY <1>1, <1>2, Induction
<1>4. ASSUME NEW n \in Nat, 1 <= n, n <= N PROVE OidRead(FirstOf(s, n)).current \in Nat
  <2>1. PICK j \in Nat : n = j + 1
    BY <1>4
  <2> QED
    BY <1>3, <1>4, <2>1
<1> QED
  BY <1>4

\* Behind the n first bytes of an OID there are only 128s: what is read of it
\* is what was read of them.
Padded(s, n) == \A k \in n + 1 .. Len(s) : k > 1 /\ s[k] = 128

\* 128s at the end of an OID add no arc, and leave an arc unfinished if it was.
LEMMA PaddingAddsNothing ==
    ASSUME NEW s \in Seq(Nat), NEW N \in Nat, N = Len(s), NEW n \in Nat, 1 <= n, n <= N, Padded(s, n)
    PROVE  /\ OidRead(s).arcs = OidRead(FirstOf(s, n)).arcs
           /\ OidRead(s).current = 0 <=> OidRead(FirstOf(s, n)).current = 0
<1> DEFINE Same(m) == /\ OidRead(FirstOf(s, m)).arcs = OidRead(FirstOf(s, n)).arcs
                      /\ OidRead(FirstOf(s, m)).current = 0 <=> OidRead(FirstOf(s, n)).current = 0
           T == {j \in Nat : n + j <= N => Same(n + j)}
<1>1. 0 \in T
  <2>1. n + 0 = n
    OBVIOUS
  <2>2. Same(n)
    OBVIOUS
  <2>3. Same(n + 0)
    BY <2>1, <2>2
  <2> QED
    BY <2>3
<1>2. ASSUME NEW j \in Nat, j \in T PROVE j + 1 \in T
  <2>1. ASSUME n + (j + 1) <= N PROVE Same(n + (j + 1))
    <3>1. PICK m \in Nat : m = n + j /\ 1 <= m /\ m <= N /\ m + 1 <= N /\ m + 1 = n + (j + 1)
      BY <2>1
    <3>2. PICK f \in Seq(Nat) : f = FirstOf(s, m) /\ f # <<>>
      BY <3>1, FirstOfFacts
    <3>3. FirstOf(s, m + 1) = Append(FirstOf(s, m), s[m + 1])
      BY <3>1, FirstOfFacts
    <3>4. s[m + 1] = 128
      BY <3>1 DEF Padded
    <3>5. PICK b \in Nat : b = 128 /\ FirstOf(s, m + 1) = Append(f, b)
      BY <3>2, <3>3, <3>4
    <3>6. PICK c \in Nat : c = OidRead(f).current
      BY <3>1, <3>2, CurrentIsNat
    <3>7. OidRead(Append(f, b)) = OidStep(OidRead(f), b)
      BY <3>2, OidReadOfAppend
    <3>8. OidStep(OidRead(f), b) = [OidRead(f) EXCEPT !.current = c * 128 + (b - 128)]
      BY <3>5, <3>6 DEF OidStep
    <3>9. c * 128 + (b - 128) = 0 <=> c = 0
      BY <3>5
    <3>10. OidStep(OidRead(f), b).arcs = OidRead(f).arcs
      BY <3>8
    <3>11. OidStep(OidRead(f), b).current = IF b >= 128 THEN c * 128 + (b - 128) ELSE 0
      BY <3>6 DEF OidStep
    <3>12. OidStep(OidRead(f), b).current = 0 <=> OidRead(f).current = 0
      <4>1. PICK d \in Nat : d = c * 128 + (b - 128)
        BY <3>5
      <4>2. OidStep(OidRead(f), b).current = d
        BY <3>5, <3>11, <4>1
      <4>3. d = 0 <=> c = 0
        BY <3>9, <4>1
      <4> QED
        BY <3>6, <4>2, <4>3
    <3>13. Same(m)
      BY <1>2, <3>1
    <3> QED
      BY <3>1, <3>2, <3>5, <3>7, <3>10, <3>12, <3>13
  <2> QED
    BY <2>1
<1>3. \A j \in Nat : j \in T
  <2> HIDE DEF T
  <2> QED
    BY <1>1, <1>2, Induction
<1>4. PICK j \in Nat : n + j = N
  <2>1. N - n \in Nat /\ n + (N - n) = N
    OBVIOUS
  <2> QED
    BY <2>1
<1>5. Same(N)
  <2>1. n + j <= N
    BY <1>4
  <2>2. Same(n + j)
    BY <1>3, <2>1
  <2> QED
    BY <1>4, <2>2
<1>6. FirstOf(s, N) = s
  BY SubSeqFull DEF FirstOf
<1> QED
  BY <1>5, <1>6

\* Trimmed cuts off all the 128s, and nothing else.
LEMMA TrimmedIs ==
    ASSUME NEW s \in Seq(Nat), NEW N \in Nat, N = Len(s)
    PROVE  \E n \in 0 .. N : Trimmed(s) = FirstOf(s, n) /\ Padded(s, n) /\ (n <= 1 \/ s[n] # 128)
<1> DEFINE Ends(n) == Padded(s, n) /\ (n <= 1 \/ s[n] # 128)
           T == {j \in Nat : j <= N /\ Padded(s, j) => \E n \in 0 .. N : Ends(n)}
<1>1. 0 \in T
  <2>1. ASSUME Padded(s, 0) PROVE \E n \in 0 .. N : Ends(n)
    <3>1. 0 \in 0 .. N /\ Ends(0)
      BY <2>1
    <3> QED
      BY <3>1
  <2> QED
    BY <2>1
<1>2. ASSUME NEW j \in Nat, j \in T PROVE j + 1 \in T
  <2>1. ASSUME j + 1 <= N, Padded(s, j + 1) PROVE \E n \in 0 .. N : Ends(n)
    <3>1. CASE j = 0 \/ s[j + 1] # 128
      <4>1. j + 1 \in 0 .. N /\ Ends(j + 1)
        BY <2>1, <3>1
      <4> QED
        BY <4>1
    <3>2. CASE j # 0 /\ s[j + 1] = 128
      <4>1. Padded(s, j)
        <5>1. ASSUME NEW k \in j + 1 .. Len(s) PROVE k > 1 /\ s[k] = 128
          <6>1. CASE k = j + 1
            BY <3>2, <6>1
          <6>2. CASE k # j + 1
            BY <2>1, <6>2 DEF Padded
          <6> QED
            BY <6>1, <6>2
        <5> QED
          BY <5>1 DEF Padded
      <4> QED
        BY <1>2, <2>1, <4>1
    <3> QED
      BY <3>1, <3>2
  <2> QED
    BY <2>1
<1>3. \A j \in Nat : j \in T
  <2> HIDE DEF T
  <2> QED
    BY <1>1, <1>2, Induction
<1>4. Padded(s, N)
  BY DEF Padded
<1>5. \E n \in 0 .. N : Ends(n)
  BY <1>3, <1>4
<1>6. Trimmed(s) = FirstOf(s, CHOOSE n \in 0 .. N : Ends(n))
  BY DEF Trimmed, FirstOf, Padded
<1>7. PICK m : m = CHOOSE n \in 0 .. N : Ends(n)
  OBVIOUS
<1>8. m \in 0 .. N /\ Ends(m)
  BY <1>5, <1>7, Zenon
<1> QED
  BY <1>6, <1>7, <1>8

\* What is left of an OID decides what decode_oid makes of it.
LEMMA TrimmedDecodes ==
    ASSUME NEW s \in Seq(Nat)
    PROVE  /\ Unfinished(Trimmed(s)) => DecodeOid(s) = <<>>
           /\ DecodeOid(s) # <<>> => DecodeOid(s) = DecodeOid(Trimmed(s))
<1>1. PICK N \in Nat : N = Len(s)
  BY LenProperties
<1>2. CASE s = <<>>
  BY <1>2 DEF DecodeOid
<1>3. CASE s # <<>>
  <2>1. N # 0
    BY <1>1, <1>3, EmptySeq
  <2>2. PICK n \in 0 .. N : Trimmed(s) = FirstOf(s, n) /\ Padded(s, n) /\ (n <= 1 \/ s[n] # 128)
    BY <1>1, TrimmedIs
  <2>3. n \in Nat /\ 1 <= n /\ n <= N
    <3>1. n # 0
      <4>1. ASSUME n = 0 PROVE FALSE
        <5>1. 1 \in n + 1 .. Len(s)
          BY <1>1, <2>1, <4>1
        <5> QED
          BY <2>2, <5>1 DEF Padded
      <4> QED
        BY <4>1
    <3> QED
      BY <3>1
  <2>4. PICK t : t = FirstOf(s, n)
    OBVIOUS
  <2>5. t \in Seq(Nat) /\ Len(t) = n /\ t # <<>> /\ t[n] = s[n] /\ s[n] \in Nat
    BY <1>1, <2>3, <2>4, FirstOfFacts
  <2>6. OidRead(s).arcs = OidRead(t).arcs /\ (OidRead(s).current = 0 <=> OidRead(t).current = 0)
    BY <1>1, <2>2, <2>3, <2>4, PaddingAddsNothing
  <2>7. DecodeOid(s) # <<>> => DecodeOid(s) = DecodeOid(t)
    BY <1>3, <2>5, <2>6 DEF DecodeOid
  <2>8. ASSUME Unfinished(t) PROVE DecodeOid(s) = <<>>
    <3>1. n > 1 /\ s[n] >= 128
      BY <2>5, <2>8 DEF Unfinished
    <3>2. s[n] > 128
      BY <2>2, <2>5, <3>1
    <3>3. PICK m \in Nat : n = m + 1 /\ 1 <= m /\ m <= N /\ m + 1 <= N
      <4>1. n - 1 \in Nat /\ n = (n - 1) + 1 /\ 1 <= n - 1 /\ n - 1 <= N /\ (n - 1) + 1 <= N
        BY <2>3, <3>1
      <4> QED
        BY <4>1
    <3>4. PICK f \in Seq(Nat) : f = FirstOf(s, m) /\ f # <<>>
      BY <1>1, <3>3, FirstOfFacts
    <3>5. FirstOf(s, m + 1) = Append(FirstOf(s, m), s[m + 1])
      BY <1>1, <3>3, FirstOfFacts
    <3>6. PICK b \in Nat : b = s[n] /\ b > 128
      BY <2>5, <3>2
    <3>7. t = Append(f, b)
      BY <2>4, <3>3, <3>4, <3>5, <3>6
    <3>8. PICK c \in Nat : c = OidRead(f).current
      BY <1>1, <3>3, <3>4, CurrentIsNat
    <3>9. OidRead(Append(f, b)) = OidStep(OidRead(f), b)
      BY <3>4, OidReadOfAppend
    <3>10. OidStep(OidRead(f), b).current = IF b >= 128 THEN c * 128 + (b - 128) ELSE 0
      BY <3>8 DEF OidStep
    <3>11. (IF b >= 128 THEN c * 128 + (b - 128) ELSE 0) # 0
      BY <3>6
    <3>12. OidRead(t).current # 0
      BY <3>7, <3>9, <3>10, <3>11
    <3> QED
      BY <1>3, <2>6, <3>12 DEF DecodeOid
  <2> QED
    BY <2>2, <2>4, <2>7, <2>8
<1> QED
  BY <1>2, <1>3

-----------------------------------------------------------------------------
(* The stand-alone receiver, network/snmp_traps.py:169-202.                 *)

\* What is sent: an OID encoded by us, or the bytes of a device.
Packet(m) == Trap(m.version, m.oid, m.community, m.text)
IsMeant(m) ==
    /\ IsSent(m.version, m.oid, m.community, m.text)
    /\ m.arcs # <<>> => IsOid(m.arcs) /\ m.oid = OidBytes(m.arcs)
Arrived(datagram, m) == \E n \in 0 .. 4 : datagram = LongForm(Packet(m), n)
PartOf(datagram, whole) == \E k \in 1 .. Len(whole) - 1 : datagram = SubSeq(whole, 1, k)
MoreThan(datagram, whole) == \E b \in {0, 48} : datagram = Append(whole, b)
Damaged(datagram, m) ==
    \E n \in 0 .. 4 : PartOf(datagram, LongForm(Packet(m), n)) \/ MoreThan(datagram, LongForm(Packet(m), n))
\* The inductive invariant: the datagram on its way is what its sender meant,
\* whole in one of the forms of its length, or damaged once.
WireInv ==
    /\ allowed \subseteq {c \in Communities : Ascii(c)}
    /\ intact \in BOOLEAN
    /\ wire # <<>> => /\ answer = None /\ IsMeant(meant)
                      /\ intact => Arrived(wire, meant)
                      /\ ~ intact => Damaged(wire, meant)

\* A damaged datagram is no trap (snmp_traps.py:105).
LEMMA DamagedIsNotParsed ==
    ASSUME NEW datagram, NEW m, IsMeant(m), Damaged(datagram, m)
    PROVE  ParseTrap(datagram) = Invalid
<1>1. PICK n \in 0 .. 4 : PartOf(datagram, LongForm(Packet(m), n)) \/ MoreThan(datagram, LongForm(Packet(m), n))
  BY DEF Damaged
<1>2. PICK body : Short(body) /\ Packet(m) = Tlv(List, body)
  <2>1. IsSent(m.version, m.oid, m.community, m.text)
    BY DEF IsMeant
  <2>2. \E body : Short(body) /\ Trap(m.version, m.oid, m.community, m.text) = Tlv(List, body)
    BY <1>1, <2>1, ParsedAsMeant
  <2> QED
    BY <2>2 DEF Packet
<1>3. body \in Seq(Nat) /\ Len(body) < 128 /\ List \in Nat
  BY <1>2, Numbers DEF Short
<1>4. PICK w : w = LongForm(Tlv(List, body), n)
  OBVIOUS
<1>5. CASE PartOf(datagram, w)
  <2>1. PICK k \in 1 .. Len(w) - 1 : datagram = SubSeq(w, 1, k)
    BY <1>5 DEF PartOf
  <2>2. Items(1, SubSeq(w, 1, k)) = Broken
    BY <1>3, <1>4, <2>1, PartIsNoItem
  <2>3. Items(1, datagram).ok # TRUE
    <3>1. Broken.ok = FALSE
      BY DEF Broken
    <3>2. Items(1, datagram).ok = FALSE
      BY <2>1, <2>2, <3>1
    <3> QED
      BY <3>2
  <2> QED
    BY <2>3, DamagedIsInvalid
<1>6. CASE MoreThan(datagram, w)
  <2>1. PICK b \in Nat : datagram = Append(w, b)
    BY <1>6 DEF MoreThan
  <2>2. Items(1, Append(w, b)).rest # <<>>
    BY <1>3, <1>4, MoreIsLeft
  <2> QED
    BY <2>1, <2>2, DamagedIsInvalid
<1> QED
  BY <1>1, <1>2, <1>4, <1>5, <1>6

\* A whole one is the trap that was meant.
LEMMA WholeIsParsed ==
    ASSUME NEW datagram, NEW m, IsMeant(m), Arrived(datagram, m)
    PROVE  ParseTrap(datagram) = IF DecodeOid(m.oid) = <<>> THEN Invalid
                               ELSE Logged(m.version, Replaced(m.community), DecodeOid(m.oid), m.text)
<1>1. PICK n \in 0 .. 4 : datagram = LongForm(Packet(m), n)
  BY DEF Arrived
<1>2. IsSent(m.version, m.oid, m.community, m.text)
  BY DEF IsMeant
<1> QED
  BY <1>1, <1>2, ParsedAsMeant DEF Packet

\* A community of which bytes were replaced is none that may be allowed.
LEMMA ReplacedIsAllowed ==
    ASSUME NEW community \in Seq(Nat), NEW names, \A c \in names : Ascii(c)
    PROVE  Replaced(community) \in names <=> community \in names
<1>1. CASE Ascii(community)
  <2>1. Replaced(community) = community
    <3>1. community = [k \in DOMAIN community |-> community[k]]
      OBVIOUS
    <3>2. \A k \in DOMAIN community : community[k] < 128
      BY <1>1 DEF Ascii
    <3> QED
      BY <3>1, <3>2 DEF Replaced
  <2> QED
    BY <2>1
<1>2. CASE ~ Ascii(community)
  <2>1. PICK k \in DOMAIN community : ~ (community[k] < 128)
    BY <1>2 DEF Ascii
  <2>2. PICK r : r = Replaced(community)
    OBVIOUS
  <2>3. k \in DOMAIN r /\ r[k] = 65533
    BY <2>1, <2>2 DEF Replaced
  <2>4. ~ (65533 < 128)
    OBVIOUS
  <2>5. ~ Ascii(r)
    BY <2>3, <2>4 DEF Ascii
  <2> QED
    BY <1>2, <2>2, <2>5
<1> QED
  BY <1>1, <1>2

\* A sequence of some numbers is a sequence of numbers.
LEMMA Widened ==
    ASSUME NEW S, S \subseteq Nat, NEW s \in Seq(S)
    PROVE  s \in Seq(Nat) /\ \A k \in DOMAIN s : s[k] \in S
<1>1. PICK n \in Nat : n = Len(s)
  BY LenProperties
<1>2. DOMAIN s = 1 .. n /\ \A k \in 1 .. n : s[k] \in S
  BY <1>1, LenProperties, ElementOfSeq
<1>3. PICK t : t = SubSeq(s, 1, n)
  OBVIOUS
<1>4. t = s
  BY <1>1, <1>3, SubSeqFull
<1>5. \A k \in 1 .. n : s[k] \in Nat
  BY <1>2
<1>6. t \in Seq(Nat)
  BY <1>3, <1>5, SubSeqProperties
<1> QED
  BY <1>2, <1>4, <1>6

\* Texts are ASCII, and all of a sender's choices are sequences of bytes.
LEMMA ChoicesFacts ==
    /\ \A text \in {<<>>} \cup CriticalTexts \cup WarningTexts : text \in Seq(Nat) /\ Ascii(text)
    /\ \A c \in Communities : c \in Seq(Nat)
    /\ \A oid \in RawOids : oid \in Seq(Nat)
    /\ \A arcs \in Oids : IsOid(arcs)
<1>1. ASSUME NEW s \in Seq(0 .. 127) PROVE s \in Seq(Nat) /\ Ascii(s)
  <2>1. PICK S : S = 0 .. 127
    OBVIOUS
  <2>2. S \subseteq Nat /\ \A x \in S : x < 128
    BY <2>1
  <2>3. s \in Seq(S)
    BY <2>1
  <2>4. s \in Seq(Nat) /\ \A k \in DOMAIN s : s[k] \in S
    BY <2>2, <2>3, Widened
  <2> QED
    BY <2>2, <2>4 DEF Ascii
<1>2. ASSUME NEW s \in Seq(0 .. 255) PROVE s \in Seq(Nat)
  <2>1. PICK S : S = 0 .. 255
    OBVIOUS
  <2>2. S \subseteq Nat
    BY <2>1
  <2>3. s \in Seq(S)
    BY <2>1
  <2> QED
    BY <2>2, <2>3, Widened
<1>3. <<>> \in Seq(0 .. 127)
  OBVIOUS
<1>4. \A text \in {<<>>} \cup CriticalTexts \cup WarningTexts : text \in Seq(0 .. 127)
  BY <1>3, TextsAssumption
<1> QED
  BY <1>1, <1>2, <1>4, BytesAssumption, OidsAssumption DEF IsOid

\* Sending puts a whole message on its way.
LEMMA EmitKeeps ==
    ASSUME NEW version \in {"1", "2c"}, NEW arcs, NEW oid \in Seq(Nat), NEW community \in Seq(Nat),
           NEW text \in Seq(Nat), Ascii(text), version = "2c" => text = <<>>, NEW form \in 0 .. 4,
           arcs # <<>> => IsOid(arcs) /\ oid = OidBytes(arcs),
           WireInv, Emit(version, arcs, oid, community, text, form)
    PROVE  WireInv' /\ answer' = None
<1>1. PICK m : m = [version |-> version, arcs |-> arcs, oid |-> oid, community |-> community, text |-> text]
  OBVIOUS
<1>2. /\ meant' = m /\ wire' = LongForm(Trap(version, oid, community, text), form) /\ intact' = TRUE
      /\ answer' = None /\ allowed' = allowed /\ Len(Trap(version, oid, community, text)) <= 129
  BY <1>1 DEF Emit
<1>3. m.version = version /\ m.arcs = arcs /\ m.oid = oid /\ m.community = community /\ m.text = text
  BY <1>1
<1>4. IsMeant(m)
  BY <1>2, <1>3 DEF IsMeant, IsSent
<1>5. Arrived(wire', m)
  BY <1>2, <1>3 DEF Arrived, Packet
<1> QED
  BY <1>2, <1>4, <1>5 DEF WireInv

\* Everything but serving leaves the last answer, or takes it away.
LEMMA OtherSteps ==
    ASSUME WireInv, SendTrap \/ SendRaw \/ Cut \/ Extend \/ Await
    PROVE  WireInv' /\ answer' = None
<1>1. CASE SendTrap
  <2>1. PICK arcs \in Oids, community \in Communities, form \in 0 .. 4 :
          \/ Emit("2c", arcs, OidBytes(arcs), community, <<>>, form)
          \/ \E text \in {<<>>} \cup CriticalTexts \cup WarningTexts :
                Emit("1", arcs, OidBytes(arcs), community, text, form)
    BY <1>1 DEF SendTrap
  <2>2. IsOid(arcs) /\ community \in Seq(Nat)
    BY <2>1, ChoicesFacts
  <2>3. PICK oid \in Seq(Nat) : oid = OidBytes(arcs)
    BY <2>2, OidRoundTrip
  <2>4. CASE Emit("2c", arcs, OidBytes(arcs), community, <<>>, form)
    <3>1. PICK text \in Seq(Nat) : text = <<>> /\ Ascii(text)
      BY ChoicesFacts
    <3>2. Emit("2c", arcs, oid, community, text, form)
      BY <2>3, <2>4, <3>1
    <3> QED
      BY <2>2, <2>3, <3>1, <3>2, EmitKeeps
  <2>5. CASE \E text \in {<<>>} \cup CriticalTexts \cup WarningTexts :
                Emit("1", arcs, OidBytes(arcs), community, text, form)
    <3>1. PICK text \in {<<>>} \cup CriticalTexts \cup WarningTexts : Emit("1", arcs, oid, community, text, form)
      BY <2>3, <2>5
    <3>2. text \in Seq(Nat) /\ Ascii(text)
      BY ChoicesFacts
    <3> QED
      BY <2>2, <2>3, <3>1, <3>2, EmitKeeps
  <2> QED
    BY <2>1, <2>4, <2>5
<1>2. CASE SendRaw
  <2>1. PICK version \in {"1", "2c"}, community \in Communities, oid \in RawOids :
          Emit(version, <<>>, oid, community, <<>>, 0)
    BY <1>2 DEF SendRaw
  <2>2. community \in Seq(Nat) /\ oid \in Seq(Nat)
    BY <2>1, ChoicesFacts
  <2>3. PICK text \in Seq(Nat) : text = <<>> /\ Ascii(text)
    BY ChoicesFacts
  <2>4. PICK form \in 0 .. 4 : form = 0
    OBVIOUS
  <2>5. PICK arcs : arcs = <<>>
    OBVIOUS
  <2>6. Emit(version, arcs, oid, community, text, form)
    BY <2>1, <2>3, <2>4, <2>5
  <2> QED
    BY <2>1, <2>2, <2>3, <2>5, <2>6, EmitKeeps
<1>3. CASE Cut
  <2>1. /\ wire # <<>> /\ intact = TRUE /\ intact' = FALSE /\ allowed' = allowed /\ meant' = meant /\ answer' = answer
        /\ \E n \in 1 .. Len(wire) - 1 : wire' = SubSeq(wire, 1, n)
    BY <1>3 DEF Cut, WireInv
  <2>2. answer = None /\ IsMeant(meant) /\ Arrived(wire, meant)
    BY <2>1 DEF WireInv
  <2>3. Damaged(wire', meant)
    BY <2>1, <2>2 DEF Arrived, Damaged, PartOf
  <2> QED
    BY <2>1, <2>2, <2>3 DEF WireInv
<1>4. CASE Extend
  <2>1. /\ wire # <<>> /\ intact = TRUE /\ intact' = FALSE /\ allowed' = allowed /\ meant' = meant /\ answer' = answer
        /\ \E b \in {0, 48} : wire' = Append(wire, b)
    BY <1>4 DEF Extend, WireInv
  <2>2. answer = None /\ IsMeant(meant) /\ Arrived(wire, meant)
    BY <2>1 DEF WireInv
  <2>3. Damaged(wire', meant)
    BY <2>1, <2>2 DEF Arrived, Damaged, MoreThan
  <2> QED
    BY <2>1, <2>2, <2>3 DEF WireInv
<1>5. CASE Await
  <2>1. wire' = wire /\ wire = <<>> /\ intact' = TRUE /\ allowed' = allowed /\ answer' = None
    BY <1>5 DEF Await, WireInv
  <2> QED
    BY <2>1 DEF WireInv
<1> QED
  BY <1>1, <1>2, <1>3, <1>4, <1>5

TrapsAreServedWell == TrapsAreReadAsMeant /\ DamagedTrapsAreRejected /\ OnlyPaddingIsTolerated

\* What serve does with a datagram that arrived whole.
LEMMA WholeIsServed ==
    ASSUME WireInv, Serve, intact
    PROVE  /\ IsMeant(meant)
           /\ answer' \in IF DecodeOid(meant.oid) = <<>> THEN {[result |-> "invalid"]}
                          ELSE IF ~ Accepted(meant.community) THEN {[result |-> "rejected"]}
                          ELSE {[result |-> "logged", version |-> meant.version,
                                 oid |-> [as |-> "oid", value |-> DecodeOid(meant.oid)],
                                 severity |-> Grade(DecodeOid(meant.oid), meant.text)], Died}
<1>1. IsMeant(meant) /\ Arrived(wire, meant)
  BY DEF WireInv, Serve
<1>2. PICK event : event = ParseTrap(wire)
  OBVIOUS
<1>3. answer' \in IF event = Invalid THEN {[result |-> "invalid"]}
                  ELSE IF ~ Allows(event) THEN {[result |-> "rejected"]}
                  ELSE {[result |-> "logged", version |-> event.version, oid |-> event.oid,
                         severity |-> event.severity], Died}
  BY <1>2 DEF Serve, Answers
<1>4. event = IF DecodeOid(meant.oid) = <<>> THEN Invalid
              ELSE Logged(meant.version, Replaced(meant.community), DecodeOid(meant.oid), meant.text)
  BY <1>1, <1>2, WholeIsParsed
<1>5. CASE DecodeOid(meant.oid) = <<>>
  BY <1>1, <1>3, <1>4, <1>5
<1>6. CASE DecodeOid(meant.oid) # <<>>
  <2>1. /\ event.version = meant.version /\ event.community = Replaced(meant.community)
        /\ event.oid = [as |-> "oid", value |-> DecodeOid(meant.oid)]
        /\ event.severity = Grade(DecodeOid(meant.oid), meant.text)
    BY <1>4, <1>6 DEF Logged
  <2>2. event # Invalid
    <3>1. meant.version # "none"
      BY <1>1 DEF IsMeant, IsSent
    <3>2. Invalid.version = "none"
      BY DEF Invalid
    <3> QED
      BY <2>1, <3>1, <3>2
  <2>3. Allows(event) <=> Accepted(meant.community)
    <3>1. meant.community \in Seq(Nat) /\ \A c \in allowed : Ascii(c)
      BY <1>1 DEF IsMeant, IsSent, WireInv
    <3>2. Replaced(meant.community) \in allowed <=> meant.community \in allowed
      BY <3>1, ReplacedIsAllowed
    <3> QED
      BY <2>1, <3>2 DEF Allows, Accepted
  <2> QED
    BY <1>1, <1>3, <1>6, <2>1, <2>2, <2>3
<1> QED
  BY <1>5, <1>6

\* So the answer is the one the three properties ask for.
LEMMA ServeAnswersWell ==
    ASSUME WireInv, Serve
    PROVE  WireInv' /\ TrapsAreServedWell'
<1>1. /\ wire # <<>> /\ wire' = <<>> /\ allowed' = allowed /\ meant' = meant /\ intact' = intact
      /\ intact \in BOOLEAN /\ allowed \subseteq {c \in Communities : Ascii(c)}
  BY DEF Serve, WireInv
<1>2. WireInv'
  BY <1>1 DEF WireInv
<1>3. CASE ~ intact
  <2>1. IsMeant(meant) /\ Damaged(wire, meant)
    BY <1>1, <1>3 DEF WireInv
  <2>2. ParseTrap(wire) = Invalid
    BY <2>1, DamagedIsNotParsed
  <2>3. answer' = [result |-> "invalid"]
    BY <2>2 DEF Serve, Answers
  <2>4. answer'.result = "invalid"
    BY <2>3
  <2>5. TrapsAreReadAsMeant' /\ OnlyPaddingIsTolerated'
    BY <1>1, <1>3 DEF TrapsAreReadAsMeant, OnlyPaddingIsTolerated
  <2>6. DamagedTrapsAreRejected'
    BY <2>4 DEF DamagedTrapsAreRejected
  <2> QED
    BY <1>2, <2>5, <2>6 DEF TrapsAreServedWell
<1>4. CASE intact
  <2>1. PICK arcs : arcs = DecodeOid(meant.oid)
    OBVIOUS
  <2>2. /\ IsMeant(meant)
        /\ answer' \in IF arcs = <<>> THEN {[result |-> "invalid"]}
                       ELSE IF ~ Accepted(meant.community) THEN {[result |-> "rejected"]}
                       ELSE {[result |-> "logged", version |-> meant.version, oid |-> [as |-> "oid", value |-> arcs],
                              severity |-> Grade(arcs, meant.text)], Died}
    BY <1>4, <2>1, WholeIsServed
  <2>3. TrapsAreReadAsMeant'
    <3>1. ASSUME meant.arcs # <<>> PROVE arcs = meant.arcs
      <4>1. IsOid(meant.arcs) /\ meant.oid = OidBytes(meant.arcs)
        BY <2>2, <3>1 DEF IsMeant
      <4> QED
        BY <2>1, <4>1, OidRoundTrip
    <3>2. Accepted(meant.community)' <=> Accepted(meant.community)
      BY <1>1 DEF Accepted
    <3> QED
      BY <1>1, <2>2, <3>1, <3>2 DEF TrapsAreReadAsMeant, Grade
  <2>4. DamagedTrapsAreRejected'
    BY <1>1, <1>4 DEF DamagedTrapsAreRejected
  <2>5. OnlyPaddingIsTolerated'
    <3>1. meant.oid \in Seq(Nat)
      BY <2>2 DEF IsMeant, IsSent
    <3>2. PICK left : left = Trimmed(meant.oid)
      OBVIOUS
    <3>3. (Unfinished(left) => arcs = <<>>) /\ (arcs # <<>> => arcs = DecodeOid(left))
      BY <2>1, <3>1, <3>2, TrimmedDecodes
    <3>4. arcs = <<>> => answer'.result = "invalid"
      BY <2>2
    <3>5. answer'.result = "logged" => answer'.oid.value = DecodeOid(left)
      <4>1. CASE arcs = <<>>
        BY <3>4, <4>1
      <4>2. CASE ~ Accepted(meant.community) /\ arcs # <<>>
        BY <2>2, <4>2
      <4>3. CASE Accepted(meant.community) /\ arcs # <<>>
        <5>1. answer' = Died \/ answer'.oid = [as |-> "oid", value |-> arcs]
          BY <2>2, <4>3
        <5>2. Died.result # "logged"
          BY DEF Died
        <5> QED
          BY <3>3, <4>3, <5>1, <5>2
      <4> QED
        BY <4>1, <4>2, <4>3
    <3> QED
      BY <1>1, <3>2, <3>3, <3>4, <3>5 DEF OnlyPaddingIsTolerated
  <2> QED
    BY <1>2, <2>3, <2>4, <2>5 DEF TrapsAreServedWell
<1> QED
  BY <1>3, <1>4

\* They ask for nothing while there is no answer.
LEMMA NothingToAnswer == answer = None => TrapsAreServedWell
BY DEF TrapsAreServedWell, TrapsAreReadAsMeant, DamagedTrapsAreRejected, OnlyPaddingIsTolerated, Answered

\* Every step keeps the invariant and the properties.
LEMMA TrapStep ==
    WireInv /\ TrapsAreServedWell /\ [TrapNext]_trapVars => (WireInv /\ TrapsAreServedWell)'
<1> SUFFICES ASSUME WireInv, TrapsAreServedWell, [TrapNext]_trapVars
             PROVE  (WireInv /\ TrapsAreServedWell)'
  OBVIOUS
<1>1. CASE SendTrap \/ SendRaw \/ Cut \/ Extend \/ Await
  <2>1. WireInv' /\ answer' = None
    BY <1>1, OtherSteps
  <2>2. TrapsAreServedWell'
    BY <2>1 DEF TrapsAreServedWell, TrapsAreReadAsMeant, DamagedTrapsAreRejected, OnlyPaddingIsTolerated, Answered
  <2> QED
    BY <2>1, <2>2
<1>2. CASE Serve
  BY <1>2, ServeAnswersWell
<1>3. CASE UNCHANGED trapVars
  BY <1>3 DEF trapVars, WireInv, TrapsAreServedWell, TrapsAreReadAsMeant, DamagedTrapsAreRejected,
              OnlyPaddingIsTolerated, Answered, Accepted
<1> QED
  BY <1>1, <1>2, <1>3 DEF TrapNext

\* The invariant of a whole datagram on its way, and the properties with it.
THEOREM ReceiverOfTraps == TrapSpec => [](WireInv /\ TrapsAreServedWell)
<1>1. TrapInit => WireInv /\ TrapsAreServedWell
  <2>1. TrapInit => WireInv /\ answer = None
    BY DEF TrapInit, WireInv
  <2> QED
    BY <2>1, NothingToAnswer
<1> QED
  BY <1>1, TrapStep, PTL DEF TrapSpec

\* A trap that arrives as it was sent is logged as it was meant or rejected by
\* its community, unless the log cannot be written and ends the receiver, for
\* every OID, community and text of a short message: the decoder of
\* snmp_traps.py inverts the encoder of simulator.py, arcs of any size and
\* lengths of every form included.
THEOREM TrapsReadAsMeant == TrapSpec => []TrapsAreReadAsMeant
<1>1. TrapsAreServedWell => TrapsAreReadAsMeant
  BY DEF TrapsAreServedWell
<1> QED
  BY <1>1, ReceiverOfTraps, PTL

\* A datagram that was cut off anywhere, or that has a byte too many, is
\* INVALID (snmp_traps.py:36-52, 105).
THEOREM DamagedTrapsRejected == TrapSpec => []DamagedTrapsAreRejected
<1>1. TrapsAreServedWell => DamagedTrapsAreRejected
  BY DEF TrapsAreServedWell
<1> QED
  BY <1>1, ReceiverOfTraps, PTL

\* Whatever bytes a device sends as an OID: one that is cut off within an arc
\* is refused, 128s at its end excepted (snmp_traps.py:66).
THEOREM OnlyPaddingTolerated == TrapSpec => []OnlyPaddingIsTolerated
<1>1. TrapsAreServedWell => OnlyPaddingIsTolerated
  BY DEF TrapsAreServedWell
<1> QED
  BY <1>1, ReceiverOfTraps, PTL
=============================================================================
