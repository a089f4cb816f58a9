---------------------------- MODULE SnmpService ----------------------------
(* The background SNMP receiver, app/services.py, a daemon thread of the    *)
(* web process, with the datagrams that simulate_trap                       *)
(* (app/__init__.py:290-315) and lab devices send to its UDP port and the   *)
(* ready flag that the dashboard reads from the request threads.            *)
(*                                                                          *)
(* What parse_trap makes of a datagram is one of four kinds: "garbage",     *)
(* which raises SnmpDecodeError, "foreign", a trap with another community,  *)
(* "allowed", and "outsized", a message of any community with a number of   *)
(* more than 4300 digits: str() raises a ValueError that is none of         *)
(* SnmpDecodeError (snmp_traps.py:68, 75).  The network may lose a          *)
(* datagram; the loopback interface neither duplicates nor reorders them.   *)
EXTENDS Naturals, Sequences, SequencesExt

CONSTANTS
    QueueSize,     \* datagrams the socket's buffer holds
    MaxPackets,    \* bound: datagrams sent
    MaxFaults      \* bound: calls of the receiver that fail

ASSUME BoundsAssumption == {QueueSize, MaxPackets, MaxFaults} \subseteq Nat

VARIABLES
    sent,        \* datagrams sent so far
    queue,       \* the receive buffer of the bound socket
    bound,       \* is the socket open and bound?
    ready,       \* self.ready
    error,       \* is self.error set?
    stopped,     \* stop_event.is_set()
    pc,          \* where the thread is in _run
    packet,      \* the datagram it works on
    lines,       \* the numbers of the traps in logs/snmp_traps.jsonl
    rows,        \* the numbers of the traps in events
    alerts,      \* the numbers of the traps notified
    reported,    \* service_error rows
    faults       \* failures so far

netVars == <<sent, queue, bound>>
flagVars == <<ready, error>>
recordVars == <<lines, rows, alerts, reported>>
receiverVars == <<flagVars, pc, packet, recordVars>>
vars == <<netVars, stopped, receiverVars, faults>>

Kinds == {"garbage", "foreign", "allowed", "outsized"}
Packets == [n : 1 .. MaxPackets, kind : Kinds]
NoPacket == [n |-> 0, kind |-> "garbage"]

Init ==
    /\ sent = 0 /\ queue = <<>>
    /\ bound = FALSE /\ ready = FALSE /\ error = FALSE /\ stopped = FALSE
    /\ pc = "binding" /\ packet = NoPacket
    /\ lines = <<>> /\ rows = <<>> /\ alerts = <<>>
    /\ reported = 0 /\ faults = 0

Fault == faults < MaxFaults /\ faults' = faults + 1

\* Leaving the with statement closes the socket; what is queued is lost.
CloseSocket == bound' = FALSE /\ queue' = <<>>

-----------------------------------------------------------------------------

\* sendto succeeds whether or not a receiver is there; a datagram is queued
\* if the socket is bound and its buffer has room, and may be lost anyway.
Send(kind) ==
    /\ sent < MaxPackets
    /\ sent' = sent + 1
    /\ \/ bound /\ Len(queue) < QueueSize /\ queue' = Append(queue, [n |-> sent', kind |-> kind])
       \/ UNCHANGED queue
    /\ UNCHANGED <<bound, stopped, receiverVars, faults>>

\* 35-38.
Bind ==
    /\ pc = "binding"
    /\ bound' = TRUE
    /\ ready' = TRUE
    /\ pc' = "waiting"
    /\ UNCHANGED <<sent, queue, stopped, error, packet, recordVars, faults>>

\* The port is taken: OSError.
BindFails ==
    /\ Fault
    /\ pc = "binding"
    /\ error' = TRUE
    /\ pc' = "reporting"
    /\ UNCHANGED <<netVars, stopped, ready, packet, recordVars>>

\* 39-43; a timeout goes round the loop and changes nothing.
Receive ==
    /\ pc = "waiting" /\ ~ stopped
    /\ queue # <<>>
    /\ packet' = Head(queue)
    /\ queue' = Tail(queue)
    /\ pc' = "parsing"
    /\ UNCHANGED <<sent, bound, stopped, flagVars, recordVars, faults>>

LeaveLoop ==
    /\ pc = "waiting" /\ stopped
    /\ CloseSocket
    /\ pc' = "ending"
    /\ UNCHANGED <<sent, stopped, flagVars, packet, recordVars, faults>>

\* Mutated form of Parse: a trap that is not taken ends the loop.
ParseOrLeave ==
    /\ pc = "parsing" /\ packet.kind # "outsized"
    /\ IF packet.kind = "allowed"
       THEN pc' = "writing" /\ UNCHANGED <<queue, bound>>
       ELSE pc' = "ending" /\ CloseSocket
    /\ UNCHANGED <<sent, stopped, flagVars, packet, recordVars, faults>>

\* 45-47 and 52-53: garbage and foreign traps are dropped without a trace.
Parse ==
    /\ pc = "parsing" /\ packet.kind # "outsized"
    /\ pc' = IF packet.kind = "allowed" THEN "writing" ELSE "waiting"
    /\ UNCHANGED <<netVars, stopped, flagVars, packet, recordVars, faults>>

\* 45: neither 52 nor 54 catches the ValueError of an outsized datagram, which
\* comes before its community is looked at: the thread ends, self.error empty.
ParseRaises ==
    /\ pc = "parsing" /\ packet.kind = "outsized"
    /\ CloseSocket
    /\ pc' = "ending"
    /\ UNCHANGED <<sent, stopped, flagVars, packet, recordVars, faults>>

\* 48.
WriteAlert ==
    /\ pc = "writing"
    /\ lines' = Append(lines, packet.n)
    /\ pc' = "storing"
    /\ UNCHANGED <<netVars, stopped, flagVars, packet, rows, alerts, reported, faults>>

\* Mutated form of WriteFails: the receiver goes on with the trap.
WriteFailureIgnored ==
    /\ Fault
    /\ pc = "writing"
    /\ pc' = "storing"
    /\ UNCHANGED <<netVars, stopped, flagVars, packet, recordVars>>

\* An OSError of the file, its line written or not: the socket is closed on
\* the way to the handler at 54-55.
WriteFails ==
    /\ Fault
    /\ pc = "writing"
    /\ lines' \in {lines, Append(lines, packet.n)}
    /\ CloseSocket
    /\ error' = TRUE
    /\ pc' = "reporting"
    /\ UNCHANGED <<sent, stopped, ready, packet, rows, alerts, reported>>

\* 50.
AddEvent ==
    /\ pc = "storing"
    /\ rows' = Append(rows, packet.n)
    /\ pc' = "notifying"
    /\ UNCHANGED <<netVars, stopped, flagVars, packet, lines, alerts, reported, faults>>

\* sqlite3.OperationalError is neither an OSError nor a SnmpDecodeError: the
\* thread ends and self.error stays empty.
AddEventFails ==
    /\ Fault
    /\ pc = "storing"
    /\ CloseSocket
    /\ pc' = "ending"
    /\ UNCHANGED <<sent, stopped, flagVars, packet, recordVars>>

\* 51: notify() swallows what its channels raise, after up to five seconds.
Notify ==
    /\ pc = "notifying"
    /\ alerts' = Append(alerts, packet.n)
    /\ pc' = "waiting"
    /\ UNCHANGED <<netVars, stopped, flagVars, packet, lines, rows, reported, faults>>

\* 56, which may wait for the database and fail in its turn.
Report ==
    /\ pc = "reporting"
    /\ reported' = reported + 1
    /\ pc' = "ending"
    /\ UNCHANGED <<netVars, stopped, flagVars, packet, lines, rows, alerts, faults>>

ReportFails ==
    /\ Fault
    /\ pc = "reporting"
    /\ pc' = "ending"
    /\ UNCHANGED <<netVars, stopped, flagVars, packet, recordVars>>

\* Mutated form of End: ready is cleared only if the loop left by the event.
EndAsStopped ==
    /\ pc = "ending"
    /\ ready' = ~ stopped
    /\ pc' = "dead"
    /\ UNCHANGED <<netVars, stopped, error, packet, recordVars, faults>>

\* 57-58: the finally clause.  Nothing starts the thread again.
End ==
    /\ pc = "ending"
    /\ ready' = FALSE
    /\ pc' = "dead"
    /\ UNCHANGED <<netVars, stopped, error, packet, recordVars, faults>>

\* stop_event.set(), as the tests do.
Stop ==
    /\ ~ stopped
    /\ stopped' = TRUE
    /\ UNCHANGED <<netVars, receiverVars, faults>>

Receiver == \/ Bind \/ Receive \/ LeaveLoop \/ Parse \/ ParseRaises \/ WriteAlert
            \/ AddEvent \/ Notify \/ Report \/ End

Failure == BindFails \/ WriteFails \/ AddEventFails \/ ReportFails

\* Nothing is sent any more and the receiver waits, or is gone.
Quiet == /\ sent = MaxPackets
         /\ pc = "dead" \/ (pc = "waiting" /\ queue = <<>>)
         /\ UNCHANGED vars

Next == (\E kind \in Kinds : Send(kind)) \/ Receiver \/ Failure \/ Stop \/ Quiet

\* The thread runs for as long as it has something to do.
Spec == Init /\ [][Next]_vars /\ WF_vars(Receiver)

-----------------------------------------------------------------------------

SnmpTypeOK ==
    /\ sent \in 0 .. MaxPackets
    /\ queue \in Seq(Packets) /\ Len(queue) <= QueueSize
    /\ {bound, ready, error, stopped} \subseteq BOOLEAN
    /\ pc \in {"binding", "waiting", "parsing", "writing", "storing", "notifying",
               "reporting", "ending", "dead"}
    /\ packet \in Packets \cup {NoPacket}
    /\ lines \in Seq(1 .. MaxPackets)
    /\ rows \in Seq(1 .. MaxPackets) /\ alerts \in Seq(1 .. MaxPackets)
    /\ reported \in 0 .. 1 /\ faults \in 0 .. MaxFaults

Increasing(s) == \A i, j \in DOMAIN s : i < j => s[i] < s[j]

\* The JSONL audit log, the events and the notifications tell one story:
\* each trap once and in the order of arrival, the notified ones a prefix of
\* the stored, those a prefix of the logged, and never more than the trap in
\* hand, or the one the receiver died of, between them.
RecordsAgree ==
    /\ Increasing(lines)
    /\ IsPrefix(rows, lines) /\ IsPrefix(alerts, rows)
    /\ Len(lines) - Len(rows) <= 1 /\ Len(rows) - Len(alerts) <= 1
    /\ pc = "waiting" => lines = rows /\ rows = alerts

\* A receiver that has lost its socket, whatever it died of, is not shown as
\* online for good: only while it reports the error (54-58).
DeadIsOffline == ready /\ ~ bound ~> ~ ready

\* The receiver has taken an outsized datagram that was sent before the nth.
EndedBefore(n) == packet.kind = "outsized" /\ packet.n < n

\* An allowed trap that reached the buffer is stored and notified, unless a
\* call of the receiver fails, it is stopped, or an outsized datagram that is
\* older ends it (45, 52): garbage and foreign traps in front of it, and
\* whatever is sent behind it, do not keep it from the store.
QueuedTrapsAreStored ==
    \A n \in 1 .. MaxPackets :
        [n |-> n, kind |-> "allowed"] \in ToSet(queue)
            ~> n \in ToSet(alerts) \/ faults > 0 \/ stopped \/ EndedBefore(n)
=============================================================================
