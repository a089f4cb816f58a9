---------------------------- MODULE TrapReceiver ----------------------------
(* The stand-alone receiver, network/snmp_traps.py:169-202: one loop that   *)
(* takes a datagram, parses it and drops it or writes a line.  It keeps     *)
(* nothing between two datagrams, so one is followed from the sender's      *)
(* intention to the line in the log.  Senders are the simulator and lab     *)
(* devices, which may write lengths in the long form and send version 1.    *)
EXTENDS TrapCodec

CONSTANTS
    Oids,          \* object identifiers as arcs, those of TRAPS among them
    RawOids,       \* contents of an OID as a device may send them
    Communities    \* community names, as bytes

\* Two arcs that fit the first byte.  decode_oid takes it apart by its division
\* by 40 (59), so below 2 an arc of 40 or more would be read as one below 3.
ASSUME OidsAssumption == \A arcs \in Oids : /\ arcs \in Seq(Nat) /\ Len(arcs) >= 2
                                            /\ arcs[1] \in 0 .. 2 /\ arcs[2] \in 0 .. 39
ASSUME BytesAssumption == RawOids \cup Communities \subseteq Seq(0 .. 255)

VARIABLES
    allowed,    \* --community: none means all
    wire,       \* the datagram on its way, <<>> for none
    meant,      \* what its sender put in
    intact,     \* did it arrive as it was sent?
    answer      \* what the receiver did with the last one

trapVars == <<allowed, wire, meant, intact, answer>>

None == [result |-> "none"]

TrapInit ==
    /\ allowed \in SUBSET {c \in Communities : Ascii(c)}
    /\ wire = <<>> /\ meant = None /\ intact = TRUE /\ answer = None

\* A message with its length in n further bytes, as devices write it.
LongForm(packet, n) ==
    IF n = 0 THEN packet
    ELSE <<packet[1], 128 + n>> \o [k \in 1 .. n - 1 |-> 0] \o Tail(packet)

\* A version 1 trap: enterprise, agent address, generic and specific type,
\* time and one variable, a text.
V1Trap(oid, community, text) ==
    LET pdu == Tlv(Oid, oid) \o Tlv(64, <<127, 0, 0, 1>>) \o Tlv(Integer, <<6>>)
                   \o Tlv(Integer, <<1>>) \o Tlv(67, <<1>>)
                   \o Tlv(List, Varbind(SysUpTime, Tlv(OctetString, text)))
    IN  Tlv(List, Tlv(Integer, <<0>>) \o Tlv(OctetString, community) \o Tlv(TrapV1, pdu))

Trap(version, oid, community, text) ==
    IF version = "2c" THEN V2cTrap(oid, community) ELSE V1Trap(oid, community, text)

\* No value is longer than 127 bytes, or tlv raises (simulator.py:18-19).
Emit(version, arcs, oid, community, text, form) ==
    /\ wire = <<>> /\ answer = None
    /\ Len(Trap(version, oid, community, text)) <= 129
    /\ wire' = LongForm(Trap(version, oid, community, text), form)
    /\ meant' = [version |-> version, arcs |-> arcs, oid |-> oid, community |-> community, text |-> text]
    /\ intact' = TRUE
    /\ UNCHANGED <<allowed, answer>>

\* send_trap (simulator.py:47-50) and devices.
SendTrap ==
    \E arcs \in Oids, community \in Communities, form \in 0 .. 4 :
        \/ Emit("2c", arcs, OidBytes(arcs), community, <<>>, form)
        \/ \E text \in {<<>>} \cup CriticalTexts \cup WarningTexts :
              Emit("1", arcs, OidBytes(arcs), community, text, form)

\* A device's own encoding of an OID.
SendRaw ==
    \E version \in {"1", "2c"}, community \in Communities, oid \in RawOids :
        Emit(version, <<>>, oid, community, <<>>, 0)

\* The datagram is cut off, or something is appended to it.
Cut ==
    /\ wire # <<>> /\ intact
    /\ \E n \in 1 .. Len(wire) - 1 : wire' = SubSeq(wire, 1, n)
    /\ intact' = FALSE
    /\ UNCHANGED <<allowed, meant, answer>>

Extend ==
    /\ wire # <<>> /\ intact
    /\ \E b \in {0, 48} : wire' = Append(wire, b)
    /\ intact' = FALSE
    /\ UNCHANGED <<allowed, meant, answer>>

Allows(event) == allowed = {} \/ event.community \in allowed

\* The log cannot be written: nothing catches the OSError, and serve() ends.
Died == [result |-> "died"]

\* INVALID, REJECTED, or a line of write_alert (159-166), which leaves the
\* community out.
Answers(event) ==
    IF event = Invalid THEN {[result |-> "invalid"]}
    ELSE IF ~ Allows(event) THEN {[result |-> "rejected"]}
    ELSE {[result |-> "logged", version |-> event.version, oid |-> event.oid, severity |-> event.severity],
          Died}

\* serve (174-182).
Serve ==
    /\ wire # <<>>
    /\ answer' \in Answers(ParseTrap(wire))
    /\ wire' = <<>>
    /\ UNCHANGED <<allowed, meant, intact>>

\* while True (173): on to the next datagram, or the receiver that has died is
\* started again.
Await ==
    /\ answer # None
    /\ meant' = None /\ intact' = TRUE /\ answer' = None
    /\ UNCHANGED <<allowed, wire>>

TrapNext == SendTrap \/ SendRaw \/ Cut \/ Extend \/ Serve \/ Await

TrapSpec == TrapInit /\ [][TrapNext]_trapVars

-----------------------------------------------------------------------------

TrapTypeOK ==
    /\ allowed \subseteq Communities
    /\ \A k \in DOMAIN wire : wire[k] \in 0 .. 255
    /\ answer.result \in {"none", "invalid", "rejected", "logged", "died"}

Answered == answer # None

Accepted(community) == allowed = {} \/ community \in allowed

\* Encoding and decoding are inverse: a trap that arrives as it was sent is
\* logged under its own OID, whatever the size of its arcs and the form of its
\* length, if its community is allowed and the log can be written, and
\* rejected if not; linkDown and authenticationFailure are critical, the others
\* as bad as their text.
TrapsAreReadAsMeant ==
    Answered /\ intact /\ meant.arcs # <<>> =>
        answer \in IF ~ Accepted(meant.community) THEN {[result |-> "rejected"]}
                   ELSE {[result |-> "logged", version |-> meant.version,
                          oid |-> [as |-> "oid", value |-> meant.arcs],
                          severity |->
                              IF meant.arcs \in {LinkDown, AuthenticationFailure} \/ meant.text \in CriticalTexts
                              THEN "critical" ELSE IF meant.text \in WarningTexts THEN "warning" ELSE "info"],
                         Died}

\* No part of a trap passes for a trap, and nothing may follow one.
DamagedTrapsAreRejected == Answered /\ ~ intact => answer.result = "invalid"

\* Bytes of an OID that decode_oid has to refuse, by the rules of BER: none
\* at all, or a last arc that is not finished.
Unfinished(oid) == oid = <<>> \/ (Len(oid) > 1 /\ oid[Len(oid)] >= 128)

\* What is left of an OID without the 128s at its end.
Trimmed(oid) ==
    SubSeq(oid, 1, CHOOSE n \in 0 .. Len(oid) :
        /\ \A k \in n + 1 .. Len(oid) : k > 1 /\ oid[k] = 128
        /\ n <= 1 \/ oid[n] # 128)

\* An OID that is cut off within an arc is refused, but for one case: the
\* check is on the arc's value (66), so 128s at the end, which add nothing to
\* it, are taken, and the OID is then the one without them.
OnlyPaddingIsTolerated ==
    Answered /\ intact /\ meant.arcs = <<>> =>
        IF Unfinished(Trimmed(meant.oid)) THEN answer.result = "invalid"
        ELSE answer.result = "logged" => answer.oid.value = DecodeOid(Trimmed(meant.oid))
=============================================================================
