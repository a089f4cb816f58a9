----------------------------- MODULE TrapCodec -----------------------------
(* The bytes of an SNMP trap: the encoder of network/simulator.py and the   *)
(* decoder of network/snmp_traps.py.  A packet is a sequence of bytes, a    *)
(* reader what it has taken off the front and what is left, and every       *)
(* SnmpDecodeError the value Invalid (or a reader that is not ok).          *)
EXTENDS Naturals, Sequences

CONSTANTS
    CriticalTexts,   \* texts with one of the words of snmp_traps.py:152
    WarningTexts     \* texts with one of the words of snmp_traps.py:154

ASSUME TextsAssumption == CriticalTexts \cup WarningTexts \subseteq Seq(0 .. 127) \ {<<>>}

Integer == 2   OctetString == 4   Oid == 6   List == 48   TrapV1 == 164   TrapV2 == 167

LinkDown == <<1, 3, 6, 1, 6, 3, 1, 1, 5, 3>>
AuthenticationFailure == <<1, 3, 6, 1, 6, 3, 1, 1, 5, 5>>
SnmpTrapOid == <<1, 3, 6, 1, 6, 3, 1, 1, 4, 1, 0>>
SysUpTime == <<1, 3, 6, 1, 2, 1, 1, 3, 0>>

-----------------------------------------------------------------------------
\* simulator.py.  The callers keep data below 128 bytes (18-19).
Tlv(tag, data) == <<tag, Len(data)>> \o data

\* The digits to base 128 of an arc before its last one (28-30).
Continued[n \in Nat] == IF n = 0 THEN <<>> ELSE Append(Continued[n \div 128], 128 + (n % 128))

\* Mutated form of Arc: an if for the while.
ArcOfTwoDigits(n) == IF n < 128 THEN <<n>> ELSE <<128 + ((n \div 128) % 128), n % 128>>

Arc(n) == Append(Continued[n \div 128], n % 128)

OidBytes(arcs) ==
    LET upTo[k \in 0 .. Len(arcs) - 2] ==
            IF k = 0 THEN <<40 * arcs[1] + arcs[2]>> ELSE upTo[k - 1] \o Arc(arcs[k + 2])
    IN  upTo[Len(arcs) - 2]

Varbind(arcs, value) == Tlv(List, Tlv(Oid, OidBytes(arcs)) \o value)

\* make_v2c_trap (39-44): 67 is TimeTicks, 123456 its value.
V2cTrap(oid, community) ==
    LET uptime   == Varbind(SysUpTime, Tlv(67, <<1, 226, 64>>))
        identity == Varbind(SnmpTrapOid, Tlv(Oid, oid))
        pdu == Tlv(Integer, <<1>>) \o Tlv(Integer, <<0>>) \o Tlv(Integer, <<0>>)
                   \o Tlv(List, uptime \o identity)
    IN  Tlv(List, Tlv(Integer, <<1>>) \o Tlv(OctetString, community) \o Tlv(TrapV2, pdu))

-----------------------------------------------------------------------------
\* snmp_traps.py.
Reader(data) == [ok |-> TRUE, items |-> <<>>, rest |-> data]
Broken == [ok |-> FALSE, items |-> <<>>, rest |-> <<>>]

\* int.from_bytes(.., "big"), up to a value no packet of recvfrom(65535) has.
Cap == 4194304
BigEndian(bytes) ==
    LET upTo[k \in 0 .. Len(bytes)] ==
            IF k = 0 THEN 0
            ELSE LET n == upTo[k - 1] IN IF n >= Cap THEN n ELSE n * 256 + bytes[k]
    IN  upTo[Len(bytes)]

\* BerReader.item (33-53): a tag, a length of one byte or of up to four more,
\* and that many bytes.
Item(r) ==
    LET d      == r.rest
        count  == IF d[2] < 128 THEN 0 ELSE d[2] - 128
        start  == 2 + count
        length == IF d[2] < 128 THEN d[2] ELSE BigEndian(SubSeq(d, 3, start))
    IN  IF /\ r.ok /\ Len(d) >= 2
           /\ d[2] < 128 \/ (count \in 1 .. 4 /\ start <= Len(d))
           /\ start + length <= Len(d)
        THEN [ok |-> TRUE, rest |-> SubSeq(d, start + length + 1, Len(d)),
              items |-> Append(r.items, [tag |-> d[1], value |-> SubSeq(d, start + 1, start + length)])]
        ELSE Broken

Items(n, data) ==
    LET read[k \in 0 .. n] == IF k = 0 THEN Reader(data) ELSE Item(read[k - 1])
    IN  read[n]

\* while reader.pos < len(data) (89): an item takes at least two bytes.
NextItem(r) == IF r.rest = <<>> THEN r ELSE Item(r)

AllItems(data) ==
    LET read[k \in 0 .. Len(data)] == IF k = 0 THEN Reader(data) ELSE NextItem(read[k - 1])
    IN  read[Len(data)]

\* The loop of decode_oid (59-65): the arcs so far, and the one begun.
OidStep(s, b) ==
    IF b >= 128 THEN [s EXCEPT !.current = @ * 128 + (b - 128)]
    ELSE [arcs |-> Append(s.arcs, s.current * 128 + b), current |-> 0]

OidRead(data) ==
    LET upTo[k \in 0 .. Len(data) - 1] ==
            IF k = 0 THEN [arcs |-> <<data[1] \div 40, data[1] % 40>>, current |-> 0]
            ELSE OidStep(upTo[k - 1], data[k + 1])
    IN  upTo[Len(data) - 1]

\* Mutated form of DecodeOid: what is left over of the last arc is dropped.
DecodeOidLeniently(data) == IF data = <<>> THEN <<>> ELSE OidRead(data).arcs

\* decode_oid (56-68); <<>> when it raises.  An unfinished last arc is noticed
\* by its value (66).
DecodeOid(data) ==
    IF data = <<>> THEN <<>> ELSE IF OidRead(data).current # 0 THEN <<>> ELSE OidRead(data).arcs

\* decode_value (71-83).  Numbers, addresses, null and what is not UTF-8 (here:
\* not ASCII) are printed in digits, which no word of a severity contains.
Digits == [as |-> "digits", value |-> <<>>]
Ascii(bytes) == \A k \in DOMAIN bytes : bytes[k] < 128

DecodeValue(item) ==
    CASE item.tag = Oid -> [as |-> "oid", value |-> DecodeOid(item.value)]
      [] item.tag \in {2, 65, 66, 67, 70, 5} -> Digits
      [] item.tag = 64 /\ Len(item.value) = 4 -> Digits
      [] OTHER -> IF Ascii(item.value) THEN [as |-> "text", value |-> item.value] ELSE Digits

BadOid == [as |-> "oid", value |-> <<>>]

\* One pair of _varbinds (90-98): an OID and a value, unless it raises.
BadPair == [name |-> <<>>, value |-> BadOid]

Pair(item) ==
    LET pair  == Items(2, item.value)
        name  == DecodeOid(pair.items[1].value)
        value == DecodeValue(pair.items[2])
    IN  IF /\ item.tag = List /\ pair.ok
           /\ pair.items[1].tag = Oid /\ name # <<>> /\ value # BadOid
        THEN [name |-> name, value |-> value] ELSE BadPair

\* _varbinds (86-99): of two values of one OID the later stays.
Varbinds(data) ==
    LET all  == AllItems(data)
        pair == [k \in DOMAIN all.items |-> Pair(all.items[k])]
        Later(name) == CHOOSE k \in DOMAIN pair :
            pair[k].name = name /\ \A j \in DOMAIN pair : j > k => pair[j].name # name
    IN  [ok |-> all.ok /\ \A k \in DOMAIN pair : pair[k] # BadPair,
         map |-> [name \in {pair[k].name : k \in DOMAIN pair} |-> pair[Later(name)].value]]

\* classify_severity (143-156).
Severity(oid, binds) ==
    LET values == {oid} \cup {binds[a] : a \in DOMAIN binds}
        says(texts) == \E v \in values : v.as = "text" /\ v.value \in texts
    IN  IF (oid.as = "oid" /\ oid.value \in {LinkDown, AuthenticationFailure}) \/ says(CriticalTexts)
        THEN "critical"
        ELSE IF says(WarningTexts) THEN "warning" ELSE "info"

Invalid == [version |-> "none"]
Unknown == [as |-> "text", value |-> "unknown"]

Event(version, community, oid, binds) ==
    IF oid = BadOid THEN Invalid
    ELSE [version |-> version, community |-> community, oid |-> oid, severity |-> Severity(oid, binds)]

\* The Trap-PDU of version 2c (118-126).
ParseV2c(community, data) ==
    LET pdu   == Items(4, data)
        binds == Varbinds(pdu.items[4].value)
    IN  IF /\ pdu.ok /\ \A k \in 1 .. 3 : pdu.items[k].tag = Integer
           /\ pdu.items[4].tag = List /\ binds.ok
        THEN Event("2c", community, IF SnmpTrapOid \in DOMAIN binds.map
                                    THEN binds.map[SnmpTrapOid] ELSE Unknown, binds.map)
        ELSE Invalid

\* The Trap-PDU of version 1 (128-136): the trap's OID is its enterprise.
ParseV1(community, data) ==
    LET pdu   == Items(6, data)
        binds == IF pdu.items[6].tag = List THEN Varbinds(pdu.items[6].value) ELSE Varbinds(<<>>)
    IN  IF pdu.ok /\ pdu.items[1].tag = Oid /\ binds.ok
        THEN Event("1", community, [as |-> "oid", value |-> DecodeOid(pdu.items[1].value)], binds.map)
        ELSE Invalid

\* decode(errors="replace"): bytes that are not UTF-8 (here: not ASCII) become
\* the replacement character.
Replaced(bytes) == [k \in DOMAIN bytes |-> IF bytes[k] < 128 THEN bytes[k] ELSE 65533]

\* Mutated form of NothingFollows: bytes may follow the message.
AnythingFollows(outer) == TRUE

\* "packet is not one SNMP message" (105).
NothingFollows(outer) == outer.rest = <<>>

\* parse_trap (102-140).
ParseTrap(packet) ==
    LET outer == Items(1, packet)
        header == Items(3, outer.items[1].value)
        version == BigEndian(header.items[1].value)
        community == Replaced(header.items[2].value)
        pdu == header.items[3]
    IN  IF ~ (outer.ok /\ outer.items[1].tag = List /\ NothingFollows(outer) /\ header.ok) THEN Invalid
        ELSE IF header.items[1].tag # Integer \/ header.items[2].tag # OctetString THEN Invalid
        ELSE CASE pdu.tag = TrapV2 /\ version = 1 -> ParseV2c(community, pdu.value)
               [] pdu.tag = TrapV1 /\ version = 0 -> ParseV1(community, pdu.value)
               [] OTHER -> Invalid
=============================================================================
