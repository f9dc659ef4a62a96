------------------------------- MODULE Packets -------------------------------
(***************************************************************************)
(* The formats of net/: ethernet.c, arp.c, ipv4.c, icmp.c, udp.c, dns.c    *)
(* and checksum.c.  A packet is the sequence of its bytes, an address is   *)
(* the sequence of its 4 or 6 bytes, and a name is the sequence of its     *)
(* labels.  A builder gives << >> where the code returns 0, a parser       *)
(* REJECTED where it returns an error; a pointer into a packet with a size *)
(* is the subsequence.                                                     *)
(*                                                                         *)
(* The sum of a packet has at most 2^15 terms below 2^16, so the 32-bit    *)
(* accumulator of checksum_add does not wrap.                              *)
(***************************************************************************)
EXTENDS Integers, Sequences
LOCAL INSTANCE SequencesExt

REJECTED == [kind |-> "rejected"]

be16(v) == <<v \div 256, v % 256>>
be16_read(p, offset) == 256 * p[offset + 1] + p[offset + 2]
be16_write(p, offset, v) == [p EXCEPT ![offset + 1] = v \div 256, ![offset + 2] = v % 256]

From(p, offset) == SubSeq(p, offset + 1, Len(p))
Bytes(p, offset, size) == SubSeq(p, offset + 1, offset + size)
Zeros(n) == [i \in 1..n |-> 0]

MAC_SIZE == 6
IPV4_SIZE == 4
Broadcast == <<255, 255, 255, 255, 255, 255>>
-----------------------------------------------------------------------------
(* checksum.c                                                              *)


\* What byte i adds: the first of two is the high half of a word, and so is an odd last one.
Term(p, i) == IF i % 2 = 0 THEN p[i] ELSE 256 * p[i]

checksum_add(sum, p) ==
    LET Add[i \in 0..Len(p)] == IF i = 0 THEN sum ELSE Add[i - 1] + Term(p, i)
    IN  Add[Len(p)]

checksum_finish(sum) ==
    LET Fold[s \in Nat] == IF s < 65536 THEN s ELSE Fold[(s % 65536) + (s \div 65536)]
    IN  65535 - Fold[sum]

checksum(p) == checksum_finish(checksum_add(0, p))
-----------------------------------------------------------------------------
(* ethernet.c                                                              *)

ETHERNET_HEADER_SIZE == 14
ETHERNET_MTU == 1500
ETHERNET_FRAME_MIN == 60
ETHERNET_FRAME_MAX == ETHERNET_HEADER_SIZE + ETHERNET_MTU
ETHERTYPE_IPV4 == 2048
ETHERTYPE_ARP == 2054

\* A short payload is filled up with zeros.
ethernet_build(capacity, destination, source, type, payload) ==
    LET frame == destination \o source \o be16(type) \o payload
        padding == IF Len(frame) < ETHERNET_FRAME_MIN THEN ETHERNET_FRAME_MIN - Len(frame) ELSE 0
    IN  IF Len(payload) > ETHERNET_MTU \/ capacity < Len(frame) + padding THEN << >>
        ELSE frame \o Zeros(padding)

ethernet_parse(frame) ==
    IF Len(frame) < ETHERNET_HEADER_SIZE \/ Len(frame) > ETHERNET_FRAME_MAX THEN REJECTED
    ELSE [kind |-> "frame",
          destination |-> Bytes(frame, 0, MAC_SIZE),
          source |-> Bytes(frame, MAC_SIZE, MAC_SIZE),
          type |-> be16_read(frame, 2 * MAC_SIZE),
          payload |-> From(frame, ETHERNET_HEADER_SIZE)]

ethernet_for_us(header, own) == header.destination \in {own, Broadcast}
-----------------------------------------------------------------------------
(* arp.c: the packets.                                                     *)

ARP_PACKET_SIZE == 28
ARP_REQUEST == 1
ARP_REPLY == 2

\* The hardware is Ethernet, the protocol IPv4.
arp_build(packet) ==
    be16(1) \o be16(ETHERTYPE_IPV4) \o <<MAC_SIZE, IPV4_SIZE>> \o be16(packet.operation)
    \o packet.sender_mac \o packet.sender_ip \o packet.target_mac \o packet.target_ip

arp_parse(p) ==
    IF \/ Len(p) < ARP_PACKET_SIZE
       \/ be16_read(p, 0) # 1 \/ be16_read(p, 2) # ETHERTYPE_IPV4
       \/ p[5] # MAC_SIZE \/ p[6] # IPV4_SIZE
       \/ be16_read(p, 6) \notin {ARP_REQUEST, ARP_REPLY}
    THEN REJECTED
    ELSE [kind |-> "arp", operation |-> be16_read(p, 6),
          sender_mac |-> Bytes(p, 8, MAC_SIZE), sender_ip |-> Bytes(p, 14, IPV4_SIZE),
          target_mac |-> Bytes(p, 18, MAC_SIZE), target_ip |-> Bytes(p, 24, IPV4_SIZE)]

arp_frame(capacity, packet) ==
    ethernet_build(capacity, IF packet.operation = ARP_REQUEST THEN Broadcast ELSE packet.target_mac,
                   packet.sender_mac, ETHERTYPE_ARP, arp_build(packet))

arp_make_request(own_mac, own_ip, target_ip) ==
    [operation |-> ARP_REQUEST, sender_mac |-> own_mac, sender_ip |-> own_ip,
     target_mac |-> Zeros(MAC_SIZE), target_ip |-> target_ip]

arp_make_reply(own_mac, own_ip, request) ==
    [operation |-> ARP_REPLY, sender_mac |-> own_mac, sender_ip |-> own_ip,
     target_mac |-> request.sender_mac, target_ip |-> request.sender_ip]
-----------------------------------------------------------------------------
(* ipv4.c                                                                  *)

IPV4_HEADER_SIZE == 20
IPV4_PACKET_MAX == 65535
IPV4_PROTOCOL_ICMP == 1
IPV4_PROTOCOL_UDP == 17

\* ipv4_header_init and ipv4_packet_build: no options, "don't fragment", 64 hops.
ipv4_packet_build(capacity, source, destination, protocol, payload) ==
    LET total == IPV4_HEADER_SIZE + Len(payload)
        header == <<69, 0>> \o be16(total) \o be16(0) \o be16(16384) \o <<64, protocol>>
                  \o be16(0) \o source \o destination
    IN  IF total > IPV4_PACKET_MAX \/ capacity < total THEN << >>
        ELSE be16_write(header, 10, checksum(header)) \o payload

\* What follows total_length is padding of the frame.
ipv4_packet_parse(p) ==
    LET header_length == (p[1] % 16) * 4
        total_length == be16_read(p, 2)
    IN  IF \/ Len(p) < IPV4_HEADER_SIZE
           \/ p[1] \div 16 # 4
           \/ header_length < IPV4_HEADER_SIZE \/ header_length > Len(p)
           \/ total_length < header_length \/ total_length > Len(p)
           \/ checksum(Bytes(p, 0, header_length)) # 0
           \/ be16_read(p, 6) % 16384 # 0         \* a fragment
        THEN REJECTED
        ELSE [kind |-> "ipv4", protocol |-> p[10],
              source |-> Bytes(p, 12, IPV4_SIZE), destination |-> Bytes(p, 16, IPV4_SIZE),
              payload |-> Bytes(p, header_length, total_length - header_length)]

ipv4_pseudo_sum(source, destination, protocol, length) ==
    checksum_add(0, source \o destination \o <<0, protocol>> \o be16(length))

\* For a mask of whole bytes.
ipv4_in_subnet(a, b, mask) == \A i \in 1..IPV4_SIZE : mask[i] = 255 => a[i] = b[i]
-----------------------------------------------------------------------------
(* icmp.c                                                                  *)

ICMP_HEADER_SIZE == 8
ICMP_ECHO_REPLY == 0
ICMP_ECHO_REQUEST == 8

icmp_build(capacity, type, code, id, sequence, payload) ==
    LET message == <<type, code>> \o be16(0) \o be16(id) \o be16(sequence) \o payload
    IN  IF \/ Len(message) > IPV4_PACKET_MAX - IPV4_HEADER_SIZE \/ capacity < Len(message)
        THEN << >> ELSE be16_write(message, 2, checksum(message))

icmp_parse(p) ==
    IF Len(p) < ICMP_HEADER_SIZE \/ checksum(p) # 0 THEN REJECTED
    ELSE [kind |-> "icmp", type |-> p[1], code |-> p[2], id |-> be16_read(p, 4),
          sequence |-> be16_read(p, 6), payload |-> From(p, ICMP_HEADER_SIZE)]

icmp_echo_reply(capacity, request) ==
    IF request.type # ICMP_ECHO_REQUEST THEN << >>
    ELSE icmp_build(capacity, ICMP_ECHO_REPLY, 0, request.id, request.sequence, request.payload)
-----------------------------------------------------------------------------
(* udp.c                                                                   *)

UDP_HEADER_SIZE == 8

udp_sum(source, destination, datagram) ==
    checksum_finish(checksum_add(
        ipv4_pseudo_sum(source, destination, IPV4_PROTOCOL_UDP, Len(datagram)), datagram))

\* A sum of 0 is sent as 65535: 0 means that there is none.
udp_build(capacity, source, destination, source_port, destination_port, payload) ==
    LET total == UDP_HEADER_SIZE + Len(payload)
        datagram == be16(source_port) \o be16(destination_port) \o be16(total) \o be16(0) \o payload
        sum == udp_sum(source, destination, datagram)
    IN  IF total > IPV4_PACKET_MAX - IPV4_HEADER_SIZE \/ capacity < total THEN << >>
        ELSE be16_write(datagram, 6, IF sum = 0 THEN 65535 ELSE sum)

udp_parse(p, source, destination) ==
    LET length == be16_read(p, 4)
    IN  IF \/ Len(p) < UDP_HEADER_SIZE
           \/ length < UDP_HEADER_SIZE \/ length > Len(p)
           \/ be16_read(p, 6) # 0 /\ udp_sum(source, destination, Bytes(p, 0, length)) # 0
        THEN REJECTED
        ELSE [kind |-> "udp", source_port |-> be16_read(p, 0), destination_port |-> be16_read(p, 2),
              payload |-> Bytes(p, UDP_HEADER_SIZE, length - UDP_HEADER_SIZE)]
-----------------------------------------------------------------------------
(* dns.c                                                                   *)

HEADER_SIZE == 12
WIRE_NAME_MAX == 255
LABEL_MAX == 63
RCODE_NXDOMAIN == 3
TYPE_A == 1
CLASS_IN == 1

\* Letters, digits, '-' and '_'.
name_char_valid(c) == c \in (97..122) \cup (65..90) \cup (48..57) \cup {45, 95}
lower(c) == IF c \in 65..90 THEN c + 32 ELSE c

\* Each label with its length before it, and a final 0.
name_encode(limit, name) ==
    LET encoded == FlattenSeq([i \in DOMAIN name |-> <<Len(name[i])>> \o name[i]]) \o <<0>>
    IN  IF \/ name = << >>
           \/ \E i \in DOMAIN name : \/ Len(name[i]) \notin 1..LABEL_MAX
                                     \/ \E j \in DOMAIN name[i] : ~name_char_valid(name[i][j])
           \/ Len(encoded) > limit \/ Len(encoded) > WIRE_NAME_MAX
        THEN << >> ELSE encoded

\* The offset behind the name at offset, or -1.  A pointer ends a name.
name_skip(p, offset) ==
    LET Skip[o \in Nat] ==
            IF o >= Len(p) THEN -1
            ELSE IF p[o + 1] = 0 THEN o + 1
            ELSE IF p[o + 1] >= 192 THEN (IF o + 2 > Len(p) THEN -1 ELSE o + 2)
            ELSE IF p[o + 1] >= 64 \/ o + 1 + p[o + 1] > Len(p) THEN -1
            ELSE Skip[o + 1 + p[o + 1]]
    IN  Skip[offset]

\* A question for the address of a name, with recursion desired.
dns_query_build(capacity, id, name) ==
    LET encoded == name_encode(capacity - HEADER_SIZE - 4, name)
    IN  IF capacity < HEADER_SIZE + 2 + 4 \/ encoded = << >> THEN << >>
        ELSE be16(id) \o be16(256) \o be16(1) \o Zeros(6) \o encoded \o be16(TYPE_A) \o be16(CLASS_IN)

Answer(status, address) == [status |-> status, address |-> address]
Failed(status) == Answer(status, << >>)

\* The loop over the answers: the first address, behind any other records.
first_address(p, offset, answers) ==
    LET length(record) == be16_read(p, record + 8)
        IsAddress(record) ==
            /\ be16_read(p, record) = TYPE_A /\ be16_read(p, record + 2) = CLASS_IN
            /\ length(record) = IPV4_SIZE
        Search[o \in Nat, left \in Nat] ==
            LET record == name_skip(p, o)
                data == record + 10
            IN  IF left = 0 THEN Failed("no_answer")
                ELSE IF record = -1 \/ data > Len(p) \/ data + length(record) > Len(p)
                THEN Failed("rejected")
                ELSE IF IsAddress(record) THEN Answer("ok", Bytes(p, data, IPV4_SIZE))
                ELSE Search[data + length(record), left - 1]
    IN  Search[offset, answers]

\* DNS_ERR_MALFORMED and DNS_ERR_MISMATCH, which handle_udp treats alike, are "rejected".
dns_response_parse(p, id, name) ==
    LET flags == be16_read(p, 2)
        rcode == flags % 16
        expected == name_encode(WIRE_NAME_MAX + 1, name)
        question == HEADER_SIZE + Len(expected)
    IN  IF \/ Len(p) < HEADER_SIZE
           \/ be16_read(p, 0) # id
           \/ flags < 32768 \/ (flags \div 2048) % 16 # 0     \* no response to a query
           \/ be16_read(p, 4) # 1
        THEN Failed("rejected")
        ELSE IF expected = << >> THEN Failed("name")
        ELSE IF \/ question + 4 > Len(p)
                \/ \E i \in DOMAIN expected : lower(p[HEADER_SIZE + i]) # lower(expected[i])
                \/ be16_read(p, question) # TYPE_A \/ be16_read(p, question + 2) # CLASS_IN
        THEN Failed("rejected")
        ELSE IF rcode = 0 THEN first_address(p, question + 4, be16_read(p, 6))
        ELSE Failed(IF rcode = RCODE_NXDOMAIN THEN "nxdomain" ELSE "server")
=============================================================================
