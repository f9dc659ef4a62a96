-------------------------------- MODULE Wire ---------------------------------
(***************************************************************************)
(* What src/kernel/net.c sends and what it receives, as frames: it builds  *)
(* them with the code of net/ and takes them apart with it.                *)
(*                                                                         *)
(* The other machines are external.  A host answers ARP and echo requests  *)
(* as this kernel does.  The server copies identifier and question of a    *)
(* query, the question in capitals or not, and adds a code and records; it *)
(* may stop anywhere in its message.  An IPv4 frame may lose its end or    *)
(* have one byte changed on the way; ARP, which has no sum of its own,     *)
(* only loses its end.  The host behind every address that the table gives *)
(* is the same one, with HOST_MAC.                                         *)
(***************************************************************************)
EXTENDS Arp
LOCAL INSTANCE SequencesExt

CONSTANTS
    OWN_MAC, HOST_MAC,
    OWN_IP, GATEWAY, DNS_SERVER, NETMASK,
    IPs, MACs,      \* the hosts of our subnet
    Targets,        \* what is pinged
    Names,
    Addresses,      \* what the server knows: an address for each name
    Randoms,        \* what entropy returns
    SEQ_MOD         \* 2^16

PING_ID == 19284
PING_PAYLOAD_SIZE == 32
DNS_PORT == 53
DNS_MESSAGE_MAX == 512

Ping(target, sequence) == [target |-> target, sequence |-> sequence]
Pings == [target : Targets, sequence : 0..(SEQ_MOD - 1)]

DnsId(random) == random % 65536
DnsLocalPort(random) == 49152 + ((random \div 8) % 16384)
Query(id, port, name) == [id |-> id, port |-> port, name |-> name]
-----------------------------------------------------------------------------
(* Sending and receiving, on the machine with the addresses mac and ip.    *)

\* A payload of no bytes is one that could not be built: its caller stops there.
send_ipv4(mac, ip, destination, target, protocol, payload, capacity) ==
    LET packet == ipv4_packet_build(capacity, ip, target, protocol, payload)
    IN  IF payload = << >> \/ packet = << >> THEN << >>
        ELSE ethernet_build(ETHERNET_HEADER_SIZE + capacity, destination, mac, ETHERTYPE_IPV4, packet)

\* handle_ipv4, up to handle_icmp or handle_udp; the source goes with the message.
handle_ipv4(p, ip) ==
    LET packet == ipv4_packet_parse(p)
        message == IF packet.protocol = IPV4_PROTOCOL_ICMP THEN icmp_parse(packet.payload)
                   ELSE IF packet.protocol = IPV4_PROTOCOL_UDP
                   THEN udp_parse(packet.payload, packet.source, packet.destination)
                   ELSE REJECTED
    IN  IF packet = REJECTED \/ packet.destination # ip \/ message = REJECTED THEN REJECTED
        ELSE [kind |-> message.kind, source |-> packet.source, message |-> message]

\* handle_frame, up to handle_arp or handle_ipv4.
handle_frame(frame, mac, ip) ==
    LET header == ethernet_parse(frame)
    IN  IF header = REJECTED \/ ~ethernet_for_us(header, mac) THEN REJECTED
        ELSE IF header.type = ETHERTYPE_ARP THEN arp_parse(header.payload)
        ELSE IF header.type = ETHERTYPE_IPV4 THEN handle_ipv4(header.payload, ip)
        ELSE REJECTED

\* The part of handle_icmp that answers a request.
echo_answer(datagram, mac, ip, destination) ==
    send_ipv4(mac, ip, destination, datagram.source, IPV4_PROTOCOL_ICMP,
              icmp_echo_reply(ETHERNET_MTU, datagram.message), ETHERNET_MTU)

arp_request(ip) == arp_frame(ETHERNET_FRAME_MIN, arp_make_request(OWN_MAC, OWN_IP, ip))

ping_frame(p) ==
    send_ipv4(OWN_MAC, OWN_IP, HOST_MAC, p.target, IPV4_PROTOCOL_ICMP,
              icmp_build(ICMP_HEADER_SIZE + PING_PAYLOAD_SIZE, ICMP_ECHO_REQUEST, 0, PING_ID, p.sequence,
                         [i \in 1..PING_PAYLOAD_SIZE |-> 97 + ((i - 1) % 26)]),
              IPV4_HEADER_SIZE + ICMP_HEADER_SIZE + PING_PAYLOAD_SIZE)

query_frame(q) ==
    send_ipv4(OWN_MAC, OWN_IP, HOST_MAC, DNS_SERVER, IPV4_PROTOCOL_UDP,
              udp_build(UDP_HEADER_SIZE + DNS_MESSAGE_MAX, OWN_IP, DNS_SERVER, q.port, DNS_PORT,
                        dns_query_build(DNS_MESSAGE_MAX, q.id, q.name)),
              IPV4_HEADER_SIZE + UDP_HEADER_SIZE + DNS_MESSAGE_MAX)

\* The names with an encoding; net_resolve tries before it asks.
ValidNames == {n \in Names : dns_query_build(DNS_MESSAGE_MAX, 0, n) # << >>}
Queries == {Query(DnsId(r), DnsLocalPort(r), n) : r \in Randoms, n \in ValidNames}

\* What can be sent: the frame and what is in it fit their buffers.
Requestable == {ip \in IPs : arp_request(ip) # << >>}
Pingable == {p \in Pings : ping_frame(p) # << >>}
Askable == {q \in Queries : query_frame(q) # << >>}
-----------------------------------------------------------------------------
(* The other machines, and what the way does to a frame.                   *)

CutShort(frame) == {SubSeq(frame, 1, k) : k \in 0..Len(frame)}
Damaged(frame) ==
    CutShort(frame) \cup {[frame EXCEPT ![i] = (@ + d) % 256] : i \in DOMAIN frame, d \in {1, 255}}

Arriving(frames) == {handle_frame(f, OWN_MAC, OWN_IP) : f \in frames} \ {REJECTED}

\* A host answers our request, or asks for us or for the gateway.
ArpFrames(ip, mac) ==
    LET request == handle_frame(arp_request(ip), mac, ip)
    IN  {arp_frame(ETHERNET_FRAME_MIN, arp_make_reply(mac, ip, request))}
        \cup {arp_frame(ETHERNET_FRAME_MIN, arp_make_request(mac, ip, target)) : target \in {OWN_IP, GATEWAY}}

ArpPackets == Arriving(UNION {CutShort(f) : f \in UNION {ArpFrames(ip, mac) : ip \in IPs \cup {OWN_IP}, mac \in MACs}})

\* What arrives of the reply to a ping.
EchoReplies ==
    UNION {LET request == handle_frame(ping_frame(p), HOST_MAC, p.target)
               reply == echo_answer(request, HOST_MAC, p.target, OWN_MAC)
           IN  {[to |-> p, datagram |-> d] : d \in Arriving(Damaged(reply))} : p \in Pings}

Pointer == <<192, HEADER_SIZE>>
Record(name, type, data) ==
    name \o be16(type) \o be16(CLASS_IN) \o Zeros(4) \o be16(Len(data)) \o data
Alias == Record(<<1, 120>> \o Pointer, 5, Pointer)

\* The answers of the server: code, records, and what they say.
Replies(name) ==
    LET address == Record(Pointer, TYPE_A, Addresses[name])
    IN  {[code |-> 0, records |-> <<address>>, says |-> Answer("ok", Addresses[name])],
         [code |-> 0, records |-> <<Alias, address>>, says |-> Answer("ok", Addresses[name])],
         [code |-> 0, records |-> <<Alias>>, says |-> Failed("no_answer")],
         [code |-> RCODE_NXDOMAIN, records |-> << >>, says |-> Failed("nxdomain")],
         [code |-> 2, records |-> << >>, says |-> Failed("server")]}

Capital(c) == IF c \in 97..122 THEN c - 32 ELSE c

Response(query, reply, capitals) ==
    LET question == From(query, HEADER_SIZE)
    IN  Bytes(query, 0, 2) \o be16(33152 + reply.code) \o be16(1) \o be16(Len(reply.records)) \o Zeros(4)
        \o (IF capitals THEN [i \in DOMAIN question |-> Capital(question[i])] ELSE question)
        \o FlattenSeq(reply.records)

ResponseFrame(datagram, response) ==
    send_ipv4(HOST_MAC, DNS_SERVER, OWN_MAC, datagram.source, IPV4_PROTOCOL_UDP,
              udp_build(ETHERNET_MTU, DNS_SERVER, datagram.source, DNS_PORT,
                        datagram.message.source_port, response), ETHERNET_MTU)

\* What arrives of the response to a query, and what the server says in it.
Datagrams(q) ==
    LET query == handle_frame(query_frame(q), HOST_MAC, DNS_SERVER)
    IN  UNION {LET response == Response(query.message.payload, reply, capitals)
                   frames == Damaged(ResponseFrame(query, response))
                             \cup {ResponseFrame(query, short) : short \in CutShort(response)}
               IN  {[datagram |-> d, says |-> reply.says] : d \in Arriving(frames)} :
               reply \in Replies(q.name), capitals \in BOOLEAN}

\* The same, parsed while an answer about name with the identifier id is waited for.
Responses ==
    UNION {{[to |-> q, id |-> id, name |-> name, datagram |-> [d.datagram EXCEPT !.message.payload = << >>],
             says |-> d.says, got |-> dns_response_parse(d.datagram.message.payload, id, name)] :
            d \in Datagrams(q), id \in {DnsId(r) : r \in Randoms}, name \in ValidNames} :
           q \in Queries}

\* The same, before it is parsed.
Arrivals == {[to |-> r.to, datagram |-> r.datagram, says |-> r.says] : r \in Responses}
=============================================================================
