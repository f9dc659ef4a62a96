--------------------------------- MODULE Net ---------------------------------
(***************************************************************************)
(* The network code of src/kernel/net.c with the address table of          *)
(* net/arp.c: the shell calls net_ping and net_resolve, the net task       *)
(* handles what arrives, and the two preempt each other anywhere.          *)
(*                                                                         *)
(* The network is external, see Wire.  What was sent stays in pings and    *)
(* queries: an answer to it may come at once, late, several times, damaged *)
(* or never, and ARP packets come at any time.  A frame that the parsers   *)
(* reject changes nothing, and neither do our replies to the requests of   *)
(* other hosts.                                                            *)
(*                                                                         *)
(* A call may begin wherever the net task is: a script runs one command    *)
(* after the other, and the ping command calls net_ping right after        *)
(* net_resolve.  So the net task may have accepted an answer to one call   *)
(* and store it when the next one is already waiting: late says so.        *)
(***************************************************************************)
EXTENDS Wire

CONSTANTS
    ARP_ATTEMPTS, DNS_ATTEMPTS,
    MAX_LATE,       \* an echo reply comes before this many further pings
    GARBAGE         \* an address that was never set

ASSUME NetAssumption ==
    /\ GATEWAY \in IPs /\ OWN_IP \notin IPs
    /\ ARP_ATTEMPTS \in Nat \ {0} /\ DNS_ATTEMPTS \in Nat \ {0}
    /\ SEQ_MOD \in Nat /\ MAX_LATE \in 1..(SEQ_MOD - 1)
    /\ GARBAGE \notin {Addresses[n] : n \in Names}

VARIABLES
    active,
    table,
    echo_target, echo_sequence, echo_waiting, echo_received,
    dns_name, dns_id, dns_local_port, dns_waiting, dns_done, dns_status, dns_address,
    shell,          \* the place of the shell
    call,           \* its call: function and argument
    attempt,        \* of the loop it is in
    asleep,         \* it sleeps on events
    result,         \* of its last call: code and value
    net,            \* the place of the net task
    found,          \* its locals: the answer that it has accepted
    pings, queries, \* the network: what was sent
    heard,          \* history: what each host in the table announced last
    taken,          \* history: the answer stored since the request was made ready
    late            \* history: another one was accepted before the call's request was

tableVars == <<table, heard>>
echoVars == <<echo_target, echo_sequence, echo_waiting, echo_received>>
dnsVars == <<dns_name, dns_id, dns_local_port, dns_waiting, dns_done, dns_status, dns_address>>
shellVars == <<shell, call, attempt, result>>
netVars == <<net, found>>
answerVars == <<taken, late>>
wire == <<pings, queries>>
vars == <<active, tableVars, echoVars, dnsVars, shellVars, asleep, netVars, answerVars, wire>>

NothingFound == [to |-> NONE, datagram |-> NONE, got |-> NONE, says |-> NONE]
Result(code, value) == [code |-> code, value |-> value]

TableBecomes(t, h) ==
    /\ table' = t
    /\ heard' = [ip \in DOMAIN heard |-> IF Matches(t, ip) = {} THEN NONE ELSE h[ip]]

Goto(place, n) == shell' = place /\ attempt' = n /\ UNCHANGED <<call, result>>
Return(code, value) ==
    /\ shell' = "idle" /\ attempt' = 0
    /\ result' = Result(code, value)
    /\ UNCHANGED call
-----------------------------------------------------------------------------
(* The shell: net_ping and net_resolve, after net_init.                    *)

\* The card is found and the net task created, or not.
net_init ==
    /\ shell = "boot" /\ shell' = "idle"
    /\ active' \in BOOLEAN
    /\ UNCHANGED <<tableVars, echoVars, dnsVars, call, attempt, result, asleep, netVars, answerVars, wire>>

\* A call begins; net_resolve copies the name first, and returns if it has no encoding.
begin ==
    /\ shell = "idle"
    /\ \/ \E t \in Targets : call' = [fn |-> "ping", arg |-> t]
       \/ \E n \in Names : call' = [fn |-> "resolve", arg |-> n]
    /\ dns_name' = IF active /\ call'.fn = "resolve" THEN call'.arg ELSE dns_name
    /\ IF ~active THEN shell' = "idle" /\ result' = Result("no_device", NONE)
       ELSE IF call'.fn = "resolve" /\ call'.arg \notin ValidNames
       THEN shell' = "idle" /\ result' = Result("name", NONE)
       ELSE shell' = "lookup" /\ result' = Result(NONE, NONE)
    /\ taken' = NothingFound /\ late' = FALSE
    /\ UNCHANGED <<active, tableVars, echoVars, dns_id, dns_local_port, dns_waiting, dns_done, dns_status,
                   dns_address, attempt, asleep, netVars, wire>>

NextHop == LET target == IF call.fn = "resolve" THEN DNS_SERVER ELSE call.arg
           IN  IF ipv4_in_subnet(target, OWN_IP, NETMASK) THEN target ELSE GATEWAY

\* resolve, the table_lookup before its loop.
resolve_lookup ==
    /\ shell = "lookup"
    /\ Goto(IF Found(table, NextHop) THEN "prepare" ELSE "arp_send", 0)
    /\ TableBecomes(AfterLookup(table, NextHop), heard)
    /\ UNCHANGED <<active, echoVars, dnsVars, asleep, netVars, answerVars, wire>>

\* resolve sends a request, or rtl8139_send fails.
resolve_send ==
    /\ shell = "arp_send"
    /\ \/ NextHop \in Requestable /\ Goto("arp_wait", attempt)
       \/ Return("no_route", NONE)
    /\ UNCHANGED <<active, tableVars, echoVars, dnsVars, asleep, netVars, answerVars, wire>>

\* The net task has accepted a reply, or a response, and not yet stored it.
ReplyAccepted == net = "echo"
ResponseAccepted == net \in {"dns_parse", "dns_address", "dns_status", "dns_done"}

\* A request is made ready: the answer of an earlier one is cleared.
ping_prepare ==
    /\ shell = "prepare" /\ call.fn = "ping"
    /\ echo_sequence' = (echo_sequence + 1) % SEQ_MOD
    /\ echo_target' = call.arg
    /\ echo_received' = FALSE
    /\ echo_waiting' = TRUE
    /\ Goto("send", 0)
    /\ taken' = NothingFound /\ late' = ReplyAccepted
    /\ UNCHANGED <<active, tableVars, dnsVars, asleep, netVars, wire>>

query_prepare ==
    /\ shell = "prepare" /\ call.fn = "resolve"
    /\ \E random \in Randoms : dns_id' = DnsId(random) /\ dns_local_port' = DnsLocalPort(random)
    /\ dns_done' = FALSE
    /\ dns_status' = "ok"
    /\ dns_waiting' = TRUE
    /\ Goto("send", attempt)
    /\ taken' = NothingFound /\ late' = IF attempt = 0 THEN ResponseAccepted ELSE late
    /\ UNCHANGED <<active, tableVars, echoVars, dns_name, dns_address, asleep, netVars, wire>>

\* The requests that can still be answered.
Recent == {p \in pings : (echo_sequence - p.sequence) % SEQ_MOD < MAX_LATE}

\* It is sent, or the send fails.
ping_send ==
    /\ shell = "send" /\ call.fn = "ping"
    /\ \/ /\ Ping(echo_target, echo_sequence) \in Pingable
          /\ pings' = Recent \cup {Ping(echo_target, echo_sequence)}
          /\ Goto("echo_wait", 0)
          /\ UNCHANGED echo_waiting
       \/ /\ echo_waiting' = FALSE
          /\ Return("send", NONE)
          /\ UNCHANGED pings
    /\ UNCHANGED <<active, tableVars, echo_target, echo_sequence, echo_received, dnsVars, asleep,
                   netVars, answerVars, queries>>

query_send ==
    /\ shell = "send" /\ call.fn = "resolve"
    /\ \/ /\ Query(dns_id, dns_local_port, dns_name) \in Askable
          /\ queries' = queries \cup {Query(dns_id, dns_local_port, dns_name)}
          /\ Goto("dns_wait", attempt)
          /\ UNCHANGED dns_waiting
       \/ /\ dns_waiting' = FALSE
          /\ Return("send", NONE)
          /\ UNCHANGED queries
    /\ UNCHANGED <<active, tableVars, echoVars, dns_name, dns_id, dns_local_port, dns_done, dns_status,
                   dns_address, asleep, netVars, answerVars, pings>>

\* The callbacks of wait_queue_wait_until: resolved, echo_ready, dns_ready.
Ready == CASE shell = "arp_wait" -> Found(table, NextHop)
           [] shell = "echo_wait" -> echo_received
           [] shell = "dns_wait" -> dns_done

\* What follows a wait, by whether it ended with WAIT_OK.
resolve_waited(ok) ==
    /\ shell = "arp_wait"
    /\ IF ok THEN Goto("prepare", 0)
       ELSE IF attempt + 1 < ARP_ATTEMPTS THEN Goto("arp_send", attempt + 1)
       ELSE Return("no_route", NONE)
    /\ UNCHANGED <<echo_waiting, dns_waiting>>

ping_waited(ok) ==
    /\ shell = "echo_wait"
    /\ echo_waiting' = FALSE
    /\ IF ok THEN Return("ok", echo_target) ELSE Return("timeout", NONE)
    /\ UNCHANGED dns_waiting

query_waited(ok) ==
    /\ shell = "dns_wait"
    /\ dns_waiting' = FALSE
    /\ IF ok THEN Return(IF dns_status \in {"ok", "nxdomain"} THEN dns_status ELSE "dns",
                         IF dns_status = "ok" THEN dns_address ELSE NONE)
       ELSE IF attempt + 1 < DNS_ATTEMPTS THEN Goto("prepare", attempt + 1)
       ELSE Return("timeout", NONE)
    /\ UNCHANGED echo_waiting

Waited(ok) == resolve_waited(ok) \/ ping_waited(ok) \/ query_waited(ok)
Waiting == shell \in {"arp_wait", "echo_wait", "dns_wait"}

\* resolved drops an entry that has expired.
AfterTest == IF shell = "arp_wait" THEN AfterLookup(table, NextHop) ELSE table

\* wait_queue_wait_until: the test, and the sleep.
wait_test ==
    /\ Waiting /\ ~asleep
    /\ IF Ready THEN Waited(TRUE) /\ UNCHANGED asleep
       ELSE asleep' = TRUE /\ UNCHANGED <<shellVars, echo_waiting, dns_waiting>>
    /\ TableBecomes(AfterTest, heard)
    /\ UNCHANGED <<active, echo_target, echo_sequence, echo_received, dns_name, dns_id,
                   dns_local_port, dns_done, dns_status, dns_address, netVars, answerVars, wire>>

\* Mutant: the wait has no timeout.
TimesOut_never == FALSE

TimesOut == Waiting /\ asleep

wait_timeout ==
    /\ TimesOut
    /\ asleep' = FALSE
    /\ Waited(Ready)
    /\ TableBecomes(AfterTest, heard)
    /\ UNCHANGED <<active, echo_target, echo_sequence, echo_received, dns_name, dns_id,
                   dns_local_port, dns_done, dns_status, dns_address, netVars, answerVars, wire>>

Shell == \/ net_init
         \/ resolve_lookup \/ resolve_send
         \/ ping_prepare \/ ping_send \/ query_prepare \/ query_send
         \/ wait_test \/ wait_timeout
-----------------------------------------------------------------------------
(* The net task.  A frame that matches nothing changes nothing.            *)

\* handle_arp with interrupts off.
handle_arp(packet) ==
    /\ active /\ net = "idle"
    /\ TableBecomes(arp_handle(table, packet, OWN_IP),
                    [heard EXCEPT ![packet.sender_ip] = packet.sender_mac])
    /\ net' = "wake"
    /\ UNCHANGED <<active, echoVars, dnsVars, shellVars, asleep, found, answerVars, wire>>

\* Mutant: the sequence number is not compared.
EchoMatches_any_sequence(datagram) ==
    /\ echo_waiting
    /\ datagram.message.type = ICMP_ECHO_REPLY /\ datagram.message.id = PING_ID
    /\ datagram.source = echo_target

EchoMatches(datagram) ==
    /\ echo_waiting
    /\ datagram.message.type = ICMP_ECHO_REPLY /\ datagram.message.id = PING_ID
    /\ datagram.message.sequence = echo_sequence
    /\ datagram.source = echo_target

\* handle_icmp, up to its test of an echo reply.
handle_icmp(reply) ==
    /\ net = "idle"
    /\ EchoMatches(reply.datagram)
    /\ net' = "echo"
    /\ found' = [NothingFound EXCEPT !.to = reply.to]
    /\ UNCHANGED <<active, tableVars, echoVars, dnsVars, shellVars, asleep, answerVars, wire>>

DnsMatches(datagram) ==
    /\ dns_waiting
    /\ datagram.message.destination_port = dns_local_port
    /\ datagram.message.source_port = DNS_PORT
    /\ datagram.source = DNS_SERVER

\* handle_udp, up to its test of the ports.
handle_udp ==
    /\ net = "idle" /\ dns_waiting
    /\ \E arrival \in Arrivals :
          /\ arrival.to \in queries /\ DnsMatches(arrival.datagram)
          /\ found' = [to |-> arrival.to, datagram |-> arrival.datagram, got |-> NONE, says |-> arrival.says]
    /\ net' = "dns_parse"
    /\ UNCHANGED <<active, tableVars, echoVars, dnsVars, shellVars, asleep, answerVars, wire>>

\* dns_response_parse of it, for what dns_id and dns_name are by now.
handle_udp_parse ==
    /\ net = "dns_parse"
    /\ \E response \in Responses :
          /\ response.to = found.to /\ response.datagram = found.datagram /\ response.says = found.says
          /\ response.id = dns_id /\ response.name = dns_name
          /\ \/ /\ response.got.status = "rejected"
                /\ net' = "idle" /\ found' = NothingFound
             \/ /\ response.got.status # "rejected"
                /\ net' = "dns_address"
                /\ found' = [found EXCEPT !.datagram = NONE, !.got = response.got]
    /\ UNCHANGED <<active, tableVars, echoVars, dnsVars, shellVars, asleep, answerVars, wire>>

\* The assignments after the test; an error leaves the local address unset.
store ==
    /\ \/ /\ net = "echo" /\ net' = "wake"
          /\ echo_received' = TRUE
          /\ taken' = found /\ found' = NothingFound
          /\ UNCHANGED <<dns_address, dns_status, dns_done>>
       \/ /\ net = "dns_address" /\ net' = "dns_status"
          /\ dns_address' = IF found.got.status = "ok" THEN found.got.address ELSE GARBAGE
          /\ UNCHANGED <<echo_received, dns_status, dns_done, found, taken>>
       \/ /\ net = "dns_status" /\ net' = "dns_done"
          /\ dns_status' = found.got.status
          /\ UNCHANGED <<echo_received, dns_address, dns_done, found, taken>>
       \/ /\ net = "dns_done" /\ net' = "wake"
          /\ dns_done' = TRUE
          /\ taken' = found /\ found' = NothingFound
          /\ UNCHANGED <<echo_received, dns_address, dns_status>>
    /\ UNCHANGED <<active, tableVars, echo_target, echo_sequence, echo_waiting, dns_name, dns_id,
                   dns_local_port, dns_waiting, shellVars, asleep, late, wire>>

\* wait_queue_wake_all(&events).
wake ==
    /\ net = "wake"
    /\ net' = "idle"
    /\ asleep' = FALSE
    /\ UNCHANGED <<active, tableVars, echoVars, dnsVars, shellVars, found, answerVars, wire>>

\* uptime_ms goes on.
tick ==
    /\ table' = Older(table)
    /\ UNCHANGED <<active, heard, echoVars, dnsVars, shellVars, asleep, netVars, answerVars, wire>>

Init ==
    /\ active = FALSE
    /\ table = arp_table_init /\ heard = [ip \in IPs \cup {OWN_IP} |-> NONE]
    /\ echo_target = NONE /\ echo_sequence = 0
    /\ echo_waiting = FALSE /\ echo_received = FALSE
    /\ dns_name = NONE /\ dns_id = NONE /\ dns_local_port = NONE /\ dns_waiting = FALSE /\ dns_done = FALSE
    /\ dns_status = "ok" /\ dns_address = GARBAGE
    /\ shell = "boot" /\ call = [fn |-> NONE, arg |-> NONE] /\ attempt = 0
    /\ asleep = FALSE /\ result = Result(NONE, NONE)
    /\ net = "idle" /\ found = NothingFound /\ taken = NothingFound /\ late = FALSE
    /\ pings = {} /\ queries = {}

Next ==
    \/ begin
    \/ Shell
    \/ \E packet \in ArpPackets : handle_arp(packet)
    \/ \E reply \in EchoReplies : reply.to \in pings /\ handle_icmp(reply)
    \/ handle_udp \/ handle_udp_parse
    \/ store \/ wake
    \/ tick

\* The shell and the net task both get the processor.  The deadline of a wait
\* stays the same over wake-ups, so that a shell that is woken and sleeps again
\* for ever is found asleep by some tick after it.
Fairness == WF_vars(Shell) /\ SF_vars(wait_timeout) /\ WF_vars(store \/ wake)

Spec == Init /\ [][Next]_vars /\ Fairness
-----------------------------------------------------------------------------
(* Properties.                                                             *)

\* No two entries of the table hold the same address, and an entry holds what
\* its host announced last, whatever expired or was pushed out in between.
TableCurrent ==
    \A i \in Entries : table[i].used =>
        /\ Matches(table, table[i].ip) = {i}
        /\ table[i].mac = heard[table[i].ip]

\* A ping that succeeds was answered: the reply that ended it is one to its own
\* target and sequence number, not a late one to an earlier ping, and not one that
\* the way has turned into it.  The code promises no more than this: when the net task
\* was already past the test of handle_icmp with another reply as the ping was made
\* ready, that reply ends the wait.
PingAnswered ==
    shell = "idle" /\ call.fn = "ping" /\ result.code = "ok" /\ ~late =>
        taken.to = Ping(call.arg, echo_sequence)


\* "Errors are reported to the caller": when net_resolve returns success, the
\* address is the one that the server gave for the name.
ErrorsReported ==
    shell = "idle" /\ call.fn = "resolve" /\ result.code = "ok" =>
        result.value = Addresses[call.arg]

\* Every call returns, although answers may never come.
CallsReturn == shell # "idle" ~> shell = "idle"
=============================================================================
