-------------------------------- MODULE MCNet --------------------------------
(***************************************************************************)
(* An instance of Net for TLC.  The table is read only while a hop is      *)
(* resolved, and the two calls share no other variable.  So a behaviour is *)
(* one of three sessions, each with one source of nondeterminism: pings    *)
(* with all ARP traffic that are not sent in the end, or one of the calls  *)
(* with its answers, where only the awaited next hop announces itself and  *)
(* its entry stays fresh.                                                  *)
(***************************************************************************)
EXTENDS Net, FiniteSets

CONSTANTS
    Known,       \* the names that exist
    MAX_QUERIES  \* different ones that are sent

Ip(host) == <<10, 0, 2, host>>
Mac(host) == <<82, 84, 0, 18, 53, host>>

MC_OWN_MAC == Mac(15)
MC_HOST_MAC == Mac(2)
MC_OWN_IP == Ip(15)
MC_GATEWAY == Ip(2)
MC_DNS_SERVER == Ip(3)
MC_NETMASK == <<255, 255, 255, 0>>
MC_IPs == {Ip(2), Ip(3), Ip(4)}
MC_MACs == {Mac(2), Mac(3)}
MC_Targets == {Ip(3), <<9, 9, 9, 9>>}

\* "a", "b.c-2" and "a..", which has no encoding.
name1 == << <<97>> >>
name2 == << <<98>>, <<99, 45, 50>> >>
name3 == << <<97>>, << >> >>
MC_Names == {name1, name2, name3}
MC_Addresses == [n \in MC_Names |-> IF n = name1 THEN <<1, 2, 3, 4>> ELSE <<1, 2, 3, 5>>]
MC_Known == {name1}

\* The same identifier with two ports.
MC_Randoms == {4660, 65536 + 4660}

VARIABLE session

MCInit == Init /\ session \in {"table", "ping", "resolve"}

InSession ==
    \/ /\ session = "table"
       /\ call'.fn \in {NONE, "ping"} /\ call'.arg \in {NONE, DNS_SERVER} /\ shell' # "echo_wait"
    \/ /\ session = call'.fn \/ call'.fn = NONE
       /\ Cardinality(queries') <= MAX_QUERIES
       /\ table' # table =>
             /\ shell = "arp_wait"
             /\ \A i \in Entries : table'[i].ip \in {NONE, NextHop} /\ table'[i].age = 0

MCNext == Next /\ InSession /\ UNCHANGED session

MCSpec == MCInit /\ [][MCNext]_<<vars, session>> /\ Fairness

\* A server that gives the same answer whenever it is asked about a name.
SteadyServer ==
    net = "dns_parse" /\ net' = "dns_address" =>
        found'.got.status = IF found'.to.name \in Known THEN "ok" ELSE "nxdomain"

SteadySpec == MCInit /\ [][MCNext /\ SteadyServer]_<<vars, session>> /\ Fairness
=============================================================================
