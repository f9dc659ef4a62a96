--------------------------------- MODULE Arp ---------------------------------
(***************************************************************************)
(* The address table of net/arp.c.  An entry keeps its age, which is       *)
(* now - updated: unsigned and modulo TIME_MOD (2^32 milliseconds), so it  *)
(* grows by one in each unit of time and wraps.                            *)
(***************************************************************************)
EXTENDS Packets

CONSTANTS
    ARP_TABLE_SIZE,
    ARP_ENTRY_LIFETIME,
    TIME_MOD,
    NONE

ASSUME ArpAssumption ==
    /\ ARP_TABLE_SIZE \in Nat \ {0}
    /\ ARP_ENTRY_LIFETIME \in 1..(TIME_MOD - 1)
    /\ TIME_MOD \in Nat

Entries == 0..(ARP_TABLE_SIZE - 1)
Unused == [used |-> FALSE, ip |-> NONE, mac |-> NONE, age |-> 0]

arp_table_init == [i \in Entries |-> Unused]

Lowest(S) == CHOOSE i \in S : \A j \in S : i <= j

Matches(table, ip) == {i \in Entries : table[i].used /\ table[i].ip = ip}
Free(table) == {i \in Entries : ~table[i].used}
Oldest(table) == {i \in Entries : \A j \in Entries : table[j].age <= table[i].age}

\* Mutant: a free entry is taken before one that holds the address.
Victim_free_first(table, ip) ==
    IF Free(table) # {} THEN Lowest(Free(table))
    ELSE IF Matches(table, ip) # {} THEN Lowest(Matches(table, ip))
    ELSE Lowest(Oldest(table))

\* The entry that arp_table_update writes.
Victim(table, ip) ==
    IF Matches(table, ip) # {} THEN Lowest(Matches(table, ip))
    ELSE IF Free(table) # {} THEN Lowest(Free(table))
    ELSE Lowest(Oldest(table))

arp_table_update(table, ip, mac) ==
    [table EXCEPT ![Victim(table, ip)] = [used |-> TRUE, ip |-> ip, mac |-> mac, age |-> 0]]

\* arp_table_lookup finds a match that has not expired; one that has is dropped.
Found(table, ip) ==
    /\ Matches(table, ip) # {}
    /\ table[Lowest(Matches(table, ip))].age < ARP_ENTRY_LIFETIME
AfterLookup(table, ip) ==
    IF Matches(table, ip) # {} /\ ~Found(table, ip)
    THEN [table EXCEPT ![Lowest(Matches(table, ip))] = Unused]
    ELSE table

mac_is_multicast(mac) == mac[1] % 2 = 1

sender_is_valid(packet, own_ip) ==
    /\ packet.sender_ip \notin {Zeros(IPV4_SIZE), <<255, 255, 255, 255>>, own_ip}
    /\ packet.sender_mac # Zeros(MAC_SIZE) /\ ~mac_is_multicast(packet.sender_mac)

\* arp_handle: what becomes of the table.
arp_handle(table, packet, own_ip) ==
    IF ~sender_is_valid(packet, own_ip) THEN table
    ELSE IF packet.target_ip = own_ip \/ Found(table, packet.sender_ip)
    THEN arp_table_update(table, packet.sender_ip, packet.sender_mac)
    ELSE AfterLookup(table, packet.sender_ip)

\* A unit of time passes.
Older(table) == [i \in Entries |-> IF table[i].used
                                   THEN [table[i] EXCEPT !.age = (@ + 1) % TIME_MOD]
                                   ELSE table[i]]
=============================================================================
