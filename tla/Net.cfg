SPECIFICATION MCSpec
CONSTANTS
    NONE = NONE
    GARBAGE = GARBAGE
    ARP_TABLE_SIZE = 2
    ARP_ENTRY_LIFETIME = 2
    TIME_MOD = 3
    OWN_MAC <- MC_OWN_MAC
    HOST_MAC <- MC_HOST_MAC
    OWN_IP <- MC_OWN_IP
    GATEWAY <- MC_GATEWAY
    DNS_SERVER <- MC_DNS_SERVER
    NETMASK <- MC_NETMASK
    IPs <- MC_IPs
    MACs <- MC_MACs
    Targets <- MC_Targets
    Names <- MC_Names
    Addresses <- MC_Addresses
    Known <- MC_Known
    Randoms <- MC_Randoms
    ARP_ATTEMPTS = 2
    DNS_ATTEMPTS = 2
    SEQ_MOD = 3
    MAX_LATE = 2
    MAX_QUERIES = 2
INVARIANTS TableCurrent PingAnswered 
PROPERTIES CallsReturn
