\* Two neighbours fill the ARP cache and a third finds it full; the two
\* dynamic ports wrap around while they are in use; one tick separates two
\* DHCP transactions.
SPECIFICATION Spec
CONSTANTS
    own = own
    gateway = gateway
    peer = peer
    third = third
    limited = limited
    m1 = m1
    m2 = m2
    Address <- AddressValue
    Local <- LocalValue
    Own = own
    Gateway = gateway
    Limited = limited
    Mac <- MacValue
    None = None
    OwnMac = OwnMac
    ARP_CACHE_SIZE = 2
    UDP_MAX_SOCKETS = 2
    DHCP_CLIENT_PORT = 1
    DYNAMIC = 2
    PORTS = 4
    Offers <- OffersValue
    Announcements <- AnnouncementsValue
    dns_server = peer
    MAX_TICKS = 1
    MAX_QUERIES = 1
INVARIANTS
    CacheUnique
    FramesToNextHop
    PortsUnique
PROPERTIES
    LeaseIsCurrent
CHECK_DEADLOCK FALSE
