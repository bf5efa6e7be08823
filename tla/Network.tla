------------------------------- MODULE Network -------------------------------
(***************************************************************************)
(* The UDP sockets of net/udp.c, with the clients of net/dhcp.c and        *)
(* net/dns.c on them, over the layers of Ip.                               *)
(*                                                                         *)
(* The neighbours are external.  They speak the encodings of this code     *)
(* (udp_checksum adds the protocol without swapping it, which only another *)
(* host with this code computes alike).  Nothing in the repository hands a *)
(* received frame to arp_handle_packet or ip_handle_packet: the actions    *)
(* that deliver one stand for the missing dispatcher.  A message of the    *)
(* host stays on the wire, so that a DHCP server may answer it late, twice *)
(* or never.                                                               *)
(***************************************************************************)
EXTENDS Ip

CONSTANTS UDP_MAX_SOCKETS,
          DHCP_CLIENT_PORT,
          DYNAMIC,         \* 49152, the first dynamic port
          PORTS,           \* 2^16
          Offers,          \* external: pairs of a DHCP server and an address it offers
          Announcements,   \* external: pairs of a neighbour and a hardware address of its
          dns_server,      \* the server dns_init is given
          MAX_TICKS,       \* bound on timer_get_ticks
          MAX_QUERIES      \* bound on dns_state.query_id

ASSUME NetworkAssumption ==
    /\ UDP_MAX_SOCKETS \in Nat
    /\ DHCP_CLIENT_PORT \in 1 .. DYNAMIC - 1
    /\ DYNAMIC \in Nat /\ PORTS \in Nat /\ DYNAMIC < PORTS
    /\ Offers \subseteq Local \X Address
    /\ Announcements \subseteq (Local \ {Own}) \X Mac
    /\ dns_server \in Address \ {Own}
    /\ MAX_TICKS \in Nat /\ MAX_QUERIES \in Nat
    /\ None \notin [port : 0 .. PORTS - 1, callback : {"application", "dhcp", "dns"}]

VARIABLES sockets,     \* udp_state.sockets
          next_port,   \* udp_state.next_port
          ticks,       \* timer_get_ticks
          dhcp,        \* dhcp_state
          dns,         \* dns_state
          wire,        \* DHCP messages the host sent
          reported,    \* the last dhcp_info_t given to the application
          taken,       \* ghost: the offers handled since the client last started over
          repeated       \* ghost: it started over with an xid that was on the wire already

ipVars == <<cache, sent, announced>>
udpVars == <<sockets, next_port>>
leaseVars == <<dhcp, wire, reported, taken, repeated>>
vars == <<cache, sent, announced, sockets, next_port, ticks, dhcp, dns, wire, reported, taken,
          repeated>>

Port == 0 .. PORTS - 1
UdpSlot == 0 .. UDP_MAX_SOCKETS - 1
Socket == [port : Port, callback : {"application", "dhcp", "dns"}]
Message == [type : {"discover"}, xid : 0 .. MAX_TICKS]
             \cup [type : {"request"}, xid : 0 .. MAX_TICKS, ip : Address, server : Address]

Init ==
    /\ IpInit
    /\ sockets = [i \in UdpSlot |-> None]
    /\ next_port = DYNAMIC
    /\ ticks = 0
    /\ dhcp = [socket |-> None, xid |-> 0, server_ip |-> None, offered_ip |-> None]
    /\ dns = [socket |-> None, query_id |-> 0, callback |-> None]
    /\ wire = {}
    /\ reported = None
    /\ taken = {}
    /\ repeated = FALSE

-----------------------------------------------------------------------------
(***************************************************************************)
(* udp_create_socket.  A dynamic port is taken from the counter even when  *)
(* it is in use or no slot is free, and the call then fails.               *)
(***************************************************************************)
InUse(port) == {i \in UdpSlot : sockets[i] # None /\ sockets[i].port = port}

FreeSlots == {i \in UdpSlot : sockets[i] = None}

\* Mutant: the chosen port is not looked for among the sockets.
CreatesAny(port) == FreeSlots # {}

Creates(port) == InUse(port) = {} /\ FreeSlots # {}

NextDynamic ==
    IF (next_port + 1) % PORTS < DYNAMIC THEN DYNAMIC ELSE (next_port + 1) % PORTS

Chosen(port) == IF port = 0 THEN next_port ELSE port

udp_create_socket(port, callback) ==
    /\ next_port' = IF port = 0 THEN NextDynamic ELSE next_port
    /\ sockets' = IF Creates(Chosen(port))
                  THEN [sockets EXCEPT ![Min(FreeSlots)] = [port     |-> Chosen(port),
                                                            callback |-> callback]]
                  ELSE sockets

CreateSocket(port) ==
    /\ udp_create_socket(port, "application")
    /\ sent' = {}
    /\ UNCHANGED <<cache, announced, ticks, dns, leaseVars>>

udp_close_socket(i) ==
    /\ sockets[i] # None /\ sockets[i].callback = "application"
    /\ sockets' = [sockets EXCEPT ![i] = None]
    /\ sent' = {}
    /\ UNCHANGED <<cache, announced, next_port, ticks, dns, leaseVars>>

\* The frames of udp_send.
udp_send(dest, body) == ip_send_packet(dest, body)

(***************************************************************************)
(* ip_handle_packet and udp_handle_packet: the socket whose callback runs. *)
(***************************************************************************)
Receives(dest, port, callback) ==
    /\ ip_handle_packet(dest)
    /\ InUse(port) # {}
    /\ sockets[Min(InUse(port))].callback = callback

-----------------------------------------------------------------------------
(***************************************************************************)
(* dhcp_send_discover and dhcp_send_request, for the state they leave in   *)
(* dhcp.  0xFFFFFFFF is outside the subnet: the message goes to the        *)
(* gateway.  Without room for the packet nothing is sent, and a discover   *)
(* leaves the old xid.  The xid is timer_get_ticks, so that a client that  *)
(* starts over within one tick has the xid of the transaction before, too. *)
(***************************************************************************)
Discover(xid) == [type |-> "discover", xid |-> xid]

Request(xid, ip, server) == [type |-> "request", xid |-> xid, ip |-> ip, server |-> server]

Transmit(message) ==
    /\ nic_send_packet(udp_send(Limited, message))
    /\ wire' = wire \cup {f.body : f \in {g \in sent' : g.type = "0800"}}
    /\ UNCHANGED <<cache, announced>>

NoPacket == sent' = {} /\ UNCHANGED <<cache, announced, wire>>

dhcp_send_discover(state) ==
    /\ \/ dhcp' = [state EXCEPT !.xid = ticks] /\ Transmit(Discover(ticks))
       \/ dhcp' = state /\ NoPacket
    /\ taken' = {}
    /\ repeated' = (\E m \in wire : m.xid = dhcp'.xid)

dhcp_send_request(state) ==
    /\ dhcp' = state
    /\ Transmit(Request(state.xid, state.offered_ip, state.server_ip)) \/ NoPacket

(***************************************************************************)
(* dhcp_init: fails when the port is taken or no socket is free.           *)
(***************************************************************************)
dhcp_init ==
    /\ dhcp.socket = None
    /\ udp_create_socket(DHCP_CLIENT_PORT, "dhcp")
    /\ IF Creates(DHCP_CLIENT_PORT)
       THEN dhcp_send_discover([dhcp EXCEPT !.socket = Min(FreeSlots)])
       ELSE NoPacket /\ UNCHANGED <<dhcp, taken, repeated>>
    /\ UNCHANGED <<ticks, dns, reported>>

\* Mutant: the transaction of the answer is not compared.
CurrentAny(xid) == TRUE

(***************************************************************************)
(* dhcp_handle_packet, one action for each message type.  An answer of     *)
(* another transaction is dropped.                                         *)
(***************************************************************************)
Current(xid) == xid = dhcp.xid

HandleOffer(xid, server, ip) ==
    /\ Receives(ip, DHCP_CLIENT_PORT, "dhcp")
    /\ Current(xid)
    /\ dhcp_send_request([dhcp EXCEPT !.offered_ip = ip, !.server_ip = server])
    /\ taken' = taken \cup {<<server, ip>>}
    /\ UNCHANGED <<sockets, next_port, ticks, dns, reported, repeated>>

HandleAck(xid, ip) ==
    /\ Receives(ip, DHCP_CLIENT_PORT, "dhcp")
    /\ Current(xid)
    /\ reported' = [ip |-> ip, server_ip |-> dhcp.server_ip]
    /\ sent' = {}
    /\ UNCHANGED <<cache, announced, sockets, next_port, ticks, dhcp, dns, wire, taken, repeated>>

HandleNak(xid) ==
    /\ Receives(Own, DHCP_CLIENT_PORT, "dhcp")
    /\ Current(xid)
    /\ dhcp_send_discover(dhcp)
    /\ UNCHANGED <<sockets, next_port, ticks, dns, reported>>

(***************************************************************************)
(* External: a server answers a message that reached it, a discover with   *)
(* an offer and a request for one of its offers with an ACK or a NAK.      *)
(***************************************************************************)
Answered ==
    \E m \in wire :
        \/ m.type = "discover" /\ \E o \in Offers : HandleOffer(m.xid, o[1], o[2])
        \/ m.type = "request" /\ <<m.server, m.ip>> \in Offers
             /\ (HandleAck(m.xid, m.ip) \/ HandleNak(m.xid))

-----------------------------------------------------------------------------
dns_init ==
    /\ dns.socket = None
    /\ udp_create_socket(0, "dns")
    /\ dns' = IF Creates(next_port) THEN [dns EXCEPT !.socket = Min(FreeSlots)] ELSE dns
    /\ sent' = {}
    /\ UNCHANGED <<cache, announced, ticks, leaseVars>>

(***************************************************************************)
(* dns_resolve.  Nothing fills the cache, so every name is asked for.  The *)
(* callback of an earlier query is overwritten.                            *)
(***************************************************************************)
dns_resolve ==
    /\ dns.socket # None
    /\ dns.query_id < MAX_QUERIES
    /\ dns' = [dns EXCEPT !.query_id = @ + 1, !.callback = "application"]
    /\ nic_send_packet(udp_send(dns_server, "dns"))
    /\ UNCHANGED <<cache, announced, sockets, next_port, ticks, leaseVars>>

-----------------------------------------------------------------------------
Tick ==
    /\ ticks < MAX_TICKS
    /\ ticks' = ticks + 1
    /\ sent' = {}
    /\ UNCHANGED <<cache, announced, sockets, next_port, dns, leaseVars>>

IpNext ==
    /\ \E n \in Announcements :
          \/ /\ \E to \in Mac \cup {OwnMac, Broadcast} : ethernet_handle_frame(to)
             /\ \/ arp_handle_reply(n[1], n[2])
                \/ arp_handle_request(n[1], n[2])
                \/ \E dest \in Address : icmp_handle_packet(n[1], dest)
          \/ icmp_send_echo_request(n[1])
          \/ icmp_send_destination_unreachable(n[1])
    /\ UNCHANGED <<sockets, next_port, ticks, dns, leaseVars>>

Next ==
    \/ IpNext
    \/ \E port \in {0, DHCP_CLIENT_PORT} : CreateSocket(port)
    \/ \E i \in UdpSlot : udp_close_socket(i)
    \/ dhcp_init
    \/ Answered
    \/ dns_init
    \/ dns_resolve
    \/ Tick

Spec == Init /\ [][Next]_vars

-----------------------------------------------------------------------------
TypeOK ==
    /\ cache \in [Slot -> Entry \cup {None}]
    /\ announced \in [Address -> Mac \cup {None}]
    /\ sockets \in [UdpSlot -> Socket \cup {None}]
    /\ next_port \in DYNAMIC .. PORTS - 1
    /\ ticks \in 0 .. MAX_TICKS
    /\ dhcp \in [socket : UdpSlot \cup {None}, xid : 0 .. MAX_TICKS,
                 server_ip : Address \cup {None}, offered_ip : Address \cup {None}]
    /\ dns \in [socket : UdpSlot \cup {None}, query_id : 0 .. MAX_QUERIES,
                callback : {"application", None}]
    /\ wire \subseteq Message
    /\ reported \in [ip : Address, server_ip : Address \cup {None}] \cup {None}
    /\ taken \subseteq Offers
    /\ repeated \in BOOLEAN

(***************************************************************************)
(* No two open sockets share a port, whatever the applications open and    *)
(* close and however often the dynamic ports wrap around                   *)
(* (udp_create_socket), so that a packet has one receiver; and a client    *)
(* keeps the socket it was given.                                          *)
(***************************************************************************)
PortsUnique ==
    /\ \A i, j \in UdpSlot :
          sockets[i] # None /\ sockets[j] # None /\ sockets[i].port = sockets[j].port => i = j
    /\ dhcp.socket # None => sockets[dhcp.socket] = [port |-> DHCP_CLIENT_PORT, callback |-> "dhcp"]
    /\ dns.socket # None => sockets[dns.socket] # None /\ sockets[dns.socket].callback = "dns"

(***************************************************************************)
(* The application is told of an address only when the client asked for it *)
(* under the xid it has now.  When that xid is new, the address and the    *)
(* server were both offered since the client last started over: an ACK     *)
(* that comes late, after a NAK, is not taken for an answer to the new     *)
(* request (dhcp_handle_packet).  A client that started over within one    *)
(* tick, or without memory for the packet, has no such protection; and the *)
(* server it names may have offered another address than the one the ACK   *)
(* confirms, for an offer that comes later overwrites server_ip.           *)
(***************************************************************************)
LeaseIsCurrent ==
    [][reported' # reported =>
          /\ \E m \in wire : m.type = "request" /\ m.xid = dhcp.xid /\ m.ip = reported'.ip
          /\ repeated \/ \E a, b \in taken : a[2] = reported'.ip /\ b[1] = reported'.server_ip]_vars

=============================================================================
