---------------------------- MODULE NetworkProofs ----------------------------
(***************************************************************************)
(* Theorems about Ip and Network, for any sizes of the cache and the       *)
(* socket table, any addresses and ports, and any neighbours, and about    *)
(* Tcp, for any sockets, ports, sequence numbers and faults.               *)
(***************************************************************************)
EXTENDS Network, Tcp, SequenceLemmas

\* The first slot that a loop finds is in the set of those it looks for.
LEMMA MinIn ==
    ASSUME NEW S \in SUBSET Nat, S # {}
    PROVE  Min(S) \in S /\ \A j \in S : Min(S) <= j
<1>1. \E i \in S : \A j \in S : i <= j
  BY LeastElement
<1> QED BY <1>1 DEF Min

-----------------------------------------------------------------------------
ArpTypes == cache \in [Slot -> Entry \cup {None}] /\ announced \in [Address -> Mac \cup {None}]

\* An entry holds what its address announced last.
CacheCurrent == \A i \in Slot : cache[i] # None => cache[i].mac = announced[cache[i].ip]

ArpInv == ArpTypes /\ CacheUnique /\ CacheCurrent

(***************************************************************************)
(* arp_handle_packet finds the entry that has the address before any free  *)
(* one: the entries fill the cache from the front.                         *)
(***************************************************************************)
LEMMA ReplyKeeps ==
    ASSUME ArpInv, NEW ip \in Address, NEW mac \in Mac, arp_handle_reply(ip, mac)
    PROVE  ArpInv'
<1> DEFINE R == ReplySlots(ip)
           e == [ip |-> ip, mac |-> mac]
<1>0. ArpTypes /\ CacheUnique /\ CacheCurrent
  BY DEF ArpInv
<1>1. e \in Entry /\ e # None /\ e.ip = ip /\ e.mac = mac
  BY IpAssumption DEF Entry
<1>2. /\ announced' \in [Address -> Mac \cup {None}] /\ announced'[ip] = mac
      /\ \A a \in Address : a # ip => announced'[a] = announced[a]
  BY <1>0 DEF arp_handle_reply, ArpTypes
<1>3. \A i \in Slot : i \in Nat /\ (cache[i] # None => cache[i].ip \in Address)
  BY <1>0, IpAssumption DEF Slot, ArpTypes, Entry
<1>4. CASE R = {}
  <2>1. cache' = cache
    BY <1>4 DEF arp_handle_reply
  <2>2. \A i \in Slot : cache[i] # None => cache[i].ip # ip
    BY <1>4 DEF ReplySlots
  <2>3. CacheCurrent'
    BY <1>0, <1>2, <1>3, <2>1, <2>2 DEF CacheCurrent
  <2> QED BY <1>0, <1>2, <2>1, <2>3 DEF ArpInv, ArpTypes, CacheUnique
<1>5. CASE R # {}
  <2> DEFINE k == Min(R)
  <2>1. k \in R /\ \A j \in R : k <= j
    <3>1. R \in SUBSET Nat
      BY <1>3 DEF ReplySlots
    <3> QED BY <1>5, <3>1, MinIn
  <2>2. cache' = [cache EXCEPT ![k] = e]
    BY <1>5 DEF arp_handle_reply
  <2> HIDE DEF k, e
  <2>3. k \in Slot /\ (cache[k] = None \/ cache[k].ip = ip)
    BY <2>1 DEF ReplySlots
  <2>4. \A j \in Slot : j < k => cache[j] # None
    BY <1>3, <2>1, <2>3 DEF ReplySlots
  <2>5. \A j \in Slot : j # k /\ cache[j] # None => cache[j].ip # ip
    <3>1. ASSUME NEW j \in Slot, j # k, cache[j] # None, cache[j].ip = ip PROVE FALSE
      <4>1. k < j
        BY <1>3, <2>1, <2>3, <3>1 DEF ReplySlots
      <4>2. cache[k] # None
        BY <1>0, <2>3, <3>1, <4>1 DEF CacheUnique
      <4> QED BY <1>0, <2>3, <3>1, <4>2 DEF CacheUnique
    <3> QED BY <3>1
  <2>6. cache' \in [Slot -> Entry \cup {None}] /\ cache'[k] = e /\ \A j \in Slot : j # k => cache'[j] = cache[j]
    BY <1>0, <1>1, <2>2, <2>3 DEF ArpTypes
  <2>7. ASSUME NEW i \in Slot, NEW j \in Slot, cache'[i] # None, cache'[j] # None,
               cache'[i].ip = cache'[j].ip
        PROVE  i = j
    BY <1>0, <1>1, <2>5, <2>6, <2>7 DEF CacheUnique
  <2>8. ASSUME NEW i \in Slot, NEW j \in Slot, i < j, cache'[j] # None PROVE cache'[i] # None
    BY <1>0, <1>1, <2>4, <2>6, <2>8 DEF CacheUnique
  <2>9. CacheUnique'
    BY <2>7, <2>8 DEF CacheUnique
  <2>10. CacheCurrent'
    BY <1>0, <1>1, <1>2, <1>3, <2>5, <2>6 DEF CacheCurrent
  <2> QED BY <1>2, <2>6, <2>9, <2>10 DEF ArpInv, ArpTypes
<1> QED BY <1>4, <1>5

(***************************************************************************)
(* ip_send_packet gives the frame to the address of the next hop.          *)
(***************************************************************************)
LEMMA SendsToNextHop ==
    ASSUME ArpInv, NEW dest, NEW body, nic_send_packet(ip_send_packet(dest, body)),
           cache' = cache, announced' = announced
    PROVE  ArpInv' /\ FramesToNextHop'
<1>0. ArpTypes /\ CacheUnique /\ CacheCurrent
  BY DEF ArpInv
<1>1. ArpInv'
  BY <1>0 DEF ArpInv, ArpTypes, CacheUnique, CacheCurrent
<1> DEFINE hop == NextHop(dest)
<1>2. Resolved(hop) \in {Broadcast, announced[hop]}
  <2>1. CASE Cached(hop) # {}
    <3>1. Cached(hop) \in SUBSET Nat
      BY IpAssumption DEF Cached, Slot
    <3>2. Min(Cached(hop)) \in Cached(hop)
      BY <2>1, <3>1, MinIn
    <3>3. cache[Min(Cached(hop))].mac = announced[hop]
      BY <1>0, <3>2 DEF CacheCurrent, Cached
    <3> QED BY <2>1, <3>3 DEF Resolved
  <2>2. CASE Cached(hop) = {}
    BY <2>2 DEF Resolved
  <2> QED BY <2>1, <2>2
<1>3. ASSUME NEW f \in sent', f.type = "0800"
      PROVE  f.to \in {Broadcast, announced'[IF f.dest \in Local THEN f.dest ELSE Gateway]}
  <2>1. f \in ip_send_packet(dest, body)
    BY DEF nic_send_packet
  <2>2. f = ethernet_send_frame(Resolved(hop), "0800", dest, body)
    BY <1>3, <2>1 DEF ip_send_packet, arp_resolve, arp_send_request, ethernet_send_frame
  <2>3. f.to = Resolved(hop) /\ f.dest = dest
    BY <2>2 DEF ethernet_send_frame
  <2> QED BY <1>2, <2>3 DEF NextHop
<1> QED BY <1>1, <1>3 DEF FramesToNextHop

\* A step that leaves the cache and hands nothing, or ARP frames only, to the card.
LEMMA SendsNoPacket ==
    ASSUME ArpInv, cache' = cache, announced' = announced, \A f \in sent' : f.type # "0800"
    PROVE  ArpInv' /\ FramesToNextHop'
BY DEF ArpInv, ArpTypes, CacheUnique, CacheCurrent, FramesToNextHop

\* Replies, requests and echoes keep the cache, and packets go to their next hops.
LEMMA IpNextKeeps == ArpInv /\ IpNext => ArpInv' /\ FramesToNextHop'
<1> SUFFICES ASSUME ArpInv, IpNext PROVE ArpInv' /\ FramesToNextHop'
  OBVIOUS
<1>1. PICK n \in Announcements :
          \/ arp_handle_reply(n[1], n[2])
          \/ arp_handle_request(n[1], n[2])
          \/ \E dest \in Address : icmp_handle_packet(n[1], dest)
          \/ icmp_send_echo_request(n[1])
          \/ icmp_send_destination_unreachable(n[1])
  BY DEF IpNext
<1>2. n[1] \in Address /\ n[2] \in Mac
  BY NetworkAssumption, IpAssumption
<1>3. CASE arp_handle_reply(n[1], n[2])
  <2>1. ArpInv'
    BY <1>2, <1>3, ReplyKeeps
  <2>2. sent' = {}
    BY <1>3 DEF arp_handle_reply
  <2> QED BY <2>1, <2>2 DEF FramesToNextHop
<1>4. CASE arp_handle_request(n[1], n[2])
  <2>1. cache' = cache /\ announced' = announced /\ \A f \in sent' : f.type # "0800"
    BY <1>4 DEF arp_handle_request, nic_send_packet, ethernet_send_frame
  <2> QED BY <2>1, SendsNoPacket
<1>5. CASE \/ \E dest \in Address : icmp_handle_packet(n[1], dest)
           \/ icmp_send_echo_request(n[1])
           \/ icmp_send_destination_unreachable(n[1])
  <2>1. nic_send_packet(ip_send_packet(n[1], "icmp")) /\ cache' = cache /\ announced' = announced
    BY <1>5 DEF icmp_handle_packet, icmp_send_echo_request, icmp_send_destination_unreachable
  <2> QED BY <2>1, SendsToNextHop
<1> QED BY <1>1, <1>3, <1>4, <1>5

\* What dhcp.c sends, or does not for want of memory.
LEMMA DhcpSends ==
    ASSUME ArpInv, NEW state, dhcp_send_discover(state) \/ dhcp_send_request(state)
    PROVE  ArpInv' /\ FramesToNextHop'
<1>1. ASSUME NEW message, Transmit(message) PROVE ArpInv' /\ FramesToNextHop'
  BY <1>1, SendsToNextHop DEF Transmit, udp_send
<1>2. ASSUME sent' = {}, UNCHANGED <<cache, announced, wire>> PROVE ArpInv' /\ FramesToNextHop'
  BY <1>2, SendsNoPacket
<1> QED BY <1>1, <1>2 DEF dhcp_send_discover, dhcp_send_request, NoPacket

\* The invariant of the cache is inductive, with the clients above it.
LEMMA ArpNext == ArpInv /\ FramesToNextHop /\ [Next]_vars => ArpInv' /\ FramesToNextHop'
<1> SUFFICES ASSUME ArpInv, FramesToNextHop, [Next]_vars PROVE ArpInv' /\ FramesToNextHop'
  OBVIOUS
<1>1. CASE UNCHANGED vars
  BY <1>1 DEF vars, ArpInv, ArpTypes, CacheUnique, CacheCurrent, FramesToNextHop
<1>2. ASSUME sent' = {}, cache' = cache, announced' = announced PROVE ArpInv' /\ FramesToNextHop'
  BY <1>2, SendsNoPacket
<1>3. CASE IpNext
  BY <1>3, IpNextKeeps
<1>4. CASE \/ \E port \in {0, DHCP_CLIENT_PORT} : CreateSocket(port)
           \/ \E i \in UdpSlot : udp_close_socket(i)
           \/ dns_init
           \/ Tick
  BY <1>2, <1>4 DEF CreateSocket, udp_close_socket, dns_init, Tick
<1>5. CASE dhcp_init
  BY <1>2, <1>5, DhcpSends DEF dhcp_init, NoPacket
<1>6. CASE Answered
  <2>1. ASSUME NEW xid, NEW from, NEW ip, HandleOffer(xid, from, ip) PROVE ArpInv' /\ FramesToNextHop'
    BY <2>1, DhcpSends DEF HandleOffer
  <2>2. ASSUME NEW xid, NEW ip, HandleAck(xid, ip) PROVE ArpInv' /\ FramesToNextHop'
    BY <1>2, <2>2 DEF HandleAck
  <2>3. ASSUME NEW xid, HandleNak(xid) PROVE ArpInv' /\ FramesToNextHop'
    BY <2>3, DhcpSends DEF HandleNak
  <2> QED BY <1>6, <2>1, <2>2, <2>3 DEF Answered
<1>7. CASE dns_resolve
  BY <1>7, SendsToNextHop DEF dns_resolve, udp_send
<1> QED BY <1>1, <1>3, <1>4, <1>5, <1>6, <1>7 DEF Next

\* The cache is empty and nothing was sent.
LEMMA ArpInit == Init => ArpInv /\ FramesToNextHop
BY DEF Init, IpInit, ArpInv, ArpTypes, CacheUnique, CacheCurrent, FramesToNextHop

(***************************************************************************)
(* The ARP cache holds an address once, from the front, for any replies in *)
(* any order and any size of the cache (arp_handle_packet).                *)
(***************************************************************************)
THEOREM CacheCorrect == Spec => []CacheUnique
<1>1. ArpInv => CacheUnique
  BY DEF ArpInv
<1> QED BY <1>1, ArpInit, ArpNext, PTL DEF Spec

(***************************************************************************)
(* Every packet of the host, of ICMP, DHCP and DNS, goes to what its next  *)
(* hop announced last, or to all (ip_send_packet, arp_resolve).            *)
(***************************************************************************)
THEOREM FramesCorrect == Spec => []FramesToNextHop
BY ArpInit, ArpNext, PTL DEF Spec

-----------------------------------------------------------------------------
Dhcp == [socket : UdpSlot \cup {None}, xid : 0 .. MAX_TICKS,
         server_ip : Address \cup {None}, offered_ip : Address \cup {None}]
Dns == [socket : UdpSlot \cup {None}, query_id : 0 .. MAX_QUERIES, callback : {"application", None}]

ClientTypes ==
    /\ sockets \in [UdpSlot -> Socket \cup {None}]
    /\ next_port \in Port
    /\ ticks \in 0 .. MAX_TICKS
    /\ dhcp \in Dhcp
    /\ dns \in Dns

PortsInv == ClientTypes /\ PortsUnique

(***************************************************************************)
(* udp_create_socket: the port it chose is in use nowhere else, and the    *)
(* open sockets stay.                                                      *)
(***************************************************************************)
LEMMA CreateSocketKeeps ==
    ASSUME PortsInv, NEW port \in Port, NEW cb \in {"application", "dhcp", "dns"},
           udp_create_socket(port, cb)
    PROVE  /\ sockets' \in [UdpSlot -> Socket \cup {None}] /\ next_port' \in Port
           /\ \A i, j \in UdpSlot : sockets'[i] # None /\ sockets'[j] # None
                                       /\ sockets'[i].port = sockets'[j].port => i = j
           /\ \A i \in UdpSlot : sockets[i] # None => sockets'[i] = sockets[i]
           /\ Creates(Chosen(port)) => /\ Min(FreeSlots) \in UdpSlot
                                       /\ sockets'[Min(FreeSlots)] = [port |-> Chosen(port), callback |-> cb]
                                       /\ sockets'[Min(FreeSlots)] # None
<1>0. sockets \in [UdpSlot -> Socket \cup {None}] /\ next_port \in Port /\ PortsUnique
  BY DEF PortsInv, ClientTypes
<1>1. next_port' \in Port
  <2>1. NextDynamic \in Port
    BY <1>0, NetworkAssumption DEF NextDynamic, Port
  <2> QED BY <1>0, <2>1 DEF udp_create_socket
<1>2. CASE ~Creates(Chosen(port))
  BY <1>0, <1>1, <1>2 DEF udp_create_socket, PortsUnique
<1>3. CASE Creates(Chosen(port))
  <2> DEFINE k == Min(FreeSlots)
             p == Chosen(port)
             e == [port |-> p, callback |-> cb]
  <2>1. k \in FreeSlots
    <3>1. FreeSlots \in SUBSET Nat
      BY NetworkAssumption DEF FreeSlots, UdpSlot
    <3> QED BY <1>3, <3>1, MinIn DEF Creates
  <2>2. k \in UdpSlot /\ sockets[k] = None
    BY <2>1 DEF FreeSlots
  <2>3. sockets' = [sockets EXCEPT ![k] = e]
    BY <1>3 DEF udp_create_socket
  <2>4. p \in Port
    BY <1>0 DEF Chosen
  <2>5. \A i \in UdpSlot : sockets[i] # None => sockets[i].port # p
    BY <1>3 DEF Creates, InUse
  <2> HIDE DEF k, p
  <2>6. e \in Socket /\ e # None /\ e.port = p
    BY <2>4, NetworkAssumption DEF Socket, Port
  <2>7. e = [port |-> p, callback |-> cb]
    OBVIOUS
  <2> HIDE DEF e
  <2>8. /\ sockets' \in [UdpSlot -> Socket \cup {None}] /\ sockets'[k] = e
        /\ \A i \in UdpSlot : i # k => sockets'[i] = sockets[i]
    BY <1>0, <2>2, <2>3, <2>6
  <2>9. ASSUME NEW i \in UdpSlot, NEW j \in UdpSlot, sockets'[i] # None, sockets'[j] # None,
               sockets'[i].port = sockets'[j].port
        PROVE  i = j
    BY <1>0, <2>5, <2>6, <2>8, <2>9 DEF PortsUnique
  <2>10. \A i \in UdpSlot : sockets[i] # None => sockets'[i] = sockets[i]
    BY <2>2, <2>8
  <2> QED BY <1>1, <2>2, <2>6, <2>7, <2>8, <2>9, <2>10 DEF k, p
<1> QED BY <1>2, <1>3

\* The DHCP client keeps its socket while it sends.
LEMMA DhcpKeeps ==
    ASSUME ticks \in 0 .. MAX_TICKS, NEW state \in Dhcp, dhcp_send_discover(state) \/ dhcp_send_request(state)
    PROVE  dhcp' \in Dhcp /\ dhcp'.socket = state.socket
BY DEF dhcp_send_discover, dhcp_send_request, Dhcp

\* No socket is open.
LEMMA PortsInit == Init => PortsInv
<1> SUFFICES ASSUME Init PROVE PortsInv
  OBVIOUS
<1>1. dhcp \in Dhcp /\ dhcp.socket = None
  BY NetworkAssumption DEF Init, Dhcp
<1>2. dns \in Dns /\ dns.socket = None
  BY NetworkAssumption DEF Init, Dns
<1>3. /\ sockets \in [UdpSlot -> Socket \cup {None}] /\ \A i \in UdpSlot : sockets[i] = None
      /\ next_port \in Port /\ ticks \in 0 .. MAX_TICKS
  BY NetworkAssumption DEF Init, Port
<1> QED BY <1>1, <1>2, <1>3 DEF PortsInv, ClientTypes, PortsUnique

\* The invariant of the sockets is inductive.
LEMMA PortsNext == PortsInv /\ [Next]_vars => PortsInv'
<1> SUFFICES ASSUME PortsInv, [Next]_vars PROVE PortsInv'
  OBVIOUS
<1>0. /\ sockets \in [UdpSlot -> Socket \cup {None}] /\ next_port \in Port /\ ticks \in 0 .. MAX_TICKS
      /\ dhcp \in Dhcp /\ dns \in Dns /\ PortsUnique
      /\ dhcp.socket \in UdpSlot \cup {None} /\ dns.socket \in UdpSlot \cup {None}
  BY DEF PortsInv, ClientTypes, Dhcp, Dns
<1>1. ASSUME UNCHANGED <<sockets, next_port>>, ticks' \in 0 .. MAX_TICKS,
             dhcp' \in Dhcp, dhcp'.socket = dhcp.socket, dns' \in Dns, dns'.socket = dns.socket
      PROVE  PortsInv'
  BY <1>0, <1>1 DEF PortsInv, ClientTypes, PortsUnique
<1>2. CASE UNCHANGED vars
  BY <1>0, <1>1, <1>2 DEF vars
<1>3. CASE IpNext
  BY <1>0, <1>1, <1>3 DEF IpNext, leaseVars
<1>4. ASSUME NEW port \in {0, DHCP_CLIENT_PORT}, CreateSocket(port) PROVE PortsInv'
  <2>1. port \in Port /\ udp_create_socket(port, "application")
    BY <1>4, NetworkAssumption DEF CreateSocket, Port
  <2>2. ticks' = ticks /\ dhcp' = dhcp /\ dns' = dns
    BY <1>4 DEF CreateSocket, leaseVars
  <2>3. /\ sockets' \in [UdpSlot -> Socket \cup {None}] /\ next_port' \in Port
        /\ \A i, j \in UdpSlot : sockets'[i] # None /\ sockets'[j] # None
                                    /\ sockets'[i].port = sockets'[j].port => i = j
        /\ \A i \in UdpSlot : sockets[i] # None => sockets'[i] = sockets[i]
    BY <2>1, CreateSocketKeeps
  <2>4. dhcp.socket # None => sockets'[dhcp.socket] = [port |-> DHCP_CLIENT_PORT, callback |-> "dhcp"]
    <3>1. [port |-> DHCP_CLIENT_PORT, callback |-> "dhcp"] # None
      BY NetworkAssumption
    <3> QED BY <1>0, <2>3, <3>1 DEF PortsUnique
  <2>5. dns.socket # None => sockets'[dns.socket] # None /\ sockets'[dns.socket].callback = "dns"
    BY <1>0, <2>3 DEF PortsUnique
  <2> QED BY <1>0, <2>2, <2>3, <2>4, <2>5 DEF PortsInv, ClientTypes, PortsUnique
<1>5. ASSUME NEW i \in UdpSlot, udp_close_socket(i) PROVE PortsInv'
  <2>1. /\ sockets' = [sockets EXCEPT ![i] = None] /\ sockets[i].callback = "application"
        /\ next_port' = next_port /\ ticks' = ticks /\ dhcp' = dhcp /\ dns' = dns
    BY <1>5 DEF udp_close_socket, leaseVars
  <2>2. /\ sockets' \in [UdpSlot -> Socket \cup {None}] /\ sockets'[i] = None
        /\ \A j \in UdpSlot : j # i => sockets'[j] = sockets[j]
    BY <1>0, <2>1
  <2>3. dhcp.socket # None => dhcp.socket # i
    BY <1>0, <2>1 DEF PortsUnique
  <2>4. dns.socket # None => dns.socket # i
    BY <1>0, <2>1 DEF PortsUnique
  <2>5. PortsUnique'
    BY <1>0, <2>1, <2>2, <2>3, <2>4 DEF PortsUnique
  <2> QED BY <1>0, <2>1, <2>2, <2>5 DEF PortsInv, ClientTypes
<1>6. CASE dhcp_init
  <2>0. /\ DHCP_CLIENT_PORT \in Port /\ Chosen(DHCP_CLIENT_PORT) = DHCP_CLIENT_PORT
        /\ udp_create_socket(DHCP_CLIENT_PORT, "dhcp")
        /\ dhcp.socket = None /\ ticks' = ticks /\ dns' = dns
    BY <1>6, NetworkAssumption DEF dhcp_init, Port, Chosen
  <2>1. /\ sockets' \in [UdpSlot -> Socket \cup {None}] /\ next_port' \in Port
        /\ \A i, j \in UdpSlot : sockets'[i] # None /\ sockets'[j] # None
                                    /\ sockets'[i].port = sockets'[j].port => i = j
        /\ \A i \in UdpSlot : sockets[i] # None => sockets'[i] = sockets[i]
        /\ Creates(DHCP_CLIENT_PORT) =>
              /\ Min(FreeSlots) \in UdpSlot
              /\ sockets'[Min(FreeSlots)] = [port |-> DHCP_CLIENT_PORT, callback |-> "dhcp"]
    BY <2>0, CreateSocketKeeps
  <2>2. dns.socket # None => sockets'[dns.socket] # None /\ sockets'[dns.socket].callback = "dns"
    BY <1>0, <2>1 DEF PortsUnique
  <2>3. dhcp' \in Dhcp /\ (dhcp'.socket # None =>
            sockets'[dhcp'.socket] = [port |-> DHCP_CLIENT_PORT, callback |-> "dhcp"])
    <3>1. CASE Creates(DHCP_CLIENT_PORT)
      <4> DEFINE s == [dhcp EXCEPT !.socket = Min(FreeSlots)]
      <4>1. s \in Dhcp /\ s.socket = Min(FreeSlots)
        BY <1>0, <2>1, <3>1 DEF Dhcp
      <4>2. dhcp_send_discover(s)
        BY <1>6, <3>1 DEF dhcp_init
      <4> HIDE DEF s
      <4> QED BY <1>0, <2>1, <3>1, <4>1, <4>2, DhcpKeeps
    <3>2. CASE ~Creates(DHCP_CLIENT_PORT)
      BY <1>0, <1>6, <2>0, <3>2 DEF dhcp_init
    <3> QED BY <3>1, <3>2
  <2> QED BY <1>0, <2>0, <2>1, <2>2, <2>3 DEF PortsInv, ClientTypes, PortsUnique
<1>7. CASE Answered
  <2>1. ASSUME NEW xid, NEW o \in Offers, HandleOffer(xid, o[1], o[2]) PROVE PortsInv'
    <3> DEFINE s == [dhcp EXCEPT !.offered_ip = o[2], !.server_ip = o[1]]
    <3>0. o[1] \in Address /\ o[2] \in Address
      BY NetworkAssumption, IpAssumption
    <3>1. s \in Dhcp /\ s.socket = dhcp.socket
      BY <1>0, <3>0 DEF Dhcp
    <3>2. dhcp_send_request(s) /\ UNCHANGED <<sockets, next_port, ticks, dns, reported>>
      BY <2>1 DEF HandleOffer
    <3> HIDE DEF s
    <3>3. dhcp' \in Dhcp /\ dhcp'.socket = dhcp.socket
      BY <1>0, <3>1, <3>2, DhcpKeeps
    <3> QED BY <1>0, <1>1, <3>2, <3>3
  <2>2. ASSUME NEW xid, NEW ip, HandleAck(xid, ip) PROVE PortsInv'
    BY <1>0, <1>1, <2>2 DEF HandleAck
  <2>3. ASSUME NEW xid, HandleNak(xid) PROVE PortsInv'
    <3>1. dhcp' \in Dhcp /\ dhcp'.socket = dhcp.socket
      BY <1>0, <2>3, DhcpKeeps DEF HandleNak
    <3> QED BY <1>0, <1>1, <2>3, <3>1 DEF HandleNak
  <2> QED BY <1>7, <2>1, <2>2, <2>3 DEF Answered
<1>8. CASE dns_init
  <2>0. /\ 0 \in Port /\ Chosen(0) = next_port /\ udp_create_socket(0, "dns")
        /\ dns.socket = None /\ ticks' = ticks /\ dhcp' = dhcp
        /\ dns' = IF Creates(next_port) THEN [dns EXCEPT !.socket = Min(FreeSlots)] ELSE dns
    BY <1>8, NetworkAssumption DEF dns_init, leaseVars, Port, Chosen
  <2>1. /\ sockets' \in [UdpSlot -> Socket \cup {None}] /\ next_port' \in Port
        /\ \A i, j \in UdpSlot : sockets'[i] # None /\ sockets'[j] # None
                                    /\ sockets'[i].port = sockets'[j].port => i = j
        /\ \A i \in UdpSlot : sockets[i] # None => sockets'[i] = sockets[i]
        /\ Creates(next_port) =>
              /\ Min(FreeSlots) \in UdpSlot
              /\ sockets'[Min(FreeSlots)] = [port |-> next_port, callback |-> "dns"]
              /\ sockets'[Min(FreeSlots)] # None
    BY <2>0, CreateSocketKeeps
  <2>2. dhcp.socket # None => sockets'[dhcp.socket] = [port |-> DHCP_CLIENT_PORT, callback |-> "dhcp"]
    <3>1. [port |-> DHCP_CLIENT_PORT, callback |-> "dhcp"] # None
      BY NetworkAssumption
    <3> QED BY <1>0, <2>1, <3>1 DEF PortsUnique
  <2>3. dns' \in Dns /\ (dns'.socket # None =>
            sockets'[dns'.socket] # None /\ sockets'[dns'.socket].callback = "dns")
    <3>1. CASE Creates(next_port)
      <4>1. dns' \in Dns /\ dns'.socket = Min(FreeSlots)
        BY <1>0, <2>0, <2>1, <3>1 DEF Dns
      <4> QED BY <2>1, <3>1, <4>1
    <3>2. CASE ~Creates(next_port)
      BY <1>0, <2>0, <3>2
    <3> QED BY <3>1, <3>2
  <2> QED BY <1>0, <2>0, <2>1, <2>2, <2>3 DEF PortsInv, ClientTypes, PortsUnique
<1>9. CASE dns_resolve
  <2>1. dns' \in Dns /\ dns'.socket = dns.socket
    <3> DEFINE n == dns.query_id + 1
               d == [dns EXCEPT !.query_id = n]
    <3>1. n \in 0 .. MAX_QUERIES
      BY <1>0, <1>9, NetworkAssumption DEF dns_resolve, Dns
    <3> HIDE DEF n
    <3>2. d \in Dns /\ d.socket = dns.socket
      BY <1>0, <3>1 DEF Dns
    <3>3. dns' = [d EXCEPT !.callback = "application"]
      BY <1>9 DEF dns_resolve, n
    <3> HIDE DEF d
    <3> QED BY <3>2, <3>3 DEF Dns
  <2> QED BY <1>0, <1>1, <1>9, <2>1 DEF dns_resolve, leaseVars
<1>10. CASE Tick
  <2>1. ticks' \in 0 .. MAX_TICKS
    BY <1>0, <1>10, NetworkAssumption DEF Tick
  <2> QED BY <1>0, <1>1, <1>10, <2>1 DEF Tick, leaseVars
<1> QED BY <1>2, <1>3, <1>4, <1>5, <1>6, <1>7, <1>8, <1>9, <1>10 DEF Next

(***************************************************************************)
(* No two sockets share a port and the clients keep theirs, for any number *)
(* of sockets and any range of dynamic ports (udp_create_socket).          *)
(***************************************************************************)
THEOREM PortsCorrect == Spec => []PortsUnique
<1>1. PortsInv => PortsUnique
  BY DEF PortsInv
<1> QED BY <1>1, PortsInit, PortsNext, PTL DEF Spec

(***************************************************************************)
(* While the client's xid is its own, what it asked for under that xid was *)
(* offered to it since it started over; and the server it would name is    *)
(* one of those that offered.                                              *)
(***************************************************************************)
LeaseInv ==
    /\ repeated \/ \A m \in wire :
                    m.type = "request" /\ m.xid = dhcp.xid => \E a \in taken : a[2] = m.ip
    /\ taken = {} \/ \E b \in taken : b[1] = dhcp.server_ip

\* What a message puts on the wire is that message.
LEMMA TransmitAdds ==
    ASSUME NEW message, Transmit(message)
    PROVE  wire' \subseteq wire \cup {message}
<1>1. \A f \in sent' : f.type = "0800" => f.body = message
  <2>1. \A f \in ip_send_packet(Limited, message) : f.type = "0800" => f.body = message
    BY DEF ip_send_packet, arp_resolve, arp_send_request, ethernet_send_frame
  <2> QED BY <2>1 DEF Transmit, nic_send_packet, udp_send
<1> QED BY <1>1 DEF Transmit

\* A client that starts over, from any state of it.
LEMMA DiscoverKeeps ==
    ASSUME NEW state, dhcp_send_discover(state)
    PROVE  LeaseInv'
<1>1. wire' \subseteq wire \cup {Discover(ticks)}
  BY TransmitAdds DEF dhcp_send_discover, NoPacket
<1>2. ASSUME NEW m \in wire', m.type = "request", m.xid = dhcp'.xid PROVE repeated'
  <2>1. m \in wire
    BY <1>1, <1>2 DEF Discover
  <2> QED BY <1>2, <2>1 DEF dhcp_send_discover
<1>3. taken' = {}
  BY DEF dhcp_send_discover
<1> QED BY <1>2, <1>3 DEF LeaseInv

\* An offer is asked for under the client's xid.
LEMMA OfferKeeps ==
    ASSUME LeaseInv, dhcp \in Dhcp, NEW xid, NEW from, NEW ip, HandleOffer(xid, from, ip)
    PROVE  LeaseInv'
<1> DEFINE state == [dhcp EXCEPT !.offered_ip = ip, !.server_ip = from]
<1>1. state.xid = dhcp.xid /\ state.offered_ip = ip /\ state.server_ip = from
  BY DEF Dhcp
<1>2. dhcp' = state /\ taken' = taken \cup {<<from, ip>>} /\ repeated' = repeated
  BY DEF HandleOffer, dhcp_send_request
<1>3. wire' \subseteq wire \cup {Request(state.xid, state.offered_ip, state.server_ip)}
  BY TransmitAdds DEF HandleOffer, dhcp_send_request, NoPacket
<1> HIDE DEF state
<1>4. ASSUME ~repeated, NEW m \in wire', m.type = "request", m.xid = dhcp'.xid
      PROVE  \E a \in taken' : a[2] = m.ip
  <2>1. CASE m \in wire
    BY <1>1, <1>2, <1>4, <2>1 DEF LeaseInv
  <2>2. CASE m = Request(state.xid, state.offered_ip, state.server_ip)
    <3>1. m.ip = ip /\ <<from, ip>> \in taken'
      BY <1>1, <1>2, <2>2 DEF Request
    <3> QED BY <3>1
  <2> QED BY <1>3, <1>4, <2>1, <2>2
<1>5. <<from, ip>> \in taken' /\ dhcp'.server_ip = from
  BY <1>1, <1>2
<1> QED BY <1>2, <1>4, <1>5 DEF LeaseInv

\* The invariant of the client is inductive.
LEMMA LeaseNext == dhcp \in Dhcp /\ LeaseInv /\ [Next]_vars => LeaseInv'
<1> SUFFICES ASSUME dhcp \in Dhcp, LeaseInv, [Next]_vars PROVE LeaseInv'
  OBVIOUS
<1>1. ASSUME UNCHANGED <<dhcp, wire, taken, repeated>> PROVE LeaseInv'
  BY <1>1 DEF LeaseInv
<1>2. CASE Answered
  <2>1. ASSUME NEW xid, NEW ip, HandleAck(xid, ip) PROVE LeaseInv'
    BY <1>1, <2>1 DEF HandleAck
  <2>2. ASSUME NEW xid, HandleNak(xid) PROVE LeaseInv'
    BY <2>2, DiscoverKeeps DEF HandleNak
  <2> QED BY <1>2, <2>1, <2>2, OfferKeeps DEF Answered
<1>3. CASE dhcp_init
  <2>1. CASE Creates(DHCP_CLIENT_PORT)
    BY <1>3, <2>1, DiscoverKeeps DEF dhcp_init
  <2> QED BY <1>1, <1>3, <2>1 DEF dhcp_init, NoPacket
<1>4. CASE ~Answered /\ ~dhcp_init /\ Next
  BY <1>1, <1>4
  DEF Next, IpNext, CreateSocket, udp_close_socket, dns_init, dns_resolve, Tick, leaseVars
<1> QED BY <1>1, <1>2, <1>3, <1>4 DEF vars

(***************************************************************************)
(* An ACK reaches the application only when its address was asked for      *)
(* under the client's xid, and, unless that xid is an old one, in the      *)
(* transaction the client is in, whatever servers send late or twice       *)
(* (dhcp_handle_packet).                                                   *)
(***************************************************************************)
THEOREM LeaseCorrect == Spec => LeaseIsCurrent
<1> DEFINE A == reported' # reported =>
                    /\ \E m \in wire : m.type = "request" /\ m.xid = dhcp.xid /\ m.ip = reported'.ip
                    /\ repeated \/ \E a, b \in taken : a[2] = reported'.ip /\ b[1] = reported'.server_ip
<1>1. ASSUME LeaseInv, [Next]_vars PROVE [A]_vars
  <2>1. ASSUME NEW m \in wire, m.type = "request", HandleAck(m.xid, m.ip) PROVE A
    <3>1. m.xid = dhcp.xid /\ reported'.ip = m.ip /\ reported'.server_ip = dhcp.server_ip
      BY <2>1 DEF HandleAck, Current
    <3>2. CASE ~repeated
      <4>1. PICK a \in taken : a[2] = m.ip
        BY <1>1, <2>1, <3>1, <3>2 DEF LeaseInv
      <4>2. PICK b \in taken : b[1] = dhcp.server_ip
        BY <1>1, <4>1 DEF LeaseInv
      <4> QED BY <2>1, <3>1, <4>1, <4>2
    <3> QED BY <2>1, <3>1, <3>2
  <2>2. CASE UNCHANGED reported
    BY <2>2
  <2>3. CASE Answered
    BY <2>1, <2>2, <2>3 DEF Answered, HandleOffer, HandleNak
  <2>4. CASE ~Answered /\ Next
    BY <2>2, <2>4
    DEF Next, IpNext, CreateSocket, udp_close_socket, dhcp_init, dns_init, dns_resolve, Tick, leaseVars
  <2> QED BY <1>1, <2>3, <2>4
<1>2. Init => LeaseInv
  BY DEF Init, LeaseInv
<1>3. PortsInv => dhcp \in Dhcp
  BY DEF PortsInv, ClientTypes
<1> QED BY <1>1, <1>2, <1>3, PortsInit, PortsNext, LeaseNext, PTL DEF Spec, LeaseIsCurrent

-----------------------------------------------------------------------------
\* Tcp: the segments a socket sends.

\* What a socket sends.
TcpSegment == [port : TcpPort, flags : SUBSET Flag, seq_num : Number, byte : {0, 1}]

(***************************************************************************)
(* A stream w that goes on with number n, and what it has sent so far.     *)
(***************************************************************************)
Chained(w) == \A i \in 1 .. Len(w) - 1 : w[i + 1].seq_num = (w[i].seq_num + Numbers(w[i])) % SEQ

Quiet(w) ==
    \A i, j \in 1 .. Len(w) :
        "FIN" \in w[i].flags /\ i < j => "FIN" \notin w[j].flags /\ w[j].byte = 0

StreamTo(w, n) ==
    /\ w \in Seq(TcpSegment)
    /\ n \in Number
    /\ Chained(w)
    /\ Quiet(w)
    /\ w # <<>> => n = (w[Len(w)].seq_num + Numbers(w[Len(w)])) % SEQ

HasFin(w) == \E i \in 1 .. Len(w) : "FIN" \in w[i].flags
BegunWithSyn(w) == w # <<>> /\ "SYN" \in w[1].flags

SocketFields == {"local_port", "connected", "state", "seq_num", "ack_num"}
RunFields == {"socket", "out", "data", "freed", "room"}

(***************************************************************************)
(* The work in progress, r, on a socket that has sent base before: the     *)
(* same as the invariant asks of a socket between two calls.  Without a    *)
(* fault, f = 0, the stream begins with SYN.                               *)
(***************************************************************************)
RunShape(r) ==
    /\ DOMAIN r = RunFields
    /\ DOMAIN r.socket = SocketFields
    /\ r.socket.local_port \in TcpPort
    /\ r.out \in Seq(TcpSegment)
    /\ r.room \in BOOLEAN

TcpRun(f, base, r) ==
    /\ RunShape(r) /\ base \in Seq(TcpSegment)
    /\ StreamTo(base \o r.out, r.socket.seq_num)
    /\ HasFin(base \o r.out) => r.socket.state \in {"FIN_WAIT_1", "CLOSE_WAIT"}
    /\ r.socket.state = "CLOSED" => base \o r.out = <<>>
    /\ f = 0 /\ r.room /\ r.socket.state # "CLOSED" => BegunWithSyn(base \o r.out)

(***************************************************************************)
(* The number at which the stream of socket q goes on, during call c.      *)
(***************************************************************************)
Due(q, c) == IF c.at = "sent" THEN Counted(q.seq_num, c.flags) ELSE q.seq_num

(***************************************************************************)
(* What is known of a socket q with call c that has sent w: w goes on with *)
(* the number that is due, after a FIN the socket is in a state that sends *)
(* neither data nor FIN, or tcp_close is about to put it there, and a      *)
(* structure that is CLOSED has sent nothing.                              *)
(***************************************************************************)
StreamOK(q, c, w) ==
    /\ DOMAIN q = SocketFields /\ q.local_port \in TcpPort /\ q.seq_num \in Number
    /\ DOMAIN c = {"at", "flags"} /\ c.flags \in SUBSET Flag
    /\ StreamTo(w, Due(q, c))
    /\ HasFin(w) => \/ q.state \in {"FIN_WAIT_1", "CLOSE_WAIT"}
                    \/ c.at \in {"sent", "counted"} /\ "FIN" \in c.flags
    /\ q.state = "CLOSED" => w = <<>>

(***************************************************************************)
(* What is known besides of a socket that no handler has worked on during  *)
(* a call: a segment about to be sent is the SYN of an empty stream or     *)
(* that of a connected socket, and without a fault, f = 0, a stream begins *)
(* with SYN.                                                               *)
(***************************************************************************)
CallOK(q, c, w, f) ==
    /\ c.at = "checked" => IF "SYN" \in c.flags THEN w = <<>> ELSE q.state = "ESTABLISHED"
    /\ c.at \in {"checked", "sent", "counted"} => q.state # "CLOSED"
    /\ f = 0 /\ q.state # "CLOSED" => BegunWithSyn(w) \/ (c.at = "checked" /\ "SYN" \in c.flags)

(***************************************************************************)
(* The inductive invariant of the streams.  Nothing is asked of what       *)
(* arrives.                                                                *)
(***************************************************************************)
SocketOK(s) ==
    /\ StreamOK(socket[s], call[s], segments[s])
    /\ s \notin Range(tcp_sockets) => socket[s].state = "CLOSED"
    /\ s \in torn => segments[s] = <<>>
    /\ s \notin torn => CallOK(socket[s], call[s], segments[s], faults)

TcpInv ==
    /\ tcp_sockets \in Seq(TcpSocket)
    /\ DOMAIN socket = TcpSocket
    /\ DOMAIN segments = TcpSocket
    /\ DOMAIN call = TcpSocket
    /\ tcp_next_port \in TcpPort
    /\ faults \in Nat
    /\ \A s \in TcpSocket : SocketOK(s)

-----------------------------------------------------------------------------
(***************************************************************************)
(* A segment with the number that is due goes on with the stream, unless   *)
(* it would be data or a second FIN after a FIN.                           *)
(***************************************************************************)
LEMMA AppendStream ==
    ASSUME NEW w, NEW n, StreamTo(w, n), NEW m \in TcpSegment, m.seq_num = n,
           HasFin(w) => "FIN" \notin m.flags /\ m.byte = 0
    PROVE  /\ StreamTo(Append(w, m), (n + Numbers(m)) % SEQ)
           /\ HasFin(Append(w, m)) => HasFin(w) \/ "FIN" \in m.flags
           /\ BegunWithSyn(w) => BegunWithSyn(Append(w, m))
           /\ w = <<>> /\ "SYN" \in m.flags => BegunWithSyn(Append(w, m))
<1> DEFINE t == Append(w, m)
           k == (n + Numbers(m)) % SEQ
<1>1. w \in Seq(TcpSegment) /\ Len(w) \in Nat /\ n \in Number /\ Chained(w) /\ Quiet(w)
  BY LenProperties DEF StreamTo
<1>2. /\ t \in Seq(TcpSegment) /\ Len(t) = Len(w) + 1
      /\ \A i \in 1 .. Len(w) : t[i] = w[i]
      /\ t[Len(w) + 1] = m
  BY <1>1, AppendProperties
<1>3. Numbers(m) \in Nat
  BY DEF Numbers
<1>4. k \in Number
  <2>1. n + Numbers(m) \in Nat
    BY <1>1, <1>3, TcpAssumption DEF Number
  <2> QED
    BY <2>1, TcpAssumption, ModPosition DEF Number
<1> HIDE DEF t, k
<1>5. Len(t) \in 1 .. Len(t) /\ t[Len(t)] = m /\ Len(t) - 1 = Len(w)
  BY <1>1, <1>2
<1>6. Chained(t)
  <2> SUFFICES ASSUME NEW i \in 1 .. Len(t) - 1
               PROVE  t[i + 1].seq_num = (t[i].seq_num + Numbers(t[i])) % SEQ
    BY DEF Chained
  <2>1. CASE i = Len(w)
    <3>1. t[i + 1] = m /\ t[i] = w[i] /\ i = Len(w) /\ w # <<>>
      BY <1>1, <1>2, <2>1, EmptySeq
    <3>2. n = (w[Len(w)].seq_num + Numbers(w[Len(w)])) % SEQ
      BY <3>1 DEF StreamTo
    <3> QED
      BY <3>1, <3>2
  <2>2. CASE i # Len(w)
    <3>1. i \in 1 .. Len(w) - 1 /\ i \in 1 .. Len(w) /\ i + 1 \in 1 .. Len(w)
      BY <1>1, <1>2, <2>2
    <3>2. t[i + 1] = w[i + 1] /\ t[i] = w[i]
      BY <1>2, <3>1
    <3>3. w[i + 1].seq_num = (w[i].seq_num + Numbers(w[i])) % SEQ
      BY <1>1, <3>1 DEF Chained
    <3> QED
      BY <3>2, <3>3
  <2> QED
    BY <2>1, <2>2
<1>7. \A i \in 1 .. Len(t) : i \in 1 .. Len(w) \/ i = Len(t)
  BY <1>1, <1>2
<1>8. HasFin(t) => HasFin(w) \/ "FIN" \in m.flags
  BY <1>2, <1>5, <1>7, Zenon DEF HasFin
<1>9. Quiet(t)
  <2> SUFFICES ASSUME NEW i \in 1 .. Len(t), NEW j \in 1 .. Len(t), "FIN" \in t[i].flags, i < j
               PROVE  "FIN" \notin t[j].flags /\ t[j].byte = 0
    BY DEF Quiet
  <2>1. i \in 1 .. Len(w) /\ t[i] = w[i]
    BY <1>1, <1>2
  <2>2. CASE j = Len(t)
    BY <1>5, <2>1, <2>2 DEF HasFin
  <2>3. CASE j \in 1 .. Len(w)
    BY <1>1, <1>2, <2>1, <2>3 DEF Quiet
  <2> QED
    BY <1>7, <2>2, <2>3
<1>10. t # <<>> => k = (t[Len(t)].seq_num + Numbers(t[Len(t)])) % SEQ
  BY <1>5 DEF k
<1>11. StreamTo(t, k)
  BY <1>2, <1>4, <1>6, <1>9, <1>10 DEF StreamTo
<1>12. t # <<>>
  BY <1>1, <1>2, EmptySeq
<1>13. BegunWithSyn(w) => BegunWithSyn(t)
  <2> SUFFICES ASSUME BegunWithSyn(w) PROVE BegunWithSyn(t)
    OBVIOUS
  <2>1. 1 \in 1 .. Len(w)
    BY <1>1, EmptySeq DEF BegunWithSyn
  <2>2. t[1] = w[1]
    BY <1>2, <2>1
  <2> QED
    BY <1>12, <2>2 DEF BegunWithSyn
<1>14. w = <<>> /\ "SYN" \in m.flags => BegunWithSyn(t)
  <2> SUFFICES ASSUME w = <<>>, "SYN" \in m.flags PROVE BegunWithSyn(t)
    OBVIOUS
  <2>1. Len(w) = 0
    BY EmptySeq
  <2>2. t[1] = m
    BY <1>2, <2>1
  <2> QED
    BY <1>12, <2>2 DEF BegunWithSyn
<1> QED
  BY <1>8, <1>11, <1>13, <1>14 DEF t, k

(***************************************************************************)
(* An element appended to the second of two sequences.                     *)
(***************************************************************************)
LEMMA ConcatAppend ==
    ASSUME NEW S, NEW u \in Seq(S), NEW v \in Seq(S), NEW e \in S
    PROVE  u \o Append(v, e) = Append(u \o v, e)
<1>1. Append(v, e) = v \o <<e>> /\ <<e>> \in Seq(S) /\ u \o v \in Seq(S)
  BY AppendIsConcat, ConcatProperties
<1>2. Append(u \o v, e) = (u \o v) \o <<e>>
  BY <1>1, AppendIsConcat
<1>3. (u \o v) \o <<e>> = u \o (v \o <<e>>)
  BY <1>1, ConcatAssociative
<1> QED
  BY <1>1, <1>2, <1>3

(***************************************************************************)
(* The segment that is sent with flags, and the numbers it takes.          *)
(***************************************************************************)
SegmentOf(port, flags, n) ==
    [port |-> port, flags |-> flags, seq_num |-> n, byte |-> IF "PSH" \in flags THEN 1 ELSE 0]

\* A segment m that is sent with flags and number n.
SegmentFits(m, flags, n) ==
    /\ m \in TcpSegment /\ m.seq_num = n /\ m.flags = flags
    /\ "PSH" \notin flags => m.byte = 0
    /\ Counted(n, flags) = (n + Numbers(m)) % SEQ

\* A segment is sent with the number the socket has, and the socket counts on from there.
LEMMA SegmentNumbers ==
    ASSUME NEW port \in TcpPort, NEW flags \in SUBSET Flag, NEW n \in Number
    PROVE  SegmentFits(SegmentOf(port, flags, n), flags, n) /\ Counted(n, flags) \in Number
<1> DEFINE m == SegmentOf(port, flags, n)
           a == IF flags \cap {"SYN", "FIN"} # {} THEN 1 ELSE 0
           b == IF "PSH" \in flags THEN 1 ELSE 0
<1>1. m \in TcpSegment /\ m.seq_num = n /\ m.flags = flags /\ ("PSH" \notin flags => m.byte = 0)
  BY DEF TcpSegment, SegmentOf
<1>2. Counted(n, flags) = (n + a + b) % SEQ
  BY DEF Counted
<1>3. Numbers(m) = a + b
  BY <1>1 DEF Numbers, SegmentOf
<1>4. n \in Nat /\ a \in Nat /\ b \in Nat
  BY TcpAssumption DEF Number
<1> HIDE DEF a, b, m
<1>5. n + a + b = n + (a + b) /\ n + a + b \in Nat
  BY <1>4
<1>6. (n + a + b) % SEQ \in Number
  BY <1>5, ModPosition, TcpAssumption DEF Number
<1>7. Counted(n, flags) = (n + Numbers(m)) % SEQ
  BY <1>2, <1>3, <1>5
<1>8. SegmentFits(m, flags, n)
  BY <1>1, <1>7, Zenon DEF SegmentFits
<1> QED
  BY <1>2, <1>6, <1>8 DEF m

(***************************************************************************)
(* tcp_send_packet when there is room: the segment it sends and the number *)
(* it leaves.                                                              *)
(***************************************************************************)
LEMMA SendShape ==
    ASSUME NEW r, RunShape(r), NEW n \in Number, r.socket.seq_num = n, r.room,
           NEW flags \in SUBSET Flag
    PROVE  LET t == tcp_send_packet(r, flags)
               m == SegmentOf(r.socket.local_port, flags, n)
           IN  /\ RunShape(t) /\ t.room = r.room /\ t.socket.state = r.socket.state
               /\ t.out = Append(r.out, m)
               /\ t.socket.seq_num = Counted(n, flags)
<1> DEFINE m == SegmentOf(r.socket.local_port, flags, n)
           new == Append(r.out, m)
           e == [r EXCEPT !.out = new]
           k == Counted(n, flags)
           t == [e EXCEPT !.socket.seq_num = k]
<1>1. m \in TcpSegment
  BY SegmentNumbers DEF RunShape, SegmentFits
<1>2. new \in Seq(TcpSegment)
  BY <1>1, AppendProperties DEF RunShape
<1>3. Emit(r, flags) = e
  BY DEF Emit, SegmentOf
<1> HIDE DEF new
<1>4. RunShape(e) /\ e.room = r.room /\ e.socket = r.socket /\ e.out = new
  BY <1>2 DEF RunShape, RunFields
<1>5. tcp_send_packet(r, flags) = t
  BY <1>3, <1>4 DEF tcp_send_packet
<1> HIDE DEF k, e
<1>6. RunShape(t) /\ t.room = r.room /\ t.socket.state = r.socket.state /\ t.out = new /\ t.socket.seq_num = k
  BY <1>4 DEF RunShape, RunFields, SocketFields
<1> HIDE DEF t
<1> QED
  BY <1>5, <1>6 DEF new, k

\* What tcp_send_packet makes of a call.
SendLaw(base, r, flags, t) ==
    /\ RunShape(t) /\ t.room = r.room /\ t.socket.state = r.socket.state
    /\ StreamTo(base \o t.out, t.socket.seq_num)
    /\ HasFin(base \o t.out) => HasFin(base \o r.out) \/ "FIN" \in flags
    /\ BegunWithSyn(base \o r.out) => BegunWithSyn(base \o t.out)
    /\ r.room /\ base \o r.out = <<>> /\ "SYN" \in flags => BegunWithSyn(base \o t.out)

(***************************************************************************)
(* tcp_send_packet, with and without room, keeps the stream.               *)
(***************************************************************************)
LEMMA SendKeeps ==
    ASSUME NEW base \in Seq(TcpSegment), NEW r, RunShape(r), StreamTo(base \o r.out, r.socket.seq_num),
           NEW flags \in SUBSET Flag,
           HasFin(base \o r.out) => "FIN" \notin flags /\ "PSH" \notin flags
    PROVE  SendLaw(base, r, flags, tcp_send_packet(r, flags))
<1> DEFINE t == tcp_send_packet(r, flags)
<1>1. CASE ~r.room
  <2>1. t = r
    BY <1>1 DEF tcp_send_packet
  <2> HIDE DEF t
  <2> QED
    BY <1>1, <2>1 DEF SendLaw, t
<1>2. CASE r.room
  <2> DEFINE w == base \o r.out
             n == r.socket.seq_num
             m == SegmentOf(r.socket.local_port, flags, n)
  <2>1. w \in Seq(TcpSegment) /\ n \in Number /\ r.out \in Seq(TcpSegment)
    BY DEF StreamTo, RunShape
  <2>7. /\ RunShape(t) /\ t.room = r.room /\ t.socket.state = r.socket.state
        /\ t.out = Append(r.out, m)
        /\ t.socket.seq_num = Counted(n, flags)
    BY <1>2, <2>1, SendShape
  <2>3. /\ m \in TcpSegment /\ m.seq_num = n /\ m.flags = flags
        /\ "PSH" \notin flags => m.byte = 0
        /\ Counted(n, flags) = (n + Numbers(m)) % SEQ
    <3>1. SegmentFits(m, flags, n)
      BY <2>1, SegmentNumbers, Zenon DEF RunShape
    <3> HIDE DEF m
    <3> QED
      BY <3>1, Zenon DEF SegmentFits
  <2>2. /\ m \in TcpSegment
        /\ RunShape(t) /\ t.room = r.room /\ t.socket.state = r.socket.state
        /\ t.out = Append(r.out, m)
        /\ t.socket.seq_num = (n + Numbers(m)) % SEQ
    BY <2>3, <2>7
  <2> HIDE DEF t, m
  <2>4. base \o t.out = Append(w, m)
    BY <2>1, <2>2, ConcatAppend
  <2>5. StreamTo(w, n) /\ (HasFin(w) => "FIN" \notin m.flags /\ m.byte = 0)
    BY <2>3
  <2> HIDE DEF w, n
  <2>6. /\ StreamTo(Append(w, m), (n + Numbers(m)) % SEQ)
        /\ HasFin(Append(w, m)) => HasFin(w) \/ "FIN" \in m.flags
        /\ BegunWithSyn(w) => BegunWithSyn(Append(w, m))
        /\ w = <<>> /\ "SYN" \in m.flags => BegunWithSyn(Append(w, m))
    BY <2>2, <2>3, <2>5, AppendStream
  <2> QED
    BY <2>2, <2>3, <2>4, <2>6 DEF SendLaw, w, t
<1> QED
  BY <1>1, <1>2 DEF RunShape

\* A call on a socket that is not CLOSED.
ActiveRun(f, base, r) == TcpRun(f, base, r) /\ r.socket.state # "CLOSED"

(***************************************************************************)
(* A change of the acknowledgement number or of the state sends nothing.   *)
(***************************************************************************)
LEMMA FieldsKeep ==
    ASSUME NEW f, NEW base, NEW r, ActiveRun(f, base, r), NEW t, RunShape(t), t.out = r.out, t.room = r.room,
           t.socket.seq_num = r.socket.seq_num, t.socket.state # "CLOSED",
           HasFin(base \o r.out) => t.socket.state \in {"FIN_WAIT_1", "CLOSE_WAIT"}
    PROVE  ActiveRun(f, base, t)
  BY DEF ActiveRun, TcpRun

(***************************************************************************)
(* A segment without FIN, and without data unless the socket is connected, *)
(* keeps what is known of a call.                                          *)
(***************************************************************************)
LEMMA AnswerKeeps ==
    ASSUME NEW f, NEW base, NEW r, ActiveRun(f, base, r), NEW flags \in SUBSET Flag,
           "FIN" \notin flags, r.socket.state = "ESTABLISHED" \/ "PSH" \notin flags
    PROVE  LET t == tcp_send_packet(r, flags)
           IN  ActiveRun(f, base, t) /\ t.socket.state = r.socket.state
<1> DEFINE t == tcp_send_packet(r, flags)
<1>1. /\ base \in Seq(TcpSegment) /\ RunShape(r) /\ StreamTo(base \o r.out, r.socket.seq_num)
      /\ HasFin(base \o r.out) => r.socket.state \in {"FIN_WAIT_1", "CLOSE_WAIT"}
      /\ f = 0 /\ r.room => BegunWithSyn(base \o r.out)
      /\ r.socket.state # "CLOSED"
  BY DEF ActiveRun, TcpRun
<1>2. HasFin(base \o r.out) => "FIN" \notin flags /\ "PSH" \notin flags
  BY <1>1
<1>3. SendLaw(base, r, flags, t)
  BY <1>1, <1>2, SendKeeps
<1> HIDE DEF t
<1>4. ActiveRun(f, base, t) /\ t.socket.state = r.socket.state
  BY <1>1, <1>3 DEF SendLaw, ActiveRun, TcpRun
<1> QED
  BY <1>4 DEF t

(***************************************************************************)
(* tcp_close of a socket that is not CLOSED: only a connected one sends    *)
(* FIN, and it has sent none before.                                       *)
(***************************************************************************)
LEMMA CloseKeeps ==
    ASSUME NEW f, NEW base, NEW r, ActiveRun(f, base, r)
    PROVE  ActiveRun(f, base, Close(r))
<1>1. /\ base \in Seq(TcpSegment) /\ RunShape(r) /\ StreamTo(base \o r.out, r.socket.seq_num)
      /\ HasFin(base \o r.out) => r.socket.state \in {"FIN_WAIT_1", "CLOSE_WAIT"}
      /\ f = 0 /\ r.room => BegunWithSyn(base \o r.out)
      /\ r.socket.state # "CLOSED"
  BY DEF ActiveRun, TcpRun
<1>2. CASE r.socket.state = "ESTABLISHED"
  <2> DEFINE t == tcp_send_packet(r, {"FIN", "ACK"})
             u == [t EXCEPT !.socket.state = "FIN_WAIT_1"]
  <2>1. {"FIN", "ACK"} \in SUBSET Flag /\ ~HasFin(base \o r.out)
    BY <1>1, <1>2 DEF Flag
  <2>2. SendLaw(base, r, {"FIN", "ACK"}, t)
    BY <1>1, <2>1, SendKeeps
  <2> HIDE DEF t
  <2>3. RunShape(t) /\ StreamTo(base \o t.out, t.socket.seq_num) /\ (f = 0 /\ t.room => BegunWithSyn(base \o t.out))
    BY <1>1, <2>2 DEF SendLaw
  <2>4. RunShape(u) /\ u.out = t.out /\ u.room = t.room
        /\ u.socket.seq_num = t.socket.seq_num /\ u.socket.state = "FIN_WAIT_1"
    BY <2>3 DEF RunShape, RunFields, SocketFields
  <2>5. Close(r) = u
    BY <1>2 DEF Close, t
  <2> HIDE DEF u
  <2>6. ActiveRun(f, base, u)
    BY <1>1, <2>3, <2>4 DEF ActiveRun, TcpRun
  <2> QED
    BY <2>5, <2>6
<1>3. CASE r.socket.state # "ESTABLISHED"
  <2> DEFINE u == [r EXCEPT !.freed = TRUE]
  <2>1. Close(r) = u
    BY <1>3 DEF Close
  <2>2. RunShape(u) /\ u.out = r.out /\ u.room = r.room /\ u.socket = r.socket
    BY <1>1 DEF RunShape, RunFields
  <2> HIDE DEF u
  <2>3. ActiveRun(f, base, u)
    BY <1>1, <2>2, FieldsKeep
  <2> QED
    BY <2>1, <2>3
<1> QED
  BY <1>2, <1>3

(***************************************************************************)
(* The callback may send and close the socket in the middle of the work.   *)
(***************************************************************************)
LEMMA CallbackKeeps ==
    ASSUME NEW f, NEW base, NEW r, ActiveRun(f, base, r), NEW act
    PROVE  ActiveRun(f, base, Callback(r, act))
<1>1. {"PSH", "ACK"} \in SUBSET Flag /\ "FIN" \notin {"PSH", "ACK"}
  BY DEF Flag
<1>2. ActiveRun(f, base, Send(r))
  BY <1>1, AnswerKeeps DEF Send
<1> QED
  BY <1>2, CloseKeeps DEF Callback

(***************************************************************************)
(* The answer to data.                                                     *)
(***************************************************************************)
LEMMA AcknowledgeKeeps ==
    ASSUME NEW f, NEW base, NEW r, ActiveRun(f, base, r), NEW x
    PROVE  LET t == tcp_send_packet([r EXCEPT !.socket.ack_num = x], {"ACK"})
           IN  ActiveRun(f, base, t) /\ t.socket.state = r.socket.state
<1> DEFINE a == [r EXCEPT !.socket.ack_num = x]
<1>1. /\ RunShape(a) /\ a.out = r.out /\ a.room = r.room
      /\ a.socket.seq_num = r.socket.seq_num /\ a.socket.state = r.socket.state
  BY DEF ActiveRun, TcpRun, RunShape, RunFields, SocketFields
<1> HIDE DEF a
<1>2. ActiveRun(f, base, a)
  <2>1. /\ HasFin(base \o r.out) => a.socket.state \in {"FIN_WAIT_1", "CLOSE_WAIT"}
        /\ a.socket.state # "CLOSED"
    BY <1>1 DEF ActiveRun, TcpRun
  <2> QED
    BY <1>1, <2>1, FieldsKeep
<1>3. {"ACK"} \in SUBSET Flag /\ "FIN" \notin {"ACK"} /\ "PSH" \notin {"ACK"}
  BY DEF Flag
<1>4. LET t == tcp_send_packet(a, {"ACK"})
      IN  ActiveRun(f, base, t) /\ t.socket.state = a.socket.state
  BY <1>2, <1>3, AnswerKeeps
<1> QED
  BY <1>1, <1>4 DEF a

(***************************************************************************)
(* The answer with which a socket becomes connected, or takes the server's *)
(* FIN.                                                                    *)
(***************************************************************************)
LEMMA EntersKeeps ==
    ASSUME NEW f, NEW base, NEW r, ActiveRun(f, base, r), NEW x, NEW y \in {"ESTABLISHED", "CLOSE_WAIT"},
           y = "ESTABLISHED" => r.socket.state = "SYN_SENT"
    PROVE  ActiveRun(f, base, tcp_send_packet([r EXCEPT !.socket.ack_num = x, !.socket.state = y], {"ACK"}))
<1> DEFINE a == [r EXCEPT !.socket.ack_num = x, !.socket.state = y]
<1>1. /\ RunShape(a) /\ a.out = r.out /\ a.room = r.room
      /\ a.socket.seq_num = r.socket.seq_num /\ a.socket.state = y
  BY DEF ActiveRun, TcpRun, RunShape, RunFields, SocketFields
<1> HIDE DEF a
<1>2. ActiveRun(f, base, a)
  <2>1. /\ HasFin(base \o r.out) => a.socket.state \in {"FIN_WAIT_1", "CLOSE_WAIT"}
        /\ a.socket.state # "CLOSED"
    BY <1>1 DEF ActiveRun, TcpRun
  <2> QED
    BY <1>1, <2>1, FieldsKeep
<1>3. {"ACK"} \in SUBSET Flag /\ "FIN" \notin {"ACK"} /\ "PSH" \notin {"ACK"}
  BY DEF Flag
<1>4. ActiveRun(f, base, tcp_send_packet(a, {"ACK"}))
  BY <1>2, <1>3, AnswerKeeps
<1> QED
  BY <1>4 DEF a

(***************************************************************************)
(* tcp_handle_packet, through both of its callbacks.                       *)
(***************************************************************************)
LEMMA HandledKeeps ==
    ASSUME NEW f, NEW base, NEW r, TcpRun(f, base, r), NEW m, NEW acts
    PROVE  TcpRun(f, base, Handled(r, m, acts))
<1>1. CASE r.socket.state = "SYN_SENT" /\ {"SYN", "ACK"} \subseteq m.flags
  <2>1. ActiveRun(f, base, r)
    BY <1>1 DEF ActiveRun
  <2> DEFINE x == (m.seq_num + 1) % SEQ
             t == tcp_send_packet([r EXCEPT !.socket.ack_num = x, !.socket.state = "ESTABLISHED"], {"ACK"})
  <2>2. ActiveRun(f, base, t)
    BY <1>1, <2>1, EntersKeeps
  <2> HIDE DEF t
  <2>3. ActiveRun(f, base, Callback(t, acts[1]))
    BY <2>2, CallbackKeeps
  <2>4. Handled(r, m, acts) = Callback(t, acts[1])
    BY <1>1 DEF Handled, Connected, t
  <2> QED
    BY <2>3, <2>4 DEF ActiveRun
<1>2. CASE r.socket.state = "ESTABLISHED"
  <2> DEFINE d == IF "PSH" \in m.flags THEN Data(r, m, acts[1]) ELSE r
  <2>1. ActiveRun(f, base, r)
    BY <1>2 DEF ActiveRun
  <2>2. ActiveRun(f, base, Data(r, m, acts[1]))
    <3> DEFINE x == (r.socket.ack_num + 1) % SEQ
               t == tcp_send_packet([r EXCEPT !.socket.ack_num = x], {"ACK"})
               u == [t EXCEPT !.data = <<m.byte>>]
    <3>1. ActiveRun(f, base, t)
      BY <2>1, AcknowledgeKeeps
    <3> HIDE DEF t
    <3>2. RunShape(u) /\ u.out = t.out /\ u.room = t.room /\ u.socket = t.socket
      BY <3>1 DEF ActiveRun, TcpRun, RunShape, RunFields
    <3>3. Data(r, m, acts[1]) = Callback(u, acts[1])
      BY DEF Data, t
    <3> HIDE DEF u
    <3>4. ActiveRun(f, base, u)
      BY <3>1, <3>2, FieldsKeep DEF ActiveRun, TcpRun
    <3> QED
      BY <3>3, <3>4, CallbackKeeps
  <2>3. ActiveRun(f, base, d)
    BY <2>1, <2>2
  <2> HIDE DEF d
  <2>4. ActiveRun(f, base, Finished(d, acts[2]))
    <3> DEFINE x == (d.socket.ack_num + 1) % SEQ
               t == tcp_send_packet([d EXCEPT !.socket.ack_num = x, !.socket.state = "CLOSE_WAIT"], {"ACK"})
    <3>1. ActiveRun(f, base, t)
      BY <2>3, EntersKeeps
    <3>2. Finished(d, acts[2]) = Callback(t, acts[2])
      BY DEF Finished
    <3> HIDE DEF t
    <3> QED
      BY <3>1, <3>2, CallbackKeeps
  <2>5. Handled(r, m, acts) = IF "FIN" \in m.flags THEN Finished(d, acts[2]) ELSE d
    BY <1>2 DEF Handled, d
  <2> QED
    BY <2>3, <2>4, <2>5 DEF ActiveRun
<1>3. CASE r.socket.state # "ESTABLISHED" /\ ~(r.socket.state = "SYN_SENT" /\ {"SYN", "ACK"} \subseteq m.flags)
  <2>1. Handled(r, m, acts) = r
    BY <1>3 DEF Handled
  <2> QED
    BY <2>1
<1> QED
  BY <1>1, <1>2, <1>3

-----------------------------------------------------------------------------
(***************************************************************************)
(* The list without a freed socket holds the others.                       *)
(***************************************************************************)
LEMMA FreedLeaves ==
    ASSUME NEW S, NEW q \in Seq(S), NEW e
    PROVE  RemoveFirst(q, e) \in Seq(S) /\ \A d \in Range(q) : d # e => d \in Range(RemoveFirst(q, e))
<1> DEFINE t == RemoveFirst(q, e)
<1>1. CASE ~Contains(q, e)
  <2>1. t = q
    BY <1>1, Zenon DEF RemoveFirst, Contains
  <2> QED
    BY <2>1
<1>2. CASE Contains(q, e)
  <2>1. PICK f \in 1 .. Len(q) : q[f] = e /\ t = RemoveAt(q, f)
    BY <1>2, RemoveFirstIsRemoveAt
  <2> HIDE DEF t
  <2>2. /\ t \in Seq(S) /\ Len(t) = Len(q) - 1 /\ Len(q) \in Nat
        /\ \A k \in 1 .. Len(q) - 1 : t[k] = IF k < f THEN q[k] ELSE q[k + 1]
    BY <2>1, RemoveAtProperties, LenProperties
  <2>3. ASSUME NEW d \in Range(q), d # e PROVE d \in Range(t)
    <3>1. PICK i \in 1 .. Len(q) : d = q[i]
      BY DEF Range
    <3>2. i # f
      BY <2>1, <2>3, <3>1
    <3>3. CASE i < f
      <4>1. i \in 1 .. Len(t) /\ t[i] = d
        BY <2>2, <3>1, <3>3
      <4> QED
        BY <2>2, <4>1 DEF Range
    <3>4. CASE i > f
      <4>1. i - 1 \in 1 .. Len(t) /\ ~(i - 1 < f) /\ (i - 1) + 1 = i
        BY <2>2, <3>1, <3>4
      <4>2. t[i - 1] = q[(i - 1) + 1]
        BY <2>2, <4>1
      <4>3. t[i - 1] = d
        BY <3>1, <4>1, <4>2
      <4> QED
        BY <2>2, <4>1, <4>3 DEF Range
    <3> QED
      BY <3>2, <3>3, <3>4
  <2>4. t \in Seq(S) /\ \A d \in Range(q) : d # e => d \in Range(t)
    BY <2>2, <2>3
  <2> QED
    BY <2>4 DEF t
<1> QED
  BY <1>1, <1>2

(***************************************************************************)
(* Nothing sent is a stream, whatever the next number.                     *)
(***************************************************************************)
LEMMA EmptyStream ==
    ASSUME NEW n \in Number
    PROVE  StreamTo(<<>>, n) /\ ~HasFin(<<>>)
<1>1. <<>> \in Seq(TcpSegment) /\ Len(<<>>) = 0
  BY EmptySeq
<1> HIDE DEF TcpSegment
<1>2. 1 .. 0 = {} /\ 1 .. 0 - 1 = {}
  OBVIOUS
<1> QED
  BY <1>1, <1>2, Zenon DEF StreamTo, HasFin, Chained, Quiet

(***************************************************************************)
(* A step that changes one socket keeps the invariant if it keeps what is  *)
(* known of that socket.                                                   *)
(***************************************************************************)
LEMMA OneChanges ==
    ASSUME TcpInv, NEW s \in TcpSocket,
           tcp_sockets' \in Seq(TcpSocket), tcp_next_port' \in TcpPort,
           faults' \in Nat, faults' = 0 => faults = 0,
           DOMAIN socket' = TcpSocket, DOMAIN segments' = TcpSocket, DOMAIN call' = TcpSocket,
           \A t \in TcpSocket \ {s} :
               /\ socket'[t] = socket[t] /\ segments'[t] = segments[t] /\ call'[t] = call[t]
               /\ t \in torn' <=> t \in torn
               /\ t \notin Range(tcp_sockets') => t \notin Range(tcp_sockets),
           SocketOK(s)'
    PROVE  TcpInv'
<1>1. ASSUME NEW t \in TcpSocket, t # s PROVE SocketOK(t)'
  <2>1. /\ socket'[t] = socket[t] /\ segments'[t] = segments[t] /\ call'[t] = call[t]
        /\ t \in torn' <=> t \in torn
        /\ t \notin Range(tcp_sockets') => t \notin Range(tcp_sockets)
    BY <1>1
  <2>2. SocketOK(t)
    BY DEF TcpInv
  <2>3. CallOK(socket[t], call[t], segments[t], faults) => CallOK(socket[t], call[t], segments[t], faults')
    BY Zenon DEF CallOK
  <2> QED
    BY <2>1, <2>2, <2>3, Zenon DEF SocketOK
<1> QED
  BY <1>1 DEF TcpInv

\* No call is in progress.
LEMMA NoCallShape ==
    /\ NoCall.at = "none" /\ NoCall.flags = {} /\ DOMAIN NoCall = {"at", "flags"}
    /\ NoCall.flags \in SUBSET Flag
    /\ \A q : Due(q, NoCall) = q.seq_num
  BY DEF NoCall, Due

(***************************************************************************)
(* A freed structure keeps what is known of a socket, whatever the call.   *)
(***************************************************************************)
LEMMA ClosedOK ==
    ASSUME NEW q, DOMAIN q = SocketFields, q.local_port \in TcpPort, q.seq_num \in Number,
           NEW c, DOMAIN c = {"at", "flags"}, c.flags \in SUBSET Flag
    PROVE  StreamOK(q, c, <<>>)
<1>1. Due(q, c) \in Number
  BY SegmentNumbers DEF Due
<1>2. StreamTo(<<>>, Due(q, c)) /\ ~HasFin(<<>>)
  BY <1>1, EmptyStream
<1> QED
  BY <1>2, Zenon DEF StreamOK

\* The fields of a structure that is not in use.
LEMMA ClosedShape ==
    /\ Closed.seq_num \in Number /\ Closed.local_port \in TcpPort /\ Closed.state = "CLOSED"
    /\ DOMAIN Closed = SocketFields
  BY TcpAssumption DEF Closed, Number, TcpPort, SocketFields

(***************************************************************************)
(* What the work on a socket leaves behind: the structure, and what it has *)
(* sent.                                                                   *)
(***************************************************************************)
LeftSocket(r) == IF r.freed THEN Closed ELSE r.socket
LeftSegments(s, r, tears) == IF r.freed \/ tears \/ s \in torn THEN <<>> ELSE segments[s] \o r.out

LeftOK(s, r, tears, c, f) ==
    /\ StreamOK(LeftSocket(r), c, LeftSegments(s, r, tears))
    /\ ~tears /\ s \notin torn => CallOK(LeftSocket(r), c, LeftSegments(s, r, tears), f)

\* What work on a socket leaves behind keeps the invariant when it is right for that socket.
LEMMA LeaveKeeps ==
    ASSUME TcpInv, NEW s \in TcpSocket, s \in Range(tcp_sockets), NEW r,
           NEW rest, NEW tears \in BOOLEAN, Leave(s, r, rest, tears),
           NEW c, call' = [call EXCEPT ![s] = c] \/ (call' = call /\ c = call[s]),
           LeftOK(s, r, tears, c, faults')
    PROVE  TcpInv'
<1>0. PICK q, w : q = LeftSocket(r) /\ w = LeftSegments(s, r, tears)
  OBVIOUS
<1>8. StreamOK(q, c, w) /\ (~tears /\ s \notin torn => CallOK(q, c, w, faults'))
  BY <1>0, Zenon DEF LeftOK
<1>1. /\ tcp_sockets' = IF r.freed THEN RemoveFirst(tcp_sockets, s) ELSE tcp_sockets
      /\ socket' = [socket EXCEPT ![s] = q]
      /\ torn' = IF tears THEN torn \cup {s} ELSE torn
      /\ segments' = [segments EXCEPT ![s] = w]
      /\ faults' = (IF r.room THEN faults ELSE faults + 1) \/ faults' = faults + 1
      /\ tcp_next_port' = tcp_next_port
  BY <1>0 DEF Leave, LeftSocket, LeftSegments
<1>2. /\ tcp_sockets \in Seq(TcpSocket) /\ DOMAIN socket = TcpSocket /\ DOMAIN segments = TcpSocket
      /\ DOMAIN call = TcpSocket /\ tcp_next_port \in TcpPort /\ faults \in Nat
  BY DEF TcpInv
<1>3. faults' \in Nat /\ (faults' = 0 => faults = 0)
  BY <1>1, <1>2
<1>4. /\ tcp_sockets' \in Seq(TcpSocket)
      /\ \A t \in TcpSocket : t # s /\ t \notin Range(tcp_sockets') => t \notin Range(tcp_sockets)
      /\ ~r.freed => tcp_sockets' = tcp_sockets
  BY <1>1, <1>2, FreedLeaves
<1>5. /\ DOMAIN socket' = TcpSocket /\ DOMAIN segments' = TcpSocket /\ DOMAIN call' = TcpSocket
      /\ \A t \in TcpSocket : t # s => socket'[t] = socket[t] /\ segments'[t] = segments[t] /\ call'[t] = call[t]
      /\ socket'[s] = q /\ segments'[s] = w /\ call'[s] = c
  BY <1>1, <1>2
<1>6. /\ \A t \in TcpSocket : t # s => (t \in torn' <=> t \in torn)
      /\ s \in torn' <=> (tears \/ s \in torn)
  BY <1>1
<1>7. SocketOK(s)'
  <2>1. s \notin Range(tcp_sockets') => q.state = "CLOSED"
    BY <1>0, <1>4, ClosedShape DEF LeftSocket
  <2>2. s \in torn' => w = <<>>
    BY <1>0, <1>6 DEF LeftSegments
  <2> QED
    BY <1>5, <1>6, <1>8, <2>1, <2>2, Zenon DEF SocketOK
<1> QED
  BY <1>2, <1>1, <1>3, <1>4, <1>5, <1>6, <1>7, OneChanges

(***************************************************************************)
(* A part of a call that neither sends nor frees.                          *)
(***************************************************************************)
LEMMA PartKeeps ==
    ASSUME TcpInv, NEW s \in TcpSocket, NEW q, NEW c,
           socket' = [socket EXCEPT ![s] = q] \/ (socket' = socket /\ q = socket[s]),
           call' = [call EXCEPT ![s] = c],
           UNCHANGED <<tcp_sockets, tcp_next_port, segments, torn, faults>>,
           StreamOK(q, c, segments[s]),
           s \notin Range(tcp_sockets) => q.state = "CLOSED",
           s \notin torn => CallOK(q, c, segments[s], faults)
    PROVE  TcpInv'
<1>1. /\ tcp_sockets \in Seq(TcpSocket) /\ DOMAIN socket = TcpSocket /\ DOMAIN segments = TcpSocket
      /\ DOMAIN call = TcpSocket /\ tcp_next_port \in TcpPort /\ faults \in Nat /\ SocketOK(s)
  BY DEF TcpInv
<1>2. /\ DOMAIN socket' = TcpSocket /\ DOMAIN segments' = TcpSocket /\ DOMAIN call' = TcpSocket
      /\ \A t \in TcpSocket : t # s => socket'[t] = socket[t] /\ segments'[t] = segments[t] /\ call'[t] = call[t]
      /\ socket'[s] = q /\ call'[s] = c
  BY <1>1
<1>3. SocketOK(s)'
  BY <1>1, <1>2, Zenon DEF SocketOK
<1> QED
  BY <1>1, <1>2, <1>3, OneChanges

\* The call after tcp_send_packet has returned.
AfterCall(c) == IF "FIN" \in c.flags THEN [c EXCEPT !.at = "counted"] ELSE NoCall

\* A call that has sent its FIN still has to set the state.
LEMMA AfterCallShape ==
    ASSUME NEW c, DOMAIN c = {"at", "flags"}, c.flags \in SUBSET Flag
    PROVE  LET d == AfterCall(c)
           IN  /\ DOMAIN d = {"at", "flags"} /\ d.flags \in SUBSET Flag
               /\ d.at \in {"none", "counted"}
               /\ "FIN" \in c.flags => d.at = "counted" /\ "FIN" \in d.flags
  BY NoCallShape DEF AfterCall

(***************************************************************************)
(* tcp_send_packet in a call, with room and without.                       *)
(***************************************************************************)
LEMMA SendPacketKeeps ==
    ASSUME TcpInv, NEW s \in TcpSocket, SendPacket(s)
    PROVE  TcpInv'
<1>0. PICK c, w, q : c = call[s] /\ w = segments[s] /\ q = socket[s]
  OBVIOUS
<1>1. PICK room \in Room :
          /\ Leave(s, IF room THEN Emit(Called(s, room), c.flags) ELSE Called(s, room), to_host, FALSE)
          /\ call' = IF room THEN [call EXCEPT ![s].at = "sent"] ELSE AfterPacket(s)
  BY <1>0, Zenon DEF SendPacket
<1>2. s \in Range(tcp_sockets) /\ c.at = "checked" /\ room \in BOOLEAN
  <2>1. Room \subseteq BOOLEAN
    BY Zenon DEF Room
  <2> QED
    BY <1>0, <2>1, Zenon DEF SendPacket
<1>3. /\ StreamOK(q, c, w) /\ (s \in torn => w = <<>>)
      /\ s \notin torn => CallOK(q, c, w, faults)
      /\ faults \in Nat /\ DOMAIN call = TcpSocket
  BY <1>0 DEF TcpInv, SocketOK
<1>4. /\ DOMAIN q = SocketFields /\ q.local_port \in TcpPort /\ q.seq_num \in Number
      /\ DOMAIN c = {"at", "flags"} /\ c.flags \in SUBSET Flag
      /\ StreamTo(w, q.seq_num) /\ w \in Seq(TcpSegment)
      /\ q.state = "CLOSED" => w = <<>>
      /\ HasFin(w) => q.state \in {"FIN_WAIT_1", "CLOSE_WAIT"}
  BY <1>2, <1>3 DEF StreamOK, Due, StreamTo
<1>5. faults' = (IF room THEN faults ELSE faults + 1) \/ faults' = faults + 1
  <2>1. ASSUME NEW r, r.room = room, Leave(s, r, to_host, FALSE)
        PROVE  faults' = (IF room THEN faults ELSE faults + 1) \/ faults' = faults + 1
    BY <2>1 DEF Leave
  <2>2. Called(s, room).room = room /\ Emit(Called(s, room), c.flags).room = room
    BY DEF Called, Emit
  <2> QED
    BY <1>1, <2>1, <2>2
<1>6. faults' = 0 => faults = 0 /\ room
  BY <1>2, <1>3, <1>5
<1>7. CASE room
  <2> DEFINE e == Called(s, room)
             r == Emit(e, c.flags)
             m == SegmentOf(q.local_port, c.flags, q.seq_num)
             d == [c EXCEPT !.at = "sent"]
             v == IF s \in torn THEN <<>> ELSE w \o r.out
  <2>1. r.socket = q /\ r.out = <<m>> /\ r.freed = FALSE
    BY <1>0 DEF Emit, Called, SegmentOf
  <2>2. Leave(s, r, to_host, FALSE) /\ call' = [call EXCEPT ![s] = d]
    BY <1>0, <1>1, <1>2, <1>3, <1>7
  <2> HIDE DEF r, e
  <2>3. /\ m \in TcpSegment /\ m.seq_num = q.seq_num /\ m.flags = c.flags
        /\ "PSH" \notin c.flags => m.byte = 0
        /\ Counted(q.seq_num, c.flags) = (q.seq_num + Numbers(m)) % SEQ
    <3>1. SegmentFits(m, c.flags, q.seq_num)
      BY <1>4, SegmentNumbers, Zenon
    <3> HIDE DEF m
    <3> QED
      BY <3>1, Zenon DEF SegmentFits
  <2> HIDE DEF m
  <2>4. d.at = "sent" /\ d.flags = c.flags /\ DOMAIN d = {"at", "flags"}
    BY <1>4
  <2> HIDE DEF d
  <2>5. CASE s \in torn
    <3>1. v = <<>>
      BY <2>5
    <3> HIDE DEF v
    <3>2. StreamOK(q, d, v)
      BY <1>4, <2>4, <3>1, ClosedOK
    <3>3. LeftSegments(s, r, FALSE) = v /\ LeftSocket(r) = q
      BY <1>0, <2>1 DEF v, LeftSegments, LeftSocket
    <3>4. LeftOK(s, r, FALSE, d, faults')
      BY <2>5, <3>2, <3>3, Zenon DEF LeftOK
    <3> QED
      BY <1>2, <2>2, <3>4, LeaveKeeps, Zenon
  <2>6. CASE s \notin torn
    <3>1. w \o <<m>> = Append(w, m)
      BY <1>4, <2>3, AppendIsConcat
    <3>2. v = Append(w, m)
      BY <2>1, <2>6, <3>1
    <3>3. CallOK(q, c, w, faults)
      BY <1>3, <2>6
    <3>4. ~HasFin(w)
      <4>1. CASE "SYN" \in c.flags
        <5>1. w = <<>>
          BY <1>2, <3>3, <4>1 DEF CallOK
        <5> QED
          BY <1>4, <5>1, EmptyStream
      <4>2. CASE "SYN" \notin c.flags
        BY <1>2, <1>4, <3>3, <4>2 DEF CallOK
      <4> QED
        BY <4>1, <4>2
    <3>5. /\ StreamTo(Append(w, m), (q.seq_num + Numbers(m)) % SEQ)
          /\ HasFin(Append(w, m)) => HasFin(w) \/ "FIN" \in m.flags
          /\ BegunWithSyn(w) => BegunWithSyn(Append(w, m))
          /\ w = <<>> /\ "SYN" \in m.flags => BegunWithSyn(Append(w, m))
      BY <1>4, <2>3, <3>4, AppendStream
    <3>6. Due(q, d) = (q.seq_num + Numbers(m)) % SEQ
      BY <2>3, <2>4 DEF Due
    <3> HIDE DEF v
    <3>8. faults' = 0 /\ q.state # "CLOSED" => BegunWithSyn(v)
      BY <1>2, <1>6, <2>3, <3>2, <3>3, <3>5 DEF CallOK
    <3>10. q.state # "CLOSED"
      BY <1>2, <3>3 DEF CallOK
    <3>9. CallOK(q, d, v, faults')
      BY <2>4, <3>8, <3>10 DEF CallOK
    <3>11. StreamOK(q, d, v)
      BY <1>4, <2>3, <2>4, <3>2, <3>4, <3>5, <3>6, <3>10 DEF StreamOK
    <3>12. LeftSegments(s, r, FALSE) = v /\ LeftSocket(r) = q
      BY <1>0, <2>1 DEF v, LeftSegments, LeftSocket
    <3>13. LeftOK(s, r, FALSE, d, faults')
      BY <3>9, <3>11, <3>12, Zenon DEF LeftOK
    <3> QED
      BY <1>2, <2>2, <3>13, LeaveKeeps, Zenon
  <2> QED
    BY <2>5, <2>6
<1>8. CASE ~room
  <2> DEFINE r == Called(s, room)
             d == AfterCall(c)
  <2>1. r.socket = q /\ r.out = <<>> /\ r.freed = FALSE
    BY <1>0 DEF Called
  <2>2. Leave(s, r, to_host, FALSE) /\ call' = [call EXCEPT ![s] = d]
    BY <1>0, <1>1, <1>8 DEF AfterPacket, AfterCall
  <2> HIDE DEF r
  <2>3. /\ DOMAIN d = {"at", "flags"} /\ d.flags \in SUBSET Flag
        /\ d.at \in {"none", "counted"}
    BY <1>4, AfterCallShape
  <2> HIDE DEF d
  <2>4. w \o r.out = w
    BY <1>4, <2>1, ConcatEmptySeq
  <2>5. Due(q, d) = q.seq_num
    BY <2>3 DEF Due
  <2>6. StreamOK(q, d, w)
    BY <1>4, <2>3, <2>5 DEF StreamOK
  <2>7. faults' # 0
    BY <1>6, <1>8
  <2>8. s \notin torn => CallOK(q, d, w, faults')
    BY <1>2, <1>3, <2>3, <2>7 DEF CallOK
  <2>9. LeftSegments(s, r, FALSE) = w /\ LeftSocket(r) = q
    BY <1>0, <1>3, <2>1, <2>4 DEF LeftSegments, LeftSocket
  <2>10. LeftOK(s, r, FALSE, d, faults')
    BY <2>6, <2>8, <2>9, Zenon DEF LeftOK
  <2> QED
    BY <1>2, <2>2, <2>10, LeaveKeeps, Zenon
<1> QED
  BY <1>2, <1>7, <1>8

(***************************************************************************)
(* The numbers are counted up, and tcp_close sets FIN_WAIT_1.              *)
(***************************************************************************)
LEMMA CountNumbersKeeps ==
    ASSUME TcpInv, NEW s \in TcpSocket, CountNumbers(s)
    PROVE  TcpInv'
<1>1. PICK c, w, q : c = call[s] /\ w = segments[s] /\ q = socket[s]
  OBVIOUS
<1>2. /\ s \in Range(tcp_sockets) /\ c.at = "sent"
      /\ socket' = [socket EXCEPT ![s].seq_num = Counted(@, c.flags)]
      /\ call' = AfterPacket(s)
      /\ UNCHANGED <<tcp_sockets, tcp_next_port, segments, torn, faults>>
  BY <1>1 DEF CountNumbers
<1>3. /\ StreamOK(q, c, w) /\ DOMAIN socket = TcpSocket /\ DOMAIN call = TcpSocket
      /\ s \notin torn => CallOK(q, c, w, faults)
  BY <1>1 DEF TcpInv, SocketOK
<1>4. /\ DOMAIN q = SocketFields /\ q.local_port \in TcpPort /\ q.seq_num \in Number
      /\ DOMAIN c = {"at", "flags"} /\ c.flags \in SUBSET Flag
      /\ StreamTo(w, Counted(q.seq_num, c.flags))
      /\ HasFin(w) => q.state \in {"FIN_WAIT_1", "CLOSE_WAIT"} \/ "FIN" \in c.flags
      /\ q.state = "CLOSED" => w = <<>>
  BY <1>2, <1>3 DEF StreamOK, Due
<1> DEFINE k == Counted(q.seq_num, c.flags)
           p == [q EXCEPT !.seq_num = k]
           d == AfterCall(c)
<1>5. socket' = [socket EXCEPT ![s] = p] /\ call' = [call EXCEPT ![s] = d]
  BY <1>1, <1>2 DEF AfterPacket, AfterCall
<1>6. /\ DOMAIN d = {"at", "flags"} /\ d.flags \in SUBSET Flag
      /\ d.at \in {"none", "counted"}
      /\ "FIN" \in c.flags => d.at = "counted" /\ "FIN" \in d.flags
  BY <1>4, AfterCallShape
<1>7. k \in Number
  BY <1>4 DEF StreamTo
<1> HIDE DEF d, k
<1>8. DOMAIN p = SocketFields /\ p.local_port = q.local_port /\ p.seq_num = k /\ p.state = q.state
  BY <1>4 DEF SocketFields
<1> HIDE DEF p
<1>9. StreamOK(p, d, w)
  <2>1. Due(p, d) = k
    BY <1>6, <1>8 DEF Due
  <2> QED
    BY <1>4, <1>6, <1>7, <1>8, <2>1 DEF StreamOK, k
<1>10. s \notin torn => CallOK(p, d, w, faults)
  BY <1>2, <1>3, <1>6, <1>8 DEF CallOK
<1> QED
  BY <1>1, <1>2, <1>5, <1>9, <1>10, PartKeeps

\* The last assignment of tcp_close keeps the invariant.
LEMMA FinWaitKeeps ==
    ASSUME TcpInv, NEW s \in TcpSocket, FinWait(s)
    PROVE  TcpInv'
<1>1. PICK c, w, q : c = call[s] /\ w = segments[s] /\ q = socket[s]
  OBVIOUS
<1> DEFINE p == [q EXCEPT !.state = "FIN_WAIT_1"]
<1>2. /\ s \in Range(tcp_sockets) /\ c.at = "counted"
      /\ socket' = [socket EXCEPT ![s] = p]
      /\ call' = [call EXCEPT ![s] = NoCall]
      /\ UNCHANGED <<tcp_sockets, tcp_next_port, segments, torn, faults>>
  BY <1>1 DEF FinWait
<1>3. /\ StreamOK(q, c, w)
      /\ s \notin torn => CallOK(q, c, w, faults)
  BY <1>1 DEF TcpInv, SocketOK
<1>4. /\ DOMAIN q = SocketFields /\ q.local_port \in TcpPort /\ q.seq_num \in Number
      /\ StreamTo(w, q.seq_num)
      /\ q.state = "CLOSED" => w = <<>>
  BY <1>2, <1>3 DEF StreamOK, Due
<1>5. DOMAIN p = SocketFields /\ p.local_port = q.local_port /\ p.seq_num = q.seq_num /\ p.state = "FIN_WAIT_1"
  BY <1>4 DEF SocketFields
<1> HIDE DEF p
<1>6. StreamOK(p, NoCall, w)
  BY <1>4, <1>5, NoCallShape DEF StreamOK
<1>7. s \notin torn /\ q.state # "CLOSED" => CallOK(p, NoCall, w, faults)
  BY <1>2, <1>3, <1>5, NoCallShape DEF CallOK
<1>8. q.state # "CLOSED" \/ s \in torn
  BY <1>2, <1>3 DEF CallOK
<1> QED
  BY <1>1, <1>2, <1>5, <1>6, <1>7, <1>8, PartKeeps

\* tcp_close takes the socket off the list.
LEMMA FreeKeeps ==
    ASSUME TcpInv, NEW s \in TcpSocket, Free(s)
    PROVE  TcpInv'
<1> DEFINE r == [Called(s, TRUE) EXCEPT !.freed = TRUE]
<1>1. /\ s \in Range(tcp_sockets) /\ Leave(s, r, to_host, FALSE) /\ call' = [call EXCEPT ![s] = NoCall]
  BY DEF Free
<1>2. r.freed
  BY DEF Called
<1> HIDE DEF r
<1>3. LeftSocket(r) = Closed /\ LeftSegments(s, r, FALSE) = <<>>
  BY <1>2, Zenon DEF LeftSocket, LeftSegments
<1>4. StreamOK(Closed, NoCall, <<>>)
  BY ClosedShape, NoCallShape, ClosedOK
<1>5. CallOK(Closed, NoCall, <<>>, faults')
  BY ClosedShape, NoCallShape DEF CallOK
<1>6. LeftOK(s, r, FALSE, NoCall, faults')
  BY <1>3, <1>4, <1>5, Zenon DEF LeftOK
<1> QED
  BY <1>1, <1>6, LeaveKeeps, Zenon

\* A call that outlives its socket ends.
LEMMA DanglingKeeps ==
    ASSUME TcpInv, NEW s \in TcpSocket, Dangling(s)
    PROVE  TcpInv'
<1>1. PICK c, w, q : c = call[s] /\ w = segments[s] /\ q = socket[s]
  OBVIOUS
<1>2. /\ s \notin Range(tcp_sockets)
      /\ socket' = socket /\ call' = [call EXCEPT ![s] = NoCall]
      /\ UNCHANGED <<tcp_sockets, tcp_next_port, segments, torn, faults>>
  BY DEF Dangling
<1>3. StreamOK(q, c, w) /\ q.state = "CLOSED" /\ DOMAIN socket = TcpSocket
  BY <1>1, <1>2 DEF TcpInv, SocketOK
<1>4. /\ DOMAIN q = SocketFields /\ q.local_port \in TcpPort /\ q.seq_num \in Number /\ w = <<>>
  BY <1>3 DEF StreamOK
<1>5. StreamOK(q, NoCall, w)
  BY <1>4, NoCallShape, ClosedOK
<1>6. CallOK(q, NoCall, w, faults)
  BY <1>3, NoCallShape DEF CallOK
<1> QED
  BY <1>1, <1>2, <1>3, <1>5, <1>6, PartKeeps

(***************************************************************************)
(* A call begins on a socket without one.                                  *)
(***************************************************************************)
LEMMA BeginKeeps ==
    ASSUME TcpInv, NEW s \in TcpSocket, NEW at, NEW flags \in SUBSET Flag, Begin(s, at, flags),
           at # "sent", UNCHANGED socket,
           at \in {"checked", "counted"} => socket[s].state = "ESTABLISHED" /\ "SYN" \notin flags
    PROVE  TcpInv'
<1>1. PICK w, q : w = segments[s] /\ q = socket[s]
  OBVIOUS
<1> DEFINE c == [at |-> at, flags |-> flags]
<1>2. /\ s \in Range(tcp_sockets) /\ call[s] = NoCall
      /\ call' = [call EXCEPT ![s] = c]
      /\ UNCHANGED <<tcp_sockets, tcp_next_port, segments, torn, faults>>
  BY DEF Begin
<1>3. c.at = at /\ c.flags = flags /\ DOMAIN c = {"at", "flags"}
  OBVIOUS
<1> HIDE DEF c
<1>4. /\ StreamOK(q, NoCall, w) /\ DOMAIN socket = TcpSocket
      /\ s \notin torn => CallOK(q, NoCall, w, faults)
  BY <1>1, <1>2 DEF TcpInv, SocketOK
<1>5. Due(q, c) = Due(q, NoCall)
  BY <1>3, NoCallShape DEF Due
<1>6. HasFin(w) => q.state \in {"FIN_WAIT_1", "CLOSE_WAIT"}
  BY <1>4, NoCallShape DEF StreamOK
<1>7. StreamOK(q, c, w)
  BY <1>3, <1>4, <1>5, <1>6 DEF StreamOK
<1>8. s \notin torn => CallOK(q, c, w, faults)
  BY <1>1, <1>3, <1>4, NoCallShape DEF CallOK
<1> QED
  BY <1>1, <1>2, <1>7, <1>8, PartKeeps

\* tcp_connect up to the SYN.
LEMMA ConnectKeeps ==
    ASSUME TcpInv, NEW s \in TcpSocket, tcp_connect(s)
    PROVE  TcpInv'
<1>1. PICK w, q : w = segments[s] /\ q = socket[s]
  OBVIOUS
<1> DEFINE n == SEQ - 1
           p == [q EXCEPT !.connected = TRUE, !.seq_num = n, !.state = "SYN_SENT"]
           c == [at |-> "checked", flags |-> {"SYN"}]
<1>2. /\ s \in Range(tcp_sockets) /\ q.state = "CLOSED" /\ call' = [call EXCEPT ![s] = c]
      /\ socket' = [socket EXCEPT ![s].connected = TRUE, ![s].seq_num = n, ![s].state = "SYN_SENT"]
      /\ UNCHANGED <<tcp_sockets, tcp_next_port, segments, torn, faults>>
  BY <1>1 DEF tcp_connect, Begin
<1>3. c.at = "checked" /\ c.flags = {"SYN"} /\ DOMAIN c = {"at", "flags"} /\ {"SYN"} \in SUBSET Flag
  BY DEF Flag
<1> HIDE DEF c
<1>4. StreamOK(q, call[s], w) /\ DOMAIN socket = TcpSocket
  BY <1>1 DEF TcpInv, SocketOK
<1>5. DOMAIN q = SocketFields /\ q.local_port \in TcpPort /\ w = <<>>
  BY <1>2, <1>4 DEF StreamOK
<1>6. n \in Number
  BY TcpAssumption DEF Number
<1> HIDE DEF n
<1>7. socket' = [socket EXCEPT ![s] = p]
  BY <1>1, <1>2, <1>4
<1>8. DOMAIN p = SocketFields /\ p.local_port = q.local_port /\ p.seq_num = n /\ p.state = "SYN_SENT"
  BY <1>5 DEF SocketFields
<1> HIDE DEF p
<1>9. StreamOK(p, c, w)
  BY <1>3, <1>5, <1>6, <1>8, ClosedOK
<1>10. CallOK(p, c, w, faults)
  BY <1>3, <1>5, <1>8 DEF CallOK
<1> QED
  BY <1>1, <1>2, <1>7, <1>9, <1>10, PartKeeps

(***************************************************************************)
(* tcp_create_socket takes a structure that has sent nothing.              *)
(***************************************************************************)
LEMMA Prepended ==
    ASSUME NEW S, NEW q \in Seq(S), NEW e \in S
    PROVE  <<e>> \o q \in Seq(S) /\ \A t \in Range(q) : t \in Range(<<e>> \o q)
<1> DEFINE u == <<e>>
           v == u \o q
<1>1. u \in Seq(S) /\ Len(u) = 1
  OBVIOUS
<1> HIDE DEF u
<1>2. /\ v \in Seq(S) /\ Len(v) = Len(u) + Len(q) /\ Len(q) \in Nat
      /\ \A i \in 1 .. Len(u) + Len(q) : v[i] = IF i <= Len(u) THEN u[i] ELSE q[i - Len(u)]
  BY <1>1, ConcatProperties, LenProperties
<1> HIDE DEF v
<1>3. /\ Len(v) = 1 + Len(q)
      /\ \A i \in 1 .. 1 + Len(q) : v[i] = IF i <= 1 THEN u[i] ELSE q[i - 1]
  BY <1>1, <1>2
<1>4. ASSUME NEW t \in Range(q) PROVE t \in Range(v)
  <2>1. PICK i \in 1 .. Len(q) : t = q[i]
    BY DEF Range
  <2>2. i + 1 \in 1 .. 1 + Len(q) /\ ~(i + 1 <= 1) /\ (i + 1) - 1 = i
    BY <1>2
  <2>3. v[i + 1] = q[(i + 1) - 1]
    BY <1>3, <2>2
  <2>4. v[i + 1] = t /\ i + 1 \in 1 .. Len(v)
    BY <1>3, <2>1, <2>2, <2>3
  <2>5. DOMAIN v = 1 .. Len(v)
    BY <1>2, LenProperties
  <2> QED
    BY <2>4, <2>5, Zenon DEF Range
<1> QED
  BY <1>2, <1>4 DEF v, u

\* A new socket keeps the invariant.
LEMMA CreateKeeps ==
    ASSUME TcpInv, tcp_create_socket
    PROVE  TcpInv'
<1> DEFINE free == {t \in TcpSocket : t \notin Range(tcp_sockets) /\ call[t] = NoCall}
           p == [Closed EXCEPT !.local_port = tcp_next_port]
<1>1. PICK s \in free :
          /\ tcp_sockets' = <<s>> \o tcp_sockets
          /\ socket' = [socket EXCEPT ![s] = p]
          /\ tcp_next_port' = (tcp_next_port + 1) % TCP_PORTS
          /\ torn' = torn \ {s}
          /\ UNCHANGED <<call, segments, faults>>
  <2> DEFINE t == CHOOSE t \in free : TRUE
  <2>1. free # {}
    BY DEF tcp_create_socket
  <2>2. t \in free
    BY <2>1
  <2> HIDE DEF free
  <2>3. /\ tcp_sockets' = <<t>> \o tcp_sockets
        /\ socket' = [socket EXCEPT ![t] = p]
        /\ tcp_next_port' = (tcp_next_port + 1) % TCP_PORTS
        /\ torn' = torn \ {t}
        /\ UNCHANGED <<call, segments, faults>>
    BY DEF tcp_create_socket, free
  <2> HIDE DEF t, p
  <2> QED
    BY <2>2, <2>3
<1>2. s \in TcpSocket /\ s \notin Range(tcp_sockets) /\ call[s] = NoCall
  OBVIOUS
<1>3. /\ tcp_sockets \in Seq(TcpSocket) /\ DOMAIN socket = TcpSocket /\ DOMAIN segments = TcpSocket
      /\ DOMAIN call = TcpSocket /\ tcp_next_port \in TcpPort /\ faults \in Nat
      /\ StreamOK(socket[s], call[s], segments[s]) /\ socket[s].state = "CLOSED"
  BY <1>2 DEF TcpInv, SocketOK
<1>4. segments[s] = <<>>
  BY <1>3 DEF StreamOK
<1>5. tcp_next_port' \in TcpPort
  <2>1. tcp_next_port + 1 \in Nat
    BY <1>3, TcpAssumption DEF TcpPort
  <2> QED
    BY <1>1, <2>1, TcpAssumption, ModPosition DEF TcpPort
<1>6. /\ p.seq_num \in Number /\ p.local_port \in TcpPort /\ p.state = "CLOSED" /\ DOMAIN p = SocketFields
  BY <1>3, TcpAssumption DEF Closed, Number, TcpPort, SocketFields
<1> HIDE DEF p
<1>7. tcp_sockets' \in Seq(TcpSocket) /\ \A t \in Range(tcp_sockets) : t \in Range(tcp_sockets')
  BY <1>1, <1>2, <1>3, Prepended
<1>8. /\ DOMAIN socket' = TcpSocket /\ socket'[s] = p
      /\ \A t \in TcpSocket : t # s => socket'[t] = socket[t]
  BY <1>1, <1>2, <1>3
<1>9. StreamOK(p, NoCall, <<>>)
  BY <1>6, NoCallShape, ClosedOK
<1>10. CallOK(p, NoCall, <<>>, faults)
  BY <1>6, NoCallShape DEF CallOK
<1>11. SocketOK(s)'
  BY <1>1, <1>2, <1>4, <1>6, <1>8, <1>9, <1>10, Zenon DEF SocketOK
<1> QED
  BY <1>1, <1>2, <1>3, <1>5, <1>7, <1>8, <1>11, OneChanges

(***************************************************************************)
(* The work on a socket begins with what the socket has sent.              *)
(***************************************************************************)
LEMMA CalledRun ==
    ASSUME NEW r, DOMAIN r = RunFields, r.out = <<>>, r.room \in BOOLEAN,
           NEW w, NEW f, StreamOK(r.socket, NoCall, w),
           f = 0 /\ r.room /\ r.socket.state # "CLOSED" => BegunWithSyn(w)
    PROVE  TcpRun(f, w, r)
<1>1. w \in Seq(TcpSegment) /\ StreamTo(w, r.socket.seq_num)
  BY NoCallShape DEF StreamOK, StreamTo
<1>2. w \o r.out = w /\ r.out \in Seq(TcpSegment)
  BY <1>1, ConcatEmptySeq, EmptySeq
<1>3. /\ DOMAIN r.socket = SocketFields /\ r.socket.local_port \in TcpPort
      /\ HasFin(w) => r.socket.state \in {"FIN_WAIT_1", "CLOSE_WAIT"}
      /\ r.socket.state = "CLOSED" => w = <<>>
  BY NoCallShape DEF StreamOK
<1>4. RunShape(r)
  BY <1>2, <1>3 DEF RunShape
<1> QED
  BY <1>1, <1>2, <1>3, <1>4, Zenon DEF TcpRun

\* What the work has made of a socket without a call.
LEMMA RunLeaves ==
    ASSUME NEW f, NEW w, NEW r, TcpRun(f, w, r)
    PROVE  /\ StreamOK(r.socket, NoCall, w \o r.out)
           /\ f = 0 /\ r.room => CallOK(r.socket, NoCall, w \o r.out, f)
<1> DEFINE v == w \o r.out
<1>1. /\ DOMAIN r.socket = SocketFields /\ r.socket.local_port \in TcpPort
      /\ StreamTo(v, r.socket.seq_num)
      /\ HasFin(v) => r.socket.state \in {"FIN_WAIT_1", "CLOSE_WAIT"}
      /\ r.socket.state = "CLOSED" => v = <<>>
      /\ f = 0 /\ r.room /\ r.socket.state # "CLOSED" => BegunWithSyn(v)
  BY DEF TcpRun, RunShape
<1> HIDE DEF v
<1>2. r.socket.seq_num \in Number
  BY <1>1 DEF StreamTo
<1>3. StreamOK(r.socket, NoCall, v)
  BY <1>1, <1>2, NoCallShape DEF StreamOK
<1>4. f = 0 /\ r.room => CallOK(r.socket, NoCall, v, f)
  BY <1>1, NoCallShape DEF CallOK
<1> QED
  BY <1>3, <1>4 DEF v

(***************************************************************************)
(* tcp_handle_packet on a socket: without a call, the stream goes on; in   *)
(* the middle of one it is followed no further, unless nothing was done.   *)
(***************************************************************************)
LEMMA HandleKeeps ==
    ASSUME TcpInv, NEW s \in TcpSocket, s \in Range(tcp_sockets), NEW room \in BOOLEAN, NEW m, NEW acts,
           NEW r, r = Handled(Called(s, room), m, acts),
           NEW rest, NEW tears \in BOOLEAN, tears = (call[s] # NoCall /\ r # Called(s, room)),
           Leave(s, r, rest, tears), UNCHANGED call
    PROVE  TcpInv'
<1>1. PICK c, w, q, e : c = call[s] /\ w = segments[s] /\ q = socket[s] /\ e = Called(s, room)
  OBVIOUS
<1>2. /\ e.socket = q /\ e.out = <<>> /\ e.room = room /\ e.freed = FALSE /\ DOMAIN e = RunFields
  BY <1>1 DEF Called, RunFields
<1>3. /\ StreamOK(q, c, w) /\ (s \in torn => w = <<>>)
      /\ s \notin torn => CallOK(q, c, w, faults)
      /\ DOMAIN call = TcpSocket /\ faults \in Nat
  BY <1>1 DEF TcpInv, SocketOK
<1>4. /\ DOMAIN q = SocketFields /\ q.local_port \in TcpPort /\ q.seq_num \in Number
      /\ DOMAIN c = {"at", "flags"} /\ c.flags \in SUBSET Flag
      /\ w \in Seq(TcpSegment)
  BY <1>3 DEF StreamOK, StreamTo
<1>5. r = Handled(e, m, acts) /\ tears = (c # NoCall /\ r # e)
  BY <1>1
<1>6. faults' = (IF r.room THEN faults ELSE faults + 1) \/ faults' = faults + 1
  BY DEF Leave
<1>7. faults' = 0 => faults = 0 /\ r.room
  BY <1>3, <1>6
<1>8. LeftOK(s, r, tears, c, faults')
  <2>1. CASE tears \/ s \in torn
    <3>1. TcpRun(1, <<>>, e)
      <4>1. StreamOK(q, NoCall, <<>>)
        BY <1>4, NoCallShape, ClosedOK
      <4> QED
        BY <1>2, <4>1, CalledRun
    <3>2. TcpRun(1, <<>>, r)
      BY <1>5, <3>1, HandledKeeps
    <3>3. StreamOK(r.socket, NoCall, <<>> \o r.out)
      BY <3>2, RunLeaves
    <3>4. DOMAIN r.socket = SocketFields /\ r.socket.local_port \in TcpPort /\ r.socket.seq_num \in Number
      BY <3>3 DEF StreamOK
    <3>5. LeftSegments(s, r, tears) = <<>>
      BY <2>1, Zenon DEF LeftSegments
    <3>6. StreamOK(LeftSocket(r), c, <<>>)
      BY <1>4, <3>4, ClosedShape, ClosedOK DEF LeftSocket
    <3> QED
      BY <2>1, <3>5, <3>6, Zenon DEF LeftOK
  <2>2. CASE ~tears /\ s \notin torn /\ r = e
    <3>1. LeftSocket(r) = q
      BY <1>2, <2>2 DEF LeftSocket
    <3>2. w \o r.out = w
      BY <1>2, <1>4, <2>2, ConcatEmptySeq
    <3>3. LeftSegments(s, r, tears) = w
      BY <1>1, <1>2, <2>2, <3>2 DEF LeftSegments
    <3>4. CallOK(q, c, w, faults')
      BY <1>3, <1>7, <2>2 DEF CallOK
    <3> QED
      BY <1>3, <3>1, <3>3, <3>4, Zenon DEF LeftOK
  <2>3. CASE ~tears /\ s \notin torn /\ r # e
    <3>1. c = NoCall
      BY <1>5, <2>3
    <3>2. faults = 0 /\ q.state # "CLOSED" => BegunWithSyn(w)
      BY <1>3, <2>3, <3>1, NoCallShape DEF CallOK
    <3>3. TcpRun(faults, w, e)
      BY <1>2, <1>3, <3>1, <3>2, CalledRun
    <3>4. TcpRun(faults, w, r)
      BY <1>5, <3>3, HandledKeeps
    <3>5. /\ StreamOK(r.socket, NoCall, w \o r.out)
          /\ faults = 0 /\ r.room => CallOK(r.socket, NoCall, w \o r.out, faults)
      BY <3>4, RunLeaves
    <3>6. CASE r.freed
      <4>1. LeftSocket(r) = Closed /\ LeftSegments(s, r, tears) = <<>>
        BY <3>6, Zenon DEF LeftSocket, LeftSegments
      <4>2. StreamOK(Closed, c, <<>>)
        BY <1>4, ClosedShape, ClosedOK
      <4>3. CallOK(Closed, c, <<>>, faults')
        BY <3>1, ClosedShape, NoCallShape DEF CallOK
      <4> QED
        BY <4>1, <4>2, <4>3, Zenon DEF LeftOK
    <3>7. CASE ~r.freed
      <4>1. LeftSocket(r) = r.socket /\ LeftSegments(s, r, tears) = w \o r.out
        BY <1>1, <2>3, <3>7, Zenon DEF LeftSocket, LeftSegments
      <4>2. CallOK(r.socket, NoCall, w \o r.out, faults')
        <5>1. CASE faults' = 0
          BY <1>7, <3>5, <5>1
        <5>2. CASE faults' # 0
          BY <5>2, NoCallShape DEF CallOK
        <5> QED
          BY <5>1, <5>2
      <4> QED
        BY <3>1, <3>5, <4>1, <4>2, Zenon DEF LeftOK
    <3> QED
      BY <3>6, <3>7
  <2> QED
    BY <2>1, <2>2, <2>3
<1> QED
  BY <1>1, <1>8, LeaveKeeps, Zenon

(***************************************************************************)
(* The invariant holds at first, and every step keeps it.                  *)
(***************************************************************************)
LEMMA TcpInvInit == TcpInit => TcpInv
<1> SUFFICES ASSUME TcpInit PROVE TcpInv
  OBVIOUS
<1>1. StreamOK(Closed, NoCall, <<>>)
  BY ClosedShape, NoCallShape, ClosedOK
<1>2. CallOK(Closed, NoCall, <<>>, faults)
  BY ClosedShape, NoCallShape DEF CallOK
<1>3. /\ TCP_PORTS - 1 \in TcpPort /\ 0 \in Nat /\ <<>> \in Seq(TcpSocket)
  BY TcpAssumption, EmptySeq DEF TcpPort
<1>4. /\ \A s \in TcpSocket : socket[s] = Closed /\ segments[s] = <<>> /\ call[s] = NoCall
      /\ DOMAIN socket = TcpSocket /\ DOMAIN segments = TcpSocket /\ DOMAIN call = TcpSocket
  BY DEF TcpInit
<1>5. tcp_sockets = <<>> /\ tcp_next_port = TCP_PORTS - 1 /\ faults = 0 /\ torn = {}
  BY DEF TcpInit
<1>6. ASSUME NEW s \in TcpSocket PROVE SocketOK(s)
  BY <1>1, <1>2, <1>4, ClosedShape, Zenon DEF SocketOK
<1> QED
  BY <1>3, <1>4, <1>5, <1>6, Zenon DEF TcpInv

\* The socket that a loop over the list finds is on the list.
FoundAt(m) == {i \in 1 .. Len(tcp_sockets) : Matches(tcp_sockets[i], m)}

\* The socket that the search finds is on the list, and matches.
LEMMA FoundIsListed ==
    ASSUME NEW m, tcp_sockets \in Seq(TcpSocket), NEW found, found # 0,
           found = IF FoundAt(m) # {} THEN Min(FoundAt(m)) ELSE 0
    PROVE  /\ tcp_sockets[found] \in TcpSocket /\ tcp_sockets[found] \in Range(tcp_sockets)
           /\ Matches(tcp_sockets[found], m)
<1>1. FoundAt(m) # {} /\ FoundAt(m) \in SUBSET Nat
  BY DEF FoundAt
<1>2. found \in FoundAt(m)
  BY <1>1, MinIn
<1>3. found \in 1 .. Len(tcp_sockets) /\ Matches(tcp_sockets[found], m)
  BY <1>2 DEF FoundAt
<1>4. DOMAIN tcp_sockets = 1 .. Len(tcp_sockets) /\ tcp_sockets[found] \in TcpSocket
  BY <1>3, LenProperties, ElementOfSeq
<1> QED
  BY <1>3, <1>4, Zenon DEF Range

\* The invariant of the sockets is inductive.
LEMMA TcpInvNext == TcpInv /\ [TcpNext]_tcpVars => TcpInv'
<1> SUFFICES ASSUME TcpInv, [TcpNext]_tcpVars PROVE TcpInv'
  OBVIOUS
<1>1. ASSUME UNCHANGED hostVars, faults' = faults \/ faults' = faults + 1 PROVE TcpInv'
  <2>1. faults' \in Nat /\ (faults' = 0 => faults = 0)
    BY <1>1 DEF TcpInv
  <2>2. UNCHANGED <<tcp_sockets, socket, call, segments, tcp_next_port, torn>>
    BY <1>1 DEF hostVars
  <2>3. ASSUME NEW s \in TcpSocket PROVE SocketOK(s)'
    <3>1. SocketOK(s)
      BY DEF TcpInv
    <3>2. \A q, c, w : CallOK(q, c, w, faults) => CallOK(q, c, w, faults')
      BY <2>1, Zenon DEF CallOK
    <3> QED
      BY <2>2, <3>1, <3>2, Zenon DEF SocketOK
  <2> QED
    BY <2>1, <2>2, <2>3 DEF TcpInv
<1>2. CASE UNCHANGED tcpVars
  BY <1>1, <1>2 DEF tcpVars
<1>3. ASSUME NEW p \in TcpPort, server_sends(p) PROVE TcpInv'
  BY <1>1, <1>3 DEF server_sends
<1>4. CASE Lose \/ Disorder
  BY <1>1, <1>4 DEF Lose, Disorder
<1>5. CASE tcp_create_socket
  BY <1>5, CreateKeeps
<1>6. ASSUME NEW s \in TcpSocket, tcp_connect(s) PROVE TcpInv'
  BY <1>6, ConnectKeeps
<1>7. ASSUME NEW s \in TcpSocket, tcp_close(s) \/ tcp_send(s) PROVE TcpInv'
  <2>1. UNCHANGED socket
    BY <1>7 DEF tcp_close, tcp_send
  <2>2. \/ Begin(s, "checked", {"FIN", "ACK"}) /\ socket[s].state = "ESTABLISHED"
        \/ Begin(s, "checked", {"PSH", "ACK"}) /\ socket[s].state = "ESTABLISHED"
        \/ Begin(s, "free", {})
    BY <1>7, Zenon DEF tcp_close, tcp_send
  <2>3. /\ {"FIN", "ACK"} \in SUBSET Flag /\ {"PSH", "ACK"} \in SUBSET Flag /\ {} \in SUBSET Flag
        /\ "SYN" \notin {"FIN", "ACK"} /\ "SYN" \notin {"PSH", "ACK"}
    BY DEF Flag
  <2>4. CASE Begin(s, "checked", {"FIN", "ACK"}) /\ socket[s].state = "ESTABLISHED"
    BY <2>1, <2>3, <2>4, BeginKeeps
  <2>5. CASE Begin(s, "checked", {"PSH", "ACK"}) /\ socket[s].state = "ESTABLISHED"
    BY <2>1, <2>3, <2>5, BeginKeeps
  <2>6. CASE Begin(s, "free", {})
    BY <2>1, <2>3, <2>6, BeginKeeps
  <2> QED
    BY <2>2, <2>4, <2>5, <2>6
<1>8. ASSUME NEW s \in TcpSocket, SendPacket(s) \/ CountNumbers(s) \/ FinWait(s) \/ Free(s) \/ Dangling(s)
      PROVE  TcpInv'
  BY <1>8, SendPacketKeeps, CountNumbersKeeps, FinWaitKeeps, FreeKeeps, DanglingKeeps
<1>9. CASE tcp_handle_packet
  <2> DEFINE m == Head(to_host)
             found == SelectInSeq(tcp_sockets, LAMBDA s : Matches(s, m))
             s == tcp_sockets[found]
  <2>1. CASE found = 0
    BY <1>1, <1>9, <2>1 DEF tcp_handle_packet, hostVars
  <2>2. CASE found # 0
    <3>1. s \in TcpSocket /\ s \in Range(tcp_sockets)
      <4>1. found = IF FoundAt(m) # {} THEN Min(FoundAt(m)) ELSE 0
        BY DEF SelectInSeq, FoundAt
      <4> HIDE DEF found, m
      <4> QED
        BY <2>2, <4>1, FoundIsListed DEF TcpInv
    <3>2. /\ call' = call
          /\ \E room \in Room, first \in Act(s), second \in Act(s) :
                 LET r == Handled(Called(s, room), m, <<first, second>>)
                 IN  Leave(s, r, Tail(to_host), call[s] # NoCall /\ r # Called(s, room))
      BY <1>9, <2>2 DEF tcp_handle_packet
    <3> HIDE DEF found, m, s
    <3>3. PICK room, acts :
              /\ room \in Room
              /\ LET r == Handled(Called(s, room), m, acts)
                 IN  Leave(s, r, Tail(to_host), call[s] # NoCall /\ r # Called(s, room))
      BY <3>2, Zenon
    <3>7. PICK r : r = Handled(Called(s, room), m, acts)
      OBVIOUS
    <3>8. PICK tears \in BOOLEAN : tears = (call[s] # NoCall /\ r # Called(s, room))
      OBVIOUS
    <3>4. r = Handled(Called(s, room), m, acts) /\ tears = (call[s] # NoCall /\ r # Called(s, room))
      BY <3>7, <3>8
    <3>5. Leave(s, r, Tail(to_host), tears)
      BY <3>3, <3>4, Zenon
    <3>6. room \in BOOLEAN
      BY <3>3, Zenon DEF Room
    <3> QED
      BY <3>1, <3>2, <3>4, <3>5, <3>6, HandleKeeps
  <2> QED
    BY <2>1, <2>2
<1> QED
  BY <1>2, <1>3, <1>4, <1>5, <1>6, <1>7, <1>8, <1>9 DEF TcpNext, Application

(***************************************************************************)
(* The segments of a socket are a stream, whatever the application sends   *)
(* and closes in its callbacks and whatever the network and the heap fail  *)
(* at, until the handler works on it in the middle of a call.              *)
(***************************************************************************)
THEOREM TcpStreamWellFormed == TcpSpec => []StreamWellFormed
<1>1. TcpInv => StreamWellFormed
  <2> SUFFICES ASSUME TcpInv, NEW s \in TcpSocket, s \notin torn
               PROVE  /\ Chained(segments[s])
                      /\ \A i, j \in DOMAIN segments[s] :
                             "FIN" \in segments[s][i].flags /\ i < j =>
                                 "FIN" \notin segments[s][j].flags /\ segments[s][j].byte = 0
                      /\ faults = 0 /\ segments[s] # <<>> => "SYN" \in segments[s][1].flags
    BY Zenon DEF StreamWellFormed, Chained
  <2>1. /\ StreamTo(segments[s], Due(socket[s], call[s]))
        /\ socket[s].state = "CLOSED" => segments[s] = <<>>
        /\ faults = 0 /\ socket[s].state # "CLOSED" =>
              BegunWithSyn(segments[s]) \/ (call[s].at = "checked" /\ "SYN" \in call[s].flags)
        /\ call[s].at = "checked" /\ "SYN" \in call[s].flags => segments[s] = <<>>
    BY Zenon DEF TcpInv, SocketOK, StreamOK, CallOK
  <2>2. DOMAIN segments[s] = 1 .. Len(segments[s])
    BY <2>1, LenProperties DEF StreamTo
  <2> QED
    BY <2>1, <2>2, Zenon DEF StreamTo, Quiet, BegunWithSyn
<1> QED
  BY <1>1, TcpInvInit, TcpInvNext, PTL DEF TcpSpec

-----------------------------------------------------------------------------
(***************************************************************************)
(* Tcp: what arrives.                                                      *)
(***************************************************************************)
Arriving == [port : TcpPort, flags : SUBSET Flag, seq_num : Number, byte : Nat]
ServerEnd == [state : {"listen", "refused", "syn_rcvd", "open", "closed"},
              seq_num : Number, byte : Nat, unpushed : Nat]

Pushed(m) == "PSH" \in m.flags

(***************************************************************************)
(* The segments q on their way: on each port no pushed byte overtakes      *)
(* another, and none is one the servers srv have not sent.                 *)
(***************************************************************************)
Flow(q, srv) ==
    /\ \A i, j \in 1 .. Len(q) : i < j /\ Pushed(q[i]) /\ Pushed(q[j]) /\ q[i].port = q[j].port =>
                                     q[i].byte < q[j].byte
    /\ \A i \in 1 .. Len(q) : Pushed(q[i]) => q[i].byte <= srv[q[i].port].byte

(***************************************************************************)
(* The bytes d given to the application of a socket with port p: in order, *)
(* and before all those on their way.                                      *)
(***************************************************************************)
Given(d, p, q, srv) ==
    /\ \A i, j \in 1 .. Len(d) : i < j => d[i] < d[j]
    /\ \A i \in 1 .. Len(d) :
           /\ d[i] <= srv[p].byte
           /\ \A j \in 1 .. Len(q) : Pushed(q[j]) /\ q[j].port = p => d[i] < q[j].byte

(***************************************************************************)
(* The inductive invariant of what arrives.                                *)
(***************************************************************************)
FlowTypes ==
    /\ to_host \in Seq(Arriving)
    /\ server \in [TcpPort -> ServerEnd]
    /\ DOMAIN delivered = TcpSocket
    /\ \A s \in TcpSocket : delivered[s] \in Seq(Nat)

FlowOK ==
    /\ Flow(to_host, server)
    /\ \A s \in TcpSocket : Given(delivered[s], socket[s].local_port, to_host, server)

FlowInv ==
    /\ FlowTypes
    /\ \A s \in TcpSocket : s \notin Range(tcp_sockets) => delivered[s] = <<>>
    /\ ~disordered => FlowOK

\* The segments u are q without the one at place k.
Thinner(u, q, k) ==
    /\ k \in 1 .. Len(q) /\ Len(u) = Len(q) - 1
    /\ \A i \in 1 .. Len(q) - 1 : u[i] = IF i < k THEN q[i] ELSE q[i + 1]

(***************************************************************************)
(* A segment less on its way harms nothing.                                *)
(***************************************************************************)
LEMMA ThinnerKeeps ==
    ASSUME NEW q \in Seq(Arriving), NEW u, NEW k, Thinner(u, q, k), NEW srv
    PROVE  /\ Flow(q, srv) => Flow(u, srv)
           /\ \A d, p : Given(d, p, q, srv) => Given(d, p, u, srv)
<1>1. /\ Len(q) \in Nat /\ k \in 1 .. Len(q) /\ Len(u) = Len(q) - 1
      /\ \A i \in 1 .. Len(q) - 1 : u[i] = IF i < k THEN q[i] ELSE q[i + 1]
  BY LenProperties DEF Thinner
<1> DEFINE f(i) == IF i < k THEN i ELSE i + 1
<1>2. \A i \in 1 .. Len(u) : f(i) \in 1 .. Len(q) /\ u[i] = q[f(i)]
  BY <1>1
<1>3. \A i, j \in 1 .. Len(u) : i < j => f(i) < f(j)
  BY <1>1
<1> HIDE DEF f
<1>4. ASSUME Flow(q, srv) PROVE Flow(u, srv)
  <2>1. ASSUME NEW i \in 1 .. Len(u), NEW j \in 1 .. Len(u), i < j, Pushed(u[i]), Pushed(u[j]), u[i].port = u[j].port
        PROVE  u[i].byte < u[j].byte
    BY <1>2, <1>3, <1>4, <2>1, Zenon DEF Flow
  <2>2. ASSUME NEW i \in 1 .. Len(u), Pushed(u[i])
        PROVE  u[i].byte <= srv[u[i].port].byte
    BY <1>2, <1>4, <2>2, Zenon DEF Flow
  <2> QED
    BY <2>1, <2>2, Zenon DEF Flow
<1>5. ASSUME NEW d, NEW p, Given(d, p, q, srv) PROVE Given(d, p, u, srv)
  BY <1>2, <1>5, Zenon DEF Given
<1> QED
  BY <1>4, <1>5

(***************************************************************************)
(* Neither does a segment more without a pushed byte.                      *)
(***************************************************************************)
LEMMA UnpushedKeeps ==
    ASSUME NEW q \in Seq(Arriving), NEW m \in Arriving, ~Pushed(m), NEW srv
    PROVE  /\ Flow(q, srv) => Flow(Append(q, m), srv)
           /\ \A d, p : Given(d, p, q, srv) => Given(d, p, Append(q, m), srv)
<1> DEFINE u == Append(q, m)
<1>1. /\ Len(q) \in Nat /\ Len(u) = Len(q) + 1 /\ u[Len(q) + 1] = m
      /\ \A i \in 1 .. Len(q) : u[i] = q[i]
  BY AppendProperties, LenProperties
<1> HIDE DEF u
<1>2. \A i \in 1 .. Len(u) : Pushed(u[i]) => i \in 1 .. Len(q) /\ u[i] = q[i]
  <2> TAKE i \in 1 .. Len(u)
  <2>1. i \in 1 .. Len(q) \/ i = Len(q) + 1
    BY <1>1
  <2> QED
    BY <1>1, <2>1, Zenon
<1>3. ASSUME Flow(q, srv) PROVE Flow(u, srv)
  BY <1>2, <1>3, Zenon DEF Flow
<1>4. ASSUME NEW d, NEW p, Given(d, p, q, srv) PROVE Given(d, p, u, srv)
  BY <1>2, <1>4, Zenon DEF Given
<1> QED
  BY <1>3, <1>4 DEF u

(***************************************************************************)
(* The server on port p sends its next byte.                               *)
(***************************************************************************)
LEMMA PushedKeeps ==
    ASSUME NEW q \in Seq(Arriving), NEW m \in Arriving, NEW srv \in [TcpPort -> ServerEnd],
           NEW new \in [TcpPort -> ServerEnd],
           m.byte > srv[m.port].byte, new[m.port].byte = m.byte,
           \A p \in TcpPort : p # m.port => new[p].byte = srv[p].byte,
           Flow(q, srv)
    PROVE  /\ Flow(Append(q, m), new)
           /\ \A d \in Seq(Nat) : \A p \in TcpPort : Given(d, p, q, srv) => Given(d, p, Append(q, m), new)
<1> DEFINE u == Append(q, m)
<1>1. /\ Len(q) \in Nat /\ Len(u) = Len(q) + 1 /\ u[Len(q) + 1] = m
      /\ \A i \in 1 .. Len(q) : u[i] = q[i]
      /\ \A i \in 1 .. Len(q) : q[i] \in Arriving
  BY AppendProperties, LenProperties, ElementOfSeq
<1> HIDE DEF u
<1>2. \A i \in 1 .. Len(u) : (i \in 1 .. Len(q) /\ u[i] = q[i]) \/ (i = Len(q) + 1 /\ u[i] = m)
  BY <1>1
<1>3. /\ m.port \in TcpPort /\ m.byte \in Nat
      /\ \A p \in TcpPort : srv[p].byte \in Nat /\ new[p].byte \in Nat
      /\ \A i \in 1 .. Len(q) : q[i].port \in TcpPort /\ q[i].byte \in Nat
  BY <1>1 DEF Arriving, ServerEnd
<1>4. \A p \in TcpPort : srv[p].byte <= new[p].byte
  BY <1>3
<1>5. ASSUME NEW i \in 1 .. Len(u), NEW j \in 1 .. Len(u), i < j, Pushed(u[i]), Pushed(u[j]), u[i].port = u[j].port
      PROVE  u[i].byte < u[j].byte
  <2>1. i \in 1 .. Len(q) /\ u[i] = q[i]
    BY <1>1, <1>2, <1>5
  <2>2. CASE j \in 1 .. Len(q) /\ u[j] = q[j]
    BY <1>5, <2>1, <2>2 DEF Flow
  <2>3. CASE u[j] = m
    <3>1. q[i].byte <= srv[q[i].port].byte /\ q[i].port = m.port
      BY <1>5, <2>1, <2>3 DEF Flow
    <3>2. q[i].byte \in Nat /\ srv[m.port].byte \in Nat
      BY <1>3, <2>1
    <3> QED
      BY <1>3, <2>1, <2>3, <3>1, <3>2
  <2> QED
    BY <1>2, <2>2, <2>3
<1>6. ASSUME NEW i \in 1 .. Len(u), Pushed(u[i]) PROVE u[i].byte <= new[u[i].port].byte
  <2>1. CASE i \in 1 .. Len(q) /\ u[i] = q[i]
    <3>1. q[i].byte <= srv[q[i].port].byte
      BY <1>6, <2>1 DEF Flow
    <3>2. q[i].byte \in Nat /\ srv[q[i].port].byte \in Nat /\ new[q[i].port].byte \in Nat
          /\ srv[q[i].port].byte <= new[q[i].port].byte
      BY <1>3, <1>4, <2>1
    <3> QED
      BY <2>1, <3>1, <3>2
  <2>2. CASE u[i] = m
    BY <1>3, <2>2
  <2> QED
    BY <1>2, <2>1, <2>2
<1>7. Flow(u, new)
  BY <1>5, <1>6, Zenon DEF Flow
<1>8. ASSUME NEW d \in Seq(Nat), NEW p \in TcpPort, Given(d, p, q, srv) PROVE Given(d, p, u, new)
  <2>1. ASSUME NEW i \in 1 .. Len(d)
        PROVE  /\ d[i] <= new[p].byte
               /\ \A j \in 1 .. Len(u) : Pushed(u[j]) /\ u[j].port = p => d[i] < u[j].byte
    <3>1. d[i] <= srv[p].byte /\ \A j \in 1 .. Len(q) : Pushed(q[j]) /\ q[j].port = p => d[i] < q[j].byte
      BY <1>8 DEF Given
    <3>2. d[i] \in Nat /\ srv[p].byte \in Nat /\ new[p].byte \in Nat /\ srv[p].byte <= new[p].byte
      BY <1>3, <1>4, ElementOfSeq
    <3>3. ASSUME NEW j \in 1 .. Len(u), Pushed(u[j]), u[j].port = p PROVE d[i] < u[j].byte
      <4>1. CASE j \in 1 .. Len(q) /\ u[j] = q[j]
        BY <3>1, <3>3, <4>1
      <4>2. CASE u[j] = m
        BY <1>3, <3>1, <3>2, <3>3, <4>2
      <4> QED
        BY <1>2, <4>1, <4>2
    <3> QED
      BY <3>1, <3>2, <3>3
  <2> QED
    BY <1>8, <2>1, Zenon DEF Given
<1> QED
  BY <1>7, <1>8 DEF u

(***************************************************************************)
(* The first segment is given to the application of a socket on its port.  *)
(***************************************************************************)
LEMMA DeliveryKeeps ==
    ASSUME NEW q \in Seq(Arriving), q # <<>>, NEW srv, NEW d \in Seq(Nat), Flow(q, srv),
           Pushed(Head(q)), Given(d, Head(q).port, q, srv)
    PROVE  Given(Append(d, Head(q).byte), Head(q).port, Tail(q), srv)
<1> DEFINE e == Append(d, Head(q).byte)
           u == Tail(q)
           p == Head(q).port
<1>1. /\ Len(q) \in Nat /\ 1 \in 1 .. Len(q) /\ Head(q) = q[1] /\ q[1] \in Arriving
      /\ Len(u) = Len(q) - 1 /\ \A i \in 1 .. Len(u) : u[i] = q[i + 1]
  BY HeadTailProperties, LenProperties, EmptySeq, ElementOfSeq
<1>2. q[1].byte \in Nat
  BY <1>1 DEF Arriving
<1>3. /\ Len(d) \in Nat /\ Len(e) = Len(d) + 1 /\ e[Len(d) + 1] = q[1].byte
      /\ \A i \in 1 .. Len(d) : e[i] = d[i]
  BY <1>1, <1>2, AppendProperties, LenProperties
<1> HIDE DEF e, u
<1>4. \A i \in 1 .. Len(e) : (i \in 1 .. Len(d) /\ e[i] = d[i]) \/ (i = Len(d) + 1 /\ e[i] = q[1].byte)
  BY <1>3
<1>5. ASSUME NEW i \in 1 .. Len(e), NEW j \in 1 .. Len(e), i < j PROVE e[i] < e[j]
  <2>1. i \in 1 .. Len(d) /\ e[i] = d[i]
    BY <1>3, <1>4, <1>5
  <2>2. CASE j \in 1 .. Len(d) /\ e[j] = d[j]
    BY <1>5, <2>1, <2>2 DEF Given
  <2>3. CASE e[j] = q[1].byte
    BY <1>1, <2>1, <2>3 DEF Given
  <2> QED
    BY <1>4, <2>2, <2>3
<1>6. ASSUME NEW i \in 1 .. Len(e) PROVE e[i] <= srv[p].byte
  BY <1>1, <1>4 DEF Given, Flow
<1>7. ASSUME NEW i \in 1 .. Len(e), NEW j \in 1 .. Len(u), Pushed(u[j]), u[j].port = p PROVE e[i] < u[j].byte
  <2>1. j + 1 \in 1 .. Len(q) /\ u[j] = q[j + 1] /\ 1 < j + 1
    BY <1>1
  <2>2. CASE i \in 1 .. Len(d) /\ e[i] = d[i]
    BY <1>7, <2>1, <2>2 DEF Given
  <2>3. CASE e[i] = q[1].byte
    BY <1>1, <1>7, <2>1, <2>3 DEF Flow
  <2> QED
    BY <1>4, <2>2, <2>3
<1> QED
  BY <1>5, <1>6, <1>7, Zenon DEF Given, e, u, p

(***************************************************************************)
(* What the server makes of the segments that reach it: no byte of it is   *)
(* sent by this, and its answer carries none.                              *)
(***************************************************************************)
LEMMA ArriveKeeps ==
    ASSUME server \in [TcpPort -> ServerEnd], NEW p \in TcpPort, NEW flagsets, NEW rest \in Seq(Arriving),
           Arrive(p, flagsets, rest)
    PROVE  /\ server' \in [TcpPort -> ServerEnd]
           /\ \A o \in TcpPort : server'[o].byte = server[o].byte
           /\ to_host' = rest \/ \E m \in Arriving : ~Pushed(m) /\ to_host' = Append(rest, m)
<1>1. PICK c \in ServerEnd : c = server[p]
  OBVIOUS
<1>2. ServerAfter(c, flagsets) \in ServerEnd /\ ServerAfter(c, flagsets).byte = c.byte
  <2>1. (c.seq_num + 1) % SEQ \in Number
    <3>1. c.seq_num + 1 \in Nat
      BY TcpAssumption DEF ServerEnd, Number
    <3> QED
      BY <3>1, TcpAssumption, ModPosition DEF Number
  <2> DEFINE k == (c.seq_num + 1) % SEQ
             v == [c EXCEPT !.state = "syn_rcvd", !.seq_num = k]
             w == [c EXCEPT !.state = "open"]
  <2>2. v \in ServerEnd /\ v.byte = c.byte
    <3> HIDE DEF k
    <3> QED
      BY <2>1 DEF ServerEnd, k
  <2>3. w \in ServerEnd /\ w.byte = c.byte
    BY DEF ServerEnd
  <2>4. ServerAfter(c, flagsets) \in {v, w, c}
    BY DEF ServerAfter
  <2> HIDE DEF v, w
  <2> QED
    BY <2>2, <2>3, <2>4
<1>3. [c EXCEPT !.state = "refused"] \in ServerEnd /\ [c EXCEPT !.state = "refused"].byte = c.byte
  BY DEF ServerEnd
<1> DEFINE asked == {"SYN"} \in flagsets /\ server[p].state = "listen"
           a == FromServer(p, {"SYN", "ACK"}, 0)
           b == FromServer(p, {"RST", "ACK"}, 0)
<1>4. a \in Arriving /\ ~Pushed(a) /\ b \in Arriving /\ ~Pushed(b)
  BY DEF FromServer, Arriving, Pushed, Flag, ServerEnd
<1>5. \/ /\ server' = [server EXCEPT ![p] = ServerAfter(@, flagsets)]
         /\ to_host' = rest \o IF asked THEN <<a>> ELSE <<>>
      \/ /\ server' = [server EXCEPT ![p].state = "refused"]
         /\ to_host' = Append(rest, b)
  BY DEF Arrive
<1> HIDE DEF a, b, asked
<1>6. to_host' = rest \/ \E m \in Arriving : ~Pushed(m) /\ to_host' = Append(rest, m)
  <2>1. rest \o <<a>> = Append(rest, a) /\ rest \o <<>> = rest
    BY <1>4, AppendIsConcat, ConcatEmptySeq
  <2>2. to_host' = rest \/ to_host' = Append(rest, a) \/ to_host' = Append(rest, b)
    BY <1>5, <2>1
  <2> QED
    BY <1>4, <2>2, Zenon
<1>7. PICK v \in ServerEnd : v.byte = c.byte /\ server' = [server EXCEPT ![p] = v]
  <2>1. CASE server' = [server EXCEPT ![p] = ServerAfter(@, flagsets)]
    BY <1>1, <1>2, <2>1
  <2>2. CASE server' = [server EXCEPT ![p].state = "refused"]
    BY <1>1, <1>3, <2>2
  <2> QED
    BY <1>5, <2>1, <2>2
<1>8. server' \in [TcpPort -> ServerEnd] /\ \A o \in TcpPort : server'[o].byte = server[o].byte
  BY <1>1, <1>7
<1> QED
  BY <1>6, <1>8

(***************************************************************************)
(* The work t goes on from r without giving the application a byte.        *)
(***************************************************************************)
SameData(r, t) ==
    /\ DOMAIN t = RunFields /\ DOMAIN t.socket = SocketFields
    /\ t.data = r.data /\ t.socket.local_port = r.socket.local_port

\* Sending a segment gives the application nothing.
LEMMA SendSame ==
    ASSUME NEW r, DOMAIN r = RunFields, DOMAIN r.socket = SocketFields, NEW flags
    PROVE  SameData(r, tcp_send_packet(r, flags))
<1> DEFINE n == Append(r.out, [port |-> r.socket.local_port, flags |-> flags, seq_num |-> r.socket.seq_num,
                               byte |-> IF "PSH" \in flags THEN 1 ELSE 0])
           e == [r EXCEPT !.out = n]
<1>1. Emit(r, flags) = e
  BY DEF Emit
<1> HIDE DEF n
<1>2. DOMAIN e = RunFields /\ e.socket = r.socket /\ e.data = r.data
  BY DEF RunFields
<1> HIDE DEF e
<1> DEFINE k == Counted(e.socket.seq_num, flags)
           t == [e EXCEPT !.socket.seq_num = k]
<1>3. tcp_send_packet(r, flags) = IF r.room THEN t ELSE r
  BY <1>1 DEF tcp_send_packet
<1> HIDE DEF k
<1>4. SameData(r, t)
  BY <1>2 DEF SameData, RunFields, SocketFields
<1> HIDE DEF t
<1>5. SameData(r, r)
  BY DEF SameData
<1> QED
  BY <1>3, <1>4, <1>5

\* A callback gives the application nothing.
LEMMA CallbackSame ==
    ASSUME NEW r, DOMAIN r = RunFields, DOMAIN r.socket = SocketFields, NEW act
    PROVE  SameData(r, Callback(r, act))
<1>1. SameData(r, r)
  BY DEF SameData
<1>2. PICK d : d = IF act.sends THEN Send(r) ELSE r
  OBVIOUS
<1>3. SameData(r, d)
  BY <1>1, <1>2, SendSame DEF Send
<1>4. SameData(r, Close(d))
  <2> DEFINE t == tcp_send_packet(d, {"FIN", "ACK"})
             u == [t EXCEPT !.socket.state = "FIN_WAIT_1"]
             v == [d EXCEPT !.freed = TRUE]
  <2>1. SameData(d, t)
    BY <1>3, SendSame DEF SameData
  <2>2. Close(d) = IF d.socket.state = "ESTABLISHED" THEN u ELSE v
    BY DEF Close
  <2> HIDE DEF t
  <2>3. SameData(d, u)
    BY <2>1 DEF SameData, RunFields, SocketFields
  <2>4. SameData(d, v)
    BY <1>3 DEF SameData, RunFields
  <2> HIDE DEF u, v
  <2>5. SameData(d, Close(d))
    BY <2>2, <2>3, <2>4
  <2> QED
    BY <1>3, <2>5 DEF SameData
<1> QED
  BY <1>2, <1>3, <1>4 DEF Callback

(***************************************************************************)
(* tcp_handle_packet gives the application the byte of a pushed segment,   *)
(* once, and nothing else.                                                 *)
(***************************************************************************)
LEMMA HandledData ==
    ASSUME NEW r, DOMAIN r = RunFields, DOMAIN r.socket = SocketFields, r.data = <<>>, NEW m, NEW acts
    PROVE  LET t == Handled(r, m, acts)
           IN  /\ t.data = <<>> \/ (Pushed(m) /\ t.data = <<m.byte>>)
               /\ t.socket.local_port = r.socket.local_port
<1>1. CASE r.socket.state = "SYN_SENT" /\ {"SYN", "ACK"} \subseteq m.flags
  <2> DEFINE n == (m.seq_num + 1) % SEQ
             a == [r EXCEPT !.socket.ack_num = n, !.socket.state = "ESTABLISHED"]
             t == tcp_send_packet(a, {"ACK"})
  <2>1. Handled(r, m, acts) = Callback(t, acts[1])
    BY <1>1 DEF Handled, Connected
  <2> HIDE DEF n
  <2>2. SameData(r, a)
    BY DEF SameData, RunFields, SocketFields
  <2> HIDE DEF a
  <2>3. SameData(a, t)
    BY <2>2, SendSame DEF SameData
  <2> HIDE DEF t
  <2>4. SameData(t, Callback(t, acts[1]))
    BY <2>3, CallbackSame DEF SameData
  <2> QED
    BY <2>1, <2>2, <2>3, <2>4 DEF SameData
<1>2. CASE r.socket.state = "ESTABLISHED"
  <2>1. PICK d : d = IF "PSH" \in m.flags THEN Data(r, m, acts[1]) ELSE r
    OBVIOUS
  <2>2. /\ DOMAIN d = RunFields /\ DOMAIN d.socket = SocketFields
        /\ d.socket.local_port = r.socket.local_port
        /\ d.data = <<>> \/ (Pushed(m) /\ d.data = <<m.byte>>)
    <3>1. CASE "PSH" \in m.flags
      <4> DEFINE n == (r.socket.ack_num + 1) % SEQ
                 a == [r EXCEPT !.socket.ack_num = n]
                 t == tcp_send_packet(a, {"ACK"})
                 b == <<m.byte>>
                 u == [t EXCEPT !.data = b]
      <4>1. d = Callback(u, acts[1])
        BY <2>1, <3>1 DEF Data
      <4> HIDE DEF n
      <4>2. SameData(r, a)
        BY DEF SameData, RunFields, SocketFields
      <4> HIDE DEF a
      <4>3. SameData(a, t)
        BY <4>2, SendSame DEF SameData
      <4> HIDE DEF t, b
      <4>4. /\ DOMAIN u = RunFields /\ DOMAIN u.socket = SocketFields /\ u.data = b
            /\ u.socket.local_port = r.socket.local_port
        BY <4>2, <4>3 DEF SameData, RunFields
      <4> HIDE DEF u
      <4>5. SameData(u, d)
        BY <4>1, <4>4, CallbackSame
      <4> QED
        BY <3>1, <4>4, <4>5 DEF SameData, Pushed, b
    <3>2. CASE "PSH" \notin m.flags
      BY <2>1, <3>2
    <3> QED
      BY <3>1, <3>2
  <2>3. SameData(d, Finished(d, acts[2]))
    <3> DEFINE n == (d.socket.ack_num + 1) % SEQ
               a == [d EXCEPT !.socket.ack_num = n, !.socket.state = "CLOSE_WAIT"]
               t == tcp_send_packet(a, {"ACK"})
    <3>1. Finished(d, acts[2]) = Callback(t, acts[2])
      BY DEF Finished
    <3> HIDE DEF n
    <3>2. SameData(d, a)
      BY <2>2 DEF SameData, RunFields, SocketFields
    <3> HIDE DEF a
    <3>3. SameData(a, t)
      BY <3>2, SendSame DEF SameData
    <3> HIDE DEF t
    <3>4. SameData(t, Callback(t, acts[2]))
      BY <3>3, CallbackSame DEF SameData
    <3> QED
      BY <3>1, <3>2, <3>3, <3>4 DEF SameData
  <2>4. Handled(r, m, acts) = IF "FIN" \in m.flags THEN Finished(d, acts[2]) ELSE d
    BY <1>2, <2>1 DEF Handled
  <2> QED
    BY <2>2, <2>3, <2>4 DEF SameData
<1>3. CASE r.socket.state # "ESTABLISHED" /\ ~(r.socket.state = "SYN_SENT" /\ {"SYN", "ACK"} \subseteq m.flags)
  <2>1. Handled(r, m, acts) = r
    BY <1>3 DEF Handled
  <2> QED
    BY <2>1
<1> QED
  BY <1>1, <1>2, <1>3

\* Nothing given to the application is always in order.
LEMMA NothingGiven ==
    ASSUME NEW p, NEW q, NEW srv
    PROVE  Given(<<>>, p, q, srv)
<1>1. Len(<<>>) = 0 /\ 1 .. 0 = {}
  BY EmptySeq
<1> QED
  BY <1>1, Zenon DEF Given

(***************************************************************************)
(* The network after a segment of the host, and the answer to it.          *)
(***************************************************************************)
LEMMA AnswersKeep ==
    ASSUME NEW rest \in Seq(Arriving), server \in [TcpPort -> ServerEnd],
           \A o \in TcpPort : server'[o].byte = server[o].byte,
           to_host' = rest \/ \E m \in Arriving : ~Pushed(m) /\ to_host' = Append(rest, m)
    PROVE  /\ to_host' \in Seq(Arriving)
           /\ Flow(rest, server) => Flow(to_host', server')
           /\ \A d : \A p \in TcpPort : Given(d, p, rest, server) => Given(d, p, to_host', server')
<1>1. \A i \in 1 .. Len(rest) : rest[i].port \in TcpPort
  <2> TAKE i \in 1 .. Len(rest)
  <2>1. rest[i] \in Arriving
    BY ElementOfSeq
  <2> QED
    BY <2>1 DEF Arriving
<1>2. Flow(rest, server) => Flow(rest, server')
  BY <1>1 DEF Flow
<1>3. ASSUME NEW d, NEW p \in TcpPort, Given(d, p, rest, server) PROVE Given(d, p, rest, server')
  BY <1>3 DEF Given
<1>4. CASE to_host' = rest
  BY <1>2, <1>3, <1>4
<1>5. CASE to_host' # rest
  <2>1. PICK m \in Arriving : ~Pushed(m) /\ to_host' = Append(rest, m)
    BY <1>5
  <2>2. to_host' \in Seq(Arriving)
    BY <2>1, AppendProperties
  <2>3. /\ Flow(rest, server') => Flow(Append(rest, m), server')
        /\ \A d, p : Given(d, p, rest, server') => Given(d, p, Append(rest, m), server')
    BY <2>1, UnpushedKeeps
  <2> QED
    BY <1>2, <1>3, <2>1, <2>2, <2>3, Zenon
<1> QED
  BY <1>4, <1>5

(***************************************************************************)
(* What the work on a socket leaves of the segments on their way.          *)
(***************************************************************************)
LEMMA LeaveFlow ==
    ASSUME TcpInv, FlowInv, NEW s \in TcpSocket, s \in Range(tcp_sockets), NEW r, NEW rest, NEW tears,
           Leave(s, r, rest, tears), r.socket.local_port = socket[s].local_port,
           \/ rest = to_host /\ r.data = <<>>
           \/ /\ to_host # <<>> /\ rest = Tail(to_host)
              /\ \/ r.data = <<>>
                 \/ /\ r.data = <<Head(to_host).byte>> /\ Pushed(Head(to_host))
                    /\ socket[s].local_port = Head(to_host).port
    PROVE  FlowInv'
<1>1. PICK q, d, g : q = to_host /\ d = delivered[s] /\ g = socket[s].local_port
  OBVIOUS
<1>2. /\ q \in Seq(Arriving) /\ server \in [TcpPort -> ServerEnd] /\ DOMAIN delivered = TcpSocket
      /\ d \in Seq(Nat) /\ \A t \in TcpSocket : delivered[t] \in Seq(Nat)
      /\ \A t \in TcpSocket : t \notin Range(tcp_sockets) => delivered[t] = <<>>
      /\ ~disordered => Flow(q, server) /\ \A t \in TcpSocket : Given(delivered[t], socket[t].local_port, q, server)
  BY <1>1 DEF FlowInv, FlowTypes, FlowOK
<1>3. /\ tcp_sockets \in Seq(TcpSocket) /\ DOMAIN socket = TcpSocket /\ g \in TcpPort
      /\ \A t \in TcpSocket : socket[t].local_port \in TcpPort
  BY <1>1 DEF TcpInv, SocketOK, StreamOK
<1>4. PICK e : e = d \o r.data
  OBVIOUS
<1>5. /\ rest \in Seq(Arriving) /\ e \in Seq(Nat)
      /\ ~disordered => /\ Flow(rest, server)
                        /\ \A t \in TcpSocket : Given(delivered[t], socket[t].local_port, rest, server)
                        /\ Given(e, g, rest, server)
  <2>1. CASE rest = q /\ r.data = <<>>
    <3>1. e = d
      BY <1>2, <1>4, <2>1, ConcatEmptySeq
    <3> QED
      BY <1>1, <1>2, <2>1, <3>1
  <2>2. CASE q # <<>> /\ rest = Tail(q)
    <3>1. /\ rest \in Seq(Arriving) /\ Len(rest) = Len(q) - 1 /\ Len(q) \in Nat /\ Len(q) # 0
          /\ \A i \in 1 .. Len(rest) : rest[i] = q[i + 1]
          /\ Head(q) \in Arriving
      BY <1>2, <2>2, HeadTailProperties, LenProperties, EmptySeq
    <3>2. Thinner(rest, q, 1)
      BY <3>1 DEF Thinner
    <3>3. /\ Flow(q, server) => Flow(rest, server)
          /\ \A x, p : Given(x, p, q, server) => Given(x, p, rest, server)
      BY <1>2, <3>2, ThinnerKeeps
    <3>4. CASE r.data = <<>>
      <4>1. e = d
        BY <1>2, <1>4, <3>4, ConcatEmptySeq
      <4> QED
        BY <1>1, <1>2, <3>1, <3>3, <4>1
    <3>5. CASE r.data = <<Head(q).byte>> /\ Pushed(Head(q)) /\ g = Head(q).port
      <4>1. Head(q).byte \in Nat
        BY <3>1 DEF Arriving
      <4>2. e = Append(d, Head(q).byte) /\ e \in Seq(Nat)
        BY <1>2, <1>4, <3>5, <4>1, AppendIsConcat, AppendProperties
      <4>3. ~disordered => Given(e, g, rest, server)
        <5>1. ~disordered => Given(d, g, q, server) /\ Flow(q, server)
          BY <1>1, <1>2
        <5> QED
          BY <1>2, <2>2, <3>5, <4>2, <5>1, DeliveryKeeps
      <4> QED
        BY <1>2, <3>1, <3>3, <4>2, <4>3
    <3> QED
      BY <1>1, <2>2, <3>4, <3>5
  <2> QED
    BY <1>1, <2>1, <2>2
<1>6. /\ tcp_sockets' = IF r.freed THEN RemoveFirst(tcp_sockets, s) ELSE tcp_sockets
      /\ socket' = [socket EXCEPT ![s] = IF r.freed THEN Closed ELSE r.socket]
      /\ delivered' = [delivered EXCEPT ![s] = IF r.freed THEN <<>> ELSE e]
      /\ disordered' = disordered
      /\ \/ Arrive(g, Sent(r.out), rest)
         \/ to_host' = rest /\ server' = server
  BY <1>1, <1>4 DEF Leave
<1>7. /\ server' \in [TcpPort -> ServerEnd]
      /\ \A o \in TcpPort : server'[o].byte = server[o].byte
      /\ to_host' = rest \/ \E m \in Arriving : ~Pushed(m) /\ to_host' = Append(rest, m)
  BY <1>2, <1>3, <1>5, <1>6, ArriveKeeps
<1>8. /\ to_host' \in Seq(Arriving)
      /\ Flow(rest, server) => Flow(to_host', server')
      /\ \A x : \A p \in TcpPort : Given(x, p, rest, server) => Given(x, p, to_host', server')
  BY <1>2, <1>5, <1>7, AnswersKeep
<1>9. /\ \A t \in TcpSocket : t # s => socket'[t] = socket[t] /\ delivered'[t] = delivered[t]
      /\ delivered'[s] = (IF r.freed THEN <<>> ELSE e) /\ DOMAIN delivered' = TcpSocket
      /\ ~r.freed => socket'[s].local_port = g
  BY <1>1, <1>2, <1>3, <1>6
<1>10. FlowTypes'
  <2>1. \A t \in TcpSocket : delivered'[t] \in Seq(Nat)
    BY <1>2, <1>5, <1>9, EmptySeq
  <2> QED
    BY <1>7, <1>8, <1>9, <2>1 DEF FlowTypes
<1>11. \A t \in TcpSocket : t \notin Range(tcp_sockets') => delivered'[t] = <<>>
  <2>1. \A t \in TcpSocket : t # s /\ t \notin Range(tcp_sockets') => t \notin Range(tcp_sockets)
    BY <1>3, <1>6, FreedLeaves
  <2>2. ~r.freed => s \in Range(tcp_sockets')
    BY <1>6
  <2> QED
    BY <1>2, <1>9, <2>1, <2>2
<1>12. ASSUME ~disordered PROVE FlowOK'
  <2>1. ASSUME NEW t \in TcpSocket
        PROVE  Given(delivered'[t], socket'[t].local_port, to_host', server')
    <3>1. CASE t # s
      BY <1>3, <1>5, <1>8, <1>9, <1>12, <3>1, Zenon
    <3>2. CASE t = s /\ r.freed
      BY <1>9, <3>2, NothingGiven
    <3>3. CASE t = s /\ ~r.freed
      BY <1>3, <1>5, <1>8, <1>9, <1>12, <3>3, Zenon
    <3> QED
      BY <3>1, <3>2, <3>3
  <2> QED
    BY <1>5, <1>8, <1>12, <2>1 DEF FlowOK
<1> QED
  BY <1>6, <1>10, <1>11, <1>12 DEF FlowInv

(***************************************************************************)
(* A step of a call that brings nothing and frees nothing.                 *)
(***************************************************************************)
LEMMA QuietFlow ==
    ASSUME FlowInv, UNCHANGED <<tcp_sockets, delivered, to_host, server, disordered>>,
           \A t \in TcpSocket : socket'[t].local_port = socket[t].local_port
    PROVE  FlowInv'
<1>1. FlowTypes' /\ \A t \in TcpSocket : t \notin Range(tcp_sockets') => delivered'[t] = <<>>
  BY Zenon DEF FlowInv, FlowTypes
<1>2. ASSUME ~disordered PROVE FlowOK'
  BY <1>2, Zenon DEF FlowInv, FlowOK
<1> QED
  BY <1>1, <1>2, Zenon DEF FlowInv

\* The port of a socket stays when other fields of it change.
LEMMA PortStays ==
    ASSUME TcpInv, NEW s \in TcpSocket, NEW q, q.local_port = socket[s].local_port,
           socket' = [socket EXCEPT ![s] = q]
    PROVE  \A t \in TcpSocket : socket'[t].local_port = socket[t].local_port
<1>1. DOMAIN socket = TcpSocket
  BY DEF TcpInv
<1> QED
  BY <1>1

(***************************************************************************)
(* The calls of an application bring nothing.                              *)
(***************************************************************************)
LEMMA CallFlow ==
    ASSUME TcpInv, FlowInv, NEW s \in TcpSocket,
           \/ tcp_connect(s) \/ tcp_close(s) \/ tcp_send(s)
           \/ SendPacket(s) \/ CountNumbers(s) \/ FinWait(s) \/ Free(s) \/ Dangling(s)
    PROVE  FlowInv'
<1>1. PICK q : q = socket[s]
  OBVIOUS
<1>2. DOMAIN q = SocketFields /\ DOMAIN socket = TcpSocket
  BY <1>1 DEF TcpInv, SocketOK, StreamOK
<1>3. CASE tcp_connect(s)
  <2> DEFINE n == SEQ - 1
             p == [q EXCEPT !.connected = TRUE, !.seq_num = n, !.state = "SYN_SENT"]
  <2>1. socket' = [socket EXCEPT ![s] = p] /\ UNCHANGED <<tcp_sockets, delivered, to_host, server, disordered>>
    BY <1>1, <1>2, <1>3 DEF tcp_connect, Begin
  <2> HIDE DEF n
  <2>2. p.local_port = q.local_port
    BY <1>2 DEF SocketFields
  <2> HIDE DEF p
  <2> QED
    BY <1>1, <2>1, <2>2, PortStays, QuietFlow
<1>4. CASE tcp_close(s) \/ tcp_send(s) \/ Dangling(s)
  <2>1. UNCHANGED <<socket, tcp_sockets, delivered, to_host, server, disordered>>
    BY <1>4 DEF tcp_close, tcp_send, Dangling, Begin
  <2> QED
    BY <2>1, QuietFlow
<1>5. CASE CountNumbers(s)
  <2> DEFINE n == Counted(q.seq_num, call[s].flags)
             p == [q EXCEPT !.seq_num = n]
  <2>1. socket' = [socket EXCEPT ![s] = p] /\ UNCHANGED <<tcp_sockets, delivered, to_host, server, disordered>>
    BY <1>1, <1>5 DEF CountNumbers
  <2> HIDE DEF n
  <2>2. p.local_port = q.local_port
    BY <1>2 DEF SocketFields
  <2> HIDE DEF p
  <2>3. PICK o : o = p
    OBVIOUS
  <2> QED
    BY <1>1, <2>1, <2>2, <2>3, PortStays, QuietFlow
<1>6. CASE FinWait(s)
  <2> DEFINE p == [q EXCEPT !.state = "FIN_WAIT_1"]
  <2>1. socket' = [socket EXCEPT ![s] = p] /\ UNCHANGED <<tcp_sockets, delivered, to_host, server, disordered>>
    BY <1>1, <1>6 DEF FinWait
  <2>2. p.local_port = q.local_port
    BY <1>2 DEF SocketFields
  <2> HIDE DEF p
  <2> QED
    BY <1>1, <2>1, <2>2, PortStays, QuietFlow
<1>7. CASE Free(s)
  <2>1. PICK r : r = [Called(s, TRUE) EXCEPT !.freed = TRUE]
    OBVIOUS
  <2>2. r.data = <<>> /\ r.socket = q
    BY <1>1, <2>1 DEF Called
  <2>3. s \in Range(tcp_sockets) /\ Leave(s, r, to_host, FALSE)
    BY <1>7, <2>1 DEF Free
  <2> QED
    BY <1>1, <2>2, <2>3, LeaveFlow
<1>8. CASE SendPacket(s)
  <2>1. PICK room \in Room :
            Leave(s, IF room THEN Emit(Called(s, room), call[s].flags) ELSE Called(s, room), to_host, FALSE)
    BY <1>8, Zenon DEF SendPacket
  <2>2. PICK r : r = IF room THEN Emit(Called(s, room), call[s].flags) ELSE Called(s, room)
    OBVIOUS
  <2>3. r.data = <<>> /\ r.socket = q
    <3>1. Called(s, room).data = <<>> /\ Called(s, room).socket = q
      BY <1>1 DEF Called
    <3>2. Emit(Called(s, room), call[s].flags).data = <<>> /\ Emit(Called(s, room), call[s].flags).socket = q
      BY <1>1 DEF Called, Emit
    <3> QED
      BY <2>2, <3>1, <3>2
  <2>4. s \in Range(tcp_sockets) /\ Leave(s, r, to_host, FALSE)
    BY <1>8, <2>1, <2>2 DEF SendPacket
  <2> QED
    BY <1>1, <2>3, <2>4, LeaveFlow
<1> QED
  BY <1>3, <1>4, <1>5, <1>6, <1>7, <1>8

(***************************************************************************)
(* The invariant holds at first, and every step keeps it.                  *)
(***************************************************************************)
LEMMA FlowInvInit == TcpInit => FlowInv
<1> SUFFICES ASSUME TcpInit PROVE FlowInv
  OBVIOUS
<1>1. 0 \in Number
  BY TcpAssumption DEF Number
<1>2. server \in [TcpPort -> ServerEnd] /\ to_host = <<>> /\ to_host \in Seq(Arriving)
  BY <1>1, EmptySeq DEF TcpInit, ServerEnd
<1>3. DOMAIN delivered = TcpSocket /\ \A s \in TcpSocket : delivered[s] = <<>> /\ delivered[s] \in Seq(Nat)
  BY EmptySeq DEF TcpInit
<1>4. Flow(to_host, server)
  <2>1. Len(to_host) = 0 /\ 1 .. 0 = {}
    BY <1>2, EmptySeq
  <2> QED
    BY <2>1, Zenon DEF Flow
<1>5. FlowOK
  BY <1>3, <1>4, NothingGiven, Zenon DEF FlowOK
<1> QED
  BY <1>2, <1>3, <1>5, Zenon DEF FlowInv, FlowTypes

\* A new socket has been given nothing.
LEMMA CreateFlow ==
    ASSUME TcpInv, FlowInv, tcp_create_socket
    PROVE  FlowInv'
<1> DEFINE free == {t \in TcpSocket : t \notin Range(tcp_sockets) /\ call[t] = NoCall}
           p == [Closed EXCEPT !.local_port = tcp_next_port]
<1>1. PICK s \in free :
          /\ tcp_sockets' = <<s>> \o tcp_sockets
          /\ socket' = [socket EXCEPT ![s] = p]
          /\ UNCHANGED <<delivered, to_host, server, disordered>>
  <2> DEFINE t == CHOOSE t \in free : TRUE
  <2>1. free # {}
    BY DEF tcp_create_socket
  <2>2. t \in free
    BY <2>1
  <2> HIDE DEF free
  <2>3. /\ tcp_sockets' = <<t>> \o tcp_sockets
        /\ socket' = [socket EXCEPT ![t] = p]
        /\ UNCHANGED <<delivered, to_host, server, disordered>>
    BY DEF tcp_create_socket, free
  <2> HIDE DEF t, p
  <2> QED
    BY <2>2, <2>3
<1> HIDE DEF p
<1>2. s \in TcpSocket /\ s \notin Range(tcp_sockets) /\ delivered[s] = <<>>
  BY DEF FlowInv
<1>3. tcp_sockets \in Seq(TcpSocket) /\ DOMAIN socket = TcpSocket
  BY DEF TcpInv
<1>4. \A t \in Range(tcp_sockets) : t \in Range(tcp_sockets')
  BY <1>1, <1>2, <1>3, Prepended
<1>5. \A t \in TcpSocket : t # s => socket'[t] = socket[t]
  BY <1>1, <1>3
<1>6. FlowTypes' /\ \A t \in TcpSocket : t \notin Range(tcp_sockets') => delivered'[t] = <<>>
  BY <1>1, <1>4, Zenon DEF FlowInv, FlowTypes
<1>7. ASSUME ~disordered PROVE FlowOK'
  <2>1. ASSUME NEW t \in TcpSocket PROVE Given(delivered'[t], socket'[t].local_port, to_host', server')
    <3>1. CASE t = s
      BY <1>1, <1>2, <3>1, NothingGiven
    <3>2. CASE t # s
      BY <1>1, <1>5, <1>7, <3>2, Zenon DEF FlowInv, FlowOK
    <3> QED
      BY <3>1, <3>2
  <2> QED
    BY <1>1, <1>7, <2>1, Zenon DEF FlowInv, FlowOK
<1> QED
  BY <1>1, <1>6, <1>7, Zenon DEF FlowInv

\* The server sends.
LEMMA ServerFlow ==
    ASSUME TcpInv, FlowInv, NEW p \in TcpPort, server_sends(p)
    PROVE  FlowInv'
<1>1. PICK last \in {{}, {"FIN"}, {"RST"}}, data \in {"none", "pushed", "unpushed"} : ServerSegment(p, data, last)
  BY Zenon DEF server_sends
<1>2. UNCHANGED <<tcp_sockets, socket, delivered, disordered>>
  BY DEF server_sends, hostVars
<1>3. PICK c, q : c = server[p] /\ q = to_host
  OBVIOUS
<1>4. /\ q \in Seq(Arriving) /\ server \in [TcpPort -> ServerEnd] /\ c \in ServerEnd
      /\ DOMAIN delivered = TcpSocket /\ \A s \in TcpSocket : delivered[s] \in Seq(Nat)
      /\ \A s \in TcpSocket : s \notin Range(tcp_sockets) => delivered[s] = <<>>
      /\ ~disordered => Flow(q, server) /\ \A s \in TcpSocket : Given(delivered[s], socket[s].local_port, q, server)
  BY <1>3 DEF FlowInv, FlowTypes, FlowOK
<1>5. c.byte \in Nat /\ c.unpushed \in Nat /\ c.seq_num \in Number /\ c.seq_num \in Nat
  BY <1>4, TcpAssumption DEF ServerEnd, Number
<1> DEFINE n == c.byte + (IF data = "pushed" THEN 1 ELSE 0)
           z == IF data = "unpushed" THEN c.unpushed + 1 ELSE c.unpushed
           st == IF last # {} THEN "closed" ELSE c.state
           sum == c.seq_num + (IF data # "none" THEN 1 ELSE 0) + (IF "FIN" \in last THEN 1 ELSE 0)
           k == sum % SEQ
           v == [c EXCEPT !.byte = n, !.unpushed = z, !.state = st, !.seq_num = k]
           flags == {"ACK"} \cup (IF data = "pushed" THEN {"PSH"} ELSE {}) \cup last
           m == [port |-> p, flags |-> flags, seq_num |-> c.seq_num, byte |-> IF data = "pushed" THEN n ELSE 0]
<1>6. to_host' = Append(q, m) /\ server' = [server EXCEPT ![p] = v]
  BY <1>1, <1>3, <1>4 DEF FromServer, ServerSegment
<1>7. n \in Nat /\ z \in Nat /\ k \in Number
  <2>1. sum \in Nat
    BY <1>5
  <2> HIDE DEF sum
  <2> QED
    BY <1>5, <2>1, TcpAssumption, ModPosition DEF Number
<1>8. flags \in SUBSET Flag /\ ("PSH" \in flags <=> data = "pushed")
  BY DEF Flag
<1>9. (data = "pushed" => n > c.byte) /\ (data # "pushed" => n = c.byte)
  BY <1>5
<1>10. st \in {"listen", "refused", "syn_rcvd", "open", "closed"}
  BY <1>4 DEF ServerEnd
<1> HIDE DEF n, z, k, st, flags
<1>11. v \in ServerEnd /\ v.byte = n
  BY <1>4, <1>7, <1>10 DEF ServerEnd
<1>12. /\ m \in Arriving /\ m.port = p /\ (Pushed(m) <=> data = "pushed")
       /\ data = "pushed" => m.byte = n
  BY <1>5, <1>7, <1>8 DEF Arriving, Pushed
<1> HIDE DEF v, m
<1>13. /\ server' \in [TcpPort -> ServerEnd] /\ server'[p].byte = n
       /\ \A o \in TcpPort : o # p => server'[o].byte = server[o].byte
  BY <1>4, <1>6, <1>11
<1>14. to_host' \in Seq(Arriving)
  BY <1>4, <1>6, <1>12, AppendProperties
<1>15. FlowTypes' /\ \A t \in TcpSocket : t \notin Range(tcp_sockets') => delivered'[t] = <<>>
  BY <1>2, <1>4, <1>13, <1>14, Zenon DEF FlowTypes
<1>16. \A s \in TcpSocket : socket[s].local_port \in TcpPort
  BY DEF TcpInv, SocketOK, StreamOK
<1>17. ASSUME ~disordered PROVE FlowOK'
  <2>1. /\ Flow(to_host', server')
        /\ \A d \in Seq(Nat) : \A o \in TcpPort : Given(d, o, q, server) => Given(d, o, to_host', server')
    <3>1. CASE data = "pushed"
      <4>1. m.byte > server[m.port].byte /\ server'[m.port].byte = m.byte
            /\ \A o \in TcpPort : o # m.port => server'[o].byte = server[o].byte
        BY <1>3, <1>9, <1>12, <1>13, <3>1
      <4>2. PICK new \in [TcpPort -> ServerEnd] : new = server'
        BY <1>13
      <4>3. /\ Flow(Append(q, m), new)
            /\ \A d \in Seq(Nat) : \A o \in TcpPort : Given(d, o, q, server) => Given(d, o, Append(q, m), new)
        BY <1>4, <1>12, <1>17, <4>1, <4>2, PushedKeeps
      <4> QED
        BY <1>6, <4>2, <4>3, Zenon
    <3>2. CASE data # "pushed"
      <4>1. \A o \in TcpPort : server'[o].byte = server[o].byte
        BY <1>3, <1>9, <1>13, <3>2
      <4>2. \E a \in Arriving : ~Pushed(a) /\ to_host' = Append(q, a)
        BY <1>6, <1>12, <3>2, Zenon
      <4>3. /\ Flow(q, server) => Flow(to_host', server')
            /\ \A d : \A o \in TcpPort : Given(d, o, q, server) => Given(d, o, to_host', server')
        BY <1>4, <4>1, <4>2, AnswersKeep
      <4> QED
        BY <1>4, <1>17, <4>3, Zenon
    <3> QED
      BY <3>1, <3>2
  <2> QED
    BY <1>2, <1>4, <1>16, <1>17, <2>1, Zenon DEF FlowOK
<1> QED
  BY <1>2, <1>15, <1>17, Zenon DEF FlowInv

\* The network loses a segment, or delivers one twice or two in another order.
LEMMA NetworkFlow ==
    ASSUME FlowInv, Lose \/ Disorder
    PROVE  FlowInv'
<1>1. PICK q : q = to_host
  OBVIOUS
<1>2. /\ q \in Seq(Arriving)
      /\ ~disordered => Flow(q, server) /\ \A s \in TcpSocket : Given(delivered[s], socket[s].local_port, q, server)
  BY <1>1 DEF FlowInv, FlowTypes, FlowOK
<1>3. UNCHANGED <<tcp_sockets, socket, delivered, server>>
  BY DEF Lose, Disorder, hostVars
<1>4. to_host' \in Seq(Arriving) => FlowTypes' /\ \A t \in TcpSocket : t \notin Range(tcp_sockets') => delivered'[t] = <<>>
  BY <1>3, Zenon DEF FlowInv, FlowTypes
<1>5. CASE Lose
  <2>1. PICK k \in DOMAIN q : to_host' = RemoveAt(q, k)
    BY <1>1, <1>5 DEF Lose
  <2>2. disordered' = disordered
    BY <1>5 DEF Lose
  <2>3. k \in 1 .. Len(q)
    BY <1>2, LenProperties
  <2>4. /\ to_host' \in Seq(Arriving) /\ Len(to_host') = Len(q) - 1
        /\ \A i \in 1 .. Len(q) - 1 : to_host'[i] = IF i < k THEN q[i] ELSE q[i + 1]
    BY <1>2, <2>1, <2>3, RemoveAtProperties
  <2>5. PICK u : u = to_host'
    OBVIOUS
  <2>6. Thinner(u, q, k)
    BY <2>3, <2>4, <2>5 DEF Thinner
  <2>7. /\ Flow(q, server) => Flow(u, server)
        /\ \A d, p : Given(d, p, q, server) => Given(d, p, u, server)
    BY <1>2, <2>6, ThinnerKeeps
  <2>8. ASSUME ~disordered PROVE FlowOK'
    BY <1>2, <1>3, <2>5, <2>7, <2>8, Zenon DEF FlowOK
  <2> QED
    BY <1>4, <2>2, <2>4, <2>8, Zenon DEF FlowInv
<1>6. CASE Disorder
  <2>1. disordered' = TRUE
    BY <1>6 DEF Disorder
  <2>2. CASE \E i \in DOMAIN to_host : to_host' = InsertAt(to_host, i, to_host[i])
    <3>1. PICK i \in DOMAIN q : to_host' = InsertAt(q, i, q[i])
      BY <1>1, <2>2
    <3>2. i \in 1 .. Len(q) + 1 /\ q[i] \in Arriving
      BY <1>2, LenProperties, ElementOfSeq
    <3>3. to_host' \in Seq(Arriving)
      BY <1>2, <3>1, <3>2, InsertAtProperties
    <3> QED
      BY <1>4, <2>1, <3>3, Zenon DEF FlowInv
  <2>3. CASE \E i \in 1 .. Len(to_host) - 1 :
                 to_host' = [to_host EXCEPT ![i] = to_host[i + 1], ![i + 1] = to_host[i]]
    <3>1. PICK i \in 1 .. Len(q) - 1 : to_host' = [q EXCEPT ![i] = q[i + 1], ![i + 1] = q[i]]
      BY <1>1, <2>3
    <3>2. /\ i \in 1 .. Len(q) /\ i + 1 \in 1 .. Len(q) /\ DOMAIN q = 1 .. Len(q)
          /\ q[i] \in Arriving /\ q[i + 1] \in Arriving
      BY <1>2, LenProperties, ElementOfSeq
    <3>3. to_host' \in Seq(Arriving)
      <4> DEFINE a == [q EXCEPT ![i] = q[i + 1]]
      <4>1. a \in Seq(Arriving) /\ Len(a) = Len(q)
        BY <1>2, <3>2, ExceptSeq
      <4>2. [a EXCEPT ![i + 1] = q[i]] \in Seq(Arriving)
        <5> HIDE DEF a
        <5> QED
          BY <3>2, <4>1, ExceptSeq
      <4> QED
        BY <3>1, <4>2
    <3> QED
      BY <1>4, <2>1, <3>3, Zenon DEF FlowInv
  <2> QED
    BY <1>6, <2>2, <2>3, Zenon DEF Disorder
<1> QED
  BY <1>5, <1>6

\* The invariant of the flow of bytes is inductive.
LEMMA FlowInvNext == TcpInv /\ FlowInv /\ [TcpNext]_tcpVars => FlowInv'
<1> SUFFICES ASSUME TcpInv, FlowInv, [TcpNext]_tcpVars PROVE FlowInv'
  OBVIOUS
<1>1. CASE UNCHANGED tcpVars
  <2>1. UNCHANGED <<socket, tcp_sockets, delivered, to_host, server, disordered>>
    BY <1>1 DEF tcpVars, hostVars
  <2> QED
    BY <2>1, QuietFlow
<1>2. ASSUME NEW p \in TcpPort, server_sends(p) PROVE FlowInv'
  BY <1>2, ServerFlow
<1>3. CASE Lose \/ Disorder
  BY <1>3, NetworkFlow
<1>4. CASE Application
  BY <1>4, CreateFlow, CallFlow DEF Application
<1>5. CASE tcp_handle_packet
  <2> DEFINE m == Head(to_host)
             found == SelectInSeq(tcp_sockets, LAMBDA s : Matches(s, m))
             s == tcp_sockets[found]
  <2>1. CASE found = 0
    <3>1. /\ to_host # <<>> /\ to_host' = Tail(to_host)
          /\ UNCHANGED <<socket, tcp_sockets, delivered, server, disordered>>
      BY <1>5, <2>1 DEF tcp_handle_packet, hostVars
    <3> HIDE DEF found, m
    <3>2. PICK q, u : q = to_host /\ u = Tail(to_host)
      OBVIOUS
    <3>3. /\ q \in Seq(Arriving) /\ q # <<>> /\ u = Tail(q)
          /\ ~disordered => Flow(q, server) /\ \A t \in TcpSocket : Given(delivered[t], socket[t].local_port, q, server)
      BY <3>1, <3>2 DEF FlowInv, FlowTypes, FlowOK
    <3>4. /\ u \in Seq(Arriving) /\ Len(u) = Len(q) - 1 /\ Len(q) \in Nat /\ Len(q) # 0
          /\ \A i \in 1 .. Len(u) : u[i] = q[i + 1]
      BY <3>3, HeadTailProperties, LenProperties, EmptySeq
    <3>5. Thinner(u, q, 1)
      BY <3>4 DEF Thinner
    <3>6. /\ Flow(q, server) => Flow(u, server)
          /\ \A d, p : Given(d, p, q, server) => Given(d, p, u, server)
      BY <3>3, <3>5, ThinnerKeeps
    <3>7. FlowTypes' /\ \A t \in TcpSocket : t \notin Range(tcp_sockets') => delivered'[t] = <<>>
      BY <3>1, <3>2, <3>4, Zenon DEF FlowInv, FlowTypes
    <3>8. ASSUME ~disordered PROVE FlowOK'
      BY <3>1, <3>2, <3>3, <3>6, <3>8, Zenon DEF FlowOK
    <3> QED
      BY <3>1, <3>7, <3>8, Zenon DEF FlowInv
  <2>2. CASE found # 0
    <3>1. s \in TcpSocket /\ s \in Range(tcp_sockets) /\ Matches(s, m)
      <4>1. found = IF FoundAt(m) # {} THEN Min(FoundAt(m)) ELSE 0
        BY DEF SelectInSeq, FoundAt
      <4> HIDE DEF found, m
      <4> QED
        BY <2>2, <4>1, FoundIsListed DEF TcpInv
    <3>2. /\ to_host # <<>>
          /\ \E room \in Room, first \in Act(s), second \in Act(s) :
                 LET r == Handled(Called(s, room), m, <<first, second>>)
                 IN  Leave(s, r, Tail(to_host), call[s] # NoCall /\ r # Called(s, room))
      BY <1>5, <2>2 DEF tcp_handle_packet
    <3> HIDE DEF found, s
    <3>3. PICK room, acts, tears, e, r :
              /\ e = Called(s, room) /\ r = Handled(e, m, acts)
              /\ Leave(s, r, Tail(to_host), tears)
      BY <3>2, Zenon
    <3>4. /\ DOMAIN e = RunFields /\ e.socket = socket[s] /\ e.data = <<>>
      BY <3>3 DEF Called, RunFields
    <3>5. DOMAIN e.socket = SocketFields
      BY <3>1, <3>4 DEF TcpInv, SocketOK, StreamOK
    <3>6. /\ r.data = <<>> \/ (Pushed(m) /\ r.data = <<m.byte>>)
          /\ r.socket.local_port = e.socket.local_port
      BY <3>3, <3>4, <3>5, HandledData
    <3>7. socket[s].local_port = m.port
      BY <3>1 DEF Matches
    <3> QED
      BY <3>1, <3>2, <3>3, <3>4, <3>6, <3>7, LeaveFlow
  <2> QED
    BY <2>1, <2>2
<1> QED
  BY <1>1, <1>2, <1>3, <1>4, <1>5 DEF TcpNext

(***************************************************************************)
(* The application is given the pushed bytes in the order in which the     *)
(* server sent them and none twice, as long as the network does not        *)
(* disorder them: for any number of sockets and ports, whatever is lost    *)
(* and however often a port is used again.                                 *)
(***************************************************************************)
THEOREM TcpDeliversInOrder == TcpSpec => []DeliveredInOrder
<1>1. FlowInv => DeliveredInOrder
  <2> SUFFICES ASSUME FlowInv, ~disordered, NEW s \in TcpSocket,
                      NEW i \in DOMAIN delivered[s], NEW j \in DOMAIN delivered[s], i < j
               PROVE  delivered[s][i] < delivered[s][j]
    BY Zenon DEF DeliveredInOrder
  <2>1. /\ delivered[s] \in Seq(Nat)
        /\ \A k, l \in 1 .. Len(delivered[s]) : k < l => delivered[s][k] < delivered[s][l]
    BY Zenon DEF FlowInv, FlowTypes, FlowOK, Given
  <2>2. DOMAIN delivered[s] = 1 .. Len(delivered[s])
    BY <2>1, LenProperties
  <2> QED
    BY <2>1, <2>2, Zenon
<1> QED
  BY <1>1, TcpInvInit, TcpInvNext, FlowInvInit, FlowInvNext, PTL DEF TcpSpec

=============================================================================
