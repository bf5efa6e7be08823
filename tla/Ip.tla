---------------------------------- MODULE Ip ----------------------------------
(***************************************************************************)
(* The lower layers of one host: nic_send_packet, the frames of            *)
(* net/ethernet.c, the cache of net/arp.c, net/ip.c, and the echo of       *)
(* net/icmp.c.                                                             *)
(*                                                                         *)
(* A step of the host leaves in sent the frames it hands to the card.  Any *)
(* frame may be missing there: each layer allocates a buffer for it, and   *)
(* without room, or without a card, sends nothing.  arp.c gives ethernet.c *)
(* the type 0x0608, which is swapped once more: an ARP frame of the host   *)
(* has the type "0608" on the wire, and no neighbour answers it.           *)
(***************************************************************************)
EXTENDS Integers, FiniteSets, FiniteSetsExt

CONSTANTS Address,         \* IP addresses
          Local,           \* those of the host's subnet
          Own,             \* ip_state.ip_address
          Gateway,         \* ip_state.gateway
          Limited,         \* 0xFFFFFFFF
          Mac,             \* hardware addresses of the neighbours
          OwnMac,          \* ethernet_state.mac_address
          None,            \* an unused entry or socket
          ARP_CACHE_SIZE

ASSUME IpAssumption ==
    /\ Local \subseteq Address
    /\ Own \in Local /\ Gateway \in Local
    /\ Limited \in Address \ Local
    /\ ARP_CACHE_SIZE \in Nat
    /\ None \notin [ip : Address, mac : Mac]

VARIABLES cache,      \* arp_state.cache
          sent,       \* frames the last step handed to the card
          announced   \* ghost: the hardware address each neighbour announced last

Broadcast == "FF:FF:FF:FF:FF:FF"
Slot == 0 .. ARP_CACHE_SIZE - 1
Entry == [ip : Address, mac : Mac]

IpInit ==
    /\ cache = [i \in Slot |-> None]
    /\ sent = {}
    /\ announced = [a \in Address |-> None]

-----------------------------------------------------------------------------
(***************************************************************************)
(* ethernet_send_frame builds a frame, and nic_send_packet gives the       *)
(* frames of a step to the card, as far as there was room for them.        *)
(***************************************************************************)
ethernet_send_frame(to, type, dest, body) ==
    [to |-> to, type |-> type, dest |-> dest, body |-> body]

nic_send_packet(frames) == sent' \in SUBSET frames

(***************************************************************************)
(* arp_resolve: the address of the cache, or broadcast and a request.      *)
(***************************************************************************)
Cached(ip) == {i \in Slot : cache[i] # None /\ cache[i].ip = ip}

Resolved(ip) == IF Cached(ip) = {} THEN Broadcast ELSE cache[Min(Cached(ip))].mac

arp_send_request(ip) == {ethernet_send_frame(Broadcast, "0608", ip, "arp")}

arp_resolve(ip) == IF Cached(ip) = {} THEN arp_send_request(ip) ELSE {}

\* Mutant: the gateway is taken for every address.
NextHopGateway(dest) == Gateway

(***************************************************************************)
(* The frames of ip_send_packet.                                           *)
(***************************************************************************)
NextHop(dest) == IF dest \in Local THEN dest ELSE Gateway

ip_send_packet(dest, body) ==
    arp_resolve(NextHop(dest))
        \cup {ethernet_send_frame(Resolved(NextHop(dest)), "0800", dest, body)}

\* Mutant: the entry that has the address already is not looked for.
ReplySlotsFree(ip) == {i \in Slot : cache[i] = None}

(***************************************************************************)
(* arp_handle_packet of a reply: the first entry that is free or has the   *)
(* sender's address is written; with neither the reply is dropped.         *)
(***************************************************************************)
ReplySlots(ip) == {i \in Slot : cache[i] = None \/ cache[i].ip = ip}

arp_handle_reply(ip, mac) ==
    /\ cache' = IF ReplySlots(ip) = {} THEN cache
                ELSE [cache EXCEPT ![Min(ReplySlots(ip))] = [ip |-> ip, mac |-> mac]]
    /\ announced' = [announced EXCEPT ![ip] = mac]
    /\ sent' = {}

(***************************************************************************)
(* arp_handle_packet of a request for the host's own address; a request    *)
(* for another is dropped.                                                 *)
(***************************************************************************)
arp_handle_request(ip, mac) ==
    /\ nic_send_packet({ethernet_send_frame(mac, "0608", ip, "arp")})
    /\ UNCHANGED <<cache, announced>>

-----------------------------------------------------------------------------
(***************************************************************************)
(* A frame has to be for the card or for all, and a packet for the host's  *)
(* own address: a packet for all is dropped.                               *)
(***************************************************************************)
ethernet_handle_frame(to) == to \in {OwnMac, Broadcast}

ip_handle_packet(dest) == dest = Own

(***************************************************************************)
(* icmp_handle_packet of an echo request; a reply only calls the           *)
(* application's callback.                                                 *)
(***************************************************************************)
icmp_handle_packet(source, dest) ==
    /\ ip_handle_packet(dest)
    /\ nic_send_packet(ip_send_packet(source, "icmp"))
    /\ UNCHANGED <<cache, announced>>

icmp_send_echo_request(dest) ==
    /\ nic_send_packet(ip_send_packet(dest, "icmp"))
    /\ UNCHANGED <<cache, announced>>

icmp_send_destination_unreachable(dest) ==
    /\ nic_send_packet(ip_send_packet(dest, "icmp"))
    /\ UNCHANGED <<cache, announced>>

-----------------------------------------------------------------------------
(***************************************************************************)
(* The cache holds an address once, and its entries are the first slots,   *)
(* whatever replies arrive and in whatever order (arp_handle_packet).      *)
(***************************************************************************)
CacheUnique ==
    /\ \A i, j \in Slot : cache[i] # None /\ cache[j] # None /\ cache[i].ip = cache[j].ip => i = j
    /\ \A i, j \in Slot : i < j /\ cache[j] # None => cache[i] # None

(***************************************************************************)
(* A packet goes to its next hop: to the hardware address the next hop     *)
(* announced last, or to all (ip_send_packet, arp_resolve).                *)
(***************************************************************************)
FramesToNextHop ==
    \A f \in sent :
        f.type = "0800" => f.to \in {Broadcast, announced[IF f.dest \in Local THEN f.dest ELSE Gateway]}

=============================================================================
