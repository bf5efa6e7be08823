--------------------------------- MODULE Tcp ---------------------------------
(***************************************************************************)
(* The TCP sockets of net/tcp.c, a server they connect to, and the network *)
(* between them, which may lose, duplicate and reorder segments.           *)
(*                                                                         *)
(* No code puts a socket into TCP_STATE_LISTEN and none sets retries, so   *)
(* that a socket is always the connecting side and tcp_periodic_check      *)
(* changes nothing.  A segment carries no byte or one; the pushed bytes of *)
(* the server are named by their place among them.  Window and checksum    *)
(* are left out, because tcp_handle_packet reads neither.                  *)
(*                                                                         *)
(* No driver of the repository hands a frame on yet; tcp_handle_packet is  *)
(* taken to run in the interrupt that brings the segment, so it is one     *)
(* step and may come between the accesses of a call: after the test of the *)
(* state, after the segment was sent, and after its numbers were counted.  *)
(***************************************************************************)
EXTENDS Integers, Sequences, SequencesExt, FiniteSets

CONSTANTS TcpSocket,   \* the socket structures the heap has room for
          TCP_PORTS,   \* values of a port (65536 in the code)
          SEQ,         \* values of a sequence number (2^32 in the code)
          MAX_DATA,    \* bound: bytes the server sends on all connections
          MAX_SENT,    \* bound: segments of a socket when it sends data
          MAX_CALLS,   \* bound: sockets with a call in progress
          MAX_FAULTS   \* bound: faults of the network or the heap

ASSUME TcpAssumption ==
    /\ TCP_PORTS \in Nat \ {0}
    /\ SEQ \in Nat \ {0}
    /\ MAX_DATA \in Nat /\ MAX_SENT \in Nat
    /\ MAX_CALLS \in Nat /\ MAX_FAULTS \in Nat

VARIABLES tcp_sockets,   \* tcp_state.sockets: the list, newest first
          socket,        \* the structures
          tcp_next_port,
          call,          \* for each socket, the application's call on it
          to_host,       \* segments on their way to the host
          server,        \* for each port of the host, the server's end of a connection
          faults,
          \* Ghosts: what a socket has sent and delivered, the sockets that the
          \* handler worked on during a call, whether a port was used again, and
          \* whether segments came twice or out of their order.
          segments, delivered, torn, reused, disordered

hostVars == <<tcp_sockets, socket, tcp_next_port, call, segments, delivered, torn, reused>>
tcpVars == <<hostVars, to_host, server, faults, disordered>>

TcpPort == 0 .. TCP_PORTS - 1
Number == 0 .. SEQ - 1
Flag == {"SYN", "ACK", "PSH", "FIN", "RST"}
Closed == [local_port |-> 0, connected |-> FALSE, state |-> "CLOSED", seq_num |-> 0, ack_num |-> 0]

(***************************************************************************)
(* Where a call is: "checked", before it sends a segment with flags;       *)
(* "sent", before seq_num is counted up; "counted", before tcp_close sets  *)
(* FIN_WAIT_1; "free", before tcp_close takes the socket off the list.     *)
(***************************************************************************)
NoCall == [at |-> "none", flags |-> {}]

(***************************************************************************)
(* tcp_init, and a server that has opened its port.                        *)
(***************************************************************************)
TcpInit ==
    /\ tcp_sockets = <<>>
    /\ socket = [s \in TcpSocket |-> Closed]
    /\ tcp_next_port = TCP_PORTS - 1
    /\ call = [s \in TcpSocket |-> NoCall]
    /\ to_host = <<>>
    /\ server = [p \in TcpPort |-> [state |-> "listen", seq_num |-> 0, byte |-> 0, unpushed |-> 0]]
    /\ faults = 0
    /\ segments = [s \in TcpSocket |-> <<>>]
    /\ delivered = [s \in TcpSocket |-> <<>>]
    /\ torn = {}
    /\ reused = FALSE
    /\ disordered = FALSE

-----------------------------------------------------------------------------
(***************************************************************************)
(* The work on a socket, r: the structure, what is sent and delivered,     *)
(* whether it has been freed, and whether the heap has room for a packet.  *)
(***************************************************************************)
Called(s, room) ==
    [socket |-> socket[s], out |-> <<>>, data |-> <<>>, freed |-> FALSE, room |-> room]

(***************************************************************************)
(* tcp_send_packet up to ip_send_packet, and the numbers it then counts.   *)
(***************************************************************************)
Emit(r, flags) ==
    [r EXCEPT !.out = Append(@, [port |-> r.socket.local_port, flags |-> flags,
                                 seq_num |-> r.socket.seq_num,
                                 byte |-> IF "PSH" \in flags THEN 1 ELSE 0])]

\* Mutant: the sequence number a FIN takes is forgotten.
CountedFinFree(n, flags) == (n + Cardinality(flags \cap {"SYN", "PSH"})) % SEQ

Counted(n, flags) ==
    (n + (IF flags \cap {"SYN", "FIN"} # {} THEN 1 ELSE 0) + (IF "PSH" \in flags THEN 1 ELSE 0)) % SEQ

(***************************************************************************)
(* tcp_send_packet in the handler: without room nothing is sent and no one *)
(* is told.                                                                *)
(***************************************************************************)
tcp_send_packet(r, flags) ==
    IF r.room THEN [Emit(r, flags) EXCEPT !.socket.seq_num = Counted(@, flags)] ELSE r

(***************************************************************************)
(* tcp_send and tcp_close in the handler.  A connected socket sends FIN,   *)
(* any other is freed.                                                     *)
(***************************************************************************)
Send(r) == IF r.socket.state = "ESTABLISHED" THEN tcp_send_packet(r, {"PSH", "ACK"}) ELSE r

Close(r) ==
    IF r.socket.state = "ESTABLISHED"
    THEN [tcp_send_packet(r, {"FIN", "ACK"}) EXCEPT !.socket.state = "FIN_WAIT_1"]
    ELSE [r EXCEPT !.freed = TRUE]

(***************************************************************************)
(* The application's callback, which may send data and close the socket.   *)
(***************************************************************************)
Callback(r, act) ==
    LET d == IF act.sends THEN Send(r) ELSE r
    IN  IF act.closes THEN Close(d) ELSE d

\* Mutant: the answer to the SYN does not end the wait.
ConnectedNot(r, m, act) ==
    Callback(tcp_send_packet([r EXCEPT !.socket.ack_num = (m.seq_num + 1) % SEQ], {"ACK"}), act)

(***************************************************************************)
(* The cases of tcp_handle_packet: the answer to the SYN, data, and FIN.   *)
(***************************************************************************)
Connected(r, m, act) ==
    Callback(tcp_send_packet([r EXCEPT !.socket.ack_num = (m.seq_num + 1) % SEQ,
                                       !.socket.state = "ESTABLISHED"],
                             {"ACK"}), act)

\* Mutant: the byte is given to the application twice.
DataTwice(r, m, act) ==
    Callback([tcp_send_packet([r EXCEPT !.socket.ack_num = (@ + 1) % SEQ], {"ACK"})
                 EXCEPT !.data = <<m.byte, m.byte>>], act)

\* Mutant: the byte is not counted in the acknowledgement number.
DataUncounted(r, m, act) ==
    Callback([tcp_send_packet(r, {"ACK"}) EXCEPT !.data = <<m.byte>>], act)

Data(r, m, act) ==
    Callback([tcp_send_packet([r EXCEPT !.socket.ack_num = (@ + 1) % SEQ], {"ACK"})
                 EXCEPT !.data = <<m.byte>>], act)

Finished(r, act) ==
    Callback(tcp_send_packet([r EXCEPT !.socket.ack_num = (@ + 1) % SEQ,
                                       !.socket.state = "CLOSE_WAIT"],
                             {"ACK"}), act)

(***************************************************************************)
(* The switch on the state.  A data segment may carry FIN, and then the    *)
(* application is called twice.  Data without PSH is dropped, and RST is   *)
(* ignored in every state.                                                 *)
(***************************************************************************)
Handled(r, m, acts) ==
    CASE r.socket.state = "SYN_SENT" /\ {"SYN", "ACK"} \subseteq m.flags -> Connected(r, m, acts[1])
      [] r.socket.state = "ESTABLISHED" ->
             LET d == IF "PSH" \in m.flags THEN Data(r, m, acts[1]) ELSE r
             IN  IF "FIN" \in m.flags THEN Finished(d, acts[2]) ELSE d
      [] OTHER -> r

(***************************************************************************)
(* The server's end c of a connection when segments with the flags arrive: *)
(* it answers a SYN, which is sent alone, and is open when the answer is   *)
(* acknowledged.                                                           *)
(***************************************************************************)
Sent(out) == {m.flags : m \in Range(out)}

ServerAfter(c, flagsets) ==
    CASE c.state = "listen" /\ {"SYN"} \in flagsets -> [c EXCEPT !.state = "syn_rcvd", !.seq_num = (@ + 1) % SEQ]
      [] c.state = "syn_rcvd" /\ (\E flags \in flagsets : "ACK" \in flags) -> [c EXCEPT !.state = "open"]
      [] OTHER -> c

FromServer(p, flags, byte) ==
    [port |-> p, flags |-> flags, seq_num |-> server[p].seq_num, byte |-> byte]

(***************************************************************************)
(* What is sent reaches the server at once or is lost: a longer way there  *)
(* is the same to the host as a longer way back.  The server may refuse a  *)
(* SYN.  rest is to_host without the segment that is handled.              *)
(***************************************************************************)
Arrive(p, flagsets, rest) ==
    LET asked == {"SYN"} \in flagsets /\ server[p].state = "listen"
    IN  \/ /\ server' = [server EXCEPT ![p] = ServerAfter(@, flagsets)]
           /\ to_host' = rest \o IF asked THEN <<FromServer(p, {"SYN", "ACK"}, 0)>> ELSE <<>>
        \/ /\ asked
           /\ server' = [server EXCEPT ![p].state = "refused"]
           /\ to_host' = Append(rest, FromServer(p, {"RST", "ACK"}, 0))

(***************************************************************************)
(* What the work r on socket s leaves behind; a freed structure leaves the *)
(* list.  The stream of a socket is not followed beyond work that tears a  *)
(* call.                                                                   *)
(***************************************************************************)
Leave(s, r, rest, tears) ==
    /\ tcp_sockets' = IF r.freed THEN RemoveFirst(tcp_sockets, s) ELSE tcp_sockets
    /\ socket' = [socket EXCEPT ![s] = IF r.freed THEN Closed ELSE r.socket]
    /\ torn' = IF tears THEN torn \cup {s} ELSE torn
    /\ segments' = [segments EXCEPT ![s] = IF r.freed \/ tears \/ s \in torn THEN <<>> ELSE @ \o r.out]
    /\ delivered' = [delivered EXCEPT ![s] = IF r.freed THEN <<>> ELSE @ \o r.data]
    /\ \/ /\ Arrive(r.socket.local_port, Sent(r.out), rest)
          /\ faults' = IF r.room THEN faults ELSE faults + 1
       \/ /\ r.out # <<>> /\ faults < MAX_FAULTS
          /\ faults' = faults + 1
          /\ to_host' = rest
          /\ UNCHANGED server
    /\ UNCHANGED <<tcp_next_port, reused, disordered>>

Room == {TRUE} \cup {b \in {FALSE} : faults < MAX_FAULTS}

-----------------------------------------------------------------------------
(***************************************************************************)
(* The port is taken from a counter that wraps around, whoever has it.     *)
(* The structure is one that no call is working on any more.               *)
(***************************************************************************)
tcp_create_socket ==
    LET free == {t \in TcpSocket : t \notin Range(tcp_sockets) /\ call[t] = NoCall}
        s == CHOOSE t \in free : TRUE
    IN  /\ free # {}
        /\ tcp_sockets' = <<s>> \o tcp_sockets
        /\ socket' = [socket EXCEPT ![s] = [Closed EXCEPT !.local_port = tcp_next_port]]
        /\ tcp_next_port' = (tcp_next_port + 1) % TCP_PORTS
        /\ torn' = torn \ {s}
        /\ reused' = (reused \/ server[tcp_next_port].state # "listen"
                             \/ \E t \in Range(tcp_sockets) : socket[t].local_port = tcp_next_port)
        /\ UNCHANGED <<call, segments, delivered, to_host, server, faults, disordered>>

Begin(s, at, flags) ==
    /\ s \in Range(tcp_sockets)
    /\ call[s] = NoCall
    /\ Cardinality({t \in TcpSocket : call[t] # NoCall}) < MAX_CALLS
    /\ call' = [call EXCEPT ![s] = [at |-> at, flags |-> flags]]
    /\ UNCHANGED <<tcp_sockets, tcp_next_port, segments, delivered, torn, reused, to_host, server,
                   faults, disordered>>

(***************************************************************************)
(* tcp_connect up to tcp_send_packet.  The initial sequence number is the  *)
(* tick counter.                                                           *)
(***************************************************************************)
tcp_connect(s) ==
    /\ socket[s].state = "CLOSED"
    /\ \E ticks \in {SEQ - 1} :
           socket' = [socket EXCEPT ![s].connected = TRUE, ![s].seq_num = ticks, ![s].state = "SYN_SENT"]
    /\ Begin(s, "checked", {"SYN"})

(***************************************************************************)
(* The tests of tcp_close and tcp_send.                                    *)
(***************************************************************************)
tcp_close(s) ==
    /\ IF socket[s].state = "ESTABLISHED" THEN Begin(s, "checked", {"FIN", "ACK"})
                                          ELSE Begin(s, "free", {})
    /\ UNCHANGED socket

tcp_send(s) ==
    /\ socket[s].state = "ESTABLISHED"
    /\ Len(segments[s]) < MAX_SENT
    /\ Begin(s, "checked", {"PSH", "ACK"})
    /\ UNCHANGED socket

(***************************************************************************)
(* tcp_send_packet in a call.  Without room it returns at once.  Only      *)
(* tcp_close has something to do after it.                                 *)
(***************************************************************************)
AfterPacket(s) == [call EXCEPT ![s] = IF "FIN" \in call[s].flags THEN [@ EXCEPT !.at = "counted"] ELSE NoCall]

SendPacket(s) ==
    /\ s \in Range(tcp_sockets) /\ call[s].at = "checked"
    /\ \E room \in Room :
           /\ Leave(s, IF room THEN Emit(Called(s, room), call[s].flags) ELSE Called(s, room), to_host, FALSE)
           /\ call' = IF room THEN [call EXCEPT ![s].at = "sent"] ELSE AfterPacket(s)

CountNumbers(s) ==
    /\ s \in Range(tcp_sockets) /\ call[s].at = "sent"
    /\ socket' = [socket EXCEPT ![s].seq_num = Counted(@, call[s].flags)]
    /\ call' = AfterPacket(s)
    /\ UNCHANGED <<tcp_sockets, tcp_next_port, segments, delivered, torn, reused, to_host, server,
                   faults, disordered>>

(***************************************************************************)
(* The rest of tcp_close.                                                  *)
(***************************************************************************)
FinWait(s) ==
    /\ s \in Range(tcp_sockets) /\ call[s].at = "counted"
    /\ socket' = [socket EXCEPT ![s].state = "FIN_WAIT_1"]
    /\ call' = [call EXCEPT ![s] = NoCall]
    /\ UNCHANGED <<tcp_sockets, tcp_next_port, segments, delivered, torn, reused, to_host, server,
                   faults, disordered>>

Free(s) ==
    /\ s \in Range(tcp_sockets) /\ call[s].at = "free"
    /\ Leave(s, [Called(s, TRUE) EXCEPT !.freed = TRUE], to_host, FALSE)
    /\ call' = [call EXCEPT ![s] = NoCall]

(***************************************************************************)
(* A callback freed the socket during the call, which goes on with memory  *)
(* that is no socket any more; what it does to that memory is left out.    *)
(***************************************************************************)
Dangling(s) ==
    /\ s \notin Range(tcp_sockets) /\ call[s] # NoCall
    /\ call' = [call EXCEPT ![s] = NoCall]
    /\ UNCHANGED <<tcp_sockets, socket, tcp_next_port, segments, delivered, torn, reused, to_host,
                   server, faults, disordered>>

(***************************************************************************)
(* tcp_handle_packet of the first segment that arrives: the first socket   *)
(* of the list with its port and peer handles it.  A segment for no socket *)
(* is answered with RST from a socket at address 0, which is readable      *)
(* memory, to whatever peer is named there.                                *)
(***************************************************************************)
Matches(s, m) == socket[s].local_port = m.port /\ socket[s].connected

Act(s) == [sends : {b \in BOOLEAN : b => Len(segments[s]) < MAX_SENT}, closes : BOOLEAN]

tcp_handle_packet ==
    /\ to_host # <<>>
    /\ LET m == Head(to_host)
           found == SelectInSeq(tcp_sockets, LAMBDA s : Matches(s, m))
       IN  \/ /\ found = 0
              /\ to_host' = Tail(to_host)
              /\ UNCHANGED <<hostVars, server, faults, disordered>>
           \/ /\ found # 0
              /\ LET s == tcp_sockets[found]
                 IN  \E room \in Room, first \in Act(s), second \in Act(s) :
                         LET r == Handled(Called(s, room), m, <<first, second>>)
                         IN  Leave(s, r, Tail(to_host), call[s] # NoCall /\ r # Called(s, room))
              /\ UNCHANGED call

-----------------------------------------------------------------------------
(***************************************************************************)
(* An open server sends its data, with PSH or without, and closes, with    *)
(* the last byte or after it, or resets the connection.  To the host data  *)
(* without PSH is the same as none.                                        *)
(***************************************************************************)
SentInAll == MapThenSumSet(LAMBDA q : server[q].byte + server[q].unpushed, TcpPort)

ServerSegment(p, data, last) ==
    LET pushed == data = "pushed"
        n == server[p].byte + (IF pushed THEN 1 ELSE 0)
    IN  /\ to_host' = Append(to_host, FromServer(p, {"ACK"} \cup (IF pushed THEN {"PSH"} ELSE {}) \cup last,
                                                 IF pushed THEN n ELSE 0))
        /\ server' = [server EXCEPT
                        ![p].byte = n,
                        ![p].unpushed = IF data = "unpushed" THEN @ + 1 ELSE @,
                        ![p].state = IF last # {} THEN "closed" ELSE @,
                        ![p].seq_num = (@ + (IF data # "none" THEN 1 ELSE 0)
                                          + (IF "FIN" \in last THEN 1 ELSE 0)) % SEQ]

server_sends(p) ==
    /\ server[p].state = "open"
    /\ \E last \in {{}, {"FIN"}, {"RST"}}, data \in {"none", "pushed", "unpushed"} :
           /\ "RST" \in last => data = "none"
           /\ data = "none" => last # {}
           /\ data # "none" => SentInAll < MAX_DATA
           /\ ServerSegment(p, data, last)
    /\ UNCHANGED <<hostVars, faults, disordered>>

(***************************************************************************)
(* The network loses a segment, delivers one twice or swaps two.           *)
(***************************************************************************)
Lose ==
    /\ faults < MAX_FAULTS
    /\ faults' = faults + 1
    /\ \E i \in DOMAIN to_host : to_host' = RemoveAt(to_host, i)
    /\ UNCHANGED <<hostVars, server, disordered>>

Disorder ==
    /\ faults < MAX_FAULTS
    /\ faults' = faults + 1
    /\ \/ \E i \in DOMAIN to_host : to_host' = InsertAt(to_host, i, to_host[i])
       \/ \E i \in 1 .. Len(to_host) - 1 :
              to_host' = [to_host EXCEPT ![i] = to_host[i + 1], ![i + 1] = to_host[i]]
    /\ disordered' = TRUE
    /\ UNCHANGED <<hostVars, server>>

-----------------------------------------------------------------------------
Application ==
    \/ tcp_create_socket
    \/ \E s \in TcpSocket :
          \/ tcp_connect(s) \/ tcp_close(s) \/ tcp_send(s)
          \/ SendPacket(s) \/ CountNumbers(s) \/ FinWait(s) \/ Free(s) \/ Dangling(s)

TcpNext ==
    \/ Application
    \/ tcp_handle_packet
    \/ \E p \in TcpPort : server_sends(p)
    \/ Lose
    \/ Disorder

(***************************************************************************)
(* What has arrived is handled, in the interrupt that brings it.  Nothing  *)
(* is assumed of the applications.                                         *)
(***************************************************************************)
TcpSpec == TcpInit /\ [][TcpNext]_tcpVars /\ WF_tcpVars(tcp_handle_packet)

-----------------------------------------------------------------------------
(***************************************************************************)
(* The segments of a socket are a stream: it begins with SYN, each segment *)
(* takes up the sequence numbers where the one before it left off, there   *)
(* is one FIN and no data after it, whatever the application sends and     *)
(* closes in its callbacks and whatever the network and the heap fail at   *)
(* (tcp_send_packet, tcp_close, tcp_send).  That ends when the handler     *)
(* works on a socket in the middle of a call on it: tcp.c tests the state  *)
(* and counts the numbers without protection.                              *)
(***************************************************************************)
Numbers(m) == (IF m.flags \cap {"SYN", "FIN"} # {} THEN 1 ELSE 0) + (IF m.byte # 0 THEN 1 ELSE 0)

StreamWellFormed ==
    \A s \in TcpSocket \ torn :
        /\ \A i \in 1 .. Len(segments[s]) - 1 :
               segments[s][i + 1].seq_num = (segments[s][i].seq_num + Numbers(segments[s][i])) % SEQ
        /\ \A i, j \in DOMAIN segments[s] :
               "FIN" \in segments[s][i].flags /\ i < j =>
                   "FIN" \notin segments[s][j].flags /\ segments[s][j].byte = 0
        /\ faults = 0 /\ segments[s] # <<>> => "SYN" \in segments[s][1].flags

(***************************************************************************)
(* As long as the network delivers nothing twice and keeps the order, the  *)
(* application is given pushed bytes in the order in which the server sent *)
(* them and none twice, whatever is lost, wherever a call is interrupted   *)
(* and however often ports are used again (tcp_handle_packet, which        *)
(* compares no sequence number).                                           *)
(***************************************************************************)
DeliveredInOrder ==
    ~disordered =>
        \A s \in TcpSocket : \A i, j \in DOMAIN delivered[s] : i < j => delivered[s][i] < delivered[s][j]

(***************************************************************************)
(* Without a fault, and while no port is used again, no pushed byte is     *)
(* skipped, and the acknowledgement number counts the bytes that were      *)
(* delivered: data without PSH is dropped and stays unacknowledged         *)
(* (tcp_handle_packet).                                                    *)
(***************************************************************************)
NothingSkipped ==
    faults = 0 /\ ~reused =>
        \A s \in TcpSocket :
            /\ \A i \in DOMAIN delivered[s] : delivered[s][i] = i
            /\ socket[s].state = "ESTABLISHED" => socket[s].ack_num = (1 + Len(delivered[s])) % SEQ

(***************************************************************************)
(* Without a fault, and on a port not used before, a connection that was   *)
(* asked for and that the server does not refuse is made, or the           *)
(* application closes the socket.  Nothing is sent a second time and       *)
(* SYN_SENT ignores RST, so that a fault or a refusal may leave the socket *)
(* waiting for ever.  It is stated of one socket; the code makes no        *)
(* difference between them.                                                *)
(***************************************************************************)
ConnectEnds ==
    LET s == CHOOSE t \in TcpSocket : TRUE
    IN  [](faults = 0 /\ ~reused /\ \A p \in TcpPort : server[p].state # "refused")
            => (socket[s].state = "SYN_SENT" /\ segments[s] # <<>> ~> socket[s].state # "SYN_SENT")

=============================================================================
