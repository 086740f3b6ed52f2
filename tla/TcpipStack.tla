------------------------------- MODULE TcpipStack -------------------------------
(* The user-space TCP/IP stack between the TUN device and the client listener
   (tcpip/src): the hooks that see every packet before lwIP does, the tables of TCP
   connections, UDP connections and ICMP requests, and the application's answers. One
   TCP and one UDP flow (a source and destination pair) and a few echo keys; packets are
   the buffers that the descriptors hold while they wait. lwIP itself is external and is
   one control block of the TCP flow. *)
EXTENDS Naturals, Sequences, FiniteSets

CONSTANTS Packets,   \* buffers
          Echoes,    \* (id, seqno) keys of echo requests
          QueueLimit \* UDP_SND_QUEUE_LIMIT, in packets

VARIABLES tcp,   \* the TCP descriptor
          lw,    \* lwIP: its control block of the TCP flow, and whether its TCP timers run
          udp,   \* the UDP descriptor
          icmp,  \* the packet that each echo request holds; {} is no request
          taken, \* packets taken from the device and not released yet
          told   \* what the application was told of the two flows

vars == <<tcp, lw, udp, icmp, taken, told>>

NoTcp == [st |-> "none", buf |-> {}, pcb |-> FALSE]
NoUdp == [st |-> "none", pend |-> <<>>]

tcpip_init_internal ==
  /\ tcp = NoTcp /\ lw = [block |-> "none", timer |-> FALSE] /\ udp = NoUdp
  /\ icmp = [k \in Echoes |-> {}]
  /\ taken = {}
  /\ told = [f \in {"tcp", "udp"} |-> "none"]

Init == tcpip_init_internal

Queued(u) == {u.pend[i] : i \in DOMAIN u.pend}

--------------------------------------------------------------------------------
(* lwIP and its timers. *)

\* lwIP asks for its timers when it registers a control block.
tcp_timer_needed(block) == [block |-> block, timer |-> lw.timer \/ block # "none"]

\* The timers stop themselves when no control block is left.
run_tcp_timer ==
  /\ lw.timer /\ lw.block = "none"
  /\ lw' = [lw EXCEPT !.timer = FALSE]
  /\ UNCHANGED <<tcp, udp, icmp, taken, told>>

\* lwIP gives up a handshake nobody completed.
SynTimeout ==
  lw.block = "syn" /\ lw' = [lw EXCEPT !.block = "none"] /\ UNCHANGED <<tcp, udp, icmp, taken, told>>

--------------------------------------------------------------------------------
(* TCP. *)

\* The descriptor's control block loses its callbacks and is closed or aborted.
tcp_raw_close(block) == [lw EXCEPT !.block = IF tcp.pcb THEN "none" ELSE block]

\* The held packet is freed, the application is told, and the descriptor leaves both tables.
tcp_cm_close_descriptor_KeepsPcb(block) ==
  /\ lw' = [lw EXCEPT !.block = block]
  /\ tcp' = NoTcp /\ told' = [told EXCEPT !.tcp = "none"] /\ taken' = taken \ tcp.buf

tcp_cm_close_descriptor(block) ==
  /\ lw' = tcp_raw_close(block)
  /\ tcp' = NoTcp /\ told' = [told EXCEPT !.tcp = "none"] /\ taken' = taken \ tcp.buf

\* A new flow holds its SYN back and is offered to the application.
tcp_cm_create_descriptor(p) ==
  /\ tcp' = [st |-> "requested", buf |-> {p}, pcb |-> FALSE]
  /\ taken' = taken \cup {p} /\ lw' = lw

tcp_cm_request_connection == told' = [told EXCEPT !.tcp = "asked"]

\* A SYN of a new flow; one of a flow that the application let through goes on to lwIP; any
\* other is dropped. A RST closes a flow that waits for the local handshake, and lwIP may
\* not accept its number.
process_tcp(p) ==
  /\ \/ tcp.st = "none" /\ tcp_cm_create_descriptor(p) /\ tcp_cm_request_connection
     \/ /\ tcp.st = "have_result" /\ lw.block = "none"
        /\ lw' = tcp_timer_needed("syn") /\ UNCHANGED <<tcp, told, taken>>
     \/ tcp.st = "have_result" /\ \E block \in {lw.block, "none"} : tcp_cm_close_descriptor(block)
  /\ UNCHANGED <<udp, icmp>>

\* The SYN goes to lwIP, which may refuse it.
process_forwarded_connection ==
  \/ /\ tcp' = [tcp EXCEPT !.st = "have_result", !.buf = {}]
     /\ lw' = tcp_timer_needed(IF lw.block = "none" THEN "syn" ELSE lw.block)
     /\ taken' = taken \ tcp.buf /\ told' = [told EXCEPT !.tcp = "answered"]
  \/ tcp_cm_close_descriptor(lw.block)

\* A rejected or unreachable SYN is given back to the hook, which has it answered with a
\* RST or an ICMP error, and the descriptor is closed.
process_and_close == tcp_cm_close_descriptor(lw.block)

\* A dropped SYN is kept until the descriptor times out.
process_dropped_connection ==
  /\ tcp' = [tcp EXCEPT !.st = "drop"] /\ told' = [told EXCEPT !.tcp = "answered"]
  /\ UNCHANGED <<lw, taken>>

tcp_cm_complete_connect_request(action) ==
  /\ told.tcp = "asked"
  /\ IF tcp.st # "requested" THEN told' = [told EXCEPT !.tcp = "answered"] /\ UNCHANGED <<tcp, lw, taken>>
     ELSE \/ action = "bypass" /\ process_forwarded_connection
          \/ action = "drop" /\ process_dropped_connection
          \/ action \in {"reject", "unreachable"} /\ process_and_close
  /\ UNCHANGED <<udp, icmp>>

tcp_cm_accept ==
  /\ tcp' = [tcp EXCEPT !.st = "accepted", !.pcb = TRUE]
  /\ told' = [told EXCEPT !.tcp = IF @ = "asked" THEN "asked" ELSE "open"]

\* lwIP finished the handshake: the descriptor is found by its addresses, whatever its
\* state is; without one the connection is reset.
tcp_raw_accept ==
  /\ lw.block = "syn"
  /\ IF tcp.st = "none" THEN lw' = [lw EXCEPT !.block = "none"] /\ UNCHANGED <<tcp, told>>
     ELSE tcp_cm_accept /\ lw' = [lw EXCEPT !.block = "open"]
  /\ UNCHANGED <<udp, icmp, taken>>

\* Data of an accepted connection is taken by the application, or the application closes
\* the connection in the call.
process_recv_event ==
  lw.block = "open" /\ tcp.st = "accepted" /\ tcp_cm_close_descriptor(lw.block) /\ UNCHANGED <<udp, icmp>>

\* The client's FIN.
process_closed_connection ==
  lw.block = "open" /\ tcp.pcb /\ tcp_cm_close_descriptor(lw.block) /\ UNCHANGED <<udp, icmp>>

\* An error, after which lwIP has freed the control block.
tcp_raw_error ==
  lw.block = "open" /\ tcp.pcb /\ tcp_cm_close_descriptor("none") /\ UNCHANGED <<udp, icmp>>

tcp_cm_timer_tick == tcp.st # "none" /\ tcp_cm_close_descriptor(lw.block) /\ UNCHANGED <<udp, icmp>>

--------------------------------------------------------------------------------
(* UDP. *)

udp_cm_close_descriptor ==
  /\ udp' = NoUdp /\ told' = [told EXCEPT !.udp = "none"]
  /\ taken' = taken \ Queued(udp)
  /\ UNCHANGED <<tcp, lw, icmp>>

\* A datagram of a flow that waits for its answer is queued while there is room.
udp_cm_enqueue_incoming_packet(u, p) ==
  IF Len(u.pend) < QueueLimit THEN [u EXCEPT !.pend = Append(@, p)] ELSE u

\* A datagram of an open flow goes to the application; a negative result closes the flow.
udp_cm_receive == udp.st = "confirmed" /\ udp_cm_close_descriptor

\* A datagram of a new flow, of one that waits, of one that was refused (it is dropped),
\* or of an open one.
process_udp(p) ==
  \/ /\ udp.st \in {"none", "requested"}
     /\ udp' = [udp_cm_enqueue_incoming_packet(udp, p) EXCEPT !.st = "requested"]
     /\ taken' = taken \cup (Queued(udp') \ Queued(udp))
     /\ told' = [told EXCEPT !.udp = "asked"]
     /\ UNCHANGED <<tcp, lw, icmp>>
  \/ udp_cm_receive

\* The flow is accepted and its queue replayed in order, until a packet closes the
\* connection; the rest of the queue is freed with it.
process_new_connection ==
  \/ /\ udp' = [st |-> "confirmed", pend |-> <<>>]
     /\ taken' = taken \ Queued(udp) /\ told' = [told EXCEPT !.udp = "open"]
     /\ UNCHANGED <<tcp, lw, icmp>>
  \/ udp_cm_close_descriptor

\* An unreachable flow is closed after its last packet was answered. Its queue is never
\* empty: it was made with a packet, and every packet is smaller than UDP_SND_QUEUE_LIMIT.
process_unreachable_connection ==
  IF udp.pend # <<>> THEN udp_cm_close_descriptor
  ELSE /\ udp' = [udp EXCEPT !.st = "unreachable"] /\ told' = [told EXCEPT !.udp = "answered"]
       /\ UNCHANGED <<tcp, lw, icmp, taken>>

\* A refused flow keeps its queue until it times out.
udp_cm_complete_connect_request(action) ==
  /\ told.udp = "asked" /\ udp.st = "requested"
  /\ \/ action \in {"reject", "drop"} /\ udp' = [udp EXCEPT !.st = "rejected"]
        /\ told' = [told EXCEPT !.udp = "answered"] /\ UNCHANGED <<tcp, lw, icmp, taken>>
     \/ action = "bypass" /\ process_new_connection
     \/ action = "unreachable" /\ process_unreachable_connection

\* An answer on a closed socket of the device closes the flow.
udp_cm_send_data == udp.st # "none" /\ udp_cm_close_descriptor

udp_cm_timer_tick == udp.st # "none" /\ udp_cm_close_descriptor

--------------------------------------------------------------------------------
(* ICMP. *)

\* A second request with the key of one that still waits is taken for its answer: there
\* is no reply address yet, so the packet is dropped, and the request is closed with its
\* held packet forgotten.
forward_existing_icmp_entry(k) ==
  icmp[k] # {} /\ icmp' = [icmp EXCEPT ![k] = {}] /\ taken' = taken

\* A new request is held while the application pings.
process_new_icmp_request(k, p) ==
  icmp[k] = {} /\ icmp' = [icmp EXCEPT ![k] = {p}] /\ taken' = taken \cup {p}

process_icmp_req(k, p) ==
  /\ forward_existing_icmp_entry(k) \/ process_new_icmp_request(k, p)
  /\ UNCHANGED <<tcp, lw, udp, told>>

\* The reply: a drop frees the held packet, any other gives it back to the hook, which
\* answers it and closes the request.
icmp_rm_process_reply(k) ==
  /\ icmp[k] # {}
  /\ icmp' = [icmp EXCEPT ![k] = {}] /\ taken' = taken \ icmp[k]
  /\ UNCHANGED <<tcp, lw, udp, told>>

--------------------------------------------------------------------------------

\* Fragments are joined before the protocols see them; other packets go to lwIP.
ip4_input_hook(p) == process_tcp(p) \/ process_udp(p) \/ \E k \in Echoes : process_icmp_req(k, p)

process_input_packet(p) == p \notin taken /\ ip4_input_hook(p)

tcpip_complete_connect_request(action) ==
  tcp_cm_complete_connect_request(action) \/ udp_cm_complete_connect_request(action)

tcpip_close_connection ==
  \/ tcp.st # "none" /\ tcp_cm_close_descriptor(lw.block) /\ UNCHANGED <<udp, icmp>>
  \/ udp.st # "none" /\ udp_cm_close_descriptor

\* Every connection and request is closed.
tcpip_close_internal ==
  /\ tcp' = NoTcp /\ udp' = NoUdp /\ icmp' = [k \in Echoes |-> {}]
  /\ lw' = tcp_raw_close(lw.block)
  /\ told' = [f \in {"tcp", "udp"} |-> "none"]
  /\ taken' = taken \ (tcp.buf \cup Queued(udp) \cup UNION {icmp[k] : k \in Echoes})

Next ==
  \/ \E p \in Packets : process_input_packet(p)
  \/ \E a \in {"reject", "bypass", "drop", "unreachable"} : tcpip_complete_connect_request(a)
  \/ tcp_raw_accept \/ SynTimeout \/ run_tcp_timer \/ process_recv_event
  \/ process_closed_connection \/ tcp_raw_error \/ tcp_cm_timer_tick \/ udp_cm_timer_tick
  \/ udp_cm_send_data \/ tcpip_close_connection \/ tcpip_close_internal
  \/ \E k \in Echoes : icmp_rm_process_reply(k)

Spec == Init /\ [][Next]_vars

--------------------------------------------------------------------------------
(* Properties. *)

\* A control block of lwIP has callbacks exactly when a descriptor of an accepted
\* connection points at it, so an event never meets another connection ("pcb in entry is
\* not the same as raised one", tcp_raw.cpp:186); lwIP's timers run while it has one,
\* or the handshake would never be repeated or given up; and no packet is held by two
\* descriptors or after it was released, which would free it twice.
DescriptorsOwnTheirParts ==
  /\ (lw.block = "open") = tcp.pcb /\ tcp.pcb = (tcp.st = "accepted")
  /\ lw.block # "none" => lw.timer
  /\ LET held == [o \in {"tcp", "udp"} \cup Echoes |->
                    IF o = "tcp" THEN tcp.buf ELSE IF o = "udp" THEN Queued(udp) ELSE icmp[o]]
     IN  /\ \A a, b \in DOMAIN held : a # b => held[a] \cap held[b] = {}
         /\ UNION {held[o] : o \in DOMAIN held} \subseteq taken

\* "If packet is VpnPacket was sent to netif driver, its destructor will be called on the
\* driver's side" (tcpip_common.cpp:194): a packet that no descriptor holds any more was
\* released. A repeated echo request breaks it (forward_existing_icmp_entry).
PacketsComeBack ==
  taken \subseteq tcp.buf \cup Queued(udp) \cup UNION {icmp[k] : k \in Echoes}

\* The answer to a request finds the descriptor in state REQUESTED
\* (assert(0), tcp_conn_manager.cpp:176). It need not: a handshake that outlived its
\* descriptor is accepted by the next one with the same addresses.
AnswerFindsRequest == told.tcp = "asked" => tcp.st = "requested"
================================================================================
