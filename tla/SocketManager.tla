--------------------------- MODULE SocketManager ---------------------------
(***************************************************************************)
(* The socket manager of the client with the sockets that use it:          *)
(* net/src/socket_manager.cpp, the timeouts and the destruction of         *)
(* net/src/tcp_socket.cpp and of net/src/udp_socket.cpp.  One timer serves *)
(* all sockets: a socket subscribes to its ticks under an identifier that  *)
(* counts from 0 for as long as the timer lives, and the timer is dropped  *)
(* with its last subscriber.  A destroyed TCP socket with unsent data      *)
(* leaves its buffer to the manager, by descriptor, for LINGER_TV.         *)
(***************************************************************************)
EXTENDS Integers, FiniteSets, TLC

CONSTANTS Tcp, Udp,  \* the sockets
          Fds,       \* file descriptors (naturals): the smallest free one is given out
          MaxSub,    \* bound on subscriber identifiers
          MaxTime,   \* bound on the clock
          Linger     \* LINGER_TV, in clock steps; a socket's own timeout is one step

VARIABLES sk,       \* the sockets
          timer,    \* TimerInfo: set, the next identifier, the subscribers
          writes,   \* DeferredWrites: by_fd, deadlines, timer_id
          now,
          early     \* a deferred write was cut off before its time (ghost)

vars == <<sk, timer, writes, now, early>>

Socks == Tcp \cup Udp
NoId  == -1
Writes == "writes"
NoTimer == [on |-> FALSE, next |-> 0, subs |-> <<>>]
NoWrites == [by_fd |-> <<>>, deadlines |-> {}, timer_id |-> NoId]
Gone == [fd |-> 0, timeout |-> FALSE, sub |-> NoId, ts |-> 0, manager |-> FALSE, out |-> FALSE]

Init == /\ sk = [s \in Socks |-> Gone]
        /\ timer = NoTimer /\ writes = NoWrites /\ now = 0 /\ early = FALSE

Alive(s) == sk[s].fd # 0
Taken == {sk[s].fd : s \in Socks} \cup DOMAIN writes.by_fd
Free  == Fds \ Taken
NewFd == CHOOSE f \in Free : \A g \in Free : f <= g
Without(f, x) == [y \in DOMAIN f \ {x} |-> f[y]]

-----------------------------------------------------------------------------
(* socket_manager_timer_unsubscribe *)
Unsubscribed(t, id) ==
  LET left == Without(t.subs, id)
  IN  IF ~t.on THEN t ELSE IF left = <<>> THEN NoTimer ELSE [t EXCEPT !.subs = left]

(* SocketManager::timer_subscribe; the identifier is the old t.next.       *)
timer_subscribe(t, who) ==
  [on |-> TRUE, next |-> t.next + 1, subs |-> (t.next :> who) @@ t.subs]

(* tcp_socket_update_timeout, on creation and on every read and write, and *)
(* connect_continue's use of it.  The identifier of a socket is not        *)
(* forgotten when its timeout is switched off.                             *)
Updated(s, x, t) ==
  IF ~x.manager THEN [x |-> x, t |-> t]
  ELSE LET u == IF x.sub # NoId THEN Unsubscribed(t, x.sub) ELSE t
       IN  IF x.timeout
           THEN [x |-> [x EXCEPT !.sub = u.next, !.ts = now + 1], t |-> timer_subscribe(u, s)]
           ELSE [x |-> x, t |-> u]

Update(s, x) == LET r == Updated(s, x, timer)
                IN  /\ r.t.next <= MaxSub
                    /\ sk' = [sk EXCEPT ![s] = r.x] /\ timer' = r.t
                    /\ UNCHANGED <<writes, now, early>>

New == [Gone EXCEPT !.fd = NewFd, !.timeout = TRUE, !.manager = TRUE]

(* tcp_socket_connect and tcp_socket_acquire_fd *)
TcpOpen(s) == s \in Tcp /\ ~Alive(s) /\ Free # {} /\ Update(s, New)

(* tcp_socket_write and on_read; a write leaves data to send.              *)
TcpActivity(s, out) == s \in Tcp /\ Alive(s) /\ Update(s, [sk[s] EXCEPT !.out = out])

tcp_socket_set_timeout(s, on) ==
  s \in Tcp /\ Alive(s) /\ sk[s].timeout # on /\ Update(s, [sk[s] EXCEPT !.timeout = on])

(* The pause of a TLS handshake (do_handshake) and its continuation by the *)
(* owner that takes the connection over (tcp_socket_connect_continue).     *)
PauseTls(s) ==
  /\ s \in Tcp /\ Alive(s) /\ sk[s].manager
  /\ timer' = IF sk[s].sub # NoId THEN Unsubscribed(timer, sk[s].sub) ELSE timer
  /\ sk' = [sk EXCEPT ![s].manager = FALSE]
  /\ UNCHANGED <<writes, now, early>>

tcp_socket_connect_continue(s) ==
  s \in Tcp /\ Alive(s) /\ ~sk[s].manager /\ Update(s, [sk[s] EXCEPT !.manager = TRUE])

(* udp_socket_create_inner subscribes once; traffic only moves the time.   *)
udp_socket_create(s, timeout) ==
  s \in Udp /\ ~Alive(s) /\ Free # {} /\ Update(s, [New EXCEPT !.timeout = timeout])

UdpActivity(s) == /\ s \in Udp /\ Alive(s)
                  /\ sk' = [sk EXCEPT ![s].ts = IF sk[s].timeout THEN now + 1 ELSE 0]
                  /\ UNCHANGED <<timer, writes, now, early>>

udp_socket_set_timeout(s) == s \in Udp /\ Alive(s) /\ Update(s, [sk[s] EXCEPT !.timeout = TRUE])

-----------------------------------------------------------------------------
(* socket_manager_complete_write *)
LeftToManager(t, w, fd) ==
  LET first == w.timer_id = NoId
      w1 == [by_fd |-> (fd :> now + Linger) @@ w.by_fd,
             deadlines |-> w.deadlines \cup {<<now + Linger, fd>>},
             timer_id |-> IF first THEN t.next ELSE w.timer_id]
  IN  [w |-> w1, t |-> IF first THEN timer_subscribe(t, Writes) ELSE t]

(* Mutant: a destroyed socket stays subscribed. *)
Released_Keeps(t, s) == t

(* What both destructors do to the subscription.                           *)
Released(t, s) == IF sk[s].manager /\ sk[s].sub # NoId THEN Unsubscribed(t, sk[s].sub) ELSE t

(* tcp_socket_destroy, with RST or with nothing to send, and otherwise     *)
(* with the rest of the data left to the manager.                          *)
tcp_socket_destroy(s, rst) ==
  /\ s \in Tcp /\ Alive(s)
  /\ sk' = [sk EXCEPT ![s] = Gone]
  /\ IF rst \/ ~sk[s].out \/ ~sk[s].manager
     THEN timer' = Released(timer, s) /\ UNCHANGED writes
     ELSE LET r == LeftToManager(Released(timer, s), writes, sk[s].fd)
          IN  r.t.next <= MaxSub /\ timer' = r.t /\ writes' = r.w
  /\ UNCHANGED <<now, early>>

udp_socket_destroy(s) ==
  /\ s \in Udp /\ Alive(s)
  /\ sk' = [sk EXCEPT ![s] = Gone] /\ timer' = Released(timer, s)
  /\ UNCHANGED <<writes, now, early>>

(* remove_by_fd, then clear_writes when none is left.                      *)
Removed(w, t, S) ==
  LET left == [f \in DOMAIN w.by_fd \ S |-> w.by_fd[f]]
  IN  IF left # <<>> THEN [w |-> [w EXCEPT !.by_fd = left], t |-> t]
      ELSE [w |-> NoWrites,
            t |-> IF w.timer_id # NoId THEN Unsubscribed(t, w.timer_id) ELSE t]

(* free_after_flush and free_after_event: the data is out, or the          *)
(* connection has failed.                                                  *)
WriteEnds(f) ==
  /\ f \in DOMAIN writes.by_fd
  /\ LET r == Removed(writes, timer, {f}) IN writes' = r.w /\ timer' = r.t
  /\ UNCHANGED <<sk, now, early>>

(* deferred_write_timer_tick, as a subscriber of the timer.                *)
deferred_write_timer_tick ==
  /\ \E id \in DOMAIN timer.subs : timer.subs[id] = Writes
  /\ LET due == {d \in writes.deadlines : d[1] <= now}
         cut == {d[2] : d \in due} \cap DOMAIN writes.by_fd
         w == [writes EXCEPT !.deadlines = @ \ due]
         r == Removed(w, timer, cut)
     IN  /\ writes' = r.w /\ timer' = r.t
         /\ early' = (early \/ \E f \in cut : writes.by_fd[f] > now)
  /\ UNCHANGED <<sk, now>>

(* timer_callback of the manager, then of the socket: no activity since    *)
(* its time; the owner destroys the socket in the handler of the error.    *)
TimerTick(id) ==
  /\ id \in DOMAIN timer.subs /\ timer.subs[id] # Writes
  /\ LET s == timer.subs[id]
     IN  sk[s].ts < now /\ (tcp_socket_destroy(s, TRUE) \/ udp_socket_destroy(s))

(* socket_manager_complete_all, when the event loop is stopped (vpn_stop); *)
(* the sockets that are left, of the pinger, are destroyed after it.       *)
socket_manager_complete_all ==
  /\ writes' = NoWrites /\ timer' = NoTimer /\ sk' = [s \in Socks |-> Gone]
  /\ UNCHANGED <<now, early>>

TimePasses == /\ now < MaxTime /\ now' = now + 1
              /\ UNCHANGED <<sk, timer, writes, early>>

-----------------------------------------------------------------------------
Next ==
  \/ \E s \in Socks :
       \/ TcpOpen(s) \/ PauseTls(s) \/ tcp_socket_connect_continue(s)
       \/ udp_socket_set_timeout(s) \/ UdpActivity(s) \/ udp_socket_destroy(s)
       \/ \E b \in BOOLEAN : \/ TcpActivity(s, b) \/ tcp_socket_set_timeout(s, b)
                             \/ tcp_socket_destroy(s, b) \/ udp_socket_create(s, b)
  \/ \E f \in Fds : WriteEnds(f)
  \/ \E id \in 0..MaxSub : TimerTick(id)
  \/ deferred_write_timer_tick \/ socket_manager_complete_all \/ TimePasses

Spec == Init /\ [][Next]_vars

-----------------------------------------------------------------------------
(* The timer never calls into a destroyed socket: a subscriber is a live   *)
(* socket that knows its identifier, and each socket subscribes once.      *)
TicksReachLiveSockets ==
  \A id \in DOMAIN timer.subs :
    timer.subs[id] # Writes => /\ Alive(timer.subs[id])
                               /\ sk[timer.subs[id]].sub = id

(* A socket with a timeout is subscribed to the timer, so that inactivity  *)
(* is noticed.                                                             *)
(* Does not hold (tcp_socket.cpp:1238).                                    *)
ArmedIsSubscribed ==
  \A s \in Socks : Alive(s) /\ sk[s].timeout /\ sk[s].manager =>
    sk[s].sub \in DOMAIN timer.subs /\ timer.subs[sk[s].sub] = s

(* Data left to the manager is given the whole linger time.                *)
(* Does not hold.                                                          *)
LingerIsGranted == ~early
=============================================================================
