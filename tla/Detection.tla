----------------------------- MODULE Detection -----------------------------
(***************************************************************************)
(* ipoque_detection_process_packet: a packet of a flow is parsed, the      *)
(* connection is tracked, and the callbacks of one buffer are called in    *)
(* turn until the packet returns a verdict.                                *)
(*                                                                         *)
(* The model follows one flow between two hosts, and the flows that follow *)
(* it between the same hosts.  A packet arrives (header and tracking are   *)
(* one step), then each callback is one step, then the packet returns.     *)
(* Nothing comes between these steps: the logger has one capture thread.   *)
(*                                                                         *)
(* The dissectors are the constant Dissect, so what is said here of        *)
(* tracking holds for any of them.  Sequence numbers are kept modulo       *)
(* SeqMod; the history variable edge keeps, for each direction, the        *)
(* position in the stream that next_tcp_seq_nr stands for, without wrap.   *)
(***************************************************************************)
EXTENDS DpiRegistry

CONSTANTS
  Bitmasks,             \* the configurations, as sets of protocols
  Reconfigured(_),      \* those the application may change to from one
  Kinds(_),             \* the packets the hosts send under one
  Offsets(_),           \* where a packet may begin, relative to the edge
  Limit(_),             \* bound: packets with payload of a flow
  Span(_),              \* bound: positions of a stream
  Timers(_),            \* the time stamps that may grow old
  MaxFlows(_),          \* bound: flows between the hosts
  SeqMod,               \* 2^32: sequence numbers are 32 bits wide
  Window,               \* tcp_max_retransmission_window_size
  MAX_PACKET_COUNTER,
  ISN,                  \* the position at which each direction begins
  Dissect(_, _, _, _)   \* the dissector of a name, on a flow, a packet, a configuration

ASSUME SizesAssumption ==
  /\ SeqMod \in Nat \ {0} /\ Window \in Nat /\ Window < SeqMod
  /\ MAX_PACKET_COUNTER \in Nat \ {0}
  /\ ISN \in [0..1 -> Nat]

\* A packet has a layer 4 of its own, and none begins, or ends, half way round the
\* sequence numbers.
ASSUME InputsAssumption ==
  \A b \in Bitmasks :
    /\ Reconfigured(b) \subseteq Bitmasks
    /\ \A k \in Kinds(b) : k.len \in Nat /\ k.l4 # "any"
    /\ \A o \in Offsets(b) : o \in Int /\ Window - SeqMod < o
    /\ \A k \in Kinds(b), o \in Offsets(b) : o + k.len < SeqMod

VARIABLES
  configured,   \* detection_bitmask
  buffers,      \* the four specific callback buffers
  transport,    \* the transport protocol of the flow's key, "any" before its first packet
  conn,         \* the fields of the flow that tracking writes
  flow,         \* the fields that dissectors write, and the hosts'
  packet,       \* the packet in work
  saved,        \* the verdict with which its callbacks were chosen
  todo,         \* the callbacks still to be called for it
  phase,        \* "idle" or "dissect"
  result,       \* what the last packet returned
  flows,        \* flows begun so far
  edge          \* history: the first position not yet accounted for

vars == <<configured, buffers, transport, conn, flow, packet, saved, todo, phase, result, flows, edge>>

NoConn ==
  [init_finished |-> FALSE, setup_packet_direction |-> 0,
   next_tcp_seq_nr |-> [d \in 0..1 |-> 0], packet_counter |-> 0,
   packet_direction_counter |-> [d \in 0..1 |-> 0]]

NoPacket == [l4 |-> "none"]

-----------------------------------------------------------------------------
(* Tracking.                                                               *)

\* Both numbers zero stands for a connection whose numbers are not known.
Tracked(c) == \E d \in 0..1 : c.next_tcp_seq_nr[d] # 0

\* How far the packet begins before the number expected next, in 32 bits, and
\* how far behind it.
Ahead(c, p) == (p.seq - c.next_tcp_seq_nr[p.dir]) % SeqMod
Behind(c, p) == (c.next_tcp_seq_nr[p.dir] - p.seq) % SeqMod

\* A comparison without the wrap of 32 bits.
IsRetransmissionSigned(c, p) ==
  /\ IsTcp(p) /\ Tracked(c) /\ p.len > 0
  /\ p.seq < c.next_tcp_seq_nr[p.dir]

IsRetransmission(c, p) ==
  /\ IsTcp(p) /\ Tracked(c) /\ p.len > 0
  /\ Ahead(c, p) > Window

\* A retransmission that also brings new bytes.
IsRetried(c, p) == IsRetransmission(c, p) /\ Behind(c, p) < p.len

\* NextSeq that leaves a partial retransmission out.
NextSeqNoRetry(c, p) ==
  LET next == c.next_tcp_seq_nr
      end == (p.seq + p.len) % SeqMod
  IN IF ~ IsTcp(p) THEN next
     ELSE IF p.rst THEN [d \in 0..1 |-> 0]
     ELSE IF ~ Tracked(c)
     THEN IF p.seq # 0 /\ p.ack_seq # 0
          THEN [d \in 0..1 |-> IF d = p.dir THEN end ELSE p.ack_seq] ELSE next
     ELSE IF p.len > 0 /\ ~ IsRetransmission(c, p)
     THEN [next EXCEPT ![p.dir] = end]
     ELSE next

NextSeq(c, p) ==
  LET next == c.next_tcp_seq_nr
      end == (p.seq + p.len) % SeqMod
  IN IF ~ IsTcp(p) THEN next
     ELSE IF p.rst THEN [d \in 0..1 |-> 0]
     ELSE IF ~ Tracked(c)
     THEN IF p.seq # 0 /\ p.ack_seq # 0
          THEN [d \in 0..1 |-> IF d = p.dir THEN end ELSE p.ack_seq] ELSE next
     ELSE IF p.len > 0 /\ (~ IsRetransmission(c, p) \/ IsRetried(c, p))
     THEN [next EXCEPT ![p.dir] = end]
     ELSE next

\* A counter that stays at its limit.
Count(n, p) == IF n < MAX_PACKET_COUNTER /\ p.len > 0 THEN n + 1 ELSE n

\* Tracking that counts empty packets in their direction.
TrackingCountsEmpty(c, p) ==
  [init_finished |-> TRUE,
   setup_packet_direction |-> IF c.init_finished THEN c.setup_packet_direction ELSE p.dir,
   next_tcp_seq_nr |-> NextSeq(c, p),
   packet_counter |-> Count(c.packet_counter, p),
   packet_direction_counter |->
     [c.packet_direction_counter EXCEPT ![p.dir] = IF @ < MAX_PACKET_COUNTER THEN @ + 1 ELSE @]]

ipoque_connection_tracking(c, p) ==
  [init_finished |-> TRUE,
   setup_packet_direction |-> IF c.init_finished THEN c.setup_packet_direction ELSE p.dir,
   next_tcp_seq_nr |-> NextSeq(c, p),
   packet_counter |-> Count(c.packet_counter, p),
   packet_direction_counter |-> [c.packet_direction_counter EXCEPT ![p.dir] = Count(@, p)]]

\* The edge, from positions alone: a packet beyond the window is not believed.
NextEdge(c, p) ==
  IF ~ IsTcp(p) \/ p.rst THEN edge
  ELSE IF ~ Tracked(c)
  THEN IF p.seq # 0 /\ p.ack_seq # 0
       THEN [d \in 0..1 |-> IF d = p.dir THEN p.pos + p.len ELSE p.acked] ELSE edge
  ELSE IF p.len > 0 /\ p.pos + p.len > edge[p.dir] /\ p.pos <= edge[p.dir] + Window
  THEN [edge EXCEPT ![p.dir] = p.pos + p.len]
  ELSE edge

-----------------------------------------------------------------------------
(* A packet.                                                               *)

\* Kind k of direction d at position pos.  A packet without ACK has no number to
\* acknowledge.  For the properties it carries the edge it meets, and whether its
\* number is compared with what is known (judged).
PacketOf(k, d, pos) ==
  LET acked == IF k.ack THEN edge[1 - d] ELSE 0
  IN [l4 |-> k.l4, dir |-> d, has |-> k.has, len |-> k.len, id |-> k.id, num |-> k.num,
      syn |-> k.syn, ack |-> k.ack, rst |-> k.rst,
      pos |-> pos, seq |-> pos % SeqMod, acked |-> acked, ack_seq |-> acked % SeqMod,
      edge |-> edge[d], judged |-> FALSE, retransmission |-> FALSE, retried |-> FALSE]

\* The bits of ipq_selection_packet.
Selection(p, retransmission) ==
  {"COMPLETE_TRAFFIC", "IP", "IPV4_OR_IPV6"}
    \cup (IF IsTcp(p) THEN {"INT_TCP", "INT_TCP_OR_UDP"} ELSE {})
    \cup (IF IsUdp(p) THEN {"INT_UDP", "INT_TCP_OR_UDP"} ELSE {})
    \cup (IF p.len > 0 THEN {"HAS_PAYLOAD"} ELSE {})
    \cup (IF retransmission THEN {} ELSE {"NO_TCP_RETRANSMISSION"})

BufferOf(p) ==
  IF IsTcp(p) THEN IF p.len > 0 THEN buffers.tcp_payload ELSE buffers.tcp_no_payload
  ELSE IF IsUdp(p) THEN buffers.udp ELSE buffers.non_tcp_udp

\* A first SYN on a flow nothing is known of: the flow begins again.
IsReset(p) ==
  IsTcp(p) /\ p.syn /\ ~ p.ack /\ conn.init_finished /\ flow.detected = UNKNOWN

\* The header is complete.  The verdict on the flow is the packet's to begin with,
\* and chooses the callbacks; it is not looked at again between them.
Arrive(k, d, o) ==
  LET p == PacketOf(k, d, edge[d] + o)
      c == IF IsReset(p) THEN NoConn ELSE conn
      f == IF IsReset(p) THEN EmptyFlow(flow.seen, flow.fresh, flow.ports) ELSE flow
      again == IsRetransmission(c, p)
      offered(e) == /\ e.selection \subseteq Selection(p, again)
                    /\ f.detected \in e.detection
  IN /\ phase = "idle" /\ k.whole
     /\ transport \in {"any", k.l4} /\ transport' = k.l4
     /\ k.len > 0 => c.packet_counter < Limit(configured)
     /\ p.pos >= ISN[d] /\ p.pos + p.len <= ISN[d] + Span(configured)
     /\ conn' = ipoque_connection_tracking(c, p)
     /\ flow' = [f EXCEPT !.marked = f.detected]
     /\ saved' = f.detected
     /\ packet' = [p EXCEPT !.retransmission = again, !.retried = IsRetried(c, p),
                             !.judged = IsTcp(p) /\ Tracked(c) /\ p.len > 0]
     /\ todo' = Without(BufferOf(p), {e \in Members(BufferOf(p)) : ~ offered(e)})
     /\ phase' = "dissect"
     /\ edge' = NextEdge(c, p)
     /\ UNCHANGED <<configured, buffers, result, flows>>

\* Fewer than 20 bytes, not IPv4, a fragment or a length that does not fit; or a
\* tcp or udp packet without a flow.
Refuse(k) ==
  /\ phase = "idle" /\ ~ k.whole
  /\ result' = UNKNOWN
  /\ UNCHANGED <<configured, buffers, transport, conn, flow, packet, saved, todo, phase, flows, edge>>

\* What a dissector is given: its own fields, and what tracking knows.
View ==
  [detected |-> flow.detected, marked |-> flow.marked, excluded |-> flow.excluded,
   stage |-> flow.stage, memo |-> flow.memo, commands |-> flow.commands, seen |-> flow.seen,
   fresh |-> flow.fresh, ports |-> flow.ports, packet_counter |-> conn.packet_counter,
   packet_direction_counter |-> conn.packet_direction_counter,
   setup_packet_direction |-> conn.setup_packet_direction]

\* Callable that also looks at the verdict anew.
CallableIfStillOpen(e) == flow.excluded \cap e.excluded = {} /\ flow.marked \in e.detection

\* Exclusions are read anew before each callback.
Callable(e) == flow.excluded \cap e.excluded = {}

Call ==
  /\ phase = "dissect" /\ todo # <<>>
  /\ Callable(Head(todo))
  /\ LET f == Dissect(Head(todo).func, View, packet, configured)
     IN flow' = [x \in DOMAIN flow |-> f[x]]
  /\ todo' = Tail(todo)
  /\ UNCHANGED <<configured, buffers, transport, conn, packet, saved, phase, result, flows, edge>>

Skip ==
  /\ phase = "dissect" /\ todo # <<>>
  /\ ~ Callable(Head(todo))
  /\ todo' = Tail(todo)
  /\ UNCHANGED <<configured, buffers, transport, conn, flow, packet, saved, phase, result, flows, edge>>

\* A protocol that is not configured is not reported.
Return ==
  /\ phase = "dissect" /\ todo = <<>>
  /\ result' = IF flow.marked \in configured THEN flow.marked ELSE UNKNOWN
  /\ packet' = NoPacket
  /\ saved' = UNKNOWN
  /\ phase' = "idle"
  /\ UNCHANGED <<configured, buffers, transport, conn, flow, todo, flows, edge>>

-----------------------------------------------------------------------------
(* The application.                                                        *)

\* ipoque_set_protocol_detection_bitmask2: flows in progress stay as they are.
SetBitmask(b) ==
  /\ phase = "idle"
  /\ configured' = b
  /\ buffers' = Buffers(b)
  /\ UNCHANGED <<transport, conn, flow, packet, saved, todo, phase, result, flows, edge>>

\* The next flow between the two hosts.
NewFlow ==
  /\ phase = "idle" /\ flows < MaxFlows(configured) /\ conn.init_finished
  /\ flows' = flows + 1
  /\ transport' = "any"
  /\ conn' = NoConn
  /\ flow' = EmptyFlow(flow.seen, flow.fresh, flow.ports)
  /\ result' = UNKNOWN
  /\ edge' = ISN
  /\ UNCHANGED <<configured, buffers, packet, saved, todo, phase>>

\* A time stamp of a host grows older than its timeout.
Expire(d, t) ==
  /\ phase = "idle" /\ t \in flow.fresh[d]
  /\ flow' = [flow EXCEPT !.fresh[d] = @ \ {t}]
  /\ UNCHANGED <<configured, buffers, transport, conn, packet, saved, todo, phase, result, flows, edge>>

\* ipoque_init_detection_module, and the first configuration.
Init ==
  /\ configured \in Bitmasks
  /\ buffers = Buffers(configured)
  /\ transport = "any"
  /\ conn = NoConn
  /\ flow = EmptyFlow([d \in 0..1 |-> {}], [d \in 0..1 |-> {}], [d \in 0..1 |-> {}])
  /\ packet = NoPacket
  /\ saved = UNKNOWN
  /\ todo = <<>>
  /\ phase = "idle"
  /\ result = UNKNOWN
  /\ flows = 1
  /\ edge = ISN

Next ==
  \/ \E k \in Kinds(configured), d \in 0..1, o \in Offsets(configured) : Arrive(k, d, o)
  \/ \E k \in Kinds(configured) : Refuse(k)
  \/ Call
  \/ Skip
  \/ Return
  \/ \E b \in Reconfigured(configured) : SetBitmask(b)
  \/ NewFlow
  \/ \E d \in 0..1, t \in Timers(configured) : Expire(d, t)

Spec == Init /\ [][Next]_vars

-----------------------------------------------------------------------------
(* Properties of tracking, whatever the dissectors do.                     *)

Conns ==
  [init_finished : BOOLEAN, setup_packet_direction : 0..1,
   next_tcp_seq_nr : [0..1 -> 0..(SeqMod - 1)], packet_counter : 0..MAX_PACKET_COUNTER,
   packet_direction_counter : [0..1 -> 0..MAX_PACKET_COUNTER]]

\* The type of what ipq_main.c itself writes: sequence numbers stay within their
\* width and counters within MAX_PACKET_COUNTER.
TypeOK ==
  /\ configured \in Bitmasks
  /\ conn \in Conns
  /\ edge \in [0..1 -> Nat]
  /\ phase \in {"idle", "dissect"}
  /\ phase = "idle" => todo = <<>>

\* ipoque_connection_tracking counts every packet with payload once in all and once
\* in its direction, through resets by a SYN and at the limit of the counters: the
\* patience and the turn-taking of the dissectors rest on both.
Counted ==
  LET in == conn.packet_direction_counter
  IN /\ \A d \in 0..1 : in[d] <= conn.packet_counter
     /\ conn.packet_counter <= in[0] + in[1]
     /\ conn.packet_counter < MAX_PACKET_COUNTER => conn.packet_counter = in[0] + in[1]

\* The 32 bit number expected next stands for the position behind all that was
\* accounted for, across a wrap, lost and partly repeated packets.
InStep == Tracked(conn) => \A d \in 0..1 : conn.next_tcp_seq_nr[d] = edge[d] % SeqMod

\* On a connection whose numbers are known, a packet is taken for a retransmission
\* exactly if it begins before the edge, or beyond the window behind it: reordered
\* and repeated data is kept from the dissectors, data after a small loss is not.
Judged ==
  packet # NoPacket /\ packet.judged =>
    (packet.retransmission <=> \/ packet.pos < packet.edge
                               \/ packet.pos > packet.edge + Window)
=============================================================================
