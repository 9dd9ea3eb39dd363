-------------------------- MODULE DetectionProofs --------------------------
(***************************************************************************)
(* Tracking is right for any dissectors, any packets and any widths: the   *)
(* counters, the 32 bit numbers expected next, and what is taken for a     *)
(* retransmission.                                                         *)
(*                                                                         *)
(* With the dissectors of lib/protocols, for any packets and any           *)
(* configuration: verdicts are kept, reported and followed, and none comes *)
(* without the evidence it takes.                                          *)
(***************************************************************************)
EXTENDS OpenDPI, NumberFacts, FiniteSetTheorems

-----------------------------------------------------------------------------
(* A packet and what is known of its connection.                           *)

\* What PacketOf makes of the inputs.
Packet(p) ==
  /\ p.dir \in 0..1 /\ p.len \in Nat /\ p.pos \in Nat /\ p.acked \in Nat
  /\ p.seq = p.pos % SeqMod /\ p.ack_seq = p.acked % SeqMod
  /\ Window - SeqMod < p.pos - edge[p.dir]
  /\ (p.pos - edge[p.dir]) + p.len < SeqMod

\* Counted and InStep of a connection.
CountedIn(c) ==
  LET in == c.packet_direction_counter
  IN /\ \A d \in 0..1 : in[d] <= c.packet_counter
     /\ c.packet_counter <= in[0] + in[1]
     /\ c.packet_counter < MAX_PACKET_COUNTER => c.packet_counter = in[0] + in[1]

InStepIn(c, e) == Tracked(c) => \A d \in 0..1 : c.next_tcp_seq_nr[d] = e[d] % SeqMod

\* The sizes, apart from the two directions.
LEMMA Sizes ==
  /\ SeqMod \in Nat \ {0} /\ Window \in Nat /\ Window < SeqMod
  /\ MAX_PACKET_COUNTER \in Nat \ {0} /\ ISN \in [0..1 -> Nat]
  BY SizesAssumption

\* ModSub for sequence numbers.
LEMMA SeqSub == \A a, b \in Int : ((a % SeqMod) - (b % SeqMod)) % SeqMod = (a - b) % SeqMod
<1> SUFFICES ASSUME NEW a \in Int, NEW b \in Int
             PROVE  ((a % SeqMod) - (b % SeqMod)) % SeqMod = (a - b) % SeqMod
  OBVIOUS
<1>1. SeqMod \in Nat \ {0}  BY Sizes
<1> QED  BY <1>1, ModSub

\* ModAdd for sequence numbers.
LEMMA SeqAdd == \A a, b \in Int : ((a % SeqMod) + b) % SeqMod = (a + b) % SeqMod
<1> SUFFICES ASSUME NEW a \in Int, NEW b \in Int
             PROVE  ((a % SeqMod) + b) % SeqMod = (a + b) % SeqMod
  OBVIOUS
<1>1. SeqMod \in Nat \ {0}  BY Sizes
<1> QED  BY <1>1, ModAdd

\* The comparison in 32 bits agrees with the positions in the stream.
LEMMA AheadOfEdge ==
  ASSUME NEW c, NEW p, Packet(p), edge \in [0..1 -> Nat], Tracked(c), InStepIn(c, edge)
  PROVE  Ahead(c, p) > Window <=> p.pos < edge[p.dir] \/ p.pos > edge[p.dir] + Window
<1> DEFINE o == p.pos - edge[p.dir]
<1>1. edge[p.dir] \in Nat /\ p.pos \in Nat /\ p.len \in Nat  BY DEF Packet
<1>2. o \in Int /\ -SeqMod < o /\ o < SeqMod /\ Window - SeqMod < o  BY <1>1, Sizes DEF Packet
<1>3. Ahead(c, p) = ((p.pos % SeqMod) - (edge[p.dir] % SeqMod)) % SeqMod
  BY DEF Packet, InStepIn, Ahead
<1>4. ((p.pos % SeqMod) - (edge[p.dir] % SeqMod)) % SeqMod = o % SeqMod
  <2>1. edge[p.dir] \in Int /\ p.pos \in Int  BY <1>1
  <2> QED  BY <2>1, SeqSub
<1> HIDE DEF o
<1>5. o % SeqMod = IF o < 0 THEN o + SeqMod ELSE o  BY <1>2, Sizes, ModSmall
<1>6. Ahead(c, p) > Window <=> o < 0 \/ o > Window  BY <1>2, <1>3, <1>4, <1>5, Sizes
<1> QED  BY <1>1, <1>6, Sizes DEF o

\* How far a packet begins before the edge, in 32 bits, is less than its length exactly
\* if it brings new bytes.
LEMMA BehindEdge ==
  ASSUME NEW c, NEW p, Packet(p), edge \in [0..1 -> Nat], Tracked(c), InStepIn(c, edge),
         p.pos < edge[p.dir] \/ p.pos > edge[p.dir] + Window
  PROVE  Behind(c, p) < p.len <=> p.pos < edge[p.dir] /\ p.pos + p.len > edge[p.dir]
<1> DEFINE o == edge[p.dir] - p.pos
<1>1. edge[p.dir] \in Nat /\ p.pos \in Nat /\ p.len \in Nat  BY DEF Packet
<1>2. o \in Int /\ -SeqMod < o /\ o < SeqMod /\ p.len - o < SeqMod /\ o # 0
  BY <1>1, Sizes DEF Packet
<1>3. Behind(c, p) = ((edge[p.dir] % SeqMod) - (p.pos % SeqMod)) % SeqMod
  BY DEF Packet, InStepIn, Behind
<1>4. ((edge[p.dir] % SeqMod) - (p.pos % SeqMod)) % SeqMod = o % SeqMod
  <2>1. edge[p.dir] \in Int /\ p.pos \in Int  BY <1>1
  <2> QED  BY <2>1, SeqSub
<1> HIDE DEF o
<1>5. o % SeqMod = IF o < 0 THEN o + SeqMod ELSE o  BY <1>2, Sizes, ModSmall
<1>6. Behind(c, p) < p.len <=> o > 0 /\ o < p.len  BY <1>1, <1>2, <1>3, <1>4, <1>5, Sizes
<1> QED  BY <1>1, <1>6 DEF o

-----------------------------------------------------------------------------
(* One packet.                                                             *)

\* Counting keeps to the limit.
LEMMA CountType ==
  ASSUME NEW n \in 0..MAX_PACKET_COUNTER, NEW p
  PROVE  Count(n, p) \in 0..MAX_PACKET_COUNTER
  BY Sizes DEF Count

\* The numbers expected next stay within their width.
LEMMA NextSeqType ==
  ASSUME NEW c \in Conns, NEW p, Packet(p)
  PROVE  NextSeq(c, p) \in [0..1 -> 0..(SeqMod - 1)]
<1>1. c.next_tcp_seq_nr \in [0..1 -> 0..(SeqMod - 1)]  BY DEF Conns
<1>2. \A a \in Int : a % SeqMod \in 0..(SeqMod - 1)
  <2> SUFFICES ASSUME NEW a \in Int PROVE a % SeqMod \in 0..(SeqMod - 1)  OBVIOUS
  <2>1. SeqMod \in Nat \ {0}  BY Sizes
  <2> QED  BY <2>1, DivMod
<1>3. p.seq \in 0..(SeqMod - 1) /\ p.ack_seq \in 0..(SeqMod - 1) /\ p.dir \in 0..1 /\ p.len \in Nat
  <2>1. p.pos \in Int /\ p.acked \in Int  BY DEF Packet
  <2> QED  BY <1>2, <2>1 DEF Packet
<1> DEFINE end == (p.seq + p.len) % SeqMod
<1>4. end \in 0..(SeqMod - 1)
  <2>1. p.seq + p.len \in Int  BY <1>3
  <2> QED  BY <2>1, <1>2
<1>5. 0 \in 0..(SeqMod - 1)  BY Sizes
<1> HIDE DEF end
<1>6. [d \in 0..1 |-> IF d = p.dir THEN end ELSE p.ack_seq] \in [0..1 -> 0..(SeqMod - 1)]
  BY <1>3, <1>4
<1>7. [c.next_tcp_seq_nr EXCEPT ![p.dir] = end] \in [0..1 -> 0..(SeqMod - 1)]  BY <1>1, <1>3, <1>4
<1>8. [d \in 0..1 |-> 0] \in [0..1 -> 0..(SeqMod - 1)]  BY <1>5
<1> QED  BY <1>1, <1>6, <1>7, <1>8 DEF NextSeq, end

\* Tracking keeps the type of a connection,
LEMMA TrackingType ==
  ASSUME NEW c \in Conns, NEW p, Packet(p)
  PROVE  ipoque_connection_tracking(c, p) \in Conns
<1>1. NextSeq(c, p) \in [0..1 -> 0..(SeqMod - 1)]  BY NextSeqType
<1>2. Count(c.packet_counter, p) \in 0..MAX_PACKET_COUNTER  BY CountType DEF Conns
<1>3. \A n \in 0..MAX_PACKET_COUNTER : Count(n, p) \in 0..MAX_PACKET_COUNTER  BY CountType
<1>4. [c.packet_direction_counter EXCEPT ![p.dir] = Count(@, p)]
        \in [0..1 -> 0..MAX_PACKET_COUNTER]
  BY <1>3 DEF Conns, Packet
<1>5. (IF c.init_finished THEN c.setup_packet_direction ELSE p.dir) \in 0..1  BY DEF Conns, Packet
<1> QED  BY <1>1, <1>2, <1>4, <1>5 DEF Conns, ipoque_connection_tracking

\* its counters,
LEMMA TrackingCounted ==
  ASSUME NEW c \in Conns, NEW p, Packet(p), CountedIn(c)
  PROVE  CountedIn(ipoque_connection_tracking(c, p))
<1> DEFINE n == c.packet_counter
           in == c.packet_direction_counter
           m == Count(n, p)
           out == [in EXCEPT ![p.dir] = Count(@, p)]
<1>1. n \in 0..MAX_PACKET_COUNTER /\ in \in [0..1 -> 0..MAX_PACKET_COUNTER]  BY DEF Conns
<1>2. p.dir \in 0..1 /\ p.len \in Nat  BY DEF Packet
<1>3. /\ ipoque_connection_tracking(c, p).packet_counter = m
      /\ ipoque_connection_tracking(c, p).packet_direction_counter = out
  BY DEF ipoque_connection_tracking
<1>4. /\ in[0] <= n /\ in[1] <= n /\ n <= in[0] + in[1]
      /\ n < MAX_PACKET_COUNTER => n = in[0] + in[1]
  BY DEF CountedIn
<1>5. /\ in[0] \in 0..MAX_PACKET_COUNTER /\ in[1] \in 0..MAX_PACKET_COUNTER
  BY <1>1
<1>6. CASE p.dir = 0
  <2>1. out[0] = Count(in[0], p) /\ out[1] = in[1]  BY <1>1, <1>6
  <2> QED  BY <1>1, <1>2, <1>3, <1>4, <1>5, <2>1, Sizes DEF CountedIn, Count
<1>7. CASE p.dir = 1
  <2>1. out[1] = Count(in[1], p) /\ out[0] = in[0]  BY <1>1, <1>7
  <2> QED  BY <1>1, <1>2, <1>3, <1>4, <1>5, <2>1, Sizes DEF CountedIn, Count
<1> QED  BY <1>2, <1>6, <1>7

\* the edge a position,
LEMMA EdgeType ==
  ASSUME NEW c, NEW p, Packet(p), edge \in [0..1 -> Nat]
  PROVE  NextEdge(c, p) \in [0..1 -> Nat]
  BY DEF NextEdge, Packet

\* and the numbers in step with the edge.
LEMMA TrackingInStep ==
  ASSUME NEW c \in Conns, NEW p, Packet(p), edge \in [0..1 -> Nat], InStepIn(c, edge)
  PROVE  InStepIn(ipoque_connection_tracking(c, p), NextEdge(c, p))
<1> DEFINE t == ipoque_connection_tracking(c, p)
           next == c.next_tcp_seq_nr
           end == (p.seq + p.len) % SeqMod
<1>1. t.next_tcp_seq_nr = NextSeq(c, p)  BY DEF ipoque_connection_tracking
<1>2. /\ p.dir \in 0..1 /\ p.pos \in Int /\ p.len \in Int /\ p.len \in Nat
      /\ next \in [0..1 -> 0..(SeqMod - 1)]
  BY DEF Packet, Conns
<1>3. end = (p.pos + p.len) % SeqMod  BY <1>2, SeqAdd DEF Packet
<1>4. p.ack_seq = p.acked % SeqMod  BY DEF Packet
<1> HIDE DEF end
<1>5. CASE ~ IsTcp(p)
  <2>1. NextSeq(c, p) = next /\ NextEdge(c, p) = edge  BY <1>5 DEF NextSeq, NextEdge
  <2> QED  BY <1>1, <2>1 DEF InStepIn, Tracked
<1>6. CASE IsTcp(p) /\ p.rst
  <2>1. NextSeq(c, p) = [d \in 0..1 |-> 0]  BY <1>6 DEF NextSeq
  <2> QED  BY <1>1, <2>1 DEF InStepIn, Tracked
<1>7. CASE IsTcp(p) /\ ~ p.rst /\ ~ Tracked(c)
  <2>1. CASE p.seq # 0 /\ p.ack_seq # 0
    <3>1. NextSeq(c, p) = [d \in 0..1 |-> IF d = p.dir THEN end ELSE p.ack_seq]
      BY <1>7, <2>1 DEF NextSeq, end
    <3>2. NextEdge(c, p) = [d \in 0..1 |-> IF d = p.dir THEN p.pos + p.len ELSE p.acked]
      BY <1>7, <2>1 DEF NextEdge
    <3> QED  BY <1>1, <1>3, <1>4, <3>1, <3>2 DEF InStepIn
  <2>2. CASE ~ (p.seq # 0 /\ p.ack_seq # 0)
    <3>1. NextSeq(c, p) = next  BY <1>7, <2>2 DEF NextSeq
    <3> QED  BY <1>1, <1>7, <3>1 DEF InStepIn, Tracked
  <2> QED  BY <2>1, <2>2
<1>8. CASE IsTcp(p) /\ ~ p.rst /\ Tracked(c)
  <2>1. \A d \in 0..1 : next[d] = edge[d] % SeqMod  BY <1>8 DEF InStepIn
  <2>2. IsRetransmission(c, p) <=>
          p.len > 0 /\ (p.pos < edge[p.dir] \/ p.pos > edge[p.dir] + Window)
    BY <1>8, AheadOfEdge DEF IsRetransmission
  <2>3. IsRetried(c, p) <=> p.len > 0 /\ p.pos < edge[p.dir] /\ p.pos + p.len > edge[p.dir]
    <3>1. CASE p.pos < edge[p.dir] \/ p.pos > edge[p.dir] + Window
      BY <1>8, <2>2, <3>1, BehindEdge DEF IsRetried
    <3>2. CASE ~ (p.pos < edge[p.dir] \/ p.pos > edge[p.dir] + Window)
      BY <2>2, <3>2 DEF IsRetried
    <3> QED  BY <3>1, <3>2
  <2> DEFINE moves == p.len > 0 /\ (~ IsRetransmission(c, p) \/ IsRetried(c, p))
  <2>4. moves <=> p.len > 0 /\ p.pos + p.len > edge[p.dir] /\ p.pos <= edge[p.dir] + Window
    <3>1. edge[p.dir] \in Nat  BY <1>2
    <3> QED  BY <1>2, <2>2, <2>3, <3>1, Sizes
  <2>5. NextSeq(c, p) = IF moves THEN [next EXCEPT ![p.dir] = end] ELSE next
    BY <1>8 DEF NextSeq, end
  <2>6. NextEdge(c, p) = IF moves THEN [edge EXCEPT ![p.dir] = p.pos + p.len] ELSE edge
    BY <1>8, <2>4 DEF NextEdge
  <2> HIDE DEF moves
  <2> QED  BY <1>1, <1>2, <1>3, <2>1, <2>5, <2>6 DEF InStepIn
<1> QED  BY <1>5, <1>6, <1>7, <1>8

-----------------------------------------------------------------------------
(* The invariant.  Judged rests on InStep, and InStep on the type of the   *)
(* edge; the four are inductive together.                                  *)

TrackingInv == TypeOK /\ Counted /\ InStep /\ Judged

\* A connection that has just begun.
LEMMA NoConnOK ==
  /\ NoConn \in Conns /\ CountedIn(NoConn) /\ ~ Tracked(NoConn)
  BY Sizes DEF NoConn, Conns, CountedIn, Tracked

LEMMA InitTracking == Init => TrackingInv
<1> SUFFICES ASSUME Init PROVE TrackingInv  OBVIOUS
<1> USE DEF Init
<1>1. TypeOK  BY NoConnOK, Sizes DEF TypeOK
<1>2. Counted  BY NoConnOK DEF Counted, CountedIn
<1>3. InStep  BY NoConnOK DEF InStep
<1>4. Judged  BY DEF Judged
<1> QED  BY <1>1, <1>2, <1>3, <1>4 DEF TrackingInv

\* The packet that arrives is tracked from a good connection, new or not.
LEMMA ArriveTracking ==
  ASSUME TrackingInv, NEW k \in Kinds(configured), NEW d \in 0..1, NEW o \in Offsets(configured),
         Arrive(k, d, o)
  PROVE  TrackingInv'
<1> DEFINE p == PacketOf(k, d, edge[d] + o)
           c == IF IsReset(p) THEN NoConn ELSE conn
<1>1. configured \in Bitmasks /\ conn \in Conns /\ edge \in [0..1 -> Nat]
  BY DEF TrackingInv, TypeOK
<1>2. /\ conn' = ipoque_connection_tracking(c, p) /\ edge' = NextEdge(c, p)
      /\ packet' = [p EXCEPT !.retransmission = IsRetransmission(c, p), !.retried = IsRetried(c, p),
                             !.judged = IsTcp(p) /\ Tracked(c) /\ p.len > 0]
      /\ phase' = "dissect" /\ configured' = configured
      /\ p.pos >= ISN[d]
  BY DEF Arrive
<1>3. /\ p.dir = d /\ p.len = k.len /\ p.pos = edge[d] + o /\ p.seq = p.pos % SeqMod
      /\ p.acked = (IF k.ack THEN edge[1 - d] ELSE 0) /\ p.ack_seq = p.acked % SeqMod
      /\ p.edge = edge[d]
  BY DEF PacketOf
<1>4. packet'.judged = (IsTcp(p) /\ Tracked(c) /\ p.len > 0)
  BY <1>2 DEF PacketOf
<1>5. packet'.retransmission = IsRetransmission(c, p) /\ packet'.pos = p.pos /\ packet'.edge = p.edge
  BY <1>2 DEF PacketOf
<1>6. /\ k.len \in Nat /\ o \in Int /\ Window - SeqMod < o /\ o + k.len < SeqMod
  BY <1>1, InputsAssumption
<1> HIDE DEF p
<1>7. Packet(p)
  <2>1. edge[d] \in Nat /\ edge[1 - d] \in Nat  BY <1>1
  <2>2. p.pos \in Nat
    <3>1. ISN[d] \in Nat  BY Sizes
    <3> QED  BY <1>2, <1>3, <1>6, <2>1, <3>1
  <2>3. p.acked \in Nat  BY <1>3, <2>1
  <2>4. p.pos - edge[p.dir] = o  BY <1>3, <1>6, <2>1
  <2> QED  BY <1>3, <1>6, <2>2, <2>3, <2>4 DEF Packet
<1>8. c \in Conns /\ CountedIn(c) /\ InStepIn(c, edge)
  <2>1. CountedIn(conn) /\ InStepIn(conn, edge)
    BY DEF TrackingInv, Counted, CountedIn, InStep, InStepIn
  <2>2. InStepIn(NoConn, edge)  BY NoConnOK DEF InStepIn
  <2> QED  BY <1>1, <2>1, <2>2, NoConnOK
<1> HIDE DEF c
<1>9. TypeOK'
  BY <1>1, <1>2, <1>7, <1>8, TrackingType, EdgeType DEF TypeOK
<1>10. Counted'
  <2>1. CountedIn(conn')  BY <1>2, <1>7, <1>8, TrackingCounted
  <2> QED  BY <2>1 DEF Counted, CountedIn
<1>11. InStep'
  <2>1. InStepIn(conn', edge')  BY <1>1, <1>2, <1>7, <1>8, TrackingInStep
  <2> QED  BY <2>1 DEF InStep, InStepIn, Tracked
<1>12. Judged'
  <2>1. SUFFICES ASSUME packet'.judged
                 PROVE  packet'.retransmission <=> \/ packet'.pos < packet'.edge
                                                   \/ packet'.pos > packet'.edge + Window
    BY DEF Judged
  <2>2. IsTcp(p) /\ Tracked(c) /\ p.len > 0  BY <1>4, <2>1
  <2>3. Ahead(c, p) > Window <=> p.pos < edge[p.dir] \/ p.pos > edge[p.dir] + Window
    BY <1>1, <1>7, <1>8, <2>2, AheadOfEdge
  <2> QED  BY <1>3, <1>5, <2>2, <2>3 DEF IsRetransmission
<1> QED  BY <1>9, <1>10, <1>11, <1>12 DEF TrackingInv

LEMMA NextTracking == TrackingInv /\ [Next]_vars => TrackingInv'
<1> SUFFICES ASSUME TrackingInv, [Next]_vars PROVE TrackingInv'  OBVIOUS
<1>1. ASSUME NEW k \in Kinds(configured), NEW d \in 0..1, NEW o \in Offsets(configured),
             Arrive(k, d, o)
      PROVE  TrackingInv'
  BY <1>1, ArriveTracking
<1>2. ASSUME NEW k \in Kinds(configured), Refuse(k) PROVE TrackingInv'
  BY <1>2 DEF Refuse, TrackingInv, TypeOK, Counted, InStep, Tracked, Judged
<1>3. CASE Call
  BY <1>3 DEF Call, TrackingInv, TypeOK, Counted, InStep, Tracked, Judged
<1>4. CASE Skip
  BY <1>4 DEF Skip, TrackingInv, TypeOK, Counted, InStep, Tracked, Judged
<1>5. CASE Return
  BY <1>5 DEF Return, TrackingInv, TypeOK, Counted, InStep, Tracked, Judged
<1>6. ASSUME NEW b \in Reconfigured(configured), SetBitmask(b) PROVE TrackingInv'
  <2>1. b \in Bitmasks  BY <1>6, InputsAssumption DEF TrackingInv, TypeOK
  <2> QED  BY <1>6, <2>1 DEF SetBitmask, TrackingInv, TypeOK, Counted, InStep, Tracked, Judged
<1>7. CASE NewFlow
  <2>1. conn' = NoConn /\ edge' = ISN /\ UNCHANGED <<configured, packet, todo, phase>>
    BY <1>7 DEF NewFlow
  <2>2. TypeOK'  BY <2>1, NoConnOK, Sizes DEF TrackingInv, TypeOK
  <2>3. Counted'  BY <2>1, NoConnOK DEF Counted, CountedIn
  <2>4. InStep'  BY <2>1, NoConnOK DEF InStep, Tracked
  <2>5. Judged'  BY <2>1 DEF TrackingInv, Judged
  <2> QED  BY <2>2, <2>3, <2>4, <2>5 DEF TrackingInv
<1>8. ASSUME NEW d \in 0..1, NEW t \in Timers(configured), Expire(d, t) PROVE TrackingInv'
  BY <1>8 DEF Expire, TrackingInv, TypeOK, Counted, InStep, Tracked, Judged
<1>9. CASE UNCHANGED vars
  BY <1>9 DEF vars, TrackingInv, TypeOK, Counted, InStep, Tracked, Judged
<1> QED  BY <1>1, <1>2, <1>3, <1>4, <1>5, <1>6, <1>7, <1>8, <1>9 DEF Next

LEMMA TrackingInvariant == Spec => []TrackingInv
  BY InitTracking, NextTracking, PTL DEF Spec

\* ipoque_connection_tracking keeps its numbers within their width and its counters
\* within MAX_PACKET_COUNTER, whatever the dissectors do.
THEOREM TrackingTyped == Spec => []TypeOK
<1>1. TrackingInv => TypeOK  BY DEF TrackingInv
<1> QED  BY <1>1, TrackingInvariant, PTL

\* packet_counter and the two direction counters count the same packets, through resets
\* and at their limit.
THEOREM TrackingCounts == Spec => []Counted
<1>1. TrackingInv => Counted  BY DEF TrackingInv
<1> QED  BY <1>1, TrackingInvariant, PTL

\* next_tcp_seq_nr stands for the end of what was seen, across wraps, loss and partial
\* retransmission.
THEOREM TrackingStaysInStep == Spec => []InStep
<1>1. TrackingInv => InStep  BY DEF TrackingInv
<1> QED  BY <1>1, TrackingInvariant, PTL

\* The unsigned comparison with the window takes for a retransmission exactly what begins
\* before the edge, or beyond the window.
THEOREM RetransmissionsJudged == Spec => []Judged
<1>1. TrackingInv => Judged  BY DEF TrackingInv
<1> QED  BY <1>1, TrackingInvariant, PTL

-----------------------------------------------------------------------------
(* What a dissector may do to a flow.                                      *)

\* The fields of a flow as View gives it to a dissector.
Fields == {"detected", "marked", "excluded", "stage", "memo", "commands", "seen", "fresh",
           "ports", "packet_counter", "packet_direction_counter", "setup_packet_direction"}

\* The stage fields.
Stages == DOMAIN Values

\* A flow as View gives it to a dissector.
IsFlow(f) ==
  /\ DOMAIN f = Fields
  /\ DOMAIN f.stage = Stages /\ DOMAIN f.memo = Memos /\ DOMAIN f.commands = {"smtp", "pop"}
  /\ DOMAIN f.seen = 0..1 /\ DOMAIN f.fresh = 0..1 /\ DOMAIN f.ports = 0..1

\* What is left alone by a dissector that keeps its own things in own.
Frame(f, g, own) ==
  /\ IsFlow(g)
  /\ \A d \in 0..1 : f.seen[d] \subseteq g.seen[d] /\ f.fresh[d] \subseteq g.fresh[d]
  /\ \A s \in Stages : s \notin own => g.stage[s] = f.stage[s]
  /\ \A m \in Memos : m \notin own => g.memo[m] = f.memo[m]
  /\ "pop" \notin own => g.commands.pop = f.commands.pop

\* The fields on which the verdicts that take several packets rest.
Guarded == {"ssh_stage", "vnc_stage", "ssl_stage", "steam_stage", "halflife2_stage",
            "usenet_stage", "tds_stage", "postgres_stage", "edk_stage", "rtp_stage1",
            "rtp_stage2", "aimini_stage", "i23v5_len1", "i23v5_len2", "i23v5_len3",
            "telnet_stage", "mail_imap_stage", "mail_pop_stage", "pop", "filetopia_stage", "ftp_stage"}

\* The fields that no such verdict rests on.
Free == (Stages \cup Memos) \ Guarded

\* A verdict is left alone; or is one of F, on the flow and on the packet.
Kept(f, g) == g.detected = f.detected /\ g.marked = f.marked
Found(f, g, F) == g.detected \in F /\ g.marked = g.detected
\* Exclusions are never taken back, and only those in X are added.
Excluded(f, g, X) == f.excluded \subseteq g.excluded /\ g.excluded \subseteq f.excluded \cup X
\* Only one dissector refreshes the time stamp of Direct Connect.
NotOurs(f, g) == \A d \in 0..1 : "directconnect" \in g.fresh[d] => "directconnect" \in f.fresh[d]

\* What a dissector may do that finds F, excludes X and has the fields own.
Touches(f, g, F, X, own) ==
  /\ Frame(f, g, own)
  /\ Kept(f, g) \/ Found(f, g, F)
  /\ Excluded(f, g, X)
  /\ NotOurs(f, g)

\* A dissector may leave the flow alone, and each thing it then does is allowed.
LEMMA Nothing ==
  ASSUME NEW f, IsFlow(f), NEW F, NEW X, NEW own
  PROVE  Touches(f, f, F, X, own)
  BY DEF Touches, Frame, Kept, Excluded, NotOurs

LEMMA ThenSet ==
  ASSUME NEW f, NEW g, NEW F, NEW X, NEW own, Touches(f, g, F, X, own), NEW s \in Stages \cap own, NEW v
  PROVE  Touches(f, Set(g, s, v), F, X, own)
  BY DEF Touches, Frame, Kept, Found, Excluded, NotOurs, IsFlow, Fields, Set

LEMMA ThenKeep ==
  ASSUME NEW f, NEW g, NEW F, NEW X, NEW own, Touches(f, g, F, X, own), NEW m \in Memos \cap own, NEW v
  PROVE  Touches(f, Keep(g, m, v), F, X, own)
  BY DEF Touches, Frame, Kept, Found, Excluded, NotOurs, IsFlow, Fields, Keep

LEMMA ThenMark ==
  ASSUME NEW f, NEW g, NEW F, NEW X, NEW own, Touches(f, g, F, X, own), NEW x \in F
  PROVE  Touches(f, Mark(g, x), F, X, own)
  BY DEF Touches, Frame, Kept, Found, Excluded, NotOurs, IsFlow, Fields, Mark

LEMMA ThenDetect ==
  ASSUME NEW f, NEW g, NEW F, NEW X, NEW own, Touches(f, g, F, X, own), NEW x \in F
  PROVE  Touches(f, Detect(g, x), F, X, own)
  BY DEF Touches, Frame, Kept, Found, Excluded, NotOurs, IsFlow, Fields, Detect, Mark

LEMMA ThenExclude ==
  ASSUME NEW f, NEW g, NEW F, NEW X, NEW own, Touches(f, g, F, X, own), NEW x \in X
  PROVE  Touches(f, Exclude(g, x), F, X, own)
  BY DEF Touches, Frame, Kept, Found, Excluded, NotOurs, IsFlow, Fields, Exclude

LEMMA ThenRefresh ==
  ASSUME NEW f, NEW g, NEW F, NEW X, NEW own, Touches(f, g, F, X, own), NEW hosts, NEW t,
         t # "directconnect"
  PROVE  Touches(f, Refresh(g, hosts, t), F, X, own)
  BY DEF Touches, Frame, Kept, Found, Excluded, NotOurs, IsFlow, Fields, Refresh

LEMMA ThenOneLook ==
  ASSUME NEW f, NEW g, NEW F, NEW X, NEW own, Touches(f, g, F, X, own),
         NEW x \in F \cap X, NEW found
  PROVE  Touches(f, OneLook(g, found, x), F, X, own)
  BY ThenDetect, ThenExclude DEF OneLook

LEMMA ThenTwoSided ==
  ASSUME NEW f, NEW F, NEW X, NEW own, IsFlow(f), NEW x \in F \cap X, NEW s \in Stages \cap own,
         NEW p, NEW opening, NEW answer
  PROVE  Touches(f, TwoSided(f, p, x, s, opening, answer), F, X, own)
  BY Nothing, ThenDetect, ThenExclude, ThenSet DEF TwoSided

\* Which fields are free, and which are guarded.
LEMMA FreeStages ==
  {"irc_stage", "irc_stage2", "irc_3a_counter", "irc_direction", "irc_0x1000_full",
   "irc_ssl_min_number_of_packet", "bittorrent_stage", "winmx_stage",
   "directconnect_stage", "soulseek_stage", "snmp_stage", "manolito_stage",
   "battlefield_stage", "sip_yahoo_voice", "gadugadu_stage", "imesh_stage",
   "http_setup_dir", "http_stage", "server_direction", "http_empty_line_seen",
   "http_detected", "flash_stage", "gnutella_stage", "mms_stage",
   "yahoo_detection_finished", "yahoo_http_proxy_stage", "pplive_stage", "msn_stage",
   "msn_ssl_ft", "zattoo_stage", "ppstream_stage", "feidian_stage", "qq_ssl_stage",
   "qq_stage", "thunder_stage", "oscar_stage", "ddlink_server_direction", "tftp_stage",
   "xbox_stage", "oscar_video_voice"}
     \subseteq Stages \cap Free
  BY DEF Stages, Values, Free, Guarded

LEMMA FreeMemos ==
  {"snmp_msg_id", "battlefield_msg_id", "tds_login_version", "flash_bytes",
   "rtp_payload_type", "rtp_ssid0", "rtp_ssid1", "rtp_seqnum0", "rtp_seqnum1",
   "pplive_next_packet_size0", "pplive_next_packet_size1"}
     \subseteq Memos \cap Free
  BY DEF Memos, Free, Guarded

LEMMA GuardedStages ==
  {"rtp_stage1", "rtp_stage2", "edk_stage", "filetopia_stage", "tds_stage", "usenet_stage",
   "ssh_stage", "vnc_stage", "steam_stage", "telnet_stage", "halflife2_stage", "ssl_stage",
   "postgres_stage", "mail_pop_stage", "mail_imap_stage", "aimini_stage", "ftp_stage"}
     \subseteq Stages
  BY DEF Stages, Values

LEMMA GuardedMemos == {"i23v5_len1", "i23v5_len2", "i23v5_len3"} \subseteq Memos
  BY DEF Memos

-----------------------------------------------------------------------------
(* What each dissector does.                                               *)

\* Services decided by one look.
LEMMA ServicesTouch ==
  ASSUME NEW f, IsFlow(f), NEW p, NEW own
  PROVE  /\ Touches(f, search_pcanywhere(f, p), {"PCANYWHERE"}, {"PCANYWHERE"}, own)
         /\ Touches(f, search_rdp(f, p), {"RDP"}, {"RDP"}, own)
         /\ Touches(f, search_bgp(f, p), {"BGP"}, {"BGP"}, own)
         /\ Touches(f, search_smb_tcp(f, p), {"SMB"}, {"SMB"}, own)
         /\ Touches(f, search_dhcp_udp(f, p), {"DHCP"}, {"DHCP"}, own)
         /\ Touches(f, search_ssdp(f, p), {"SSDP"}, {"SSDP"}, own)
         /\ Touches(f, search_ntp_udp(f, p), {"NTP"}, {"NTP"}, own)
         /\ Touches(f, search_mysql_tcp(f, p), {"MYSQL"}, {"MYSQL"}, own)
         /\ Touches(f, search_afp(f, p), {"AFP"}, {"AFP"}, own)
         /\ Touches(f, search_nfs(f, p), {"NFS"}, {"NFS"}, own)
         /\ Touches(f, search_xdmcp(f, p), {"XDMCP"}, {"XDMCP"}, own)
         /\ Touches(f, search_syslog(f, p), {"SYSLOG"}, {"SYSLOG"}, own)
         /\ Touches(f, search_ipp(f, p), {"IPP"}, {"IPP"}, own)
         /\ Touches(f, search_dns(f, p), {"DNS"}, {"DNS"}, own)
         /\ Touches(f, search_mdns(f, p), {"MDNS"}, {"MDNS"}, own)
         /\ Touches(f, search_netbios(f, p), {"NETBIOS"}, {"NETBIOS"}, own)
         /\ Touches(f, search_stun_udp(f, p), {"STUN"}, {"STUN"}, own)
  BY Nothing, ThenOneLook, ThenDetect, ThenExclude
     DEF search_afp, search_bgp, search_dhcp_udp, search_dns, search_ipp, search_mdns,
         search_mysql_tcp, search_netbios, search_nfs, search_ntp_udp, search_pcanywhere,
         search_rdp, search_smb_tcp, search_ssdp, search_stun_udp, search_syslog,
         search_xdmcp

\* Games, media and sharing decided by one look.
LEMMA OneLooksTouch ==
  ASSUME NEW f, IsFlow(f), NEW p, NEW own
  PROVE  /\ Touches(f, search_quake(f, p), {"QUAKE"}, {"QUAKE"}, own)
         /\ Touches(f, search_secondlife(f, p), {"SECONDLIFE"}, {"SECONDLIFE"}, own)
         /\ Touches(f, search_worldofwarcraft(f, p), {"WORLDOFWARCRAFT"}, {"WORLDOFWARCRAFT"}, own)
         /\ Touches(f, search_icecast_tcp(f, p), {"ICECAST"}, {"ICECAST"}, own)
         /\ Touches(f, search_veohtv_tcp(f, p), {"VEOHTV"}, {"VEOHTV"}, own)
         /\ Touches(f, search_tvuplayer(f, p), {"TVUPLAYER"}, {"TVUPLAYER"}, own)
         /\ Touches(f, search_mgcp(f, p), {"MGCP"}, {"MGCP"}, own)
         /\ Touches(f, search_tvants_udp(f, p), {"TVANTS"}, {"TVANTS"}, own)
         /\ Touches(f, search_openft_tcp(f, p), {"OPENFT"}, {"OPENFT"}, own)
         /\ Touches(f, search_applejuice_tcp(f, p), {"APPLEJUICE"}, {"APPLEJUICE"}, own)
         /\ Touches(f, search_stealthnet(f, p), {"STEALTHNET"}, {"STEALTHNET"}, own)
         /\ Touches(f, search_kontiki(f, p), {"KONTIKI"}, {"KONTIKI"}, own)
         /\ Touches(f, search_fasttrack_tcp(f, p), {"FASTTRACK"}, {"FASTTRACK"}, own)
         /\ Touches(f, search_socrates(f, p), {"SOCRATES"}, {"SOCRATES"}, own)
         /\ Touches(f, search_pando_tcp_udp(f, p), {"PANDO"}, {"PANDO"}, own)
         /\ Touches(f, search_popo_tcp_udp(f, p), {"POPO"}, {"POPO"}, own)
         /\ Touches(f, search_shoutcast_tcp(f, p), {"SHOUTCAST"}, {"SHOUTCAST"}, own)
  BY Nothing, ThenOneLook, ThenDetect, ThenExclude
     DEF search_applejuice_tcp, search_fasttrack_tcp, search_icecast_tcp, search_kontiki,
         search_mgcp, search_openft_tcp, search_pando_tcp_udp, search_popo_tcp_udp,
         search_quake, search_secondlife, search_shoutcast_tcp, search_socrates,
         search_stealthnet, search_tvants_udp, search_tvuplayer, search_veohtv_tcp,
         search_worldofwarcraft

\* The ports of a host, the protocols seen on it, the commands of mail.
LEMMA ThenPorts ==
  ASSUME NEW f, NEW g, NEW F, NEW X, NEW own, Touches(f, g, F, X, own), NEW fn, DOMAIN fn = 0..1
  PROVE  Touches(f, [g EXCEPT !.ports = fn], F, X, own)
  BY DEF Touches, Frame, Kept, Found, Excluded, NotOurs, IsFlow, Fields

LEMMA ThenPort ==
  ASSUME NEW f, NEW g, NEW F, NEW X, NEW own, Touches(f, g, F, X, own), NEW d, NEW v
  PROVE  Touches(f, [g EXCEPT !.ports[d] = v], F, X, own)
  BY DEF Touches, Frame, Kept, Found, Excluded, NotOurs, IsFlow, Fields

LEMMA ThenSeen ==
  ASSUME NEW f, NEW g, NEW F, NEW X, NEW own, Touches(f, g, F, X, own), NEW S
  PROVE  Touches(f, [g EXCEPT !.seen = [d \in 0..1 |-> @[d] \cup S]], F, X, own)
  BY DEF Touches, Frame, Kept, Found, Excluded, NotOurs, IsFlow, Fields

LEMMA ThenSmtp ==
  ASSUME NEW f, NEW g, NEW F, NEW X, NEW own, Touches(f, g, F, X, own), NEW v
  PROVE  Touches(f, [g EXCEPT !.commands.smtp = v], F, X, own)
  BY DEF Touches, Frame, Kept, Found, Excluded, NotOurs, IsFlow, Fields

LEMMA ThenPop ==
  ASSUME NEW f, NEW g, NEW F, NEW X, NEW own, Touches(f, g, F, X, own), "pop" \in own, NEW v
  PROVE  Touches(f, [g EXCEPT !.commands.pop = v], F, X, own)
  BY DEF Touches, Frame, Kept, Found, Excluded, NotOurs, IsFlow, Fields

\* What is found below tcp and udp.
OtherProtocols == {"IPSEC", "GRE", "ICMP", "IGMP", "EGP", "SCTP", "OSPF", "IP_IN_IP"}

\* The dissector of the other IP protocols.
LEMMA OtherTouches ==
  ASSUME NEW f, IsFlow(f), NEW p, NEW b, NEW own
  PROVE  Touches(f, search_in_non_tcp_udp(f, p, b), OtherProtocols, OtherProtocols, own)
  BY Nothing, ThenDetect DEF search_in_non_tcp_udp, OtherProtocols

\* Services and games that take several packets.
LEMMA StagedServicesTouch ==
  ASSUME NEW f, IsFlow(f), NEW p
  PROVE  /\ Touches(f, search_vnc_tcp(f, p), {"VNC"}, {"VNC"}, Free \cup {"vnc_stage"})
         /\ Touches(f, search_ssh_tcp(f, p), {"SSH"}, {"SSH"}, Free \cup {"ssh_stage"})
         /\ Touches(f, search_tds_tcp(f, p), {"TDS"}, {"TDS"}, Free \cup {"tds_stage"})
         /\ Touches(f, search_postgres_tcp(f, p), {"POSTGRES"}, {"POSTGRES"},
                    Free \cup {"postgres_stage"})
         /\ Touches(f, search_snmp(f, p), {"SNMP"}, {"SNMP"}, Free)
         /\ Touches(f, search_usenet_tcp(f, p), {"USENET"}, {"USENET"}, Free \cup {"usenet_stage"})
         /\ Touches(f, search_tftp(f, p), {"TFTP"}, {"TFTP"}, Free)
         /\ Touches(f, search_telnet_tcp(f, p), {"TELNET"}, {"TELNET"}, Free \cup {"telnet_stage"})
         /\ Touches(f, search_steam(f, p), {"STEAM"}, {"STEAM"}, Free \cup {"steam_stage"})
         /\ Touches(f, search_halflife2(f, p), {"HALFLIFE2"}, {"HALFLIFE2"},
                    Free \cup {"halflife2_stage"})
         /\ Touches(f, search_battlefield(f, p), {"BATTLEFIELD"}, {"BATTLEFIELD"}, Free)
         /\ Touches(f, search_xbox(f, p), {"XBOX"}, {"XBOX"}, Free)
<1>1. {"vnc_stage", "ssh_stage", "usenet_stage", "steam_stage", "halflife2_stage"} \subseteq Stages
  BY GuardedStages
<1>2. {"tds_stage", "postgres_stage", "telnet_stage"} \subseteq Stages  BY GuardedStages
<1>3. {"snmp_stage", "tftp_stage", "battlefield_stage", "xbox_stage"} \subseteq Stages \cap Free
  BY FreeStages
<1>4. {"snmp_msg_id", "battlefield_msg_id", "tds_login_version"} \subseteq Memos \cap Free
  BY FreeMemos
<1>5. /\ Touches(f, search_vnc_tcp(f, p), {"VNC"}, {"VNC"}, Free \cup {"vnc_stage"})
      /\ Touches(f, search_ssh_tcp(f, p), {"SSH"}, {"SSH"}, Free \cup {"ssh_stage"})
      /\ Touches(f, search_steam(f, p), {"STEAM"}, {"STEAM"}, Free \cup {"steam_stage"})
      /\ Touches(f, search_halflife2(f, p), {"HALFLIFE2"}, {"HALFLIFE2"}, Free \cup {"halflife2_stage"})
  BY <1>1, ThenTwoSided DEF search_vnc_tcp, search_ssh_tcp, search_steam, search_halflife2
<1>6. Touches(f, search_tds_tcp(f, p), {"TDS"}, {"TDS"}, Free \cup {"tds_stage"})
  BY <1>2, <1>4, Nothing, ThenSet, ThenKeep, ThenDetect, ThenExclude DEF search_tds_tcp
<1>7. Touches(f, search_postgres_tcp(f, p), {"POSTGRES"}, {"POSTGRES"}, Free \cup {"postgres_stage"})
  BY <1>2, Nothing, ThenSet, ThenDetect, ThenExclude DEF search_postgres_tcp
<1>8. Touches(f, search_snmp(f, p), {"SNMP"}, {"SNMP"}, Free)
  BY <1>3, <1>4, Nothing, ThenSet, ThenKeep, ThenDetect, ThenExclude DEF search_snmp
<1>9. Touches(f, search_usenet_tcp(f, p), {"USENET"}, {"USENET"}, Free \cup {"usenet_stage"})
  BY <1>1, Nothing, ThenSet, ThenDetect, ThenExclude DEF search_usenet_tcp
<1>10. Touches(f, search_tftp(f, p), {"TFTP"}, {"TFTP"}, Free)
  BY <1>3, Nothing, ThenSet, ThenDetect, ThenExclude DEF search_tftp
<1>11. Touches(f, search_telnet_tcp(f, p), {"TELNET"}, {"TELNET"}, Free \cup {"telnet_stage"})
  BY <1>2, Nothing, ThenSet, ThenDetect, ThenExclude DEF search_telnet_tcp
<1>12. Touches(f, search_battlefield(f, p), {"BATTLEFIELD"}, {"BATTLEFIELD"}, Free)
  BY <1>3, <1>4, Nothing, ThenSet, ThenKeep, ThenDetect, ThenExclude, ThenRefresh
     DEF search_battlefield
<1>13. Touches(f, search_xbox(f, p), {"XBOX"}, {"XBOX"}, Free)
  BY <1>3, Nothing, ThenSet, ThenDetect, ThenExclude DEF search_xbox
<1> QED
  BY <1>5, <1>6, <1>7, <1>8, <1>9, <1>10, <1>11, <1>12, <1>13

\* Flash counts the bytes of the opening.
LEMMA FlashTouches ==
  ASSUME NEW f, IsFlow(f), NEW p
  PROVE  Touches(f, search_flash(f, p), {"FLASH"}, {"FLASH"}, Free)
<1> DEFINE T(g) == Touches(f, g, {"FLASH"}, {"FLASH"}, Free)
           begins == f.stage.flash_stage = 0 /\ "03 or 06" \in p.has
           goesOn == f.stage.flash_stage = 1 + p.dir
           bytes == IF begins THEN p.len ELSE (f.memo.flash_bytes + p.len) % 65536
           pushed == "psh" \in p.has
           kept == Keep(f, "flash_bytes", bytes)
           counted == IF begins \/ goesOn THEN kept ELSE f
           to == 1 + p.dir
<1> SUFFICES T(search_flash(f, p))  OBVIOUS
<1>1. "flash_stage" \in Stages \cap Free  BY FreeStages
<1>2. "flash_bytes" \in Memos \cap Free  BY FreeMemos
<1>3. T(counted)
  <2>1. T(f)  BY Nothing
  <2>2. T(kept)
    <3> HIDE DEF bytes
    <3> QED  BY <1>2, <2>1, ThenKeep
  <2> HIDE DEF T, kept, begins, goesOn
  <2> QED  BY <2>1, <2>2
<1>4. search_flash(f, p) =
        IF (begins \/ goesOn) /\ pushed /\ bytes = FlashLen THEN Detect(counted, "FLASH")
        ELSE IF begins /\ ~ pushed THEN Set(counted, "flash_stage", to)
        ELSE IF ~ begins /\ goesOn /\ ~ pushed /\ bytes < FlashLen THEN counted
        ELSE IF f.stage.flash_stage = 0 /\ "policy-file-request" \in p.has
        THEN Detect(counted, "FLASH")
        ELSE ExcludeAfterHttp(counted, "FLASH")
  BY DEF search_flash
<1> HIDE DEF counted
<1>5. T(Set(counted, "flash_stage", to))
  <2> HIDE DEF to
  <2> QED  BY <1>1, <1>3, ThenSet
<1>6. T(Detect(counted, "FLASH"))  BY <1>3, ThenDetect
<1>7. T(ExcludeAfterHttp(counted, "FLASH"))  BY <1>3, ThenExclude DEF ExcludeAfterHttp
<1> HIDE DEF T, to, bytes, begins, goesOn, pushed
<1> QED  BY <1>3, <1>4, <1>5, <1>6, <1>7

\* Streaming and telephony.
LEMMA MediaTouch ==
  ASSUME NEW f, IsFlow(f), NEW p
  PROVE  /\ Touches(f, search_iax(f, p), {"IAX"}, {"IAX"}, Free)
         /\ Touches(f, search_mms_tcp(f, p), {"MMS"}, {"MMS"}, Free)
         /\ Touches(f, search_flash(f, p), {"FLASH"}, {"FLASH"}, Free)
         /\ Touches(f, search_ppstream_tcp(f, p), {"PPSTREAM"}, {"PPSTREAM"}, Free)
         /\ Touches(f, search_feidian(f, p), {"FEIDIAN"}, {"FEIDIAN"}, Free)
         /\ Touches(f, search_sip(f, p), {"SIP"}, {"SIP"}, Free)
         /\ Touches(f, search_sopcast(f, p), {"SOPCAST"}, {"SOPCAST"}, Free)
         /\ Touches(f, search_zattoo_tcp(f, p), {"ZATTOO"}, {"ZATTOO"}, Free)
<1>1. {"mms_stage", "ppstream_stage", "feidian_stage", "sip_yahoo_voice",
       "zattoo_stage"} \subseteq Stages \cap Free
  BY FreeStages
<1>3. Touches(f, search_iax(f, p), {"IAX"}, {"IAX"}, Free)
  BY Nothing, ThenOneLook DEF search_iax, search_setup_iax
<1>4. Touches(f, search_mms_tcp(f, p), {"MMS"}, {"MMS"}, Free)
  BY <1>1, Nothing, ThenSet, ThenDetect, ThenExclude DEF search_mms_tcp, ExcludeAfterHttp
<1>5. Touches(f, search_flash(f, p), {"FLASH"}, {"FLASH"}, Free)
  BY FlashTouches
<1>6. Touches(f, search_ppstream_tcp(f, p), {"PPSTREAM"}, {"PPSTREAM"}, Free)
  BY <1>1, Nothing, ThenSet, ThenDetect, ThenExclude DEF search_ppstream_tcp
<1>7. Touches(f, search_feidian(f, p), {"FEIDIAN"}, {"FEIDIAN"}, Free)
  BY <1>1, Nothing, ThenSet, ThenDetect, ThenExclude DEF search_feidian
<1>8. Touches(f, search_sip(f, p), {"SIP"}, {"SIP"}, Free)
  BY <1>1, Nothing, ThenSet, ThenDetect, ThenExclude DEF search_sip, search_sip_handshake
<1>9. Touches(f, search_sopcast(f, p), {"SOPCAST"}, {"SOPCAST"}, Free)
  BY Nothing, ThenOneLook DEF search_sopcast, search_sopcast_tcp, search_sopcast_udp
<1>10. Touches(f, search_zattoo_tcp(f, p), {"ZATTOO"}, {"ZATTOO"}, Free)
  BY <1>1, Nothing, ThenSet, ThenDetect, ThenExclude, ThenRefresh
     DEF search_zattoo_tcp, int_zattoo_add_connection
<1> QED
  BY <1>3, <1>4, <1>5, <1>6, <1>7, <1>8, <1>9, <1>10

\* PPLive, by ports its hosts have used and by packet sizes.
LEMMA PPLiveTouches ==
  ASSUME NEW f, IsFlow(f), NEW p
  PROVE  Touches(f, search_pplive_tcp_udp(f, p), {"PPLIVE"}, {"PPLIVE"}, Free)
<1>1. "pplive_stage" \in Stages \cap Free  BY FreeStages
<1>2. {"pplive_next_packet_size0", "pplive_next_packet_size1"} \subseteq Memos \cap Free
  BY FreeMemos
<1> DEFINE T(g) == Touches(f, g, {"PPLIVE"}, {"PPLIVE"}, Free)
<1>3. T(PPLiveKnown(f, p)[2])
  <2> DEFINE stale == {d \in 0..1 : PPLivePort(f, p, d) /\ "pplive" \notin f.fresh[d]}
             fn == [d \in 0..1 |-> IF d \in stale THEN f.ports[d] \ {"pplive"} ELSE f.ports[d]]
             g == [f EXCEPT !.ports = fn]
  <2>1. T(f)  BY Nothing
  <2>2. T(g)
    <3>1. DOMAIN fn = 0..1  OBVIOUS
    <3> HIDE DEF fn
    <3> QED  BY <2>1, <3>1, ThenPorts
  <2>3. PPLiveKnown(f, p)[2] \in {Detect(f, "PPLIVE"), g, Mark(g, "PPLIVE"), Detect(g, "PPLIVE")}
    BY DEF PPLiveKnown
  <2> HIDE DEF g
  <2>4. T(Detect(f, "PPLIVE")) /\ T(Mark(g, "PPLIVE")) /\ T(Detect(g, "PPLIVE"))
    BY <2>1, <2>2, ThenDetect, ThenMark
  <2> HIDE DEF T
  <2> QED  BY <2>2, <2>3, <2>4
<1>4. ASSUME NEW g, T(g) PROVE T(PPLiveUdp(g, p))
  BY <1>1, <1>4, ThenSet, ThenDetect, ThenExclude, ThenRefresh, ThenPort DEF PPLiveUdp
<1>5. ASSUME NEW g, T(g) PROVE T(PPLiveTcp(g, p))
  BY <1>1, <1>2, <1>5, ThenSet, ThenKeep, ThenDetect, ThenOneLook DEF PPLiveTcp
<1>6. T(search_pplive_tcp_udp(f, p))
  <2> HIDE DEF T
  <2> QED  BY <1>3, <1>4, <1>5 DEF search_pplive_tcp_udp
<1> QED  BY <1>6

\* RTP, which begins again with another payload type.
LEMMA RtpTouches ==
  ASSUME NEW f, IsFlow(f), NEW p
  PROVE  Touches(f, search_rtp_udp(f, p), {"RTP"}, {"RTP"}, Free \cup {"rtp_stage1", "rtp_stage2"})
<1> DEFINE own == Free \cup {"rtp_stage1", "rtp_stage2"}
           T(g) == Touches(f, g, {"RTP"}, {"RTP"}, own)
           ssid == IF p.dir = 0 THEN "rtp_ssid0" ELSE "rtp_ssid1"
           seqnum == IF p.dir = 0 THEN "rtp_seqnum0" ELSE "rtp_seqnum1"
           stageOf == IF p.dir = 0 THEN "rtp_stage1" ELSE "rtp_stage2"
           type == IF "pt 8" \in p.has THEN 8 ELSE 0
           kept == Keep(Keep(f, ssid, 0), seqnum, 0)
           again == IF f.memo.rtp_payload_type \notin {0, type}
                    THEN Set(Set(kept, "rtp_stage1", 0), "rtp_stage2", 0) ELSE f
           g == Keep(again, "rtp_payload_type", type)
           stage == g.stage[stageOf]
           last == g.memo[seqnum]
           packet_difference == (IF p.num > last THEN p.num - last ELSE last - p.num) % 256
           strange == /\ stage > 0
                      /\ \/ g.memo[ssid] # p.id
                         \/ packet_difference > RTP_MAX_OUT_OF_ORDER
           noted == Keep(IF stage > 0 THEN g ELSE Keep(g, ssid, p.id), seqnum, p.num)
           refuse(h) == IF f.marked = "STUN" THEN h ELSE Exclude(h, "RTP")
<1> SUFFICES T(search_rtp_udp(f, p))  OBVIOUS
<1>1. {"rtp_stage1", "rtp_stage2"} \subseteq Stages \cap own  BY GuardedStages
<1>2. {"rtp_ssid0", "rtp_ssid1", "rtp_seqnum0", "rtp_seqnum1", "rtp_payload_type"}
        \subseteq Memos \cap own
  BY FreeMemos
<1>3. ssid \in Memos \cap own /\ seqnum \in Memos \cap own /\ stageOf \in Stages \cap own
  BY <1>1, <1>2
<1>4. search_rtp_udp(f, p) =
        IF p.has \cap {"one zero byte", "12 zero bytes"} # {} THEN f
        ELSE IF "rtp version" \notin p.has THEN refuse(f)
        ELSE IF strange THEN refuse(g)
        ELSE IF stage > 0 /\ p.num = last THEN g
        ELSE IF p.num <= 3 THEN noted
        ELSE IF stage = 3 THEN Detect(noted, "RTP")
        ELSE Set(noted, stageOf, stage + 1)
  BY DEF search_rtp_udp
<1> HIDE DEF own, ssid, seqnum, stageOf, type
<1>5. T(f)  BY Nothing
<1>6. T(g)
  <2>1. T(kept)  BY <1>3, <1>5, ThenKeep
  <2> HIDE DEF kept
  <2>2. T(Set(Set(kept, "rtp_stage1", 0), "rtp_stage2", 0))  BY <1>1, <2>1, ThenSet
  <2>3. T(again)  BY <1>5, <2>2
  <2> HIDE DEF again
  <2> QED  BY <1>2, <2>3, ThenKeep
<1> HIDE DEF g
<1>7. T(noted)  BY <1>3, <1>6, ThenKeep
<1> HIDE DEF noted
<1>8. T(refuse(f)) /\ T(refuse(g)) /\ T(Detect(noted, "RTP"))
  BY <1>5, <1>6, <1>7, ThenExclude, ThenDetect
<1>9. T(Set(noted, stageOf, stage + 1))
  <2> HIDE DEF stage
  <2> QED  BY <1>3, <1>7, ThenSet
<1> HIDE DEF T, refuse, strange, stage, last
<1> QED  BY <1>4, <1>5, <1>6, <1>7, <1>8, <1>9

\* File sharing.
LEMMA SharingTouch ==
  ASSUME NEW f, IsFlow(f), NEW p
  PROVE  /\ Touches(f, search_i23v5(f, p), {"I23V5"}, {"I23V5"},
                    Free \cup {"i23v5_len1", "i23v5_len2", "i23v5_len3"})
         /\ Touches(f, search_filetopia_tcp(f, p), {"FILETOPIA"}, {"FILETOPIA"},
                    Free \cup {"filetopia_stage"})
         /\ Touches(f, search_winmx_tcp(f, p), {"WINMX"}, {"WINMX"}, Free)
         /\ Touches(f, search_edonkey(f, p), {"EDONKEY"}, {"EDONKEY"}, Free \cup {"edk_stage"})
         /\ Touches(f, search_bittorrent(f, p), {"BITTORRENT"}, {"BITTORRENT"}, Free)
         /\ Touches(f, search_thunder(f, p), {"THUNDER"}, {"THUNDER"}, Free)
         /\ Touches(f, search_manolito_tcp_udp(f, p), {"MANOLITO"}, {"MANOLITO"}, Free)
         /\ Touches(f, search_aimini(f, p), {"AIMINI"}, {"AIMINI"}, Free \cup {"aimini_stage"})
<1>1. {"edk_stage", "filetopia_stage", "aimini_stage"} \subseteq Stages  BY GuardedStages
<1>2. {"winmx_stage", "bittorrent_stage", "thunder_stage", "manolito_stage"} \subseteq Stages \cap Free
  BY FreeStages
<1>3. Touches(f, search_i23v5(f, p), {"I23V5"}, {"I23V5"},
              Free \cup {"i23v5_len1", "i23v5_len2", "i23v5_len3"})
  BY GuardedMemos, Nothing, ThenKeep, ThenDetect, ThenExclude DEF search_i23v5
<1>4. Touches(f, search_filetopia_tcp(f, p), {"FILETOPIA"}, {"FILETOPIA"},
              Free \cup {"filetopia_stage"})
  BY <1>1, Nothing, ThenSet, ThenDetect, ThenExclude DEF search_filetopia_tcp
<1>5. Touches(f, search_winmx_tcp(f, p), {"WINMX"}, {"WINMX"}, Free)
  BY <1>2, Nothing, ThenSet, ThenOneLook DEF search_winmx_tcp
<1>6. Touches(f, search_edonkey(f, p), {"EDONKEY"}, {"EDONKEY"}, Free \cup {"edk_stage"})
  BY <1>1, Nothing, ThenSet, ThenMark, ThenExclude DEF search_edonkey, int_edonkey_tcp
<1>7. Touches(f, search_bittorrent(f, p), {"BITTORRENT"}, {"BITTORRENT"}, Free)
  BY <1>2, Nothing, ThenSet, ThenMark DEF search_bittorrent, int_search_bittorrent_tcp
<1>8. Touches(f, search_thunder(f, p), {"THUNDER"}, {"THUNDER"}, Free)
  <2> DEFINE T(g) == Touches(f, g, {"THUNDER"}, {"THUNDER"}, Free)
  <2>1. ASSUME NEW g, T(g) PROVE T(int_thunder_add_connection(g))
    BY <2>1, ThenDetect, ThenRefresh DEF int_thunder_add_connection
  <2>2. ASSUME NEW g, T(g) PROVE T(int_search_thunder_udp(g, p))
    BY <1>2, <2>1, <2>2, ThenSet, ThenExclude DEF int_search_thunder_udp
  <2>3. ASSUME NEW g, T(g) PROVE T(int_search_thunder_tcp(g, p))
    BY <2>1, <2>2, <2>3 DEF int_search_thunder_tcp
  <2>4. T(f)  BY Nothing
  <2>5. T(int_search_thunder_http(f, p))
    BY <2>1, <2>4 DEF int_search_thunder_http
  <2>6. T(search_thunder(f, p))
    <3> HIDE DEF T
    <3> QED  BY <2>2, <2>3, <2>4, <2>5 DEF search_thunder
  <2> QED  BY <2>6
<1>9. Touches(f, search_manolito_tcp_udp(f, p), {"MANOLITO"}, {"MANOLITO"}, Free)
  BY <1>2, Nothing, ThenSet, ThenDetect, ThenExclude, ThenRefresh
     DEF search_manolito_tcp_udp, search_manolito_tcp, int_manolito_add_connection
<1>10. Touches(f, search_aimini(f, p), {"AIMINI"}, {"AIMINI"}, Free \cup {"aimini_stage"})
  BY <1>1, Nothing, ThenSet, ThenDetect, ThenExclude DEF search_aimini
<1> QED
  BY <1>3, <1>4, <1>5, <1>6, <1>7, <1>8, <1>9, <1>10

\* iMesh may find and exclude with the same packet.
LEMMA ImeshTouches ==
  ASSUME NEW f, IsFlow(f), NEW p
  PROVE  Touches(f, search_imesh_tcp_udp(f, p), {"IMESH"}, {"IMESH"}, Free)
<1>1. "imesh_stage" \in Stages \cap Free  BY FreeStages
<1> QED
  BY <1>1, Nothing, ThenSet, ThenDetect, ThenExclude, ThenRefresh DEF search_imesh_tcp_udp

\* Soulseek.
LEMMA SoulseekTouches ==
  ASSUME NEW f, IsFlow(f), NEW p
  PROVE  Touches(f, search_soulseek_tcp(f, p), {"SOULSEEK"}, {"SOULSEEK"}, Free)
<1>1. "soulseek_stage" \in Stages \cap Free  BY FreeStages
<1> DEFINE T(g) == Touches(f, g, {"SOULSEEK"}, {"SOULSEEK"}, Free)
<1>2. T(f)  BY Nothing
<1>3. ASSUME NEW g, T(g) PROVE T(int_soulseek_add_connection(g))
  BY <1>3, ThenDetect, ThenRefresh DEF int_soulseek_add_connection
<1>4. ASSUME NEW g, T(g) PROVE T(Listens(g, Src(p)))
  BY <1>4, ThenPort DEF Listens
<1>5. T(SoulseekRefresh(f, p))
  BY <1>2, ThenRefresh DEF SoulseekRefresh
<1>6. ASSUME NEW g, T(g) PROVE T(SoulseekFirst(g, p))
  BY <1>1, <1>3, <1>4, <1>6, ThenSet, ThenExclude, ThenRefresh DEF SoulseekFirst
<1>7. ASSUME NEW g, T(g)
      PROVE  /\ T(g) /\ T(Listens(g, Src(p))) /\ T(int_soulseek_add_connection(g))
             /\ T(SoulseekFirst(g, p)) /\ T(Set(g, "soulseek_stage", 3)) /\ T(Exclude(g, "SOULSEEK"))
  BY <1>1, <1>3, <1>4, <1>6, <1>7, ThenSet, ThenExclude
<1>8. T(search_soulseek_tcp(f, p))
  <2> HIDE DEF T
  <2> QED  BY <1>2, <1>5, <1>7 DEF search_soulseek_tcp
<1> QED  BY <1>8

\* Gnutella.
LEMMA GnutellaTouches ==
  ASSUME NEW f, IsFlow(f), NEW p
  PROVE  Touches(f, search_gnutella(f, p), {"GNUTELLA"}, {"GNUTELLA"}, Free)
<1>1. "gnutella_stage" \in Stages \cap Free  BY FreeStages
<1> DEFINE T(g) == Touches(f, g, {"GNUTELLA"}, {"GNUTELLA"}, Free)
<1>2. T(f)  BY Nothing
<1>3. ASSUME NEW g, T(g) PROVE T(int_gnutella_add_connection(g, p))
  BY <1>3, ThenDetect, ThenRefresh, ThenPort DEF int_gnutella_add_connection
<1>4. T(GnutellaRefresh(f))
  <2> DEFINE fn == [d \in 0..1 |-> IF "gnutella" \in f.fresh[d] THEN f.ports[d]
                                   ELSE f.ports[d] \ {"gnutella1", "gnutella2"}]
  <2>1. GnutellaRefresh(f) = [f EXCEPT !.ports = fn] /\ DOMAIN fn = 0..1
    BY DEF GnutellaRefresh
  <2> HIDE DEF fn
  <2> QED  BY <1>2, <2>1, ThenPorts
<1>5. ASSUME NEW g, T(g) PROVE T(GnutellaPorts(g, p))
  BY <1>1, <1>3, <1>5, ThenSet, ThenExclude DEF GnutellaPorts
<1>6. T(search_gnutella(f, p))
  <2> HIDE DEF T
  <2> QED  BY <1>2, <1>3, <1>4, <1>5 DEF search_gnutella
<1> QED  BY <1>6

\* Mail.
LEMMA MailTouch ==
  ASSUME NEW f, IsFlow(f), NEW p
  PROVE  /\ Touches(f, search_mail_smtp_tcp(f, p), {"MAIL_SMTP"}, {"MAIL_SMTP"}, Free)
         /\ Touches(f, search_mail_pop_tcp(f, p), {"MAIL_POP"}, {"MAIL_POP"},
                    Free \cup {"mail_pop_stage", "pop"})
         /\ Touches(f, search_mail_imap_tcp(f, p), {"MAIL_IMAP"}, {"MAIL_IMAP"},
                    Free \cup {"mail_imap_stage"})
<1>1. {"mail_pop_stage", "mail_imap_stage"} \subseteq Stages  BY GuardedStages
<1>2. Touches(f, search_mail_smtp_tcp(f, p), {"MAIL_SMTP"}, {"MAIL_SMTP"}, Free)
  BY Nothing, ThenSmtp, ThenDetect, ThenExclude DEF search_mail_smtp_tcp
<1>3. Touches(f, search_mail_pop_tcp(f, p), {"MAIL_POP"}, {"MAIL_POP"},
              Free \cup {"mail_pop_stage", "pop"})
  BY <1>1, Nothing, ThenSet, ThenPop, ThenDetect, ThenExclude DEF search_mail_pop_tcp
<1>4. Touches(f, search_mail_imap_tcp(f, p), {"MAIL_IMAP"}, {"MAIL_IMAP"},
              Free \cup {"mail_imap_stage"})
  BY <1>1, Nothing, ThenSet, ThenDetect, ThenExclude DEF search_mail_imap_tcp
<1> QED  BY <1>2, <1>3, <1>4

\* FTP, and the data connections it announces.
LEMMA FtpTouches ==
  ASSUME NEW f, IsFlow(f), NEW p
  PROVE  Touches(f, search_ftp_tcp(f, p), {"FTP"}, {"FTP"}, Free \cup {"ftp_stage"})
<1>1. "ftp_stage" \in Stages \cap (Free \cup {"ftp_stage"})  BY GuardedStages
<1> DEFINE T(g) == Touches(f, g, {"FTP"}, {"FTP"}, Free \cup {"ftp_stage"})
<1>2. T(f)  BY Nothing
<1>3. T(search_ftp(f, p)[2])
  BY <1>1, <1>2, ThenSet, ThenDetect DEF search_ftp
<1>4. ASSUME NEW g, T(g), NEW hosts PROVE T(FtpPeers(g, hosts))
  <2> DEFINE h == Refresh(g, 0..1, "ftp")
             fn == [d \in 0..1 |-> IF d \in hosts THEN h.ports[d] \cup {"ftp peer"}
                                   ELSE h.ports[d] \ {"ftp peer"}]
  <2>1. FtpPeers(g, hosts) = [h EXCEPT !.ports = fn] /\ DOMAIN fn = 0..1
    BY DEF FtpPeers
  <2>2. T(h)  BY <1>4, ThenRefresh
  <2> HIDE DEF fn, h
  <2> QED  BY <2>1, <2>2, ThenPorts
<1>5. T(search_passive_ftp_mode(f, p))  BY <1>2, <1>4 DEF search_passive_ftp_mode
<1>6. ASSUME NEW g, T(g) PROVE T(search_active_ftp_mode(g, p))
  BY <1>4, <1>6 DEF search_active_ftp_mode
<1>7. T(Detect(f, "FTP")) /\ T(Exclude(f, "FTP"))  BY <1>2, ThenDetect, ThenExclude
<1>8. T(search_ftp_tcp(f, p))
  <2> HIDE DEF T
  <2> QED  BY <1>2, <1>3, <1>5, <1>6, <1>7 DEF search_ftp_tcp
<1> QED  BY <1>8

\* IRC.
LEMMA IrcTouches ==
  ASSUME NEW f, IsFlow(f), NEW p
  PROVE  Touches(f, search_irc_tcp(f, p), {"IRC"}, {"IRC"}, Free)
<1>1. {"irc_stage", "irc_stage2", "irc_3a_counter", "irc_direction", "irc_0x1000_full"}
        \subseteq Stages \cap Free
  BY FreeStages
<1> DEFINE T(g) == Touches(f, g, {"IRC"}, {"IRC"}, Free)
<1>2. T(f)  BY Nothing
<1>3. ASSUME NEW g, T(g)
      PROVE  T(search_irc_ssl_detect_ninty_percent_but_very_fast(g, p)[2])
  BY <1>1, <1>3, ThenSet, ThenDetect DEF search_irc_ssl_detect_ninty_percent_but_very_fast
<1>4. ASSUME NEW g, T(g) PROVE T(IrcDcc(g, p))
  <2> DEFINE h == Refresh(g, 0..1, "irc")
             fn == [d \in 0..1 |-> h.ports[d] \cup {"irc"}]
  <2>1. IrcDcc(g, p) \in {g, [h EXCEPT !.ports = fn]} /\ DOMAIN fn = 0..1
    BY DEF IrcDcc
  <2>2. T(h)  BY <1>4, ThenRefresh
  <2> HIDE DEF fn, h
  <2> QED  BY <1>4, <2>1, <2>2, ThenPorts
<1>5. ASSUME NEW g, T(g) PROVE T(IrcText(g, p))
  <2>1. ASSUME NEW h, T(h), NEW v
        PROVE  /\ T(Set(h, "irc_3a_counter", v)) /\ T(Set(h, "irc_stage", v))
               /\ T(Detect(h, "IRC"))
    BY <1>1, <2>1, ThenSet, ThenDetect
  <2>2. T(IrcText(g, p))
    <3> HIDE DEF T
    <3> QED  BY <1>4, <1>5, <2>1 DEF IrcText
  <2> QED  BY <2>2
<1>6. ASSUME NEW g, T(g) PROVE T(Detect(g, "IRC")) /\ T(Exclude(g, "IRC"))
  BY <1>6, ThenDetect, ThenExclude
<1>7. T(search_irc_tcp(f, p))
  <2> HIDE DEF T
  <2> QED  BY <1>2, <1>3, <1>4, <1>5, <1>6 DEF search_irc_tcp
<1> QED  BY <1>7

\* MSN.
LEMMA MsnTouches ==
  ASSUME NEW f, IsFlow(f), NEW p
  PROVE  Touches(f, search_msn(f, p), {"MSN"}, {"MSN"}, Free)
<1>1. {"msn_stage", "msn_ssl_ft"} \subseteq Stages \cap Free  BY FreeStages
<1>2. Touches(f, MsnTransfer(f, p), {"MSN"}, {"MSN"}, Free)
  BY <1>1, Nothing, ThenSet, ThenDetect DEF MsnTransfer
<1>3. Touches(f, search_msn_tcp(f, p), {"MSN"}, {"MSN"}, Free)
  BY <1>1, <1>2, Nothing, ThenSet, ThenDetect, ThenExclude, ThenOneLook DEF search_msn_tcp
<1>4. Touches(f, search_udp_msn_misc(f, p), {"MSN"}, {"MSN"}, Free)
  BY Nothing, ThenDetect, ThenExclude DEF search_udp_msn_misc
<1> QED  BY <1>3, <1>4, Nothing DEF search_msn

\* Yahoo.
LEMMA YahooTouches ==
  ASSUME NEW f, IsFlow(f), NEW p
  PROVE  Touches(f, search_yahoo(f, p), {"YAHOO"}, {"YAHOO"}, Free)
<1>1. {"yahoo_detection_finished", "yahoo_http_proxy_stage"} \subseteq Stages \cap Free
  BY FreeStages
<1> DEFINE T(g) == Touches(f, g, {"YAHOO"}, {"YAHOO"}, Free)
<1>2. T(f)  BY Nothing
<1>3. ASSUME NEW g, T(g) PROVE T(YahooVideo(g, p))
  <2> DEFINE h == Refresh(g, 0..1, "yahoo lan")
             fn == IF "SNDIMG" \in p.has THEN [d \in 0..1 |-> g.ports[d] \ {"yahoo lan dir"}]
                   ELSE [d \in 0..1 |-> g.ports[d] \cup {"yahoo lan dir"}]
  <2>1. YahooVideo(g, p) \in {g, Detect([h EXCEPT !.ports = fn], "YAHOO"), Detect(g, "YAHOO")}
    BY DEF YahooVideo
  <2>2. DOMAIN fn = 0..1  OBVIOUS
  <2>3. T(h)  BY <1>3, ThenRefresh
  <2> HIDE DEF fn, h
  <2>4. T([h EXCEPT !.ports = fn])  BY <2>2, <2>3, ThenPorts
  <2> QED  BY <1>3, <2>1, <2>4, ThenDetect
<1>4. ASSUME NEW g, T(g) PROVE T(YahooProxy(g, p))
  BY <1>1, <1>4, ThenSet, ThenOneLook DEF YahooProxy
<1>5. ASSUME NEW g, T(g) PROVE T(search_yahoo_tcp(g, p))
  <2>1. T(Detect(Set(g, "yahoo_detection_finished", 2), "YAHOO")) /\ T(Detect(g, "YAHOO"))
    BY <1>1, <1>5, ThenSet, ThenDetect
  <2>2. T(search_yahoo_tcp(g, p))
    <3> HIDE DEF T
    <3> QED  BY <1>3, <1>4, <1>5, <2>1 DEF search_yahoo_tcp
  <2> QED  BY <2>2
<1>6. T(search_yahoo_udp(f))  BY <1>2, ThenExclude DEF search_yahoo_udp
<1>7. T(search_yahoo(f, p))
  <2> HIDE DEF T
  <2> QED  BY <1>2, <1>5, <1>6 DEF search_yahoo
<1> QED  BY <1>7

\* Gadu-Gadu.
LEMMA GaduTouches ==
  ASSUME NEW f, IsFlow(f), NEW p
  PROVE  Touches(f, search_gadugadu_tcp(f, p), {"GADUGADU"}, {"GADUGADU"}, Free)
<1>1. "gadugadu_stage" \in Stages \cap Free  BY FreeStages
<1> DEFINE T(g) == Touches(f, g, {"GADUGADU"}, {"GADUGADU"}, Free)
<1>2. T(f)  BY Nothing
<1>3. T(check_for_http(f, p)[2])  BY <1>2, ThenDetect DEF check_for_http
<1>4. T(GaduLogin(f, p))
  <2> DEFINE v == f.stage.gadugadu_stage + Cardinality(p.has \cap {"gg header", "gg 114"})
             g == Set(f, "gadugadu_stage", v)
             fn == [d \in 0..1 |-> g.ports[d] \cup {"gg ft", "gg call id"}]
             h == [g EXCEPT !.ports = fn]
  <2>1. GaduLogin(f, p) \in {g, h, Detect(g, "GADUGADU"), Detect(h, "GADUGADU")} /\ DOMAIN fn = 0..1
    BY DEF GaduLogin
  <2> HIDE DEF v
  <2>2. T(g)  BY <1>1, <1>2, ThenSet
  <2> HIDE DEF fn, g
  <2>3. T(h)  BY <2>1, <2>2, ThenPorts
  <2> HIDE DEF h
  <2> QED  BY <2>1, <2>2, <2>3, ThenDetect
<1>5. T(GaduTransfer(f, p))
  <2> DEFINE used(d) == "GADUGADU" \in f.seen[d]
             address(d) == used(d) /\ "gg ft" \in f.ports[d] /\ "gg ft address" \in p.has
             call(d) == used(d) /\ "gg call id" \in f.ports[d] /\ "gg call" \in p.has
             fresh(d) == "gg" \in f.fresh[d]
             drop == {d \in 0..1 : address(d) /\ ~ fresh(d)}
             found == {d \in 0..1 : (address(d) \/ call(d)) /\ fresh(d)}
             gone == IF Src(p) \in found THEN {} ELSE drop
             fn == [d \in 0..1 |-> IF d \in gone THEN f.ports[d] \ {"gg ft"} ELSE f.ports[d]]
             g == [f EXCEPT !.ports = fn]
  <2>1. GaduTransfer(f, p) = OneLook(g, found # {}, "GADUGADU")
    BY DEF GaduTransfer
  <2>2. DOMAIN fn = 0..1  OBVIOUS
  <2> HIDE DEF fn, found
  <2>3. T(g)  BY <1>2, <2>2, ThenPorts
  <2> HIDE DEF g
  <2> QED  BY <2>1, <2>3, ThenOneLook
<1>6. T(Refresh(f, 0..1, "gg"))  BY <1>2, ThenRefresh
<1>7. T(search_gadugadu_tcp(f, p))
  <2> HIDE DEF T
  <2> QED  BY <1>3, <1>4, <1>5, <1>6 DEF search_gadugadu_tcp
<1> QED  BY <1>7

\* OSCAR.
LEMMA OscarTouches ==
  ASSUME NEW f, IsFlow(f), NEW p
  PROVE  Touches(f, search_oscar(f, p), {"OSCAR"}, {"OSCAR"}, Free)
<1>1. "oscar_video_voice" \in Stages \cap Free  BY FreeStages
<1> DEFINE T(g) == Touches(f, g, {"OSCAR"}, {"OSCAR"}, Free)
<1>2. T(f)  BY Nothing
<1>3. ASSUME NEW g, T(g)
      PROVE  T(int_oscar_add_connection(g)) /\ T(Exclude(g, "OSCAR"))
  BY <1>3, ThenDetect, ThenRefresh, ThenExclude DEF int_oscar_add_connection
<1>4. T(Set(f, "oscar_video_voice", 1))  BY <1>1, <1>2, ThenSet
<1>5. T(search_oscar_tcp_connect(f, p))
  <2> HIDE DEF T
  <2> QED  BY <1>2, <1>3, <1>4 DEF search_oscar_tcp_connect
<1> QED  BY <1>2, <1>5 DEF search_oscar

\* Jabber.
LEMMA JabberTouches ==
  ASSUME NEW f, IsFlow(f), NEW p
  PROVE  Touches(f, search_jabber_tcp(f, p), {}, {"UNENCRYPED_JABBER"}, Free)
<1> DEFINE X == "UNENCRYPED_JABBER"
           T(g) == Touches(f, g, {}, {X}, Free)
<1>2. T(f)  BY Nothing
<1>3. ASSUME NEW g, T(g) PROVE T(int_jabber_add_connection(g, X))
  BY <1>3, ThenSeen DEF int_jabber_add_connection
<1>4. T(JabberSyn(f, p))
  <2> DEFINE fn == [d \in 0..1 |-> IF "jabber" \in f.fresh[d] THEN f.ports[d]
                                   ELSE f.ports[d] \ {"jabber ft"}]
             g == [f EXCEPT !.ports = fn]
  <2>1. JabberSyn(f, p) \in {g, int_jabber_add_connection(g, X)} /\ DOMAIN fn = 0..1
    BY DEF JabberSyn
  <2> HIDE DEF fn
  <2>2. T(g)  BY <1>2, <2>1, ThenPorts
  <2> HIDE DEF g
  <2> QED  BY <1>3, <2>1, <2>2
<1>5. T(JabberPort(f, p))
  <2> DEFINE g == Refresh(f, 0..1, "jabber")
             port == IF "to" \in p.has THEN "jabber stun" ELSE "jabber ft"
             fn == [d \in 0..1 |-> g.ports[d] \cup {port}]
  <2>1. JabberPort(f, p) \in {f, [g EXCEPT !.ports = fn]} /\ DOMAIN fn = 0..1
    BY DEF JabberPort
  <2>2. T(g)  BY <1>2, ThenRefresh
  <2> HIDE DEF fn, g
  <2> QED  BY <1>2, <2>1, <2>2, ThenPorts
<1>6. T(Exclude(f, X))  BY <1>2, ThenExclude
<1>7. T(search_jabber_tcp(f, p))
  <2> HIDE DEF T
  <2> QED  BY <1>2, <1>3, <1>4, <1>5, <1>6 DEF search_jabber_tcp
<1> QED  BY <1>7

\* What the SSL dissector may find.
SslFinds == {"SSL", "UNENCRYPED_JABBER", "OSCAR"}

\* The chats of one look, and SSL.
LEMMA ChatTouch ==
  ASSUME NEW f, IsFlow(f), NEW p, NEW b
  PROVE  /\ Touches(f, search_qq(f, p), {"QQ"}, {"QQ"}, Free)
         /\ Touches(f, search_ssl_tcp(f, p, b), SslFinds, {"SSL"}, Free \cup {"ssl_stage"})
         /\ Touches(f, search_direct_download_link_tcp(f, p), {"DIRECT_DOWNLOAD_LINK"},
                    {"DIRECT_DOWNLOAD_LINK"}, Free)
<1>1. {"qq_stage", "ddlink_server_direction"} \subseteq Stages \cap Free  BY FreeStages
<1>2. "ssl_stage" \in Stages  BY GuardedStages
<1>3. Touches(f, search_qq(f, p), {"QQ"}, {"QQ"}, Free)
  BY <1>1, Nothing, ThenSet, ThenDetect, ThenExclude DEF search_qq, search_qq_udp, search_qq_tcp
<1>4. Touches(f, search_ssl_tcp(f, p, b), SslFinds, {"SSL"}, Free \cup {"ssl_stage"})
  <2>1. Touches(f, ssl_mark_and_payload_search_for_other_protocols(f, p, b), SslFinds, {"SSL"},
                Free \cup {"ssl_stage"})
    BY Nothing, ThenDetect, ThenRefresh DEF ssl_mark_and_payload_search_for_other_protocols, SslFinds
  <2> QED  BY <1>2, <2>1, Nothing, ThenSet, ThenExclude DEF search_ssl_tcp
<1>5. Touches(f, search_direct_download_link_tcp(f, p), {"DIRECT_DOWNLOAD_LINK"},
              {"DIRECT_DOWNLOAD_LINK"}, Free)
  BY <1>1, Nothing, ThenSet, ThenDetect, ThenExclude DEF search_direct_download_link_tcp
<1> QED  BY <1>3, <1>4, <1>5

\* What the HTTP dissector may exclude.
HttpExcludes == {"HTTP", "MPEG", "QUICKTIME", "WINDOWSMEDIA", "REALMEDIA", "AVI", "OGG", "MOVE",
                 "OFF", "XBOX"}

\* HTTP, and what it carries.
LEMMA HttpTouches ==
  ASSUME NEW f, IsFlow(f), NEW p, NEW b
  PROVE  Touches(f, search_http_tcp(f, p, b), HttpFamily, HttpExcludes, Free)
<1>1. {"http_setup_dir", "http_stage", "server_direction", "http_empty_line_seen",
       "http_detected"} \subseteq Stages \cap Free
  BY FreeStages
<1> DEFINE T(g) == Touches(f, g, HttpFamily, HttpExcludes, Free)
<1>2. T(f)  BY Nothing
<1>3. ASSUME NEW g, T(g), NEW X \in HttpFamily PROVE T(int_http_add_connection(g, p, X))
  BY <1>1, <1>3, ThenSet, ThenDetect DEF int_http_add_connection
<1>4. ASSUME NEW g, T(g) PROVE T(check_content_type_and_change_protocol(g, p, b))
  <2> DEFINE tried == {i \in DOMAIN HttpLines : HttpLines[i][2] \in b
                                                /\ HttpLines[i][1] \cap p.has # {}}
             icy == IF "Icy-MetaData" \in p.has THEN {"MPEG"} ELSE {}
             names == {HttpLines[i][2] : i \in tried} \cup icy
             top == CHOOSE i \in tried : \A j \in tried : j <= i
             last == IF icy # {} THEN "MPEG" ELSE HttpLines[top][2]
             h == [g EXCEPT !.seen = [d \in 0..1 |-> g.seen[d] \cup names]]
  <2>1. check_content_type_and_change_protocol(g, p, b) =
          IF names = {} THEN g ELSE int_http_add_connection(h, p, last)
    BY DEF check_content_type_and_change_protocol
  <2>2. T(h)
    <3> HIDE DEF names
    <3> QED  BY <1>4, ThenSeen
  <2>3. ASSUME names # {} PROVE last \in HttpFamily
    <3>1. CASE icy # {}  BY <3>1 DEF HttpFamily
    <3>2. CASE icy = {}
      <4>1. tried # {}  BY <2>3, <3>2
      <4>2. tried \subseteq 1 .. 13  BY DEF HttpLines
      <4>3. \A i \in 1 .. 13 : HttpLines[i][2] \in HttpFamily  BY DEF HttpLines, HttpFamily
      <4>4. PICK n \in tried : \A j \in tried : j <= n
        <5>1. PICK m \in tried : \A j \in tried : 13 - m <= 13 - j
          <6> DEFINE S == {13 - i : i \in tried}
          <6>1. S \subseteq Nat /\ S # {}  BY <4>1, <4>2
          <6>2. PICK x \in S : \A y \in S : x <= y  BY <6>1, LeastElement
          <6> QED  BY <6>2
        <5> QED  BY <4>2, <5>1
      <4>5. top \in tried  BY <4>4
      <4> QED  BY <3>2, <4>2, <4>3, <4>5
    <3> QED  BY <3>1, <3>2
  <2> HIDE DEF names, h, last
  <2> QED  BY <1>3, <1>4, <2>1, <2>2, <2>3
<1>5. ASSUME NEW g, T(g) PROVE T(flash_check_http_payload(g, p))
  BY <1>3, <1>5 DEF flash_check_http_payload, HttpFamily
<1>6. ASSUME NEW g, T(g) PROVE T(avi_check_http_payload(g, p))
  <2>1. T(int_http_add_connection(g, p, "AVI"))  BY <1>3, <1>6 DEF HttpFamily
  <2>2. ASSUME NEW h, T(h), NEW v PROVE T(Set(h, "http_empty_line_seen", v))
    BY <1>1, <2>2, ThenSet
  <2>3. T(avi_check_http_payload(g, p))
    <3> HIDE DEF T
    <3> QED  BY <1>6, <2>1, <2>2 DEF avi_check_http_payload
  <2> QED  BY <2>3
<1>7. ASSUME NEW g, T(g) PROVE T(check_http_payload(g, p, b))
  <2> HIDE DEF T
  <2> QED  BY <1>5, <1>6, <1>7 DEF check_http_payload
<1>8. ASSUME NEW g, T(g), NEW v PROVE T(Set(g, "http_stage", v)) /\ T(Set(g, "http_setup_dir", v))
  BY <1>1, <1>8, ThenSet
<1>9. ASSUME NEW g, T(g) PROVE T(http_bitmask_exclude(g))
  BY <1>9 DEF http_bitmask_exclude, HttpExcludes, Touches, Frame, Kept, Found, Excluded, NotOurs,
              IsFlow, Fields
<1>10. ASSUME NEW g, T(g) PROVE T(HttpRequest(g, p, b))
  <2>1. T(int_http_add_connection(g, p, "HTTP"))  BY <1>3, <1>10 DEF HttpFamily
  <2>2. T(HttpRequest(g, p, b))
    <3> HIDE DEF T
    <3> QED  BY <1>4, <1>8, <1>9, <1>10, <2>1 DEF HttpRequest
  <2> QED  BY <2>2
<1>11. ASSUME NEW g, T(g) PROVE T(HttpParse(g, p, b))
  <2>1. T(int_http_add_connection(g, p, "HTTP"))  BY <1>3, <1>11 DEF HttpFamily
  <2>2. T(HttpParse(g, p, b))
    <3> HIDE DEF T
    <3> QED  BY <1>4, <1>7, <1>8, <1>11, <2>1 DEF HttpParse
  <2> QED  BY <2>2
<1>12. T(search_http_tcp(f, p, b))
  <2> HIDE DEF T
  <2> QED  BY <1>2, <1>8, <1>10, <1>11 DEF search_http_tcp
<1> QED  BY <1>12

-----------------------------------------------------------------------------
(* What the entries of the registry say of their dissectors.               *)

\* What the dissector of an entry may find, and exclude.
Finds(e) ==
  CASE e.func = "http_tcp" -> HttpFamily
    [] e.func = "ssl_tcp" -> SslFinds
    [] e.func = "jabber_tcp" -> {}
    [] OTHER -> e.excluded

Excludes(e) == IF e.func = "http_tcp" THEN HttpExcludes ELSE e.excluded

\* The guarded fields of each dissector that has some, and all its fields.
Keeps ==
  [ssh_tcp |-> {"ssh_stage"}, vnc_tcp |-> {"vnc_stage"}, ssl_tcp |-> {"ssl_stage"},
   steam |-> {"steam_stage"}, halflife2 |-> {"halflife2_stage"}, usenet_tcp |-> {"usenet_stage"},
   tds_tcp |-> {"tds_stage"}, postgres_tcp |-> {"postgres_stage"}, edonkey |-> {"edk_stage"},
   rtp_udp |-> {"rtp_stage1", "rtp_stage2"}, aimini |-> {"aimini_stage"},
   i23v5 |-> {"i23v5_len1", "i23v5_len2", "i23v5_len3"}, telnet_tcp |-> {"telnet_stage"},
   mail_imap_tcp |-> {"mail_imap_stage"}, mail_pop_tcp |-> {"mail_pop_stage", "pop"},
   filetopia_tcp |-> {"filetopia_stage"}, ftp_tcp |-> {"ftp_stage"}]

Own(func) == Free \cup (IF func \in DOMAIN Keeps THEN Keeps[func] ELSE {})

\* The only dissector of a protocol.
Finder ==
  [SSH |-> "ssh_tcp", VNC |-> "vnc_tcp", SSL |-> "ssl_tcp", STEAM |-> "steam",
   HALFLIFE2 |-> "halflife2", USENET |-> "usenet_tcp", TDS |-> "tds_tcp",
   POSTGRES |-> "postgres_tcp", EDONKEY |-> "edonkey", RTP |-> "rtp_udp", AIMINI |-> "aimini",
   I23V5 |-> "i23v5", TELNET |-> "telnet_tcp", MAIL_IMAP |-> "mail_imap_tcp",
   MAIL_POP |-> "mail_pop_tcp", FILETOPIA |-> "filetopia_tcp", FTP |-> "ftp_tcp",
   DIRECTCONNECT |-> "directconnect", IRC |-> "irc_tcp", GADUGADU |-> "gadugadu", MSN |-> "msn",
   YAHOO |-> "yahoo", ZATTOO |-> "zattoo_tcp", DIRECT_DOWNLOAD_LINK |-> "direct_download_link_tcp",
   HTTP |-> "http_tcp", MPEG |-> "http_tcp", AVI |-> "http_tcp"]

\* What an entry promises: a verdict stays or becomes a successor of the one with
\* which the dissector is called, and the protocols of Finder are nobody else's.
EntryOK(e) ==
  /\ UNKNOWN \notin Finds(e)
  /\ \A Y \in e.detection \ {UNKNOWN} : Finds(e) \subseteq {Y} \cup Successors(Y)
  /\ \A X \in DOMAIN Finder : X \in Finds(e) \cup Excludes(e) => e.func = Finder[X]
  /\ "XBOX" \in Finds(e) \cup Excludes(e) => e.func \in {"http_tcp", "xbox"}

\* What the dissector of an entry may do.
TouchesEntry(e, f, p, b) ==
  Touches(f, Dissector(e.func, f, p, b), Finds(e), Excludes(e), Own(e.func))

\* The place of each dissector in the registry.
Place ==
  [http_tcp |-> 1, ssl_tcp |-> 2, stun_udp |-> 3, rtp_udp |-> 4, sip |-> 5, bittorrent |->
   6, edonkey |-> 7, fasttrack_tcp |-> 8, gnutella |-> 9, winmx_tcp |-> 10, directconnect
   |-> 11, msn |-> 12, yahoo |-> 13, oscar |-> 14, applejuice_tcp |-> 15, soulseek_tcp |->
   16, irc_tcp |-> 17, jabber_tcp |-> 18, mail_pop_tcp |-> 19, mail_imap_tcp |-> 20,
   mail_smtp_tcp |-> 21, ftp_tcp |-> 22, usenet_tcp |-> 23, dns |-> 24, filetopia_tcp |->
   25, manolito_tcp_udp |-> 26, imesh_tcp_udp |-> 27, mms_tcp |-> 28, pando_tcp_udp |-> 29,
   in_non_tcp_udp |-> 30, tvants_udp |-> 31, sopcast |-> 32, tvuplayer |-> 33, ppstream_tcp
   |-> 34, pplive_tcp_udp |-> 35, iax |-> 36, mgcp |-> 37, gadugadu |-> 38, zattoo_tcp |->
   39, qq |-> 40, feidian |-> 41, ssh_tcp |-> 42, popo_tcp_udp |-> 43, thunder |-> 44,
   vnc_tcp |-> 45, dhcp_udp |-> 46, i23v5 |-> 47, socrates |-> 48, steam |-> 49, halflife2
   |-> 50, xbox |-> 51, smb_tcp |-> 52, telnet_tcp |-> 53, ntp_udp |-> 54, nfs |-> 55, ssdp
   |-> 56, worldofwarcraft |-> 57, flash |-> 58, postgres_tcp |-> 59, mysql_tcp |-> 60, bgp
   |-> 61, quake |-> 62, battlefield |-> 63, secondlife |-> 64, pcanywhere |-> 65, rdp |->
   66, snmp |-> 67, kontiki |-> 68, icecast_tcp |-> 69, shoutcast_tcp |-> 70, veohtv_tcp |->
   71, openft_tcp |-> 72, syslog |-> 73, tds_tcp |-> 74, direct_download_link_tcp |-> 75,
   netbios |-> 76, mdns |-> 77, ipp |-> 78, xdmcp |-> 79, tftp |-> 80, stealthnet |-> 81,
   afp |-> 82, aimini |-> 83]

\* Each part of the registry: its entries are in place, and do what they promise.
LEMMA SslToDirectconnectEntries ==
  /\ SslToDirectconnect \in Seq(Members(SslToDirectconnect)) /\ Len(SslToDirectconnect) = 10
  /\ \A i \in 1 .. 10 : Place[SslToDirectconnect[i].func] = 1 + i
  /\ \A e \in Members(SslToDirectconnect) : EntryOK(e)
<1>1. /\ SslToDirectconnect \in Seq(Members(SslToDirectconnect)) /\ Len(SslToDirectconnect) = 10
  <2>1. Len(SslToDirectconnect) = 10  BY DEF SslToDirectconnect
  <2>2. SslToDirectconnect \in Seq({SslToDirectconnect[i] : i \in 1 .. 10})
    BY DEF SslToDirectconnect
  <2> QED  BY <2>1, <2>2 DEF Members
<1>2. \A i \in 1 .. 10 : Place[SslToDirectconnect[i].func] = 1 + i
  BY DEF SslToDirectconnect, First, Known, Entry, Place
<1>3. ASSUME NEW e \in Members(SslToDirectconnect) PROVE EntryOK(e)
  BY <1>3 DEF SslToDirectconnect, Members, First, Known, Entry, EntryOK, Finds, Excludes,
     SslFinds, HttpFamily, Finder, Successors, UNKNOWN
<1> QED  BY <1>1, <1>2, <1>3

LEMMA SslToDirectconnectTouch ==
  ASSUME NEW e \in Members(SslToDirectconnect), e.func # "directconnect", NEW f, IsFlow(f), NEW p, NEW b
  PROVE  TouchesEntry(e, f, p, b)
<1>0. \/ e = First("ssl_tcp", "SSL", TcpData)
      \/ e = Entry("stun_udp", {"STUN", "RTP"}, UdpData, {UNKNOWN}, {"STUN"})
      \/ e = Entry("rtp_udp", {"RTP"}, UdpData, {UNKNOWN, "STUN"}, {"RTP"})
      \/ e = Known("sip", "SIP", AnyData)
      \/ e = Known("bittorrent", "BITTORRENT", Any)
      \/ e = Entry("edonkey", {"EDONKEY"}, Any, {UNKNOWN, "EDONKEY", "BITTORRENT"}, {"EDONKEY"})
      \/ e = First("fasttrack_tcp", "FASTTRACK", TcpNew)
      \/ e = Entry("gnutella", {"GNUTELLA"}, AnyNew, {UNKNOWN, "XBOX"}, {"GNUTELLA"})
      \/ e = First("winmx_tcp", "WINMX", TcpNew)
      \/ e = Known("directconnect", "DIRECTCONNECT", AnyNew)
  BY DEF SslToDirectconnect, Members
<1> USE DEF OtherProtocols, First, Known, Entry, TouchesEntry, Finds, Excludes, Own, Keeps, Dissector
<1>1. CASE e = First("ssl_tcp", "SSL", TcpData)
  BY <1>1, ChatTouch
<1>2. CASE e = Entry("stun_udp", {"STUN", "RTP"}, UdpData, {UNKNOWN}, {"STUN"})
  BY <1>2, ServicesTouch
<1>3. CASE e = Entry("rtp_udp", {"RTP"}, UdpData, {UNKNOWN, "STUN"}, {"RTP"})
  BY <1>3, RtpTouches
<1>4. CASE e = Known("sip", "SIP", AnyData)
  BY <1>4, MediaTouch
<1>5. CASE e = Known("bittorrent", "BITTORRENT", Any)
  BY <1>5, SharingTouch
<1>6. CASE e = Entry("edonkey", {"EDONKEY"}, Any, {UNKNOWN, "EDONKEY", "BITTORRENT"}, {"EDONKEY"})
  BY <1>6, SharingTouch
<1>7. CASE e = First("fasttrack_tcp", "FASTTRACK", TcpNew)
  BY <1>7, OneLooksTouch
<1>8. CASE e = Entry("gnutella", {"GNUTELLA"}, AnyNew, {UNKNOWN, "XBOX"}, {"GNUTELLA"})
  BY <1>8, GnutellaTouches
<1>9. CASE e = First("winmx_tcp", "WINMX", TcpNew)
  BY <1>9, SharingTouch
<1>10. CASE e = Known("directconnect", "DIRECTCONNECT", AnyNew)
  BY <1>10
<1> QED
  BY <1>0, <1>1, <1>2, <1>3, <1>4, <1>5, <1>6, <1>7, <1>8, <1>9, <1>10

LEMMA MsnToSmtpEntries ==
  /\ MsnToSmtp \in Seq(Members(MsnToSmtp)) /\ Len(MsnToSmtp) = 10
  /\ \A i \in 1 .. 10 : Place[MsnToSmtp[i].func] = 11 + i
  /\ \A e \in Members(MsnToSmtp) : EntryOK(e)
<1>1. /\ MsnToSmtp \in Seq(Members(MsnToSmtp)) /\ Len(MsnToSmtp) = 10
  <2>1. Len(MsnToSmtp) = 10  BY DEF MsnToSmtp
  <2>2. MsnToSmtp \in Seq({MsnToSmtp[i] : i \in 1 .. 10})  BY DEF MsnToSmtp
  <2> QED  BY <2>1, <2>2 DEF Members
<1>2. \A i \in 1 .. 10 : Place[MsnToSmtp[i].func] = 11 + i
  BY DEF MsnToSmtp, First, Known, Entry, Place
<1>3. ASSUME NEW e \in Members(MsnToSmtp) PROVE EntryOK(e)
  BY <1>3 DEF MsnToSmtp, Members, First, Known, Entry, EntryOK, Finds, Excludes, SslFinds,
     HttpFamily, Finder, Successors, UNKNOWN
<1> QED  BY <1>1, <1>2, <1>3

LEMMA MsnToSmtpTouch ==
  ASSUME NEW e \in Members(MsnToSmtp), e.func # "directconnect", NEW f, IsFlow(f), NEW p, NEW b
  PROVE  TouchesEntry(e, f, p, b)
<1>0. \/ e = Entry("msn", {"MSN"}, AnyNew, {UNKNOWN, "MSN", "HTTP", "SSL"}, {"MSN"})
      \/ e = Known("yahoo", "YAHOO", Any)
      \/ e = Known("oscar", "OSCAR", AnyNew)
      \/ e = First("applejuice_tcp", "APPLEJUICE", TcpNew)
      \/ e = Known("soulseek_tcp", "SOULSEEK", TcpData)
      \/ e = Known("irc_tcp", "IRC", TcpNew)
      \/ e = Entry("jabber_tcp", {"UNENCRYPED_JABBER"}, AnyBare, {UNKNOWN, "UNENCRYPED_JABBER",
             "SSL"}, {"UNENCRYPED_JABBER"})
      \/ e = First("mail_pop_tcp", "MAIL_POP", TcpNew)
      \/ e = First("mail_imap_tcp", "MAIL_IMAP", TcpNew)
      \/ e = First("mail_smtp_tcp", "MAIL_SMTP", TcpNew)
  BY DEF MsnToSmtp, Members
<1> USE DEF OtherProtocols, First, Known, Entry, TouchesEntry, Finds, Excludes, Own, Keeps, Dissector
<1>1. CASE e = Entry("msn", {"MSN"}, AnyNew, {UNKNOWN, "MSN", "HTTP", "SSL"}, {"MSN"})
  BY <1>1, MsnTouches
<1>2. CASE e = Known("yahoo", "YAHOO", Any)
  BY <1>2, YahooTouches
<1>3. CASE e = Known("oscar", "OSCAR", AnyNew)
  BY <1>3, OscarTouches
<1>4. CASE e = First("applejuice_tcp", "APPLEJUICE", TcpNew)
  BY <1>4, OneLooksTouch
<1>5. CASE e = Known("soulseek_tcp", "SOULSEEK", TcpData)
  BY <1>5, SoulseekTouches
<1>6. CASE e = Known("irc_tcp", "IRC", TcpNew)
  BY <1>6, IrcTouches
<1>7. CASE e = Entry("jabber_tcp", {"UNENCRYPED_JABBER"}, AnyBare, {UNKNOWN, "UNENCRYPED_JABBER",
               "SSL"}, {"UNENCRYPED_JABBER"})
  BY <1>7, JabberTouches
<1>8. CASE e = First("mail_pop_tcp", "MAIL_POP", TcpNew)
  BY <1>8, MailTouch
<1>9. CASE e = First("mail_imap_tcp", "MAIL_IMAP", TcpNew)
  BY <1>9, MailTouch
<1>10. CASE e = First("mail_smtp_tcp", "MAIL_SMTP", TcpNew)
  BY <1>10, MailTouch
<1> QED
  BY <1>0, <1>1, <1>2, <1>3, <1>4, <1>5, <1>6, <1>7, <1>8, <1>9, <1>10

LEMMA FtpToNonTcpUdpEntries ==
  /\ FtpToNonTcpUdp \in Seq(Members(FtpToNonTcpUdp)) /\ Len(FtpToNonTcpUdp) = 9
  /\ \A i \in 1 .. 9 : Place[FtpToNonTcpUdp[i].func] = 21 + i
  /\ \A e \in Members(FtpToNonTcpUdp) : EntryOK(e)
<1>1. /\ FtpToNonTcpUdp \in Seq(Members(FtpToNonTcpUdp)) /\ Len(FtpToNonTcpUdp) = 9
  <2>1. Len(FtpToNonTcpUdp) = 9  BY DEF FtpToNonTcpUdp
  <2>2. FtpToNonTcpUdp \in Seq({FtpToNonTcpUdp[i] : i \in 1 .. 9})  BY DEF FtpToNonTcpUdp
  <2> QED  BY <2>1, <2>2 DEF Members
<1>2. \A i \in 1 .. 9 : Place[FtpToNonTcpUdp[i].func] = 21 + i
  BY DEF FtpToNonTcpUdp, First, Known, Entry, Place
<1>3. ASSUME NEW e \in Members(FtpToNonTcpUdp) PROVE EntryOK(e)
  BY <1>3 DEF FtpToNonTcpUdp, Members, First, Known, Entry, EntryOK, Finds, Excludes, SslFinds,
     HttpFamily, Finder, Successors, UNKNOWN
<1> QED  BY <1>1, <1>2, <1>3

LEMMA FtpToNonTcpUdpTouch ==
  ASSUME NEW e \in Members(FtpToNonTcpUdp), e.func # "directconnect", NEW f, IsFlow(f), NEW p, NEW b
  PROVE  TouchesEntry(e, f, p, b)
<1>0. \/ e = Known("ftp_tcp", "FTP", TcpBare)
      \/ e = First("usenet_tcp", "USENET", TcpNew)
      \/ e = First("dns", "DNS", AnyNew)
      \/ e = First("filetopia_tcp", "FILETOPIA", TcpNew)
      \/ e = First("manolito_tcp_udp", "MANOLITO", AnyNew)
      \/ e = Known("imesh_tcp_udp", "IMESH", AnyNew)
      \/ e = First("mms_tcp", "MMS", TcpNew)
      \/ e = First("pando_tcp_udp", "PANDO", AnyNew)
      \/ e = Entry("in_non_tcp_udp", {}, IP, {UNKNOWN}, {"IPSEC", "GRE", "ICMP", "IGMP", "EGP",
             "SCTP", "OSPF", "IP_IN_IP"})
  BY DEF FtpToNonTcpUdp, Members
<1> USE DEF OtherProtocols, First, Known, Entry, TouchesEntry, Finds, Excludes, Own, Keeps, Dissector
<1>1. CASE e = Known("ftp_tcp", "FTP", TcpBare)
  BY <1>1, FtpTouches
<1>2. CASE e = First("usenet_tcp", "USENET", TcpNew)
  BY <1>2, StagedServicesTouch
<1>3. CASE e = First("dns", "DNS", AnyNew)
  BY <1>3, ServicesTouch
<1>4. CASE e = First("filetopia_tcp", "FILETOPIA", TcpNew)
  BY <1>4, SharingTouch
<1>5. CASE e = First("manolito_tcp_udp", "MANOLITO", AnyNew)
  BY <1>5, SharingTouch
<1>6. CASE e = Known("imesh_tcp_udp", "IMESH", AnyNew)
  BY <1>6, ImeshTouches
<1>7. CASE e = First("mms_tcp", "MMS", TcpNew)
  BY <1>7, MediaTouch
<1>8. CASE e = First("pando_tcp_udp", "PANDO", AnyNew)
  BY <1>8, OneLooksTouch
<1>9. CASE e = Entry("in_non_tcp_udp", {}, IP, {UNKNOWN}, {"IPSEC", "GRE", "ICMP", "IGMP", "EGP",
               "SCTP", "OSPF", "IP_IN_IP"})
  BY <1>9, OtherTouches
<1> QED
  BY <1>0, <1>1, <1>2, <1>3, <1>4, <1>5, <1>6, <1>7, <1>8, <1>9

LEMMA TvantsToFeidianEntries ==
  /\ TvantsToFeidian \in Seq(Members(TvantsToFeidian)) /\ Len(TvantsToFeidian) = 11
  /\ \A i \in 1 .. 11 : Place[TvantsToFeidian[i].func] = 30 + i
  /\ \A e \in Members(TvantsToFeidian) : EntryOK(e)
<1>1. /\ TvantsToFeidian \in Seq(Members(TvantsToFeidian)) /\ Len(TvantsToFeidian) = 11
  <2>1. Len(TvantsToFeidian) = 11  BY DEF TvantsToFeidian
  <2>2. TvantsToFeidian \in Seq({TvantsToFeidian[i] : i \in 1 .. 11})  BY DEF TvantsToFeidian
  <2> QED  BY <2>1, <2>2 DEF Members
<1>2. \A i \in 1 .. 11 : Place[TvantsToFeidian[i].func] = 30 + i
  BY DEF TvantsToFeidian, First, Known, Entry, Place
<1>3. ASSUME NEW e \in Members(TvantsToFeidian) PROVE EntryOK(e)
  BY <1>3 DEF TvantsToFeidian, Members, First, Known, Entry, EntryOK, Finds, Excludes, SslFinds,
     HttpFamily, Finder, Successors, UNKNOWN
<1> QED  BY <1>1, <1>2, <1>3

LEMMA TvantsToFeidianTouch ==
  ASSUME NEW e \in Members(TvantsToFeidian), e.func # "directconnect", NEW f, IsFlow(f), NEW p, NEW b
  PROVE  TouchesEntry(e, f, p, b)
<1>0. \/ e = First("tvants_udp", "TVANTS", AnyData)
      \/ e = First("sopcast", "SOPCAST", AnyData)
      \/ e = First("tvuplayer", "TVUPLAYER", AnyData)
      \/ e = First("ppstream_tcp", "PPSTREAM", AnyData)
      \/ e = First("pplive_tcp_udp", "PPLIVE", AnyData)
      \/ e = Known("iax", "IAX", UdpData)
      \/ e = Known("mgcp", "MGCP", UdpData)
      \/ e = Entry("gadugadu", {"GADUGADU"}, AnyData, {UNKNOWN, "HTTP", "GADUGADU"}, {"GADUGADU"})
      \/ e = Known("zattoo_tcp", "ZATTOO", AnyData)
      \/ e = First("qq", "QQ", AnyNew)
      \/ e = First("feidian", "FEIDIAN", AnyNew)
  BY DEF TvantsToFeidian, Members
<1> USE DEF OtherProtocols, First, Known, Entry, TouchesEntry, Finds, Excludes, Own, Keeps, Dissector
<1>1. CASE e = First("tvants_udp", "TVANTS", AnyData)
  BY <1>1, OneLooksTouch
<1>2. CASE e = First("sopcast", "SOPCAST", AnyData)
  BY <1>2, MediaTouch
<1>3. CASE e = First("tvuplayer", "TVUPLAYER", AnyData)
  BY <1>3, OneLooksTouch
<1>4. CASE e = First("ppstream_tcp", "PPSTREAM", AnyData)
  BY <1>4, MediaTouch
<1>5. CASE e = First("pplive_tcp_udp", "PPLIVE", AnyData)
  BY <1>5, PPLiveTouches
<1>6. CASE e = Known("iax", "IAX", UdpData)
  BY <1>6, MediaTouch
<1>7. CASE e = Known("mgcp", "MGCP", UdpData)
  BY <1>7, OneLooksTouch
<1>8. CASE e = Entry("gadugadu", {"GADUGADU"}, AnyData, {UNKNOWN, "HTTP", "GADUGADU"}, {"GADUGADU"})
  BY <1>8, GaduTouches
<1>9. CASE e = Known("zattoo_tcp", "ZATTOO", AnyData)
  BY <1>9, MediaTouch
<1>10. CASE e = First("qq", "QQ", AnyNew)
  BY <1>10, ChatTouch
<1>11. CASE e = First("feidian", "FEIDIAN", AnyNew)
  BY <1>11, MediaTouch
<1> QED
  BY <1>0, <1>1, <1>2, <1>3, <1>4, <1>5, <1>6, <1>7, <1>8, <1>9, <1>10, <1>11

LEMMA SshToTelnetEntries ==
  /\ SshToTelnet \in Seq(Members(SshToTelnet)) /\ Len(SshToTelnet) = 12
  /\ \A i \in 1 .. 12 : Place[SshToTelnet[i].func] = 41 + i
  /\ \A e \in Members(SshToTelnet) : EntryOK(e)
<1>1. /\ SshToTelnet \in Seq(Members(SshToTelnet)) /\ Len(SshToTelnet) = 12
  <2>1. Len(SshToTelnet) = 12  BY DEF SshToTelnet
  <2>2. SshToTelnet \in Seq({SshToTelnet[i] : i \in 1 .. 12})  BY DEF SshToTelnet
  <2> QED  BY <2>1, <2>2 DEF Members
<1>2. \A i \in 1 .. 12 : Place[SshToTelnet[i].func] = 41 + i
  BY DEF SshToTelnet, First, Known, Entry, Place
<1>3. ASSUME NEW e \in Members(SshToTelnet) PROVE EntryOK(e)
  BY <1>3 DEF SshToTelnet, Members, First, Known, Entry, EntryOK, Finds, Excludes, SslFinds,
     HttpFamily, Finder, Successors, UNKNOWN
<1> QED  BY <1>1, <1>2, <1>3

LEMMA SshToTelnetTouch ==
  ASSUME NEW e \in Members(SshToTelnet), e.func # "directconnect", NEW f, IsFlow(f), NEW p, NEW b
  PROVE  TouchesEntry(e, f, p, b)
<1>0. \/ e = First("ssh_tcp", "SSH", TcpNew)
      \/ e = First("popo_tcp_udp", "POPO", AnyNew)
      \/ e = First("thunder", "THUNDER", AnyNew)
      \/ e = First("vnc_tcp", "VNC", TcpNew)
      \/ e = First("dhcp_udp", "DHCP", UdpData)
      \/ e = First("i23v5", "I23V5", TcpNew)
      \/ e = First("socrates", "SOCRATES", AnyData)
      \/ e = First("steam", "STEAM", TcpNew)
      \/ e = First("halflife2", "HALFLIFE2", UdpData)
      \/ e = First("xbox", "XBOX", AnyNew)
      \/ e = First("smb_tcp", "SMB", TcpNew)
      \/ e = First("telnet_tcp", "TELNET", TcpNew)
  BY DEF SshToTelnet, Members
<1> USE DEF OtherProtocols, First, Known, Entry, TouchesEntry, Finds, Excludes, Own, Keeps, Dissector
<1>1. CASE e = First("ssh_tcp", "SSH", TcpNew)
  BY <1>1, StagedServicesTouch
<1>2. CASE e = First("popo_tcp_udp", "POPO", AnyNew)
  BY <1>2, OneLooksTouch
<1>3. CASE e = First("thunder", "THUNDER", AnyNew)
  BY <1>3, SharingTouch
<1>4. CASE e = First("vnc_tcp", "VNC", TcpNew)
  BY <1>4, StagedServicesTouch
<1>5. CASE e = First("dhcp_udp", "DHCP", UdpData)
  BY <1>5, ServicesTouch
<1>6. CASE e = First("i23v5", "I23V5", TcpNew)
  BY <1>6, SharingTouch
<1>7. CASE e = First("socrates", "SOCRATES", AnyData)
  BY <1>7, OneLooksTouch
<1>8. CASE e = First("steam", "STEAM", TcpNew)
  BY <1>8, StagedServicesTouch
<1>9. CASE e = First("halflife2", "HALFLIFE2", UdpData)
  BY <1>9, StagedServicesTouch
<1>10. CASE e = First("xbox", "XBOX", AnyNew)
  BY <1>10, StagedServicesTouch
<1>11. CASE e = First("smb_tcp", "SMB", TcpNew)
  BY <1>11, ServicesTouch
<1>12. CASE e = First("telnet_tcp", "TELNET", TcpNew)
  BY <1>12, StagedServicesTouch
<1> QED
  BY <1>0, <1>1, <1>2, <1>3, <1>4, <1>5, <1>6, <1>7, <1>8, <1>9, <1>10, <1>11, <1>12

LEMMA NtpToPcanywhereEntries ==
  /\ NtpToPcanywhere \in Seq(Members(NtpToPcanywhere)) /\ Len(NtpToPcanywhere) = 12
  /\ \A i \in 1 .. 12 : Place[NtpToPcanywhere[i].func] = 53 + i
  /\ \A e \in Members(NtpToPcanywhere) : EntryOK(e)
<1>1. /\ NtpToPcanywhere \in Seq(Members(NtpToPcanywhere)) /\ Len(NtpToPcanywhere) = 12
  <2>1. Len(NtpToPcanywhere) = 12  BY DEF NtpToPcanywhere
  <2>2. NtpToPcanywhere \in Seq({NtpToPcanywhere[i] : i \in 1 .. 12})  BY DEF NtpToPcanywhere
  <2> QED  BY <2>1, <2>2 DEF Members
<1>2. \A i \in 1 .. 12 : Place[NtpToPcanywhere[i].func] = 53 + i
  BY DEF NtpToPcanywhere, First, Known, Entry, Place
<1>3. ASSUME NEW e \in Members(NtpToPcanywhere) PROVE EntryOK(e)
  BY <1>3 DEF NtpToPcanywhere, Members, First, Known, Entry, EntryOK, Finds, Excludes, SslFinds,
     HttpFamily, Finder, Successors, UNKNOWN
<1> QED  BY <1>1, <1>2, <1>3

LEMMA NtpToPcanywhereTouch ==
  ASSUME NEW e \in Members(NtpToPcanywhere), e.func # "directconnect", NEW f, IsFlow(f), NEW p, NEW b
  PROVE  TouchesEntry(e, f, p, b)
<1>0. \/ e = First("ntp_udp", "NTP", UdpData)
      \/ e = First("nfs", "NFS", AnyNew)
      \/ e = First("ssdp", "SSDP", UdpData)
      \/ e = First("worldofwarcraft", "WORLDOFWARCRAFT", TcpNew)
      \/ e = First("flash", "FLASH", TcpNew)
      \/ e = First("postgres_tcp", "POSTGRES", TcpNew)
      \/ e = First("mysql_tcp", "MYSQL", TcpNew)
      \/ e = First("bgp", "BGP", TcpNew)
      \/ e = First("quake", "QUAKE", UdpData)
      \/ e = First("battlefield", "BATTLEFIELD", UdpData)
      \/ e = First("secondlife", "SECONDLIFE", UdpData)
      \/ e = First("pcanywhere", "PCANYWHERE", AnyNew)
  BY DEF NtpToPcanywhere, Members
<1> USE DEF OtherProtocols, First, Known, Entry, TouchesEntry, Finds, Excludes, Own, Keeps, Dissector
<1>1. CASE e = First("ntp_udp", "NTP", UdpData)
  BY <1>1, ServicesTouch
<1>2. CASE e = First("nfs", "NFS", AnyNew)
  BY <1>2, ServicesTouch
<1>3. CASE e = First("ssdp", "SSDP", UdpData)
  BY <1>3, ServicesTouch
<1>4. CASE e = First("worldofwarcraft", "WORLDOFWARCRAFT", TcpNew)
  BY <1>4, OneLooksTouch
<1>5. CASE e = First("flash", "FLASH", TcpNew)
  BY <1>5, MediaTouch
<1>6. CASE e = First("postgres_tcp", "POSTGRES", TcpNew)
  BY <1>6, StagedServicesTouch
<1>7. CASE e = First("mysql_tcp", "MYSQL", TcpNew)
  BY <1>7, ServicesTouch
<1>8. CASE e = First("bgp", "BGP", TcpNew)
  BY <1>8, ServicesTouch
<1>9. CASE e = First("quake", "QUAKE", UdpData)
  BY <1>9, OneLooksTouch
<1>10. CASE e = First("battlefield", "BATTLEFIELD", UdpData)
  BY <1>10, StagedServicesTouch
<1>11. CASE e = First("secondlife", "SECONDLIFE", UdpData)
  BY <1>11, OneLooksTouch
<1>12. CASE e = First("pcanywhere", "PCANYWHERE", AnyNew)
  BY <1>12, ServicesTouch
<1> QED
  BY <1>0, <1>1, <1>2, <1>3, <1>4, <1>5, <1>6, <1>7, <1>8, <1>9, <1>10, <1>11, <1>12

LEMMA RdpToMdnsEntries ==
  /\ RdpToMdns \in Seq(Members(RdpToMdns)) /\ Len(RdpToMdns) = 12
  /\ \A i \in 1 .. 12 : Place[RdpToMdns[i].func] = 65 + i
  /\ \A e \in Members(RdpToMdns) : EntryOK(e)
<1>1. /\ RdpToMdns \in Seq(Members(RdpToMdns)) /\ Len(RdpToMdns) = 12
  <2>1. Len(RdpToMdns) = 12  BY DEF RdpToMdns
  <2>2. RdpToMdns \in Seq({RdpToMdns[i] : i \in 1 .. 12})  BY DEF RdpToMdns
  <2> QED  BY <2>1, <2>2 DEF Members
<1>2. \A i \in 1 .. 12 : Place[RdpToMdns[i].func] = 65 + i
  BY DEF RdpToMdns, First, Known, Entry, Place
<1>3. ASSUME NEW e \in Members(RdpToMdns) PROVE EntryOK(e)
  BY <1>3 DEF RdpToMdns, Members, First, Known, Entry, EntryOK, Finds, Excludes, SslFinds,
     HttpFamily, Finder, Successors, UNKNOWN
<1> QED  BY <1>1, <1>2, <1>3

LEMMA RdpToMdnsTouch ==
  ASSUME NEW e \in Members(RdpToMdns), e.func # "directconnect", NEW f, IsFlow(f), NEW p, NEW b
  PROVE  TouchesEntry(e, f, p, b)
<1>0. \/ e = First("rdp", "RDP", TcpNew)
      \/ e = First("snmp", "SNMP", UdpData)
      \/ e = First("kontiki", "KONTIKI", UdpData)
      \/ e = First("icecast_tcp", "ICECAST", TcpNew)
      \/ e = Entry("shoutcast_tcp", {"SHOUTCAST"}, TcpNew, {UNKNOWN, "HTTP"}, {"SHOUTCAST"})
      \/ e = First("veohtv_tcp", "VEOHTV", TcpNew)
      \/ e = First("openft_tcp", "OPENFT", TcpNew)
      \/ e = First("syslog", "SYSLOG", AnyNew)
      \/ e = First("tds_tcp", "TDS", TcpNew)
      \/ e = Known("direct_download_link_tcp", "DIRECT_DOWNLOAD_LINK", TcpData)
      \/ e = First("netbios", "NETBIOS", AnyNew)
      \/ e = First("mdns", "MDNS", UdpData)
  BY DEF RdpToMdns, Members
<1> USE DEF OtherProtocols, First, Known, Entry, TouchesEntry, Finds, Excludes, Own, Keeps, Dissector
<1>1. CASE e = First("rdp", "RDP", TcpNew)
  BY <1>1, ServicesTouch
<1>2. CASE e = First("snmp", "SNMP", UdpData)
  BY <1>2, StagedServicesTouch
<1>3. CASE e = First("kontiki", "KONTIKI", UdpData)
  BY <1>3, OneLooksTouch
<1>4. CASE e = First("icecast_tcp", "ICECAST", TcpNew)
  BY <1>4, OneLooksTouch
<1>5. CASE e = Entry("shoutcast_tcp", {"SHOUTCAST"}, TcpNew, {UNKNOWN, "HTTP"}, {"SHOUTCAST"})
  BY <1>5, OneLooksTouch
<1>6. CASE e = First("veohtv_tcp", "VEOHTV", TcpNew)
  BY <1>6, OneLooksTouch
<1>7. CASE e = First("openft_tcp", "OPENFT", TcpNew)
  BY <1>7, OneLooksTouch
<1>8. CASE e = First("syslog", "SYSLOG", AnyNew)
  BY <1>8, ServicesTouch
<1>9. CASE e = First("tds_tcp", "TDS", TcpNew)
  BY <1>9, StagedServicesTouch
<1>10. CASE e = Known("direct_download_link_tcp", "DIRECT_DOWNLOAD_LINK", TcpData)
  BY <1>10, ChatTouch
<1>11. CASE e = First("netbios", "NETBIOS", AnyNew)
  BY <1>11, ServicesTouch
<1>12. CASE e = First("mdns", "MDNS", UdpData)
  BY <1>12, ServicesTouch
<1> QED
  BY <1>0, <1>1, <1>2, <1>3, <1>4, <1>5, <1>6, <1>7, <1>8, <1>9, <1>10, <1>11, <1>12

LEMMA IppToAiminiEntries ==
  /\ IppToAimini \in Seq(Members(IppToAimini)) /\ Len(IppToAimini) = 6
  /\ \A i \in 1 .. 6 : Place[IppToAimini[i].func] = 77 + i
  /\ \A e \in Members(IppToAimini) : EntryOK(e)
<1>1. /\ IppToAimini \in Seq(Members(IppToAimini)) /\ Len(IppToAimini) = 6
  <2>1. Len(IppToAimini) = 6  BY DEF IppToAimini
  <2>2. IppToAimini \in Seq({IppToAimini[i] : i \in 1 .. 6})  BY DEF IppToAimini
  <2> QED  BY <2>1, <2>2 DEF Members
<1>2. \A i \in 1 .. 6 : Place[IppToAimini[i].func] = 77 + i
  BY DEF IppToAimini, First, Known, Entry, Place
<1>3. ASSUME NEW e \in Members(IppToAimini) PROVE EntryOK(e)
  BY <1>3 DEF IppToAimini, Members, First, Known, Entry, EntryOK, Finds, Excludes, SslFinds,
     HttpFamily, Finder, Successors, UNKNOWN
<1> QED  BY <1>1, <1>2, <1>3

LEMMA IppToAiminiTouch ==
  ASSUME NEW e \in Members(IppToAimini), e.func # "directconnect", NEW f, IsFlow(f), NEW p, NEW b
  PROVE  TouchesEntry(e, f, p, b)
<1>0. \/ e = First("ipp", "IPP", AnyNew)
      \/ e = Known("xdmcp", "XDMCP", AnyData)
      \/ e = First("tftp", "TFTP", UdpDataV4V6)
      \/ e = First("stealthnet", "STEALTHNET", TcpNewV4V6)
      \/ e = First("afp", "AFP", TcpNewV4V6)
      \/ e = First("aimini", "AIMINI", UdpDataV4V6)
  BY DEF IppToAimini, Members
<1> USE DEF OtherProtocols, First, Known, Entry, TouchesEntry, Finds, Excludes, Own, Keeps, Dissector
<1>1. CASE e = First("ipp", "IPP", AnyNew)
  BY <1>1, ServicesTouch
<1>2. CASE e = Known("xdmcp", "XDMCP", AnyData)
  BY <1>2, ServicesTouch
<1>3. CASE e = First("tftp", "TFTP", UdpDataV4V6)
  BY <1>3, StagedServicesTouch
<1>4. CASE e = First("stealthnet", "STEALTHNET", TcpNewV4V6)
  BY <1>4, OneLooksTouch
<1>5. CASE e = First("afp", "AFP", TcpNewV4V6)
  BY <1>5, ServicesTouch
<1>6. CASE e = First("aimini", "AIMINI", UdpDataV4V6)
  BY <1>6, SharingTouch
<1> QED
  BY <1>0, <1>1, <1>2, <1>3, <1>4, <1>5, <1>6

\* The first n entries are where Place says, and the m entries that follow them.
Listed(s, n) ==
  s \in Seq(Members(s)) /\ Len(s) = n /\ \A i \in 1 .. n : Place[s[i].func] = i

Follows(t, n, m) ==
  t \in Seq(Members(t)) /\ Len(t) = m /\ \A i \in 1 .. m : Place[t[i].func] = n + i

\* Two parts, one behind the other.
LEMMA Joined ==
  ASSUME NEW s, NEW t, NEW n \in Nat, NEW m \in Nat, Listed(s, n), Follows(t, n, m)
  PROVE  Listed(s \o t, n + m) /\ Members(s \o t) = Members(s) \cup Members(t)
<1> DEFINE S == Members(s) \cup Members(t)
           st == s \o t
<1>1. s \in Seq(S) /\ t \in Seq(S) /\ Len(s) = n /\ Len(t) = m  BY DEF Listed, Follows
<1>2. /\ st \in Seq(S) /\ Len(st) = n + m
      /\ \A i \in 1 .. n + m : st[i] = IF i <= n THEN s[i] ELSE t[i - n]
  <2> HIDE DEF S
  <2> QED  BY <1>1
<1> HIDE DEF st
<1>3. \A i \in 1 .. n : st[i] = s[i] /\ i \in 1 .. n + m  BY <1>2
<1>4. \A i \in 1 .. m : st[n + i] = t[i] /\ n + i \in 1 .. n + m  BY <1>2
<1>5. \A i \in 1 .. n + m : i \in 1 .. n \/ \E j \in 1 .. m : i = n + j
  <2> TAKE i \in 1 .. n + m
  <2>1. CASE i <= n  BY <2>1
  <2>2. CASE i > n
    <3>1. i - n \in 1 .. m /\ i = n + (i - n)  BY <2>2
    <3> QED  BY <3>1
  <2> QED  BY <2>1, <2>2
<1>6. Members(st) = S
  <2>1. ASSUME NEW i \in 1 .. n + m PROVE st[i] \in S
    <3>1. CASE i \in 1 .. n  BY <1>1, <1>3, <3>1 DEF Members
    <3>2. ASSUME NEW j \in 1 .. m, i = n + j PROVE st[i] \in S  BY <1>1, <1>4, <3>2 DEF Members
    <3> QED  BY <1>5, <3>1, <3>2
  <2>2. \A i \in 1 .. n : s[i] \in Members(st)  BY <1>2, <1>3 DEF Members
  <2>3. \A i \in 1 .. m : t[i] \in Members(st)  BY <1>2, <1>4 DEF Members
  <2> QED  BY <1>1, <1>2, <2>1, <2>2, <2>3 DEF Members
<1>7. ASSUME NEW i \in 1 .. n + m PROVE Place[st[i].func] = i
  <2>1. CASE i \in 1 .. n  BY <1>3, <2>1 DEF Listed
  <2>2. ASSUME NEW j \in 1 .. m, i = n + j PROVE Place[st[i].func] = i
    BY <1>4, <2>2 DEF Follows
  <2> QED  BY <1>5, <2>1, <2>2
<1> QED  BY <1>2, <1>6, <1>7 DEF Listed, st

\* The first entry.
LEMMA HttpEntryOK ==
  /\ <<HttpEntry>> \in Seq(Members(<<HttpEntry>>)) /\ Len(<<HttpEntry>>) = 1
  /\ \A i \in 1 .. 1 : Place[<<HttpEntry>>[i].func] = i
  /\ \A e \in Members(<<HttpEntry>>) : e = HttpEntry
  /\ EntryOK(HttpEntry)
<1>1. HttpEntry.func = "http_tcp"  BY DEF HttpEntry, Entry
<1>2. /\ <<HttpEntry>> \in Seq({HttpEntry}) /\ Len(<<HttpEntry>>) = 1
      /\ Members(<<HttpEntry>>) = {HttpEntry}
  BY DEF Members
<1>3. EntryOK(HttpEntry)
  BY DEF HttpEntry, Entry, EntryOK, Finds, Excludes, HttpFamily, HttpExcludes, Finder,
     Successors, UNKNOWN
<1> QED  BY <1>1, <1>2, <1>3 DEF Place

\* The registry is its parts.
LEMMA RegistryEntries ==
  /\ Registry \in Seq(Members(Registry)) /\ Len(Registry) = 83
  /\ \A i \in 1 .. 83 : Place[Registry[i].func] = i
  /\ Members(Registry) = {HttpEntry} \cup Members(SslToDirectconnect) \cup Members(MsnToSmtp)
       \cup Members(FtpToNonTcpUdp) \cup Members(TvantsToFeidian) \cup Members(SshToTelnet)
       \cup Members(NtpToPcanywhere) \cup Members(RdpToMdns) \cup Members(IppToAimini)
<1> DEFINE R0 == <<HttpEntry>>
           R1 == R0 \o SslToDirectconnect
           R2 == R1 \o MsnToSmtp
           R3 == R2 \o FtpToNonTcpUdp
           R4 == R3 \o TvantsToFeidian
           R5 == R4 \o SshToTelnet
           R6 == R5 \o NtpToPcanywhere
           R7 == R6 \o RdpToMdns
           R8 == R7 \o IppToAimini
<1>1. Listed(R0, 1) /\ Members(R0) = {HttpEntry}
  BY HttpEntryOK DEF Listed, Members
<1> HIDE DEF R0
<1>2. Listed(R1, 11) /\ Members(R1) = Members(R0) \cup Members(SslToDirectconnect)
  <2>1. Follows(SslToDirectconnect, 1, 10)  BY SslToDirectconnectEntries DEF Follows
  <2>2. Listed(R1, 1 + 10) /\ Members(R1) = Members(R0) \cup Members(SslToDirectconnect)
    BY <1>1, <2>1, Joined
  <2> HIDE DEF R1
  <2> QED  BY <2>2
<1> HIDE DEF R1
<1>3. Listed(R2, 21) /\ Members(R2) = Members(R1) \cup Members(MsnToSmtp)
  <2>1. Follows(MsnToSmtp, 11, 10)  BY MsnToSmtpEntries DEF Follows
  <2>2. Listed(R2, 11 + 10) /\ Members(R2) = Members(R1) \cup Members(MsnToSmtp)
    BY <1>2, <2>1, Joined
  <2> HIDE DEF R2
  <2> QED  BY <2>2
<1> HIDE DEF R2
<1>4. Listed(R3, 30) /\ Members(R3) = Members(R2) \cup Members(FtpToNonTcpUdp)
  <2>1. Follows(FtpToNonTcpUdp, 21, 9)  BY FtpToNonTcpUdpEntries DEF Follows
  <2>2. Listed(R3, 21 + 9) /\ Members(R3) = Members(R2) \cup Members(FtpToNonTcpUdp)
    BY <1>3, <2>1, Joined
  <2> HIDE DEF R3
  <2> QED  BY <2>2
<1> HIDE DEF R3
<1>5. Listed(R4, 41) /\ Members(R4) = Members(R3) \cup Members(TvantsToFeidian)
  <2>1. Follows(TvantsToFeidian, 30, 11)  BY TvantsToFeidianEntries DEF Follows
  <2>2. Listed(R4, 30 + 11) /\ Members(R4) = Members(R3) \cup Members(TvantsToFeidian)
    BY <1>4, <2>1, Joined
  <2> HIDE DEF R4
  <2> QED  BY <2>2
<1> HIDE DEF R4
<1>6. Listed(R5, 53) /\ Members(R5) = Members(R4) \cup Members(SshToTelnet)
  <2>1. Follows(SshToTelnet, 41, 12)  BY SshToTelnetEntries DEF Follows
  <2>2. Listed(R5, 41 + 12) /\ Members(R5) = Members(R4) \cup Members(SshToTelnet)
    BY <1>5, <2>1, Joined
  <2> HIDE DEF R5
  <2> QED  BY <2>2
<1> HIDE DEF R5
<1>7. Listed(R6, 65) /\ Members(R6) = Members(R5) \cup Members(NtpToPcanywhere)
  <2>1. Follows(NtpToPcanywhere, 53, 12)  BY NtpToPcanywhereEntries DEF Follows
  <2>2. Listed(R6, 53 + 12) /\ Members(R6) = Members(R5) \cup Members(NtpToPcanywhere)
    BY <1>6, <2>1, Joined
  <2> HIDE DEF R6
  <2> QED  BY <2>2
<1> HIDE DEF R6
<1>8. Listed(R7, 77) /\ Members(R7) = Members(R6) \cup Members(RdpToMdns)
  <2>1. Follows(RdpToMdns, 65, 12)  BY RdpToMdnsEntries DEF Follows
  <2>2. Listed(R7, 65 + 12) /\ Members(R7) = Members(R6) \cup Members(RdpToMdns)
    BY <1>7, <2>1, Joined
  <2> HIDE DEF R7
  <2> QED  BY <2>2
<1> HIDE DEF R7
<1>9. Listed(R8, 83) /\ Members(R8) = Members(R7) \cup Members(IppToAimini)
  <2>1. Follows(IppToAimini, 77, 6)  BY IppToAiminiEntries DEF Follows
  <2>2. Listed(R8, 77 + 6) /\ Members(R8) = Members(R7) \cup Members(IppToAimini)
    BY <1>8, <2>1, Joined
  <2> HIDE DEF R8
  <2> QED  BY <2>2
<1> HIDE DEF R8
<1>10. Registry = R8  BY DEF Registry, R8, R7, R6, R5, R4, R3, R2, R1, R0
<1> QED  BY <1>1, <1>2, <1>3, <1>4, <1>5, <1>6, <1>7, <1>8, <1>9, <1>10 DEF Listed

-----------------------------------------------------------------------------
(* The dissectors of the registry, called by their names.                  *)

\* The one dissector that takes the verdict on a packet back: the flow stays found.
DirectConnectTouch(f, g) ==
  /\ Frame(f, g, Free)
  /\ \/ Kept(f, g)
     \/ Found(f, g, {"DIRECTCONNECT"})
     \/ /\ f.marked = "DIRECTCONNECT" /\ g.detected = f.detected /\ g.marked = UNKNOWN
        /\ \A d \in 0..1 : "directconnect" \notin g.fresh[d]
  /\ Excluded(f, g, {"DIRECTCONNECT"})

\* Direct Connect does nothing else.
LEMMA DirectConnectTouches ==
  ASSUME NEW f, IsFlow(f), NEW p
  PROVE  DirectConnectTouch(f, search_directconnect(f, p))
<1> DEFINE T(g) == /\ Frame(f, g, Free)
                   /\ Kept(f, g) \/ Found(f, g, {"DIRECTCONNECT"})
                   /\ Excluded(f, g, {"DIRECTCONNECT"})
<1>1. "directconnect_stage" \in Stages \cap Free  BY FreeStages
<1>2. ASSUME NEW g, T(g), NEW v
      PROVE  /\ T(Set(g, "directconnect_stage", v)) /\ T(Exclude(g, "DIRECTCONNECT"))
             /\ T(Mark(g, "DIRECTCONNECT")) /\ T(Detect(g, "DIRECTCONNECT"))
             /\ T(Refresh(g, 0..1, "directconnect"))
  BY <1>1, <1>2 DEF Set, Exclude, Mark, Detect, Refresh, Frame, Kept, Found, Excluded, IsFlow, Fields
<1>3. ASSUME NEW g, T(g), NEW d, NEW v PROVE T([g EXCEPT !.ports[d] = v])
  BY <1>3 DEF Frame, Kept, Found, Excluded, IsFlow, Fields
<1>4. T(f)  BY DEF Frame, Kept, Excluded
<1>5. ASSUME NEW peer PROVE T(int_directconnect_add_connection(f, p, peer))
  <2> HIDE DEF T
  <2> QED  BY <1>2, <1>3, <1>4 DEF int_directconnect_add_connection
<1>6. ASSUME NEW d, NEW port PROVE T(DirectConnectPort(f, d, port))
  <2> HIDE DEF T
  <2> QED  BY <1>2, <1>3, <1>4 DEF DirectConnectPort
<1>7. T(search_directconnect_tcp(f, p))
  <2> HIDE DEF T
  <2> QED  BY <1>2, <1>4, <1>5, <1>6 DEF search_directconnect_tcp
<1>8. T(search_directconnect_udp(f, p))
  <2> HIDE DEF T
  <2> QED  BY <1>2, <1>4, <1>5, <1>6 DEF search_directconnect_udp
<1>9. ASSUME NEW g, T(g) PROVE DirectConnectTouch(f, g)
  BY <1>9 DEF DirectConnectTouch
<1> HIDE DEF T
<1>10. ASSUME f.marked = "DIRECTCONNECT", ~ \E d \in 0..1 : "directconnect" \in f.fresh[d]
       PROVE  DirectConnectTouch(f, [f EXCEPT !.marked = UNKNOWN])
  BY <1>10 DEF DirectConnectTouch, Frame, Excluded, IsFlow, Fields
<1> QED
  BY <1>4, <1>7, <1>8, <1>9, <1>10 DEF search_directconnect

\* Every other dissector of the registry touches what its entry says.
LEMMA RegistryTouch ==
  ASSUME NEW e \in Members(Registry), e.func # "directconnect", NEW f, IsFlow(f), NEW p, NEW b
  PROVE  TouchesEntry(e, f, p, b)
<1>1. CASE e = HttpEntry
  BY <1>1, HttpTouches DEF HttpEntry, Entry, TouchesEntry, Finds, Excludes, Own, Keeps, Dissector
<1>2. \/ e \in {HttpEntry} \cup Members(SslToDirectconnect) \cup Members(MsnToSmtp)
      \/ e \in Members(FtpToNonTcpUdp) \cup Members(TvantsToFeidian) \cup Members(SshToTelnet)
      \/ e \in Members(NtpToPcanywhere) \cup Members(RdpToMdns) \cup Members(IppToAimini)
  BY RegistryEntries
<1> QED
  BY <1>1, <1>2, SslToDirectconnectTouch, MsnToSmtpTouch, FtpToNonTcpUdpTouch,
     TvantsToFeidianTouch, SshToTelnetTouch, NtpToPcanywhereTouch, RdpToMdnsTouch, IppToAiminiTouch

\* Every entry keeps its promises.
LEMMA RegistryOK == \A e \in Members(Registry) : EntryOK(e)
  BY HttpEntryOK, RegistryEntries, SslToDirectconnectEntries, MsnToSmtpEntries, FtpToNonTcpUdpEntries,
     TvantsToFeidianEntries, SshToTelnetEntries, NtpToPcanywhereEntries, RdpToMdnsEntries,
     IppToAiminiEntries

\* A dissector has one entry.
LEMMA FuncsDiffer ==
  /\ NoDuplicates(Registry)
  /\ \A e, g \in Members(Registry) : e.func = g.func => e = g
<1>1. Len(Registry) = 83 /\ \A i \in 1 .. 83 : Place[Registry[i].func] = i  BY RegistryEntries
<1>2. ASSUME NEW i \in 1 .. 83, NEW j \in 1 .. 83, Registry[i].func = Registry[j].func
      PROVE  i = j
  <2>1. Place[Registry[i].func] = i /\ Place[Registry[j].func] = j  BY <1>1
  <2> QED  BY <2>1, <1>2
<1>3. NoDuplicates(Registry)
  <2>1. \A i, j \in 1 .. 83 : Registry[i] = Registry[j] => i = j  BY <1>2
  <2>2. \A i, j \in 1 .. Len(Registry) : Registry[i] = Registry[j] => i = j
    <3> HIDE <1>2
    <3>1. 1 .. Len(Registry) = 1 .. 83  BY <1>1
    <3> QED  BY <3>1, <2>1, Zenon
  <2> QED  BY <2>2, Zenon DEF NoDuplicates
<1>4. ASSUME NEW e \in Members(Registry), NEW g \in Members(Registry), e.func = g.func
      PROVE  e = g
  <2>1. PICK i \in 1 .. 83 : e = Registry[i]  BY <1>1 DEF Members
  <2>2. PICK j \in 1 .. 83 : g = Registry[j]  BY <1>1 DEF Members
  <2>3. i = j  BY <1>2, <1>4, <2>1, <2>2
  <2> QED  BY <2>1, <2>2, <2>3
<1> QED  BY <1>3, <1>4

\* Entries of the registry, none twice.
Chain(s) == s \in Seq(Members(Registry)) /\ NoDuplicates(s)

\* A chain stays one when entries are taken out, also the first.
LEMMA ChainWithout ==
  ASSUME NEW s, Chain(s), NEW gone
  PROVE  Chain(Without(s, gone)) /\ Members(Without(s, gone)) = Members(s) \ gone
  BY WithoutChain DEF Chain

LEMMA ChainTail ==
  ASSUME NEW s, Chain(s), s # << >>
  PROVE  /\ Head(s) \in Members(s) /\ Chain(Tail(s))
         /\ Members(Tail(s)) = Members(s) \ {Head(s)}
<1>1. /\ Len(s) \in Nat /\ Len(s) > 0 /\ Head(s) = s[1] /\ Tail(s) \in Seq(Members(Registry))
      /\ Len(Tail(s)) = Len(s) - 1 /\ \A i \in 1 .. Len(s) - 1 : Tail(s)[i] = s[i + 1]
  BY DEF Chain
<1>2. NoDuplicates(Tail(s))
  BY <1>1 DEF Chain, NoDuplicates
<1>3. \A i \in 1 .. Len(Tail(s)) : Tail(s)[i] \in Members(s) /\ Tail(s)[i] # Head(s)
  BY <1>1 DEF Chain, NoDuplicates, Members
<1>4. ASSUME NEW i \in 1 .. Len(s), s[i] # Head(s) PROVE s[i] \in Members(Tail(s))
  <2>1. i - 1 \in 1 .. Len(Tail(s)) /\ Tail(s)[i - 1] = s[i]  BY <1>1, <1>4
  <2> QED  BY <2>1 DEF Members
<1>5. Head(s) \in Members(s)  BY <1>1 DEF Members
<1>6. Members(Tail(s)) = Members(s) \ {Head(s)}
  BY <1>3, <1>4 DEF Members
<1> QED  BY <1>1, <1>2, <1>5, <1>6 DEF Chain

-----------------------------------------------------------------------------
(* A packet and its callbacks.  The verdict it met chooses them, so what a *)
(* dissector finds is a successor of that verdict.                         *)

\* The dissectors of Detection are those of lib/protocols.
Bound == \A func, f, p, b : Dissect(func, f, p, b) = Dissector(func, f, p, b)

\* The fields of flow.
IsState(f) ==
  /\ DOMAIN f = {"detected", "marked", "excluded", "stage", "memo", "commands", "seen", "fresh",
                "ports"}
  /\ DOMAIN f.stage = Stages /\ DOMAIN f.memo = Memos /\ DOMAIN f.commands = {"smtp", "pop"}
  /\ DOMAIN f.seen = 0..1 /\ DOMAIN f.fresh = 0..1 /\ DOMAIN f.ports = 0..1

\* The callbacks still to be called were chosen for the verdict the packet met, and
\* each of them will be called once.
Calls ==
  /\ configured \in Bitmasks /\ flows \in Nat
  /\ IsState(flow)
  /\ Chain(buffers.tcp_payload) /\ Chain(buffers.tcp_no_payload)
  /\ Chain(buffers.udp) /\ Chain(buffers.non_tcp_udp)
  /\ Chain(todo)
  /\ phase \in {"idle", "dissect"}
  /\ phase = "idle" => todo = << >> /\ saved = UNKNOWN
  /\ phase = "dissect" =>
       /\ transport = packet.l4
       /\ \A e \in Members(todo) : /\ saved \in e.detection
                                   /\ e.selection \subseteq Selection(packet, packet.retransmission)

\* A dissector gets a flow.
LEMMA ViewIsFlow == IsState(flow) => IsFlow(View)
  BY DEF IsState, IsFlow, View, Fields

\* A new flow has its fields.
LEMMA EmptyIsState ==
  ASSUME NEW seen, NEW fresh, NEW ports, DOMAIN seen = 0..1, DOMAIN fresh = 0..1, DOMAIN ports = 0..1
  PROVE  IsState(EmptyFlow(seen, fresh, ports))
  BY DEF IsState, EmptyFlow, Stages

\* The callback buffers hold each dissector once.
LEMMA BuffersAreChains ==
  ASSUME NEW b
  PROVE  /\ Chain(Buffers(b).tcp_payload) /\ Chain(Buffers(b).tcp_no_payload)
         /\ Chain(Buffers(b).udp) /\ Chain(Buffers(b).non_tcp_udp)
<1>1. Chain(Registry)  BY RegistryEntries, FuncsDiffer DEF Chain
<1>2. Chain(callback_buffer(b))  BY <1>1, ChainWithout DEF callback_buffer
<1> QED  BY <1>2, ChainWithout DEF Buffers

\* A callback on a flow: what flow becomes is what the dissector made of the view.
Called(e, g) ==
  /\ e = Head(todo) /\ e \in Members(Registry) /\ e \in Members(todo)
  /\ g = Dissector(e.func, View, packet, configured)
  /\ flow.excluded \cap e.excluded = {}
  /\ flow' = [x \in DOMAIN flow |-> g[x]]
  /\ Members(todo') = Members(todo) \ {e} /\ Chain(todo')
  /\ Frame(View, g, Own(e.func))
  /\ Excluded(View, g, Excludes(e))
  /\ g.detected = flow.detected \/ g.detected \in Finds(e)
  /\ IF e.func = "directconnect" THEN DirectConnectTouch(View, g)
     ELSE Touches(View, g, Finds(e), Excludes(e), Own(e.func))

\* Every call is one of the registry, and does what its entry says.
LEMMA CallIs ==
  ASSUME Bound, Calls, Call
  PROVE  \E e, g : Called(e, g)
<1> DEFINE e == Head(todo)
           g == Dissector(e.func, View, packet, configured)
<1>1. Chain(todo) /\ todo # << >> /\ IsFlow(View)  BY ViewIsFlow DEF Calls, Call
<1>2. e \in Members(todo) /\ Chain(Tail(todo)) /\ Members(Tail(todo)) = Members(todo) \ {e}
  BY <1>1, ChainTail
<1>3. e \in Members(Registry)  BY <1>1, <1>2 DEF Chain, Members
<1>4. Dissect(e.func, View, packet, configured) = g  BY DEF Bound
<1>5. flow' = [x \in DOMAIN flow |-> g[x]] /\ flow.excluded \cap e.excluded = {} /\ todo' = Tail(todo)
  BY <1>4 DEF Call, Callable
<1>6. CASE e.func = "directconnect"
  <2>1. DirectConnectTouch(View, g)  BY <1>1, <1>6, DirectConnectTouches DEF Dissector
  <2>2. e = Known("directconnect", "DIRECTCONNECT", AnyNew)
    <3>1. Known("directconnect", "DIRECTCONNECT", AnyNew) \in Members(Registry)
      <4>1. Known("directconnect", "DIRECTCONNECT", AnyNew) = SslToDirectconnect[10]
        BY DEF SslToDirectconnect
      <4>2. 10 \in 1 .. Len(SslToDirectconnect)  BY SslToDirectconnectEntries
      <4>3. Known("directconnect", "DIRECTCONNECT", AnyNew) \in Members(SslToDirectconnect)
        BY <4>1, <4>2, Zenon DEF Members
      <4> QED  BY <4>3, RegistryEntries
    <3> QED  BY <3>1, <1>3, <1>6, FuncsDiffer DEF Known, Entry
  <2>3. Finds(e) = {"DIRECTCONNECT"} /\ Excludes(e) = {"DIRECTCONNECT"}
    BY <2>2 DEF Known, Entry, Finds, Excludes
  <2>4. Own(e.func) = Free  BY <1>6 DEF Own, Keeps
  <2> HIDE DEF g, e
  <2>5. Called(e, g)
    <3>1. e = Head(todo) /\ g = Dissector(e.func, View, packet, configured)  BY DEF e, g
    <3> QED  BY <3>1, <2>1, <2>3, <2>4, <1>2, <1>3, <1>5, <1>6
             DEF Called, DirectConnectTouch, Kept, Found, View
  <2> QED  BY <2>5
<1>7. CASE e.func # "directconnect"
  <2>1. Touches(View, g, Finds(e), Excludes(e), Own(e.func))
    BY <1>1, <1>3, <1>7, RegistryTouch DEF TouchesEntry
  <2> HIDE DEF g, e
  <2>2. Called(e, g)
    <3>1. e = Head(todo) /\ g = Dissector(e.func, View, packet, configured)  BY DEF e, g
    <3> QED  BY <3>1, <2>1, <1>2, <1>3, <1>5, <1>7
             DEF Called, Touches, Kept, Found, View
  <2> QED  BY <2>2
<1> QED  BY <1>6, <1>7

\* What an arriving packet meets.
LEMMA ArriveChain ==
  ASSUME Calls, NEW k, NEW d \in 0..1, NEW o, Arrive(k, d, o)
  PROVE  /\ Chain(todo') /\ IsState(flow')
         /\ transport' = packet'.l4 /\ flow'.marked = flow'.detected /\ saved' = flow'.detected
         /\ \A e \in Members(todo') :
              /\ saved' \in e.detection
              /\ e.selection \subseteq Selection(packet', packet'.retransmission)
         /\ flow'.seen = flow.seen /\ flow'.fresh = flow.fresh
         /\ \/ flow' = [flow EXCEPT !.marked = flow.detected]
            \/ /\ flow.detected = UNKNOWN
               /\ flow' = [EmptyFlow(flow.seen, flow.fresh, flow.ports) EXCEPT !.marked = UNKNOWN]
<1> DEFINE p == PacketOf(k, d, edge[d] + o)
           c == IF IsReset(p) THEN NoConn ELSE conn
           f == IF IsReset(p) THEN EmptyFlow(flow.seen, flow.fresh, flow.ports) ELSE flow
           again == IsRetransmission(c, p)
           gone == {e \in Members(BufferOf(p)) : ~ (/\ e.selection \subseteq Selection(p, again)
                                                    /\ f.detected \in e.detection)}
<1>1. /\ todo' = Without(BufferOf(p), gone) /\ saved' = f.detected
      /\ flow' = [f EXCEPT !.marked = f.detected] /\ transport' = k.l4
      /\ packet' = [p EXCEPT !.retransmission = again, !.retried = IsRetried(c, p),
                             !.judged = IsTcp(p) /\ Tracked(c) /\ p.len > 0]
  BY DEF Arrive
<1>2. Chain(BufferOf(p))  BY DEF Calls, BufferOf
<1>3. /\ packet'.l4 = p.l4 /\ packet'.len = p.len /\ packet'.retransmission = again /\ p.l4 = k.l4
  BY <1>1 DEF PacketOf
<1>4. Selection(packet', packet'.retransmission) = Selection(p, again)
  BY <1>3 DEF Selection, IsTcp, IsUdp
<1>5. IsReset(p) => flow.detected = UNKNOWN  BY DEF IsReset
<1>6. IsState(f) /\ f.seen = flow.seen /\ f.fresh = flow.fresh
  <2>1. IsState(flow) /\ DOMAIN flow.seen = 0..1 /\ DOMAIN flow.fresh = 0..1 /\ DOMAIN flow.ports = 0..1
    BY DEF Calls, IsState
  <2>2. CASE IsReset(p)  BY <2>1, <2>2, EmptyIsState DEF EmptyFlow
  <2>3. CASE ~ IsReset(p)  BY <2>1, <2>3
  <2> QED  BY <2>2, <2>3
<1>7. f = flow \/ (flow.detected = UNKNOWN /\ f = EmptyFlow(flow.seen, flow.fresh, flow.ports))
  BY <1>5
<1> HIDE DEF f, again, c, p
<1>8. Chain(todo') /\ Members(todo') = Members(BufferOf(p)) \ gone
  <2> HIDE DEF gone
  <2> QED  BY <1>1, <1>2, ChainWithout
<1>9. \A e \in Members(todo') : f.detected \in e.detection /\ e.selection \subseteq Selection(p, again)
  BY <1>8
<1>10. IsState(flow') /\ flow'.marked = f.detected /\ flow'.detected = f.detected
       /\ flow'.seen = f.seen /\ flow'.fresh = f.fresh
  BY <1>1, <1>6 DEF IsState
<1>11. EmptyFlow(flow.seen, flow.fresh, flow.ports).detected = UNKNOWN  BY DEF EmptyFlow
<1> QED  BY <1>1, <1>3, <1>4, <1>6, <1>7, <1>8, <1>9, <1>10, <1>11

\* A call leaves flow with its fields.
LEMMA CallKeepsState ==
  ASSUME NEW e, NEW g, Called(e, g), IsState(flow)
  PROVE  /\ IsState(flow')
         /\ \A x \in DOMAIN flow : flow'[x] = g[x]
  BY DEF Called, Frame, IsFlow, IsState

\* Calls is an invariant.
LEMMA CallsInit == Init => Calls
<1> SUFFICES ASSUME Init PROVE Calls  OBVIOUS
<1>1. IsState(flow)  BY EmptyIsState DEF Init
<1>2. Chain(<< >>)  BY DEF Chain, NoDuplicates
<1> QED  BY <1>1, <1>2, BuffersAreChains DEF Init, Calls

LEMMA CallsNext == ASSUME Bound, Calls, [Next]_vars PROVE Calls'
<1>1. ASSUME NEW k \in Kinds(configured), NEW d \in 0..1, NEW o \in Offsets(configured), Arrive(k, d, o)
      PROVE  Calls'
  BY <1>1, ArriveChain DEF Arrive, Calls
<1>2. ASSUME NEW k \in Kinds(configured), Refuse(k) PROVE Calls'
  BY <1>2 DEF Refuse, Calls
<1>3. CASE Call
  <2>1. PICK e, g : Called(e, g)  BY <1>3, CallIs
  <2>2. IsState(flow')  BY <2>1, CallKeepsState DEF Calls
  <2>3. Chain(todo') /\ Members(todo') \subseteq Members(todo)  BY <2>1 DEF Called
  <2> QED  BY <2>2, <2>3, <1>3 DEF Call, Calls
<1>4. CASE Skip
  <2>1. Chain(Tail(todo)) /\ Members(Tail(todo)) \subseteq Members(todo)
    BY <1>4, ChainTail DEF Skip, Calls
  <2> QED  BY <2>1, <1>4 DEF Skip, Calls
<1>5. CASE Return  BY <1>5 DEF Return, Calls
<1>6. ASSUME NEW b \in Reconfigured(configured), SetBitmask(b) PROVE Calls'
  <2>1. b \in Bitmasks  BY InputsAssumption DEF Calls
  <2> QED  BY <1>6, <2>1, BuffersAreChains DEF SetBitmask, Calls
<1>7. CASE NewFlow
  <2>1. DOMAIN flow.seen = 0..1 /\ DOMAIN flow.fresh = 0..1 /\ DOMAIN flow.ports = 0..1
    BY DEF Calls, IsState
  <2>2. IsState(EmptyFlow(flow.seen, flow.fresh, flow.ports))  BY <2>1, EmptyIsState
  <2>3. IsState(flow')  BY <1>7, <2>2 DEF NewFlow
  <2> QED  BY <1>7, <2>3 DEF NewFlow, Calls
<1>8. ASSUME NEW d \in 0..1, NEW t \in Timers(configured), Expire(d, t) PROVE Calls'
  <2>1. IsState(flow')  BY <1>8 DEF Expire, Calls, IsState
  <2> QED  BY <1>8, <2>1 DEF Expire, Calls
<1>9. CASE UNCHANGED vars  BY <1>9 DEF vars, Calls
<1> QED  BY <1>1, <1>2, <1>3, <1>4, <1>5, <1>6, <1>7, <1>8, <1>9 DEF Next

\* While a flow lives its verdict is not taken back, and the verdict a packet met stays
\* or becomes a successor of it (VerdictKept): for all packets and configurations, with
\* the dissectors of lib/protocols called in the order of the registry.
THEOREM VerdictIsKept == ASSUME Bound PROVE Spec => VerdictKept
<1> DEFINE Step == flows' = flows /\ flow.detected # UNKNOWN =>
        \/ flow'.detected = flow.detected
        \/ /\ phase = "dissect" /\ flow'.detected # UNKNOWN
           /\ saved = UNKNOWN \/ flow'.detected \in {saved} \cup Successors(saved)
<1>1. ASSUME Calls, [Next]_vars PROVE Step
  <2> SUFFICES ASSUME flows' = flows, flow.detected # UNKNOWN
               PROVE  \/ flow'.detected = flow.detected
                      \/ /\ phase = "dissect" /\ flow'.detected # UNKNOWN
                         /\ saved = UNKNOWN \/ flow'.detected \in {saved} \cup Successors(saved)
    OBVIOUS
  <2> USE <1>1
  <2>1. ASSUME NEW k \in Kinds(configured), NEW d \in 0..1, NEW o \in Offsets(configured),
               Arrive(k, d, o)
        PROVE  flow'.detected = flow.detected
    <3>1. flow' = [flow EXCEPT !.marked = flow.detected]  BY <2>1, ArriveChain
    <3> QED  BY <3>1 DEF Calls, IsState
  <2>2. ASSUME NEW k \in Kinds(configured), Refuse(k) PROVE flow'.detected = flow.detected
    BY <2>2 DEF Refuse
  <2>3. CASE Call
    <3>1. PICK e, g : Called(e, g)  BY <2>3, CallIs
    <3>2. flow'.detected = g.detected  BY <3>1, CallKeepsState DEF Calls, IsState
    <3>3. g.detected = flow.detected \/ g.detected \in Finds(e)  BY <3>1 DEF Called
    <3>4. EntryOK(e) /\ saved \in e.detection /\ phase = "dissect"
      BY <3>1, <2>3, RegistryOK DEF Called, Calls, Call
    <3> QED  BY <3>2, <3>3, <3>4 DEF EntryOK
  <2>4. CASE Skip  BY <2>4 DEF Skip
  <2>5. CASE Return  BY <2>5 DEF Return
  <2>6. ASSUME NEW b \in Reconfigured(configured), SetBitmask(b) PROVE flow'.detected = flow.detected
    BY <2>6 DEF SetBitmask
  <2>7. ~ NewFlow  BY DEF NewFlow, Calls
  <2>8. ASSUME NEW d \in 0..1, NEW t \in Timers(configured), Expire(d, t)
        PROVE  flow'.detected = flow.detected
    BY <2>8 DEF Expire, Calls, IsState
  <2>9. CASE UNCHANGED vars  BY <2>9 DEF vars
  <2> QED  BY <2>1, <2>2, <2>3, <2>4, <2>5, <2>6, <2>7, <2>8, <2>9 DEF Next
<1>2. Init => Calls  BY CallsInit
<1>3. Calls /\ [Next]_vars => Calls'  BY CallsNext
<1>4. Calls /\ [Next]_vars => [Step]_vars  BY <1>1
<1> QED  BY <1>2, <1>3, <1>4, PTL DEF Spec, VerdictKept

-----------------------------------------------------------------------------
(* The verdict that is reported.                                           *)

\* What a chain holds.
LEMMA ChainMembers ==
  ASSUME NEW s, Chain(s), NEW e \in Members(s)
  PROVE  e \in Members(Registry)
<1> DEFINE E == Members(Registry)
<1>1. s \in Seq(E)  BY DEF Chain
<1> HIDE DEF E
<1>2. e \in E  BY <1>1 DEF Members
<1> QED  BY <1>2 DEF E

\* The verdict on the packet is the one on the flow, unless Direct Connect has just
\* taken it back; Direct Connect is then not called again.
Report ==
  phase = "dissect" =>
    \/ flow.marked = flow.detected
    \/ /\ flow.detected = "DIRECTCONNECT" /\ flow.marked = UNKNOWN
       /\ \A d \in 0..1 : "directconnect" \notin flow.fresh[d]
       /\ \A e \in Members(todo) : e.func # "directconnect"

\* A call keeps the two verdicts together.
LEMMA ReportCall == ASSUME Bound, Calls, Report, Call PROVE Report'
<1>1. PICK e, g : Called(e, g)  BY CallIs
<1>2. flow'.detected = g.detected /\ flow'.marked = g.marked /\ flow'.fresh = g.fresh
  BY <1>1, CallKeepsState DEF Calls, IsState
<1>3. /\ e \in Members(todo) /\ e \in Members(Registry) /\ phase = "dissect"
      /\ Members(todo') = Members(todo) \ {e}
  BY <1>1 DEF Called, Call
<1>4. View.detected = flow.detected /\ View.marked = flow.marked /\ View.fresh = flow.fresh
  BY DEF View
<1>5. CASE e.func = "directconnect"
  <2>1. DirectConnectTouch(View, g)  BY <1>1, <1>5 DEF Called
  <2>2. flow.marked = flow.detected  BY <1>3, <1>5 DEF Report
  <2>3. \A a \in Members(todo) : a \in Members(Registry)  BY ChainMembers DEF Calls
  <2>4. \A a \in Members(todo') : a.func # "directconnect"  BY <1>3, <1>5, <2>3, FuncsDiffer
  <2> QED  BY <1>2, <1>4, <2>1, <2>2, <2>4 DEF DirectConnectTouch, Kept, Found, Report
<1>6. CASE e.func # "directconnect"
  <2>1. Touches(View, g, Finds(e), Excludes(e), Own(e.func))  BY <1>1, <1>6 DEF Called
  <2>2. (g.detected = flow.detected /\ g.marked = flow.marked) \/ g.marked = g.detected
    BY <1>4, <2>1 DEF Touches, Kept, Found
  <2>3. \A d \in 0..1 : "directconnect" \in g.fresh[d] => "directconnect" \in flow.fresh[d]
    BY <1>4, <2>1 DEF Touches, NotOurs
  <2> QED  BY <1>2, <1>3, <2>2, <2>3 DEF Report
<1> QED  BY <1>5, <1>6

\* So does every step.
LEMMA ReportNext == ASSUME Bound, Calls, Report, [Next]_vars PROVE Report'
<1>1. ASSUME NEW k \in Kinds(configured), NEW d \in 0..1, NEW o \in Offsets(configured), Arrive(k, d, o)
      PROVE  Report'
  BY <1>1, ArriveChain DEF Report
<1>2. ASSUME NEW k \in Kinds(configured), Refuse(k) PROVE Report'  BY <1>2 DEF Refuse, Report
<1>3. CASE Call  BY <1>3, ReportCall
<1>4. CASE Skip
  <2>1. Members(todo') \subseteq Members(todo)  BY <1>4, ChainTail DEF Skip, Calls
  <2> QED  BY <2>1, <1>4 DEF Skip, Report
<1>5. CASE Return  BY <1>5 DEF Return, Report
<1>6. ASSUME NEW b \in Reconfigured(configured), SetBitmask(b) PROVE Report'
  BY <1>6 DEF SetBitmask, Report
<1>7. CASE NewFlow  BY <1>7 DEF NewFlow, Report
<1>8. ASSUME NEW d \in 0..1, NEW t \in Timers(configured), Expire(d, t) PROVE Report'
  BY <1>8 DEF Expire, Report
<1>9. CASE UNCHANGED vars  BY <1>9 DEF vars, Report
<1> QED  BY <1>1, <1>2, <1>3, <1>4, <1>5, <1>6, <1>7, <1>8, <1>9 DEF Next

\* What a packet returns is the verdict on its flow, or UNKNOWN if that is not configured
\* when it returns, but for a Direct Connect flow whose hosts have no fresh time stamp
\* (Reported): for all packets, configurations and changes of configuration.
THEOREM VerdictIsReported == ASSUME Bound PROVE Spec => Reported
<1> DEFINE Step == phase = "dissect" /\ phase' = "idle" =>
        \/ result' = IF flow.detected \in configured THEN flow.detected ELSE UNKNOWN
        \/ /\ flow.detected = "DIRECTCONNECT" /\ result' = UNKNOWN
           /\ \A d \in 0..1 : "directconnect" \notin flow.fresh[d]
<1>1. ASSUME Report, [Next]_vars PROVE Step
  <2> SUFFICES ASSUME phase = "dissect", phase' = "idle"
               PROVE  \/ result' = IF flow.detected \in configured THEN flow.detected ELSE UNKNOWN
                      \/ /\ flow.detected = "DIRECTCONNECT" /\ result' = UNKNOWN
                         /\ \A d \in 0..1 : "directconnect" \notin flow.fresh[d]
    OBVIOUS
  <2>1. Return
    BY <1>1 DEF Next, Arrive, Refuse, Call, Skip, SetBitmask, NewFlow, Expire, vars
  <2>2. result' = IF flow.marked \in configured THEN flow.marked ELSE UNKNOWN
    BY <2>1 DEF Return
  <2>3. CASE flow.marked = flow.detected
    BY <2>2, <2>3
  <2>4. CASE flow.marked # flow.detected
    <3>1. /\ flow.detected = "DIRECTCONNECT" /\ flow.marked = UNKNOWN
          /\ \A d \in 0..1 : "directconnect" \notin flow.fresh[d]
      BY <1>1, <2>4 DEF Report
    <3> QED
      BY <2>2, <3>1
  <2> QED
    BY <2>3, <2>4
<1>2. Init => Calls /\ Report  BY CallsInit DEF Init, Report
<1>3. Calls /\ Report /\ [Next]_vars => Calls' /\ Report'  BY CallsNext, ReportNext
<1>4. Report /\ [Next]_vars => [Step]_vars  BY <1>1
<1> QED  BY <1>2, <1>3, <1>4, PTL DEF Spec, Reported

-----------------------------------------------------------------------------
(* What a dissector that has found its protocol does on later packets.     *)

\* Nothing is excluded; a flow found as X is not excluded from X by its own dissector.
Open(f, g) == IsFlow(g) /\ g.excluded = f.excluded

Stays(f, g, X) == g.excluded = f.excluded \/ g.detected # X

\* What leaves the exclusions alone.
LEMMA OpenThen ==
  ASSUME NEW f, NEW g, Open(f, g)
  PROVE  /\ \A X : Open(f, Detect(g, X)) /\ Open(f, Mark(g, X))
         /\ \A s \in Stages : \A v : Open(f, Set(g, s, v))
         /\ \A hosts, t : Open(f, Refresh(g, hosts, t))
         /\ \A v : DOMAIN v = 0..1 => Open(f, [g EXCEPT !.ports = v])
         /\ \A d, v : Open(f, [g EXCEPT !.ports[d] = v])
         /\ \A v : DOMAIN v = 0..1 => Open(f, [g EXCEPT !.seen = v])
         /\ \A X : Stays(f, g, X)
<1> USE DEF Open, IsFlow, Fields
<1>1. \A X : Open(f, Detect(g, X)) /\ Open(f, Mark(g, X))  BY DEF Detect, Mark
<1>2. \A s \in Stages : \A v : Open(f, Set(g, s, v))  BY DEF Set
<1>3. \A hosts, t : Open(f, Refresh(g, hosts, t))  BY DEF Refresh
<1>4. \A v : DOMAIN v = 0..1 => Open(f, [g EXCEPT !.ports = v])  OBVIOUS
<1>5. \A d, v : Open(f, [g EXCEPT !.ports[d] = v])  OBVIOUS
<1>6. \A v : DOMAIN v = 0..1 => Open(f, [g EXCEPT !.seen = v])  OBVIOUS
<1>7. \A X : Stays(f, g, X)  BY DEF Stays
<1> QED  BY <1>1, <1>2, <1>3, <1>4, <1>5, <1>6, <1>7

\* Who has not found X may exclude it.
LEMMA GivesUp ==
  ASSUME NEW f, IsFlow(f), NEW g, IsFlow(g), g.detected = f.detected, NEW X, f.detected # X, NEW Y
  PROVE  Stays(f, Exclude(g, Y), X)
  BY DEF Stays, Exclude, IsFlow, Fields

\* A dissector may leave the flow alone.
LEMMA OpenSelf == ASSUME NEW f, IsFlow(f) PROVE Open(f, f)
  BY DEF Open

\* FTP.
LEMMA FtpStays ==
  ASSUME NEW f, IsFlow(f), NEW p, f.detected = "FTP" => f.marked = "FTP"
  PROVE  Stays(f, search_ftp_tcp(f, p), "FTP")
<1>1. "ftp_stage" \in Stages  BY GuardedStages
<1>2. Open(f, f)  BY OpenSelf
<1>3. Open(f, Detect(f, "FTP"))  BY <1>2, OpenThen
<1>4. Open(f, search_ftp(f, p)[2])  BY <1>1, <1>2, OpenThen DEF search_ftp
<1>5. ASSUME NEW g, Open(f, g), NEW hosts PROVE Open(f, FtpPeers(g, hosts))
  <2>1. Open(f, Refresh(g, 0..1, "ftp"))  BY <1>5, OpenThen
  <2> QED  BY <2>1, OpenThen DEF FtpPeers
<1>6. ASSUME NEW g, Open(f, g)
      PROVE  Open(f, search_passive_ftp_mode(g, p)) /\ Open(f, search_active_ftp_mode(g, p))
  BY <1>5, <1>6 DEF search_passive_ftp_mode, search_active_ftp_mode
<1>7. Open(f, search_active_ftp_mode(search_passive_ftp_mode(f, p), p))  BY <1>2, <1>6
<1>8. f.marked # "FTP" => Stays(f, Exclude(f, "FTP"), "FTP")  BY GivesUp
<1> QED  BY <1>2, <1>3, <1>4, <1>7, <1>8, OpenThen DEF search_ftp_tcp

\* Direct Connect.
LEMMA DirectConnectStays ==
  ASSUME NEW f, IsFlow(f), NEW p, f.detected = f.marked
  PROVE  Stays(f, search_directconnect(f, p), "DIRECTCONNECT")
<1> DEFINE X == "DIRECTCONNECT"
<1>1. "directconnect_stage" \in Stages  BY FreeStages
<1>2. Open(f, f)  BY OpenSelf
<1>3. ASSUME NEW peer PROVE Open(f, int_directconnect_add_connection(f, p, peer))
  BY <1>2, OpenThen DEF int_directconnect_add_connection
<1>4. ASSUME NEW d, NEW port PROVE Open(f, DirectConnectPort(f, d, port))
  BY <1>2, OpenThen DEF DirectConnectPort
<1>5. \A v : Open(f, Set(f, "directconnect_stage", v))  BY <1>1, <1>2, OpenThen
<1>6. ASSUME f.marked # X PROVE Stays(f, search_directconnect_tcp(f, p), X)
  <2>1. Stays(f, Exclude(f, X), X)  BY <1>6, GivesUp
  <2> HIDE DEF X
  <2> QED  BY <2>1, <1>2, <1>3, <1>4, <1>5, OpenThen DEF search_directconnect_tcp, X
<1>7. ASSUME f.marked # X PROVE Stays(f, search_directconnect_udp(f, p), X)
  <2> DEFINE set(g, v) == Set(g, "directconnect_stage", v)
             once == set(f, f.stage.directconnect_stage + 1)
             twice == set(once, once.stage.directconnect_stage + 1)
  <2>1. Open(f, once) /\ Open(f, twice)  BY <1>1, <1>5, OpenThen
  <2>2. once.detected = f.detected /\ twice.detected = f.detected  BY DEF Set, IsFlow, Fields
  <2> HIDE DEF once, twice
  <2>3. \A g \in {f, once, twice} : Stays(f, Exclude(g, X), X)
    BY <1>6, <1>7, <2>1, <2>2, GivesUp DEF Open
  <2> QED  BY <2>1, <2>3, <1>2, <1>3, <1>4, OpenThen DEF search_directconnect_udp, once, twice
<1>8. Stays(f, [f EXCEPT !.marked = UNKNOWN], X)  BY DEF Stays, IsFlow, Fields
<1> QED  BY <1>2, <1>6, <1>7, <1>8, OpenThen DEF search_directconnect

\* IRC.
LEMMA IrcStays ==
  ASSUME NEW f, IsFlow(f), NEW p
  PROVE  Stays(f, search_irc_tcp(f, p), "IRC")
<1>1. {"irc_stage", "irc_stage2", "irc_3a_counter", "irc_direction", "irc_0x1000_full"} \subseteq Stages
  BY FreeStages
<1>2. Open(f, f)  BY OpenSelf
<1>3. ASSUME NEW g, Open(f, g)
      PROVE  /\ Open(f, search_irc_ssl_detect_ninty_percent_but_very_fast(g, p)[2])
             /\ Open(f, IrcDcc(g, p))
  <2>1. Open(f, IrcDcc(g, p))
    <3>1. Open(f, Refresh(g, 0..1, "irc"))  BY <1>3, OpenThen
    <3> QED  BY <1>3, <3>1, OpenThen DEF IrcDcc
  <2>2. ASSUME NEW to, NEW v PROVE Open(f, Set(Set(g, "irc_stage2", to), "irc_direction", v))
    BY <1>1, <1>3, OpenThen
  <2>3. ASSUME NEW to, NEW v
        PROVE  Open(f, Set(Set(Set(g, "irc_stage2", to), "irc_direction", v), "irc_0x1000_full", 1))
    BY <1>1, <2>2, OpenThen
  <2>4. Open(f, Detect(g, "IRC"))  BY <1>3, OpenThen
  <2> QED
    BY <1>3, <2>1, <2>2, <2>3, <2>4 DEF search_irc_ssl_detect_ninty_percent_but_very_fast
<1>4. ASSUME NEW g, Open(f, g) PROVE Open(f, IrcText(g, p))
  <2>1. ASSUME NEW h, Open(f, h), NEW v
        PROVE  /\ Open(f, Set(h, "irc_3a_counter", v)) /\ Open(f, Set(h, "irc_stage", v))
               /\ Open(f, Detect(h, "IRC"))
    BY <1>1, <2>1, OpenThen
  <2> QED  BY <1>3, <1>4, <2>1 DEF IrcText
<1>5. Open(f, Detect(f, "IRC"))  BY <1>2, OpenThen
<1>6. f.detected # "IRC" => Stays(f, Exclude(f, "IRC"), "IRC")  BY GivesUp
<1> QED  BY <1>2, <1>3, <1>4, <1>5, <1>6, OpenThen DEF search_irc_tcp

\* Gadu-Gadu.
LEMMA GaduStays ==
  ASSUME NEW f, IsFlow(f), NEW p, f.detected = "GADUGADU" => f.marked = "GADUGADU"
  PROVE  Stays(f, search_gadugadu_tcp(f, p), "GADUGADU")
<1>1. "gadugadu_stage" \in Stages  BY FreeStages
<1>2. Open(f, f)  BY OpenSelf
<1>3. Open(f, check_for_http(f, p)[2])  BY <1>2, OpenThen DEF check_for_http
<1>4. Open(f, GaduLogin(f, p))
  <2>1. ASSUME NEW v PROVE Open(f, Set(f, "gadugadu_stage", v))  BY <1>1, <1>2, OpenThen
  <2>2. ASSUME NEW g, Open(f, g)
        PROVE  /\ Open(f, [g EXCEPT !.ports = [d \in 0..1 |-> @[d] \cup {"gg ft", "gg call id"}]])
               /\ Open(f, Detect(g, "GADUGADU"))
    BY <2>2, OpenThen
  <2> QED  BY <2>1, <2>2 DEF GaduLogin
<1>5. ASSUME f.marked # "GADUGADU" PROVE Stays(f, GaduTransfer(f, p), "GADUGADU")
  <2> DEFINE G(gone) == [f EXCEPT !.ports =
                           [d \in 0..1 |-> IF d \in gone THEN @[d] \ {"gg ft"} ELSE @[d]]]
  <2>1. ASSUME NEW gone PROVE Open(f, G(gone)) /\ G(gone).detected = f.detected
    BY <1>2 DEF Open, IsFlow, Fields
  <2>2. ASSUME NEW g, Open(f, g), g.detected = f.detected, NEW found
        PROVE  Stays(f, OneLook(g, found, "GADUGADU"), "GADUGADU")
    BY <1>5, <2>2, OpenThen, GivesUp DEF OneLook, Open
  <2>3. \A gone, found : Stays(f, OneLook(G(gone), found, "GADUGADU"), "GADUGADU")
    <3> HIDE DEF G
    <3> QED  BY <2>1, <2>2
  <2> QED  BY <2>3, Zenon DEF GaduTransfer
<1>6. Open(f, Refresh(f, 0..1, "gg"))  BY <1>2, OpenThen
<1> QED  BY <1>3, <1>4, <1>5, <1>6, OpenThen DEF search_gadugadu_tcp

\* MSN.
LEMMA MsnStays ==
  ASSUME NEW f, IsFlow(f), NEW p, f.detected = "MSN" => f.marked = "MSN" /\ HostsHave(f, "MSN")
  PROVE  /\ Stays(f, search_msn(f, p), "MSN")
         /\ search_msn(f, p).detected = "MSN" => HostsHave(search_msn(f, p), "MSN")
<1> DEFINE has(g) == g.detected = "MSN" => HostsHave(g, "MSN")
           T(g) == Open(f, g) /\ has(g)
<1>1. {"msn_stage", "msn_ssl_ft"} \subseteq Stages  BY FreeStages
<1>2. T(f)  BY OpenSelf
<1>3. ASSUME NEW g, T(g) PROVE T(Detect(g, "MSN"))
  BY <1>3 DEF Detect, Mark, HostsHave, Open, IsFlow, Fields
<1>4. ASSUME NEW g, T(g), NEW s \in {"msn_stage", "msn_ssl_ft"}, NEW v PROVE T(Set(g, s, v))
  BY <1>1, <1>4 DEF Set, HostsHave, Open, IsFlow, Fields
<1>5. ASSUME f.detected # "MSN"
      PROVE  Stays(f, Exclude(f, "MSN"), "MSN") /\ has(Exclude(f, "MSN"))
  BY <1>5, GivesUp DEF Exclude, IsFlow, Fields
<1>6. ASSUME NEW g, T(g) PROVE Stays(f, g, "MSN") /\ has(g)
  BY <1>6, OpenThen
<1> HIDE DEF T, has
<1>7. T(MsnTransfer(f, p))  BY <1>2, <1>3, <1>4 DEF MsnTransfer
<1>8. ASSUME f.detected # "MSN" PROVE Stays(f, search_msn_tcp(f, p), "MSN") /\ has(search_msn_tcp(f, p))
  BY <1>2, <1>3, <1>4, <1>5, <1>6, <1>7, <1>8 DEF search_msn_tcp, OneLook
<1>9. ~ HostsHave(f, "MSN") => f.detected # "MSN"  OBVIOUS
<1>10. Stays(f, search_udp_msn_misc(f, p), "MSN") /\ has(search_udp_msn_misc(f, p))
  BY <1>2, <1>3, <1>5, <1>6, <1>9 DEF search_udp_msn_misc
<1>11. f.marked \in {UNKNOWN, "HTTP", "SSL"} => f.detected # "MSN"  BY DEF UNKNOWN
<1>12. Stays(f, search_msn(f, p), "MSN") /\ has(search_msn(f, p))
  BY <1>2, <1>6, <1>8, <1>10, <1>11 DEF search_msn
<1> QED  BY <1>12 DEF has

\* Yahoo.
LEMMA YahooStays ==
  ASSUME NEW f, IsFlow(f), NEW p,
         f.detected = "YAHOO" => f.marked = "YAHOO" /\ IsTcp(p)
  PROVE  /\ Stays(f, search_yahoo(f, p), "YAHOO")
         /\ search_yahoo(f, p).detected = "YAHOO" => IsTcp(p)
<1>1. {"yahoo_detection_finished", "yahoo_http_proxy_stage"} \subseteq Stages  BY FreeStages
<1>2. Open(f, f)  BY OpenSelf
<1>3. ASSUME NEW g, Open(f, g) PROVE Open(f, YahooVideo(g, p))
  <2>1. ASSUME NEW h, Open(f, h), NEW v, DOMAIN v = 0..1
        PROVE  /\ Open(f, [h EXCEPT !.ports = v])
               /\ Open(f, Refresh(h, 0..1, "yahoo lan")) /\ Open(f, Detect(h, "YAHOO"))
    BY <2>1, OpenThen
  <2>2. DOMAIN [d \in 0..1 |-> g.ports[d] \ {"yahoo lan dir"}] = 0..1
    OBVIOUS
  <2>3. DOMAIN [d \in 0..1 |-> g.ports[d] \cup {"yahoo lan dir"}] = 0..1
    OBVIOUS
  <2> QED  BY <1>3, <2>1, <2>2, <2>3 DEF YahooVideo
<1>4. ASSUME NEW g, Open(f, g), g.marked # "YAHOO" => g.detected # "YAHOO",
             g.stage.yahoo_detection_finished = 2 \/ g.marked # "YAHOO"
      PROVE  \/ Open(f, search_yahoo_tcp(g, p))
             \/ /\ Stays(f, search_yahoo_tcp(g, p), "YAHOO") /\ g.marked # "YAHOO"
                /\ search_yahoo_tcp(g, p) = YahooProxy(g, p)
  <2>1. Open(f, Detect(Set(g, "yahoo_detection_finished", 2), "YAHOO"))  BY <1>1, <1>4, OpenThen
  <2>2. Open(f, Detect(g, "YAHOO"))  BY <1>4, OpenThen
  <2>3. Open(f, YahooVideo(g, p))  BY <1>3, <1>4
  <2>4. ASSUME NEW v PROVE Open(f, Set(g, "yahoo_http_proxy_stage", v))  BY <1>1, <1>4, OpenThen
  <2>5. g.detected # "YAHOO" => Stays(f, Exclude(g, "YAHOO"), "YAHOO")
    BY <1>4 DEF Stays, Exclude, Open, IsFlow, Fields
  <2>6. ASSUME g.marked # "YAHOO" PROVE Stays(f, YahooProxy(g, p), "YAHOO")
    BY <1>4, <2>2, <2>4, <2>5, <2>6, OpenThen DEF YahooProxy, OneLook
  <2> QED  BY <1>4, <2>1, <2>2, <2>3, <2>6 DEF search_yahoo_tcp
<1>5. ASSUME ~ IsTcp(p) PROVE search_yahoo(f, p) \in {f, Exclude(f, "YAHOO")}
  BY <1>5 DEF search_yahoo, search_yahoo_udp
<1>6. CASE ~ IsTcp(p)
  <2>1. f.detected # "YAHOO"  BY <1>6
  <2>2. Exclude(f, "YAHOO").detected # "YAHOO"  BY <2>1 DEF Exclude, IsFlow, Fields
  <2> QED  BY <1>2, <1>5, <1>6, <2>1, <2>2, OpenThen DEF Stays
<1>7. CASE IsTcp(p)
  <2>1. ~ IsUdp(p)  BY <1>7 DEF IsTcp, IsUdp
  <2>2. ASSUME f.marked \in {UNKNOWN, "HTTP"}, f.stage.yahoo_detection_finished = 0
        PROVE  LET g == search_yahoo_tcp(f, p)
               IN \/ Open(f, g) /\ (g.stage.yahoo_detection_finished = 2 => g.marked = "YAHOO")
                  \/ Stays(f, g, "YAHOO") /\ g.stage.yahoo_detection_finished # 2
    <3>1. f.marked # "YAHOO"  BY <2>2 DEF UNKNOWN
    <3>2. /\ f.stage.yahoo_detection_finished # 2
          /\ Detect(f, "YAHOO").stage.yahoo_detection_finished # 2
      BY <2>2 DEF Detect, Mark, IsFlow, Fields
    <3>3. Detect(Set(f, "yahoo_detection_finished", 2), "YAHOO").marked = "YAHOO"
      BY DEF Detect, Mark, Set, IsFlow, Fields
    <3>4. YahooVideo(f, p).stage.yahoo_detection_finished # 2
      BY <2>2 DEF YahooVideo, Refresh, Detect, Mark, IsFlow, Fields
    <3>5. YahooProxy(f, p).stage.yahoo_detection_finished # 2
      BY <1>1, <2>2 DEF YahooProxy, OneLook, Exclude, Set, Detect, Mark, IsFlow, Fields
    <3>6. \/ Open(f, search_yahoo_tcp(f, p))
          \/ Stays(f, search_yahoo_tcp(f, p), "YAHOO") /\ search_yahoo_tcp(f, p) = YahooProxy(f, p)
      BY <1>2, <1>4, <3>1
    <3>7. \/ search_yahoo_tcp(f, p) \in {f, Detect(f, "YAHOO"), YahooVideo(f, p), YahooProxy(f, p)}
          \/ search_yahoo_tcp(f, p) = Detect(Set(f, "yahoo_detection_finished", 2), "YAHOO")
      BY DEF search_yahoo_tcp
    <3> QED  BY <3>2, <3>3, <3>4, <3>5, <3>6, <3>7
  <2>3. ASSUME NEW g, Open(f, g), g.stage.yahoo_detection_finished = 2,
               g.marked # "YAHOO" => g.detected # "YAHOO"
        PROVE  Stays(f, search_yahoo_tcp(g, p), "YAHOO")
    BY <1>4, <2>3, OpenThen
  <2>4. Stays(f, f, "YAHOO")  BY <1>2, OpenThen
  <2>5. \A g : Open(f, g) => Stays(f, g, "YAHOO")  BY OpenThen
  <2> QED  BY <1>2, <1>7, <2>1, <2>2, <2>3, <2>4, <2>5 DEF search_yahoo
<1> QED  BY <1>6, <1>7

\* Zattoo and direct download links.
LEMMA OthersStay ==
  ASSUME NEW f, IsFlow(f), NEW p,
         \A X \in {"EDONKEY", "ZATTOO", "DIRECT_DOWNLOAD_LINK"} : f.detected = X => f.marked = X
  PROVE  /\ Stays(f, search_edonkey(f, p), "EDONKEY")
         /\ Stays(f, search_zattoo_tcp(f, p), "ZATTOO")
         /\ Stays(f, search_direct_download_link_tcp(f, p), "DIRECT_DOWNLOAD_LINK")
<1>1. Open(f, f)  BY OpenSelf
<1>2. {"edk_stage", "zattoo_stage", "ddlink_server_direction"} \subseteq Stages
  BY FreeStages, GuardedStages
<1>3. ASSUME NEW X \in {"EDONKEY", "ZATTOO", "DIRECT_DOWNLOAD_LINK"}, f.marked # X
      PROVE  Stays(f, Exclude(f, X), X)
  BY <1>3, GivesUp
<1>4. Stays(f, f, "EDONKEY") /\ Stays(f, f, "ZATTOO") /\ Stays(f, f, "DIRECT_DOWNLOAD_LINK")
  BY <1>1, OpenThen
<1>5. Stays(f, search_edonkey(f, p), "EDONKEY")
  <2>1. Stays(f, Mark(f, "EDONKEY"), "EDONKEY")  BY <1>1, OpenThen
  <2>2. \A v : Stays(f, Set(f, "edk_stage", v), "EDONKEY")  BY <1>1, <1>2, OpenThen
  <2>3. f.marked # "EDONKEY" => Stays(f, Exclude(f, "EDONKEY"), "EDONKEY")  BY <1>3
  <2> QED  BY <1>4, <2>1, <2>2, <2>3 DEF search_edonkey, int_edonkey_tcp
<1>6. Stays(f, search_zattoo_tcp(f, p), "ZATTOO")
  <2>1. ASSUME NEW g, Open(f, g) PROVE Open(f, int_zattoo_add_connection(g))
    BY <2>1, OpenThen DEF int_zattoo_add_connection
  <2>2. \A v : Open(f, Set(f, "zattoo_stage", v))  BY <1>1, <1>2, OpenThen
  <2>3. f.marked # "ZATTOO" => Stays(f, Exclude(f, "ZATTOO"), "ZATTOO")  BY <1>3
  <2>4. \A g : Open(f, g) => Stays(f, g, "ZATTOO")  BY OpenThen
  <2>5. /\ Open(f, int_zattoo_add_connection(f))
        /\ \A v : Open(f, int_zattoo_add_connection(Set(f, "zattoo_stage", v)))
    BY <1>1, <2>1, <2>2
  <2> QED  BY <1>4, <2>2, <2>3, <2>4, <2>5 DEF search_zattoo_tcp
<1>7. Stays(f, search_direct_download_link_tcp(f, p), "DIRECT_DOWNLOAD_LINK")
  <2>1. Open(f, Detect(f, "DIRECT_DOWNLOAD_LINK"))  BY <1>1, OpenThen
  <2>2. \A v : Open(f, Set(Detect(f, "DIRECT_DOWNLOAD_LINK"), "ddlink_server_direction", v))
    BY <1>2, <2>1, OpenThen
  <2>3. f.marked # "DIRECT_DOWNLOAD_LINK" =>
          Stays(f, Exclude(f, "DIRECT_DOWNLOAD_LINK"), "DIRECT_DOWNLOAD_LINK")
    BY <1>3
  <2> QED  BY <1>4, <2>2, <2>3, OpenThen DEF search_direct_download_link_tcp
<1> QED  BY <1>5, <1>6, <1>7

\* HTTP, MPEG and AVI.
LEMMA HttpStays ==
  ASSUME NEW f, IsFlow(f), NEW p, NEW b, f.detected \in HttpFamily => f.marked = f.detected
  PROVE  LET g == search_http_tcp(f, p, b)
         IN g.excluded = f.excluded \/ (g.detected \notin HttpFamily /\ "HTTP" \in g.excluded)
<1>1. {"http_setup_dir", "http_stage", "server_direction", "http_empty_line_seen", "http_detected"}
        \subseteq Stages
  BY FreeStages
<1>2. ASSUME NEW g, Open(f, g)
      PROVE  /\ \A s \in {"http_setup_dir", "http_stage", "server_direction", "http_empty_line_seen",
                          "http_detected"} : \A v : Open(f, Set(g, s, v))
             /\ \A X : Open(f, int_http_add_connection(g, p, X))
  BY <1>1, <1>2, OpenThen DEF int_http_add_connection
<1>3. ASSUME NEW g, Open(f, g) PROVE Open(f, check_content_type_and_change_protocol(g, p, b))
  <2>1. ASSUME NEW names
        PROVE  Open(f, [g EXCEPT !.seen = [d \in 0..1 |-> @[d] \cup names]])
    BY <1>3, OpenThen
  <2> QED  BY <1>2, <1>3, <2>1 DEF check_content_type_and_change_protocol
<1>4. ASSUME NEW g, Open(f, g) PROVE Open(f, check_http_payload(g, p, b))
  <2>1. ASSUME NEW h, Open(f, h)
        PROVE  Open(f, flash_check_http_payload(h, p)) /\ Open(f, avi_check_http_payload(h, p))
    BY <1>2, <2>1 DEF flash_check_http_payload, avi_check_http_payload
  <2> QED  BY <1>4, <2>1 DEF check_http_payload
<1>5. ASSUME NEW g, Open(f, g) PROVE Open(f, HttpParse(g, p, b))
  BY <1>2, <1>3, <1>4, <1>5 DEF HttpParse
<1>6. ASSUME NEW g, Open(f, g), g.detected = f.detected
      PROVE  \/ Open(f, HttpRequest(g, p, b))
             \/ HttpRequest(g, p, b).detected = f.detected /\ "HTTP" \in HttpRequest(g, p, b).excluded
  <2>1. http_bitmask_exclude(g).detected = f.detected /\ "HTTP" \in http_bitmask_exclude(g).excluded
    BY <1>6 DEF http_bitmask_exclude, Open, IsFlow, Fields
  <2>2. Open(f, check_content_type_and_change_protocol(int_http_add_connection(g, p, "HTTP"), p, b))
    BY <1>2, <1>3, <1>6
  <2> QED  BY <1>2, <1>6, <2>1, <2>2 DEF HttpRequest
<1>7. Open(f, f)  BY OpenSelf
<1>8. /\ Open(f, Set(f, "http_setup_dir", 1 + p.dir))
      /\ Set(f, "http_setup_dir", 1 + p.dir).detected = f.detected
  BY <1>2, <1>7 DEF Set, IsFlow, Fields
<1> QED  BY <1>5, <1>6, <1>7, <1>8 DEF search_http_tcp, Open

\* Xbox.
LEMMA XboxStays ==
  ASSUME NEW f, IsFlow(f), NEW p, IsUdp(p) => f.detected # "XBOX"
  PROVE  /\ Stays(f, search_xbox(f, p), "XBOX")
         /\ ~ IsUdp(p) => search_xbox(f, p) = f
<1>1. Open(f, f) /\ "xbox_stage" \in Stages  BY OpenSelf, FreeStages
<1>2. IsUdp(p) => Stays(f, Exclude(f, "XBOX"), "XBOX")  BY GivesUp
<1> QED  BY <1>1, <1>2, OpenThen DEF search_xbox

-----------------------------------------------------------------------------
(* What is found is followed.                                              *)

\* No flow is excluded from a followed protocol it was found to be, and what keeps the
\* dissectors of MSN, Yahoo and Xbox from doing so.
Follow ==
  /\ Followed
  /\ transport = "any" => flow.excluded = {} /\ flow.detected = UNKNOWN
  /\ phase = "dissect" => transport # "any"
  /\ flow.detected = "MSN" => HostsHave(flow, "MSN")
  /\ flow.detected = "YAHOO" => transport = "tcp"
  /\ transport = "tcp" /\ "XBOX" \in flow.excluded => "HTTP" \in flow.excluded
  /\ phase = "dissect" /\ IsUdp(packet) /\ flow.detected = "XBOX" =>
       \A e \in Members(todo) : e.func # "xbox"

\* The entry of HTTP.
LEMMA HttpIs ==
  /\ HttpEntry \in Members(Registry)
  /\ \A e \in Members(Registry) : e.func = "http_tcp" => e = HttpEntry
<1>1. HttpEntry \in Members(Registry)  BY RegistryEntries
<1>2. HttpEntry.func = "http_tcp"  BY DEF HttpEntry, Entry
<1> QED  BY <1>1, <1>2, FuncsDiffer

\* A followed protocol is found and excluded by its own dissector only, which is not
\* called once it is excluded.
LEMMA FollowedEntry ==
  ASSUME NEW e \in Members(Registry), NEW X \in FollowedProtocols \ {"XBOX"},
         X \in Finds(e) \cup Excludes(e)
  PROVE  X \in DOMAIN Finder /\ e.func = Finder[X] /\ X \in e.excluded
<1>1. X \in DOMAIN Finder  BY DEF Finder, FollowedProtocols
<1>2. e.func = Finder[X]  BY <1>1, RegistryOK DEF EntryOK
<1>3. CASE e.func = "http_tcp"
  <2>1. e = HttpEntry  BY <1>3, HttpIs
  <2>2. X \in {"HTTP", "MPEG", "AVI"}  BY <1>2, <1>3 DEF Finder, FollowedProtocols
  <2>3. X \in e.excluded  BY <2>1, <2>2 DEF HttpEntry, Entry, HttpFamily
  <2> QED  BY <1>1, <1>2, <2>3
<1>4. CASE e.func # "http_tcp"
  <2>1. X \notin SslFinds  BY DEF SslFinds, FollowedProtocols
  <2>2. X \in e.excluded  BY <1>4, <2>1 DEF Finds, Excludes
  <2> QED  BY <1>1, <1>2, <2>2
<1> QED  BY <1>3, <1>4

\* The dissector of a followed protocol does not exclude what it has found.
LEMMA FollowerStays ==
  ASSUME Calls, Report, Follow, Call, NEW e, NEW g, Called(e, g),
         NEW X \in FollowedProtocols \ {"XBOX"}, e.func = Finder[X]
  PROVE  Stays(View, g, X)
<1> DEFINE f == View
<1>1. IsFlow(f)  BY ViewIsFlow DEF Calls
<1>2. g = Dissector(e.func, f, packet, configured) /\ e \in Members(todo)  BY DEF Called
<1>3. /\ f.detected = flow.detected /\ f.marked = flow.marked /\ f.seen = flow.seen  BY DEF View
<1>4. f.detected # "DIRECTCONNECT" => f.marked = f.detected  BY <1>3 DEF Report, Call
<1>5. e.func = "directconnect" => f.marked = f.detected  BY <1>2, <1>3 DEF Report, Call
<1>6. f.detected = "MSN" => HostsHave(f, "MSN")  BY <1>3 DEF Follow, HostsHave
<1>7. f.detected = "YAHOO" => IsTcp(packet)  BY <1>3 DEF Follow, Calls, Call, IsTcp
<1>8. "DIRECTCONNECT" \notin HttpFamily  BY DEF HttpFamily
<1> HIDE DEF f
<1>9. CASE X = "FTP"
  <2>1. g = search_ftp_tcp(f, packet)  BY <1>2, <1>9 DEF Finder, Dissector
  <2>2. f.detected = "FTP" => f.marked = "FTP"  BY <1>4
  <2> QED  BY <1>1, <1>9, <2>1, <2>2, FtpStays DEF f
<1>10. CASE X = "DIRECTCONNECT"
  <2>1. g = search_directconnect(f, packet) /\ e.func = "directconnect"
    BY <1>2, <1>10 DEF Finder, Dissector
  <2> QED  BY <1>1, <1>5, <1>10, <2>1, DirectConnectStays DEF f
<1>11. CASE X = "IRC"
  <2>1. g = search_irc_tcp(f, packet)  BY <1>2, <1>11 DEF Finder, Dissector
  <2> QED  BY <1>1, <1>11, <2>1, IrcStays DEF f
<1>12. CASE X = "GADUGADU"
  <2>1. g = search_gadugadu_tcp(f, packet)  BY <1>2, <1>12 DEF Finder, Dissector
  <2>2. f.detected = "GADUGADU" => f.marked = "GADUGADU"  BY <1>4
  <2> QED  BY <1>1, <1>12, <2>1, <2>2, GaduStays DEF f
<1>13. CASE X = "MSN"
  <2>1. g = search_msn(f, packet)  BY <1>2, <1>13 DEF Finder, Dissector
  <2>2. f.detected = "MSN" => f.marked = "MSN" /\ HostsHave(f, "MSN")  BY <1>4, <1>6
  <2> QED  BY <1>1, <1>13, <2>1, <2>2, MsnStays DEF f
<1>14. CASE X = "YAHOO"
  <2>1. g = search_yahoo(f, packet)  BY <1>2, <1>14 DEF Finder, Dissector
  <2>2. f.detected = "YAHOO" => f.marked = "YAHOO" /\ IsTcp(packet)  BY <1>4, <1>7
  <2> QED  BY <1>1, <1>14, <2>1, <2>2, YahooStays DEF f
<1>15. CASE X \in {"EDONKEY", "ZATTOO", "DIRECT_DOWNLOAD_LINK"}
  <2>0. \/ X = "EDONKEY" /\ e.func = "edonkey"
        \/ X = "ZATTOO" /\ e.func = "zattoo_tcp"
        \/ X = "DIRECT_DOWNLOAD_LINK" /\ e.func = "direct_download_link_tcp"
    BY <1>15 DEF Finder
  <2>1. \/ X = "EDONKEY" /\ g = search_edonkey(f, packet)
        \/ X = "ZATTOO" /\ g = search_zattoo_tcp(f, packet)
        \/ X = "DIRECT_DOWNLOAD_LINK" /\ g = search_direct_download_link_tcp(f, packet)
    BY <1>2, <2>0 DEF Dissector
  <2>2. \A Y \in {"EDONKEY", "ZATTOO", "DIRECT_DOWNLOAD_LINK"} : f.detected = Y => f.marked = Y
    BY <1>4
  <2> QED  BY <1>1, <2>1, <2>2, OthersStay DEF f
<1>16. CASE X \in {"HTTP", "MPEG", "AVI"}
  <2>0. e.func = "http_tcp"  BY <1>16 DEF Finder
  <2>1. g = search_http_tcp(f, packet, configured)  BY <1>2, <2>0 DEF Dissector
  <2>2. f.detected \in HttpFamily => f.marked = f.detected  BY <1>4, <1>8
  <2>3. g.excluded = f.excluded \/ g.detected \notin HttpFamily  BY <1>1, <2>1, <2>2, HttpStays
  <2>4. X \in HttpFamily  BY <1>16 DEF HttpFamily
  <2> QED  BY <2>3, <2>4 DEF Stays, f
<1> QED  BY <1>9, <1>10, <1>11, <1>12, <1>13, <1>14, <1>15, <1>16 DEF FollowedProtocols

\* Nor does any other.
LEMMA FollowedCall ==
  ASSUME Calls, Report, Follow, Call, NEW e, NEW g, Called(e, g),
         NEW X \in FollowedProtocols \ {"XBOX"}, g.detected = X
  PROVE  X \notin g.excluded
<1>1. e \in Members(Registry) /\ flow.excluded \cap e.excluded = {}  BY DEF Called
<1>2. g.detected = flow.detected \/ X \in Finds(e)  BY DEF Called
<1>3. X \notin flow.excluded
  <2>1. CASE X \in Finds(e)  BY <1>1, <2>1, FollowedEntry
  <2>2. CASE g.detected = flow.detected  BY <2>2 DEF Follow, Followed
  <2> QED  BY <1>2, <2>1, <2>2
<1>4. View.excluded = flow.excluded  BY DEF View
<1>5. CASE X \in Excludes(e)
  <2>1. e.func = Finder[X]  BY <1>1, <1>5, FollowedEntry
  <2>2. Stays(View, g, X)  BY <2>1, FollowerStays
  <2> QED  BY <1>3, <1>4, <2>2 DEF Stays
<1>6. CASE X \notin Excludes(e)
  <2>1. g.excluded \subseteq View.excluded \cup Excludes(e)  BY DEF Called, Excluded
  <2> QED  BY <1>3, <1>4, <1>6, <2>1
<1> QED  BY <1>5, <1>6

\* The entry of Xbox.
LEMMA XboxIs ==
  \A e \in Members(Registry) : e.func = "xbox" => e.excluded = {"XBOX"} /\ e.detection = {UNKNOWN}
<1> DEFINE x == First("xbox", "XBOX", AnyNew)
<1>1. x = SshToTelnet[10]  BY DEF SshToTelnet
<1>2. 10 \in 1 .. Len(SshToTelnet)  BY SshToTelnetEntries
<1>3. x \in Members(SshToTelnet)  BY <1>1, <1>2, Zenon DEF Members
<1>4. x \in Members(Registry)  BY <1>3, RegistryEntries
<1>5. x.func = "xbox" /\ x.excluded = {"XBOX"} /\ x.detection = {UNKNOWN}  BY DEF First, Entry
<1> HIDE DEF x
<1> QED  BY <1>4, <1>5, FuncsDiffer

\* Xbox, which HTTP finds too.
LEMMA XboxCall ==
  ASSUME Calls, Report, Follow, Call, NEW e, NEW g, Called(e, g)
  PROVE  /\ g.detected = "XBOX" => "XBOX" \notin g.excluded
         /\ transport = "tcp" /\ "XBOX" \in g.excluded => "HTTP" \in g.excluded
         /\ IsUdp(packet) /\ g.detected = "XBOX" => \A a \in Members(todo') : a.func # "xbox"
<1>1. /\ e \in Members(Registry) /\ e \in Members(todo) /\ Members(todo') = Members(todo) \ {e}
      /\ flow.excluded \cap e.excluded = {} /\ g = Dissector(e.func, View, packet, configured)
      /\ g.detected = flow.detected \/ g.detected \in Finds(e)
      /\ flow.excluded \subseteq g.excluded /\ g.excluded \subseteq flow.excluded \cup Excludes(e)
  BY DEF Called, Excluded, View
<1>2. View.detected = flow.detected /\ View.marked = flow.marked /\ View.excluded = flow.excluded
  BY DEF View
<1>3. IsFlow(View) /\ phase = "dissect" /\ transport = packet.l4  BY ViewIsFlow DEF Calls, Call
<1>4. "XBOX" \in FollowedProtocols /\ "HTTP" \in HttpFamily /\ "XBOX" \in HttpFamily
      /\ "DIRECTCONNECT" \notin HttpFamily
  BY DEF FollowedProtocols, HttpFamily
<1>5. CASE e.func \notin {"http_tcp", "xbox"}
  <2>1. "XBOX" \notin Finds(e) \cup Excludes(e)  BY <1>1, <1>5, RegistryOK DEF EntryOK
  <2> QED  BY <1>1, <1>3, <1>4, <2>1 DEF Follow, Followed
<1>6. CASE e.func = "http_tcp"
  <2>1. e = HttpEntry  BY <1>1, <1>6, HttpIs
  <2>2. "HTTP" \in e.excluded /\ "INT_TCP" \in e.selection
    BY <2>1 DEF HttpEntry, Entry, HttpFamily, TcpDataV4V6
  <2>3. IsTcp(packet)
    <3>1. "INT_TCP" \in Selection(packet, packet.retransmission)  BY <1>1, <1>3, <2>2 DEF Calls
    <3> QED  BY <3>1 DEF Selection
  <2>4. "XBOX" \notin flow.excluded  BY <1>1, <1>3, <2>2, <2>3 DEF Follow, IsTcp
  <2>5. g = search_http_tcp(View, packet, configured)  BY <1>1, <1>6 DEF Dissector
  <2>6. View.detected \in HttpFamily => View.marked = View.detected  BY <1>2, <1>3, <1>4 DEF Report
  <2>7. g.excluded = View.excluded \/ (g.detected \notin HttpFamily /\ "HTTP" \in g.excluded)
    BY <1>3, <2>5, <2>6, HttpStays
  <2>8. ~ IsUdp(packet)  BY <2>3 DEF IsTcp, IsUdp
  <2> QED  BY <1>2, <1>4, <2>4, <2>7, <2>8
<1>7. CASE e.func = "xbox"
  <2>1. "XBOX" \notin flow.excluded  BY <1>1, <1>7, XboxIs
  <2>2. g = search_xbox(View, packet)  BY <1>1, <1>7 DEF Dissector
  <2>3. IsUdp(packet) => View.detected # "XBOX"  BY <1>1, <1>2, <1>3, <1>7 DEF Follow
  <2>4. Stays(View, g, "XBOX") /\ (~ IsUdp(packet) => g = View)  BY <1>3, <2>2, <2>3, XboxStays
  <2>5. \A a \in Members(todo') : a.func # "xbox"
    BY <1>1, <1>7, ChainMembers, FuncsDiffer DEF Calls
  <2>6. transport = "tcp" => ~ IsUdp(packet)  BY <1>3 DEF IsUdp
  <2> QED  BY <1>2, <2>1, <2>4, <2>5, <2>6 DEF Stays
<1> QED  BY <1>5, <1>6, <1>7

\* MSN leaves a mark on the hosts, and Yahoo is found over tcp only.
LEMMA MsnYahooCall ==
  ASSUME Calls, Report, Follow, Call, NEW e, NEW g, Called(e, g)
  PROVE  /\ g.detected = "MSN" => HostsHave(g, "MSN")
         /\ g.detected = "YAHOO" => transport = "tcp"
<1>1. /\ e \in Members(Registry) /\ e \in Members(todo)
      /\ g = Dissector(e.func, View, packet, configured)
      /\ g.detected = flow.detected \/ g.detected \in Finds(e)
      /\ \A d \in 0..1 : flow.seen[d] \subseteq g.seen[d]
  BY DEF Called, Frame, View
<1>2. View.detected = flow.detected /\ View.marked = flow.marked /\ View.seen = flow.seen
  BY DEF View
<1>3. IsFlow(View) /\ phase = "dissect" /\ transport = packet.l4  BY ViewIsFlow DEF Calls, Call
<1>4. View.detected # "DIRECTCONNECT" => View.marked = View.detected  BY <1>2, <1>3 DEF Report
<1>5. /\ "MSN" \in DOMAIN Finder /\ Finder["MSN"] = "msn"
      /\ "YAHOO" \in DOMAIN Finder /\ Finder["YAHOO"] = "yahoo"
  BY DEF Finder
<1>6. ASSUME g.detected = "MSN" PROVE HostsHave(g, "MSN")
  <2>1. CASE flow.detected = "MSN"  BY <1>1, <2>1 DEF Follow, HostsHave
  <2>2. CASE "MSN" \in Finds(e)
    <3>1. e.func = "msn"  BY <1>1, <1>5, <2>2, RegistryOK DEF EntryOK
    <3>2. g = search_msn(View, packet)  BY <1>1, <3>1 DEF Dissector
    <3>3. View.detected = "MSN" => View.marked = "MSN" /\ HostsHave(View, "MSN")
      BY <1>2, <1>4 DEF Follow, HostsHave
    <3> QED  BY <1>3, <1>6, <3>2, <3>3, MsnStays
  <2> QED  BY <1>1, <1>6, <2>1, <2>2
<1>7. ASSUME g.detected = "YAHOO" PROVE transport = "tcp"
  <2>1. CASE flow.detected = "YAHOO"  BY <2>1 DEF Follow
  <2>2. CASE "YAHOO" \in Finds(e)
    <3>1. e.func = "yahoo"  BY <1>1, <1>5, <2>2, RegistryOK DEF EntryOK
    <3>2. g = search_yahoo(View, packet)  BY <1>1, <3>1 DEF Dissector
    <3>3. View.detected = "YAHOO" => View.marked = "YAHOO" /\ IsTcp(packet)
      BY <1>2, <1>3, <1>4 DEF Follow, IsTcp
    <3>4. IsTcp(packet)  BY <1>3, <1>7, <3>2, <3>3, YahooStays
    <3> QED  BY <1>3, <3>4 DEF IsTcp
  <2> QED  BY <1>1, <1>7, <2>1, <2>2
<1> QED  BY <1>6, <1>7

\* An arriving packet.
LEMMA FollowArrive ==
  ASSUME Calls, Follow, NEW k \in Kinds(configured), NEW d \in 0..1, NEW o, Arrive(k, d, o)
  PROVE  Follow'
<1>1. /\ flow'.seen = flow.seen /\ saved' = flow'.detected /\ transport' = packet'.l4
      /\ phase' = "dissect"
      /\ \A e \in Members(todo') : saved' \in e.detection
  BY ArriveChain DEF Arrive
<1>2. \/ flow' = [flow EXCEPT !.marked = flow.detected]
      \/ /\ flow.detected = UNKNOWN
         /\ flow' = [EmptyFlow(flow.seen, flow.fresh, flow.ports) EXCEPT !.marked = UNKNOWN]
  BY ArriveChain
<1>3. \/ flow'.detected = flow.detected /\ flow'.excluded = flow.excluded
      \/ flow'.detected = UNKNOWN /\ flow'.excluded = {}
  BY <1>2 DEF EmptyFlow, Calls, IsState
<1>4. k.l4 # "any" /\ transport' = k.l4 /\ transport \in {"any", k.l4}
  BY InputsAssumption DEF Arrive, Calls
<1>5. UNKNOWN \notin FollowedProtocols /\ UNKNOWN \notin {"MSN", "YAHOO", "XBOX"}
  BY DEF UNKNOWN, FollowedProtocols
<1>6. Followed'  BY <1>3, <1>5 DEF Follow, Followed
<1>7. flow'.detected = "XBOX" => \A e \in Members(todo') : e.func # "xbox"
  <2> SUFFICES ASSUME flow'.detected = "XBOX", NEW e \in Members(todo') PROVE e.func # "xbox"
    OBVIOUS
  <2>1. e \in Members(Registry)  BY ArriveChain, ChainMembers
  <2>2. "XBOX" \in e.detection  BY <1>1
  <2> QED  BY <1>5, <2>1, <2>2, XboxIs
<1>8. HostsHave(flow, "MSN") => HostsHave(flow', "MSN")  BY <1>1 DEF HostsHave
<1>9. flow'.detected = "YAHOO" => transport' = "tcp"  BY <1>3, <1>4, <1>5 DEF Follow
<1>10. transport' = "tcp" /\ "XBOX" \in flow'.excluded => "HTTP" \in flow'.excluded
  BY <1>3, <1>4 DEF Follow
<1> QED  BY <1>1, <1>3, <1>4, <1>5, <1>6, <1>7, <1>8, <1>9, <1>10 DEF Follow

\* A call.
LEMMA FollowCall == ASSUME Bound, Calls, Report, Follow, Call PROVE Follow'
<1>1. PICK e, g : Called(e, g)  BY CallIs
<1>2. flow'.detected = g.detected /\ flow'.excluded = g.excluded /\ flow'.seen = g.seen
  BY <1>1, CallKeepsState DEF Calls, IsState
<1>3. \A X \in FollowedProtocols \ {"XBOX"} : g.detected = X => X \notin g.excluded
  BY <1>1, FollowedCall
<1>4. /\ g.detected = "XBOX" => "XBOX" \notin g.excluded
      /\ transport = "tcp" /\ "XBOX" \in g.excluded => "HTTP" \in g.excluded
      /\ IsUdp(packet) /\ g.detected = "XBOX" => \A a \in Members(todo') : a.func # "xbox"
  BY <1>1, XboxCall
<1>5. /\ g.detected = "MSN" => HostsHave(g, "MSN")
      /\ g.detected = "YAHOO" => transport = "tcp"
  BY <1>1, MsnYahooCall
<1>6. transport' = transport /\ phase' = phase /\ packet' = packet /\ transport # "any"
  BY DEF Call, Follow
<1>7. Followed'  BY <1>2, <1>3, <1>4 DEF Followed
<1>8. HostsHave(g, "MSN") => HostsHave(flow', "MSN")  BY <1>2 DEF HostsHave
<1> QED  BY <1>2, <1>4, <1>5, <1>6, <1>7, <1>8 DEF Follow

\* Every step.
LEMMA FollowNext == ASSUME Bound, Calls, Report, Follow, [Next]_vars PROVE Follow'
<1>0. UNKNOWN \notin FollowedProtocols /\ UNKNOWN \notin {"MSN", "YAHOO", "XBOX"}
  BY DEF UNKNOWN, FollowedProtocols
<1>1. ASSUME NEW k \in Kinds(configured), NEW d \in 0..1, NEW o \in Offsets(configured), Arrive(k, d, o)
      PROVE  Follow'
  BY <1>1, FollowArrive
<1>2. ASSUME NEW k \in Kinds(configured), Refuse(k) PROVE Follow'
  BY <1>2 DEF Refuse, Follow, Followed, HostsHave
<1>3. CASE Call  BY <1>3, FollowCall
<1>4. CASE Skip
  <2>1. Members(todo') \subseteq Members(todo)  BY <1>4, ChainTail DEF Skip, Calls
  <2> QED  BY <1>4, <2>1 DEF Skip, Follow, Followed, HostsHave
<1>5. CASE Return  BY <1>5 DEF Return, Follow, Followed, HostsHave
<1>6. ASSUME NEW b \in Reconfigured(configured), SetBitmask(b) PROVE Follow'
  BY <1>6 DEF SetBitmask, Follow, Followed, HostsHave
<1>7. CASE NewFlow
  <2>1. flow'.detected = UNKNOWN /\ flow'.excluded = {}  BY <1>7 DEF NewFlow, EmptyFlow
  <2> QED  BY <1>0, <1>7, <2>1 DEF NewFlow, Follow, Followed
<1>8. ASSUME NEW d \in 0..1, NEW t \in Timers(configured), Expire(d, t) PROVE Follow'
  <2>1. flow'.detected = flow.detected /\ flow'.excluded = flow.excluded /\ flow'.seen = flow.seen
    BY <1>8 DEF Expire, Calls, IsState
  <2>2. HostsHave(flow, "MSN") => HostsHave(flow', "MSN")  BY <2>1 DEF HostsHave
  <2> QED  BY <1>8, <2>1, <2>2 DEF Expire, Follow, Followed
<1>9. CASE UNCHANGED vars  BY <1>9 DEF vars, Follow, Followed, HostsHave
<1> QED  BY <1>1, <1>2, <1>3, <1>4, <1>5, <1>6, <1>7, <1>8, <1>9 DEF Next

\* A flow found to be of a protocol whose dissector goes on reading it is not excluded
\* from it, so the dissector is called for its later packets (Followed): for all packets
\* and configurations.
THEOREM FoundIsFollowed == ASSUME Bound PROVE Spec => []Followed
<1>1. Init => Calls /\ Report /\ Follow
  <2>1. Init => Follow
    BY DEF Init, Follow, Followed, EmptyFlow, FollowedProtocols, UNKNOWN
  <2> QED  BY <2>1, CallsInit DEF Init, Report
<1>2. Calls /\ Report /\ Follow /\ [Next]_vars => Calls' /\ Report' /\ Follow'
  BY CallsNext, ReportNext, FollowNext
<1>3. Follow => Followed  BY DEF Follow
<1> QED  BY <1>1, <1>2, <1>3, PTL DEF Spec

-----------------------------------------------------------------------------
(* What verdicts that take several packets rest on.                        *)

\* A stage of base + d is left by a packet of direction d.
Sided(f, s, base, in) == \A d \in 0..1 : f.stage[s] = base + d => in[d] > 0

\* Both sides have sent data.
Both(in) == in[0] > 0 /\ in[1] > 0

\* One for what has been noted, zero for what has not.
Given(x) == IF x = 0 THEN 0 ELSE 1

\* A stage counts no more than the packets.
Steps(f, s, n) == f.stage[s] \in 0..3 /\ f.stage[s] <= n

\* What the guarded fields of a dissector rest on, after n packets with data, in[d] of
\* them of direction d.
Sound(func, f, in, n) ==
  /\ func = "ssh_tcp" => Sided(f, "ssh_stage", 1, in)
  /\ func = "vnc_tcp" => Sided(f, "vnc_stage", 1, in)
  /\ func = "ssl_tcp" => Sided(f, "ssl_stage", 1, in)
  /\ func = "steam" => Sided(f, "steam_stage", 1, in)
  /\ func = "halflife2" => Sided(f, "halflife2_stage", 1, in)
  /\ func = "usenet_tcp" => Sided(f, "usenet_stage", 1, in)
  /\ func = "postgres_tcp" => /\ Sided(f, "postgres_stage", 1, in) /\ Sided(f, "postgres_stage", 3, in)
                              /\ f.stage.postgres_stage \notin {5, 6}
  /\ func = "edonkey" => Sided(f, "edk_stage", 16, in)
  /\ func = "tds_tcp" => /\ Sided(f, "tds_stage", 1, in) /\ f.stage.tds_stage \in 0..4
                         /\ f.stage.tds_stage > 0 => n >= 1
                         /\ f.stage.tds_stage > 2 => Both(in) /\ n >= 2
  /\ func = "rtp_udp" => Steps(f, "rtp_stage1", n) /\ Steps(f, "rtp_stage2", n)
  /\ func = "telnet_tcp" => Steps(f, "telnet_stage", n)
  /\ func = "mail_imap_tcp" => Steps(f, "mail_imap_stage", n)
  /\ func = "filetopia_tcp" => Steps(f, "filetopia_stage", n)
  /\ func = "aimini" => /\ f.stage.aimini_stage \in 0..18
                        /\ f.stage.aimini_stage > 0 => ((f.stage.aimini_stage - 1) % 3) + 1 <= n
  /\ func = "i23v5" =>
       Given(f.memo.i23v5_len1) + Given(f.memo.i23v5_len2) + Given(f.memo.i23v5_len3) <= n
  /\ func = "mail_pop_tcp" => /\ IsFiniteSet(f.commands.pop) /\ f.stage.mail_pop_stage \in 0..3
                              /\ n >= 3 \/ Cardinality(f.commands.pop) + f.stage.mail_pop_stage <= n

\* Verdict X rests on enough packets.
Enough(X, in, n) ==
  /\ X \in TwoSidedProtocols => Both(in)
  /\ \A Y \in DOMAIN MinPackets : X = Y => n >= MinPackets[Y]

\* What a dissector makes of one more packet: g from f.
Gathers(func, f, g, in, n) ==
  /\ Sound(func, g, in, n + 1)
  /\ g.detected = f.detected \/ Enough(g.detected, in, n + 1)

\* What a dissector that waits for the other side, with stage s, may come to.
Answered(f, g, X, s, in) ==
  Sided(g, s, 1, in) /\ (g.detected = f.detected \/ (g.detected = X /\ Both(in)))

\* Stages of 1 + direction.
LEMMA SidedOnes ==
  ASSUME NEW f, IsFlow(f), NEW p, p.dir \in 0..1, NEW in \in [0..1 -> Nat], in[p.dir] > 0,
         NEW s \in Stages, Values[s] \in {4, 8}, NEW X, Sided(f, s, 1, in)
  PROVE  /\ Answered(f, f, X, s, in)
         /\ Answered(f, Set(f, s, 1 + p.dir), X, s, in)
         /\ Answered(f, Exclude(f, X), X, s, in)
         /\ f.stage[s] = 2 - p.dir => Answered(f, Detect(f, X), X, s, in)
<1>1. Sided(Detect(f, X), s, 1, in) /\ Sided(Exclude(f, X), s, 1, in)
      /\ Detect(f, X).detected = X /\ Exclude(f, X).detected = f.detected
  BY DEF Sided, Detect, Mark, Exclude, IsFlow, Fields
<1>2. Set(f, s, 1 + p.dir).stage[s] = 1 + p.dir /\ Set(f, s, 1 + p.dir).detected = f.detected
  BY DEF Set, IsFlow, Fields
<1>3. Sided(Set(f, s, 1 + p.dir), s, 1, in)
  <2>1. \A d \in 0..1 : 1 + p.dir = 1 + d => in[d] > 0  OBVIOUS
  <2> QED  BY <1>2, <2>1 DEF Sided
<1>4. f.stage[s] = 2 - p.dir => Both(in)
  <2>1. f.stage[s] = 2 - p.dir => in[1 - p.dir] > 0  BY DEF Sided
  <2> QED  BY <2>1 DEF Both
<1> QED  BY <1>1, <1>2, <1>3, <1>4 DEF Answered

\* An answer is enough.
LEMMA EnoughSides ==
  ASSUME NEW X \in TwoSidedProtocols \ {"TDS"}, NEW in, Both(in), NEW n
  PROVE  Enough(X, in, n)
  BY DEF TwoSidedProtocols, Enough, MinPackets

\* The dissectors of shape TwoSided.
LEMMA TwoSidedGather ==
  ASSUME NEW f, IsFlow(f), NEW p, p.dir \in 0..1, NEW in \in [0..1 -> Nat], in[p.dir] > 0, NEW n
  PROVE  /\ Sound("ssh_tcp", f, in, n) => Gathers("ssh_tcp", f, search_ssh_tcp(f, p), in, n)
         /\ Sound("vnc_tcp", f, in, n) => Gathers("vnc_tcp", f, search_vnc_tcp(f, p), in, n)
         /\ Sound("steam", f, in, n) => Gathers("steam", f, search_steam(f, p), in, n)
         /\ Sound("halflife2", f, in, n) => Gathers("halflife2", f, search_halflife2(f, p), in, n)
<1>1. /\ \A X \in {"SSH", "VNC", "STEAM", "HALFLIFE2"} : Both(in) => Enough(X, in, n + 1)
      /\ \A s \in {"ssh_stage", "vnc_stage", "steam_stage", "halflife2_stage"} :
           s \in Stages /\ Values[s] \in {4, 8}
  BY EnoughSides DEF TwoSidedProtocols, Stages, Values
<1>2. ASSUME Sound("ssh_tcp", f, in, n) PROVE Gathers("ssh_tcp", f, search_ssh_tcp(f, p), in, n)
  <2>1. Sided(f, "ssh_stage", 1, in)  BY <1>2 DEF Sound
  <2>2. Answered(f, search_ssh_tcp(f, p), "SSH", "ssh_stage", in)
    BY <1>1, <2>1, SidedOnes DEF search_ssh_tcp, TwoSided
  <2> QED  BY <1>1, <2>2 DEF Answered, Gathers, Sound
<1>3. ASSUME Sound("vnc_tcp", f, in, n) PROVE Gathers("vnc_tcp", f, search_vnc_tcp(f, p), in, n)
  <2>1. Sided(f, "vnc_stage", 1, in)  BY <1>3 DEF Sound
  <2>2. Answered(f, search_vnc_tcp(f, p), "VNC", "vnc_stage", in)
    BY <1>1, <2>1, SidedOnes DEF search_vnc_tcp, TwoSided
  <2> QED  BY <1>1, <2>2 DEF Answered, Gathers, Sound
<1>4. ASSUME Sound("steam", f, in, n) PROVE Gathers("steam", f, search_steam(f, p), in, n)
  <2>1. Sided(f, "steam_stage", 1, in)  BY <1>4 DEF Sound
  <2>2. Answered(f, search_steam(f, p), "STEAM", "steam_stage", in)
    BY <1>1, <2>1, SidedOnes DEF search_steam, TwoSided
  <2> QED  BY <1>1, <2>2 DEF Answered, Gathers, Sound
<1>5. ASSUME Sound("halflife2", f, in, n) PROVE Gathers("halflife2", f, search_halflife2(f, p), in, n)
  <2>1. Sided(f, "halflife2_stage", 1, in)  BY <1>5 DEF Sound
  <2>2. Answered(f, search_halflife2(f, p), "HALFLIFE2", "halflife2_stage", in)
    BY <1>1, <2>1, SidedOnes DEF search_halflife2, TwoSided
  <2> QED  BY <1>1, <2>2 DEF Answered, Gathers, Sound
<1> QED  BY <1>2, <1>3, <1>4, <1>5

\* SSL and Usenet.
LEMMA SslUsenetGather ==
  ASSUME NEW f, IsFlow(f), NEW p, p.dir \in 0..1, NEW in \in [0..1 -> Nat], in[p.dir] > 0, NEW n, NEW b
  PROVE  /\ Sound("ssl_tcp", f, in, n) => Gathers("ssl_tcp", f, search_ssl_tcp(f, p, b), in, n)
         /\ Sound("usenet_tcp", f, in, n) => Gathers("usenet_tcp", f, search_usenet_tcp(f, p), in, n)
<1>1. /\ \A X \in {"SSL", "USENET"} : Both(in) => Enough(X, in, n + 1)
      /\ \A s \in {"ssl_stage", "usenet_stage"} : s \in Stages /\ Values[s] = 4
  BY EnoughSides DEF TwoSidedProtocols, Stages, Values
<1>2. ASSUME Sound("ssl_tcp", f, in, n) PROVE Gathers("ssl_tcp", f, search_ssl_tcp(f, p, b), in, n)
  <2>1. Sided(f, "ssl_stage", 1, in)  BY <1>2 DEF Sound
  <2>2. Enough("OSCAR", in, n + 1) /\ Enough("UNENCRYPED_JABBER", in, n + 1)
    BY DEF Enough, TwoSidedProtocols, MinPackets
  <2>3. ASSUME NEW X PROVE Answered(f, Detect(f, X), X, "ssl_stage", in)
                           \/ f.stage.ssl_stage # 2 - p.dir
    BY <1>1, <2>1, SidedOnes
  <2>4. ASSUME NEW g, Sided(g, "ssl_stage", 1, in),
               g.detected = f.detected \/ Enough(g.detected, in, n + 1)
        PROVE  Gathers("ssl_tcp", f, g, in, n)
    BY <2>4 DEF Gathers, Sound
  <2>5. ASSUME NEW X, NEW h, h.stage = f.stage, IsFlow(h)
        PROVE  Sided(Detect(h, X), "ssl_stage", 1, in) /\ Detect(h, X).detected = X
    BY <2>1, <2>5 DEF Sided, Detect, Mark, IsFlow, Fields
  <2>6. IsFlow(Refresh(f, {Dst(p)}, "oscar")) /\ Refresh(f, {Dst(p)}, "oscar").stage = f.stage
    BY DEF Refresh, IsFlow, Fields
  <2>7. f.stage.ssl_stage = 2 - p.dir => Both(in)
    <3>1. f.stage.ssl_stage = 2 - p.dir => in[1 - p.dir] > 0  BY <2>1 DEF Sided
    <3> QED  BY <3>1 DEF Both
  <2>8. ASSUME f.stage.ssl_stage = 2 - p.dir
        PROVE  Gathers("ssl_tcp", f, ssl_mark_and_payload_search_for_other_protocols(f, p, b), in, n)
    <3>1. Enough("SSL", in, n + 1)  BY <1>1, <2>7, <2>8
    <3>2. \A X \in {"SSL", "OSCAR", "UNENCRYPED_JABBER"} : Gathers("ssl_tcp", f, Detect(f, X), in, n)
      BY <2>2, <2>4, <2>5, <3>1
    <3>3. Gathers("ssl_tcp", f, Detect(Refresh(f, {Dst(p)}, "oscar"), "OSCAR"), in, n)
      BY <2>2, <2>4, <2>5, <2>6
    <3> QED  BY <3>2, <3>3 DEF ssl_mark_and_payload_search_for_other_protocols
  <2>9. Gathers("ssl_tcp", f, f, in, n)  BY <2>1, <2>4
  <2>10. Answered(f, Set(f, "ssl_stage", 1 + p.dir), "SSL", "ssl_stage", in)
         /\ Answered(f, Exclude(f, "SSL"), "SSL", "ssl_stage", in)
    BY <1>1, <2>1, SidedOnes
  <2>11. /\ Gathers("ssl_tcp", f, Set(f, "ssl_stage", 1 + p.dir), in, n)
         /\ Gathers("ssl_tcp", f, Exclude(f, "SSL"), in, n)
    BY <1>1, <2>4, <2>10 DEF Answered
  <2> QED  BY <2>8, <2>9, <2>11 DEF search_ssl_tcp
<1>3. ASSUME Sound("usenet_tcp", f, in, n)
      PROVE  Gathers("usenet_tcp", f, search_usenet_tcp(f, p), in, n)
  <2>1. Sided(f, "usenet_stage", 1, in)  BY <1>3 DEF Sound
  <2>2. ASSUME f.stage.usenet_stage = 2 - p.dir
        PROVE  Answered(f, Detect(Set(f, "usenet_stage", 3 + p.dir), "USENET"), "USENET",
               "usenet_stage", in)
    <3> DEFINE g == Detect(Set(f, "usenet_stage", 3 + p.dir), "USENET")
    <3>1. g.stage.usenet_stage = (3 + p.dir) % 4 /\ g.detected = "USENET"
      BY <1>1 DEF Detect, Mark, Set, IsFlow, Fields
    <3>2. g.stage.usenet_stage \in {0, 3}  BY <3>1
    <3>3. in[1 - p.dir] > 0  BY <2>1, <2>2 DEF Sided
    <3> HIDE DEF g
    <3>4. Answered(f, g, "USENET", "usenet_stage", in)
      BY <3>1, <3>2, <3>3 DEF Answered, Sided, Both
    <3> QED  BY <3>4 DEF g
  <2>3. Answered(f, search_usenet_tcp(f, p), "USENET", "usenet_stage", in)
    BY <1>1, <2>1, <2>2, SidedOnes DEF search_usenet_tcp
  <2> QED  BY <1>1, <2>3 DEF Answered, Gathers, Sound
<1> QED  BY <1>2, <1>3

\* PostgreSQL and eDonkey, which is also called for packets without data.
LEMMA PostgresEdonkeyGather ==
  ASSUME NEW f, IsFlow(f), NEW p, p.dir \in 0..1, NEW in \in [0..1 -> Nat],
         p.len = 0 \/ in[p.dir] > 0, NEW n
  PROVE  /\ Sound("postgres_tcp", f, in, n) /\ p.len # 0 =>
              Gathers("postgres_tcp", f, search_postgres_tcp(f, p), in, n)
         /\ Sound("edonkey", f, in, n) => Gathers("edonkey", f, search_edonkey(f, p), in, n)
<1>1. Both(in) => Enough("POSTGRES", in, n + 1) /\ Enough("EDONKEY", in, n + 1)
  BY EnoughSides DEF TwoSidedProtocols
<1>2. /\ "postgres_stage" \in Stages /\ Values["postgres_stage"] = 8
      /\ "edk_stage" \in Stages /\ Values["edk_stage"] = 32
  BY DEF Stages, Values
<1>3. ASSUME Sound("postgres_tcp", f, in, n), p.len # 0
      PROVE  Gathers("postgres_tcp", f, search_postgres_tcp(f, p), in, n)
  <2> DEFINE st == f.stage.postgres_stage
             T(g) == /\ \A d \in 0..1 : g.stage.postgres_stage \in {1 + d, 3 + d} => in[d] > 0
                     /\ g.stage.postgres_stage \notin {5, 6}
                     /\ g.detected = f.detected \/ (g.detected = "POSTGRES" /\ Both(in))
  <2>1. T(f) /\ in[p.dir] > 0  BY <1>3 DEF Sound, Sided
  <2>2. T(Exclude(f, "POSTGRES"))  BY <2>1 DEF Exclude, IsFlow, Fields
  <2>3. ASSUME NEW v \in {1 + p.dir, 3 + p.dir} PROVE T(Set(f, "postgres_stage", v))
    <3>1. /\ Set(f, "postgres_stage", v).stage.postgres_stage = v % 8
          /\ Set(f, "postgres_stage", v).detected = f.detected
      BY <1>2 DEF Set, IsFlow, Fields
    <3>2. v % 8 = v  BY <2>3
    <3>3. \A d \in 0..1 : v \in {1 + d, 3 + d} => d = p.dir
      BY <2>3
    <3> QED  BY <3>1, <3>2, <3>3, <2>1, <2>3
  <2>4. ASSUME st = 2 - p.dir \/ st = 4 - p.dir PROVE T(Detect(f, "POSTGRES"))
    <3>1. Detect(f, "POSTGRES").stage = f.stage /\ Detect(f, "POSTGRES").detected = "POSTGRES"
      BY DEF Detect, Mark, IsFlow, Fields
    <3>2. 1 - p.dir \in 0..1 /\ st \in {1 + (1 - p.dir), 3 + (1 - p.dir)}  BY <2>4
    <3>3. in[1 - p.dir] > 0  BY <2>1, <3>2
    <3>4. Both(in)  BY <2>1, <3>3 DEF Both
    <3> QED  BY <2>1, <3>1, <3>4
  <2>5. st # 5 /\ st # 6  BY <2>1
  <2>6. T(search_postgres_tcp(f, p))
    <3> HIDE DEF T
    <3> QED  BY <2>1, <2>2, <2>3, <2>4, <2>5 DEF search_postgres_tcp
  <2>7. ASSUME NEW g, T(g) PROVE Gathers("postgres_tcp", f, g, in, n)
    <3>1. \A d \in 0..1 : 1 + d \in {1 + d, 3 + d} /\ 3 + d \in {1 + d, 3 + d}  OBVIOUS
    <3> QED  BY <1>1, <2>7, <3>1 DEF Gathers, Sound, Sided
  <2> HIDE DEF T
  <2> QED  BY <2>6, <2>7
<1>4. ASSUME Sound("edonkey", f, in, n) PROVE Gathers("edonkey", f, search_edonkey(f, p), in, n)
  <2> DEFINE T(g) == /\ Sided(g, "edk_stage", 16, in)
                     /\ g.detected = f.detected \/ (g.detected = "EDONKEY" /\ Both(in))
  <2>1. Sided(f, "edk_stage", 16, in) /\ T(f)  BY <1>4 DEF Sound
  <2>2. T(Exclude(f, "EDONKEY"))  BY <2>1 DEF Sided, Exclude, IsFlow, Fields
  <2>3. ASSUME p.len # 0 PROVE T(Set(f, "edk_stage", 16 + p.dir))
    <3>1. Set(f, "edk_stage", 16 + p.dir).stage.edk_stage = (16 + p.dir) % 32
          /\ Set(f, "edk_stage", 16 + p.dir).detected = f.detected
      BY <1>2 DEF Set, IsFlow, Fields
    <3>2. (16 + p.dir) % 32 = 16 + p.dir  OBVIOUS
    <3>3. \A d \in 0..1 : 16 + p.dir = 16 + d => in[d] > 0  BY <2>3
    <3> QED  BY <3>1, <3>2, <3>3 DEF Sided
  <2>4. ASSUME p.len # 0, f.stage.edk_stage = 17 - p.dir PROVE T(Mark(f, "EDONKEY"))
    <3>1. Mark(f, "EDONKEY").stage = f.stage /\ Mark(f, "EDONKEY").detected = "EDONKEY"
      BY DEF Mark, IsFlow, Fields
    <3>2. in[1 - p.dir] > 0  BY <2>1, <2>4 DEF Sided
    <3> QED  BY <2>1, <2>4, <3>1, <3>2 DEF Sided, Both
  <2>5. T(search_edonkey(f, p))
    <3> HIDE DEF T
    <3> QED  BY <2>1, <2>2, <2>3, <2>4 DEF search_edonkey, int_edonkey_tcp
  <2> QED  BY <1>1, <2>5 DEF Gathers, Sound
<1> QED  BY <1>3, <1>4

\* Counting one more.
LEMMA StepsOn ==
  ASSUME NEW f, IsFlow(f), NEW s \in Stages, Values[s] = 4, NEW n \in Nat, Steps(f, s, n)
  PROVE  /\ f.stage[s] \in 0..3 /\ f.stage[s] <= n
         /\ Steps(f, s, n + 1)
         /\ Steps(Set(f, s, f.stage[s] + 1), s, n + 1)
         /\ Set(f, s, f.stage[s] + 1).stage[s] = (f.stage[s] + 1) % 4
<1>1. f.stage[s] \in 0..3 /\ f.stage[s] <= n  BY DEF Steps
<1>2. Set(f, s, f.stage[s] + 1).stage[s] = (f.stage[s] + 1) % 4  BY DEF Set, IsFlow, Fields
<1>3. ASSUME NEW x \in 0..3, x <= n PROVE (x + 1) % 4 \in 0..3 /\ (x + 1) % 4 <= n + 1
  BY <1>3
<1> QED  BY <1>1, <1>2, <1>3 DEF Steps

\* What becomes of the stages, memos and commands.
LEMMA RestSame ==
  ASSUME NEW f, IsFlow(f), NEW X
  PROVE  /\ Detect(f, X).stage = f.stage /\ Detect(f, X).memo = f.memo
         /\ Detect(f, X).commands = f.commands /\ Detect(f, X).detected = X
         /\ Exclude(f, X).stage = f.stage /\ Exclude(f, X).memo = f.memo
         /\ Exclude(f, X).commands = f.commands /\ Exclude(f, X).detected = f.detected
         /\ IsFlow(Detect(f, X)) /\ IsFlow(Exclude(f, X))
  BY DEF Detect, Mark, Exclude, IsFlow, Fields

\* How many packets are enough.
LEMMA EnoughPackets ==
  ASSUME NEW in, NEW n \in Int
  PROVE  /\ n >= 4 => Enough("RTP", in, n) /\ Enough("AIMINI", in, n) /\ Enough("I23V5", in, n)
         /\ n >= 3 => /\ Enough("TELNET", in, n) /\ Enough("MAIL_IMAP", in, n)
                      /\ Enough("MAIL_POP", in, n) /\ Enough("FILETOPIA", in, n)
         /\ n >= 3 /\ Both(in) => Enough("TDS", in, n)
  BY DEF TwoSidedProtocols, Enough, MinPackets

\* Each of the dissectors that count.
LEMMA TelnetGathers ==
  ASSUME NEW f, IsFlow(f), NEW p, NEW in, NEW n \in Nat, Sound("telnet_tcp", f, in, n)
  PROVE  Gathers("telnet_tcp", f, search_telnet_tcp(f, p), in, n)
<1> DEFINE T(g) == /\ Steps(g, "telnet_stage", n + 1)
                   /\ g.detected = f.detected \/ (g.detected = "TELNET" /\ n + 1 >= 3)
<1>1. "telnet_stage" \in Stages /\ Values["telnet_stage"] = 4  BY DEF Stages, Values
<1>2. Steps(f, "telnet_stage", n)  BY DEF Sound
<1>3. T(f) /\ T(Exclude(f, "TELNET"))
  BY <1>1, <1>2, StepsOn, RestSame DEF Steps
<1>4. f.stage.telnet_stage = 2 => T(Detect(f, "TELNET"))
  BY <1>1, <1>2, StepsOn, RestSame DEF Steps
<1>5. T(Set(f, "telnet_stage", f.stage.telnet_stage + 1))
  <2>1. Set(f, "telnet_stage", f.stage.telnet_stage + 1).detected = f.detected
    BY DEF Set, IsFlow, Fields
  <2> QED  BY <1>1, <1>2, <2>1, StepsOn
<1>6. T(search_telnet_tcp(f, p))
  <2> HIDE DEF T
  <2> QED  BY <1>3, <1>4, <1>5 DEF search_telnet_tcp
<1>7. ASSUME NEW g, T(g) PROVE Gathers("telnet_tcp", f, g, in, n)
  BY <1>7, EnoughPackets DEF Gathers, Sound
<1> HIDE DEF T
<1> QED  BY <1>6, <1>7

LEMMA ImapGathers ==
  ASSUME NEW f, IsFlow(f), NEW p, NEW in, NEW n \in Nat, Sound("mail_imap_tcp", f, in, n)
  PROVE  Gathers("mail_imap_tcp", f, search_mail_imap_tcp(f, p), in, n)
<1> DEFINE T(g) == /\ Steps(g, "mail_imap_stage", n + 1)
                   /\ g.detected = f.detected \/ (g.detected = "MAIL_IMAP" /\ n + 1 >= 3)
           h == Set(f, "mail_imap_stage", f.stage.mail_imap_stage + 1)
<1>1. "mail_imap_stage" \in Stages /\ Values["mail_imap_stage"] = 4  BY DEF Stages, Values
<1>2. Steps(f, "mail_imap_stage", n)  BY DEF Sound
<1>3. T(f) /\ T(Exclude(f, "MAIL_IMAP"))
  BY <1>1, <1>2, StepsOn, RestSame DEF Steps
<1>4. IsFlow(h) /\ h.detected = f.detected /\ Steps(h, "mail_imap_stage", n + 1)
  <2>1. IsFlow(h) /\ h.detected = f.detected  BY <1>1 DEF Set, IsFlow, Fields
  <2> QED  BY <1>1, <1>2, <2>1, StepsOn
<1> HIDE DEF h
<1>5. T(h) /\ T(Exclude(h, "MAIL_IMAP"))  BY <1>4, RestSame DEF Steps
<1>6. h.stage.mail_imap_stage = 3 => T(Detect(h, "MAIL_IMAP"))
  BY <1>4, RestSame DEF Steps
<1>7. T(search_mail_imap_tcp(f, p))
  <2> HIDE DEF T
  <2> QED  BY <1>3, <1>5, <1>6 DEF search_mail_imap_tcp, h
<1>8. ASSUME NEW g, T(g) PROVE Gathers("mail_imap_tcp", f, g, in, n)
  BY <1>8, EnoughPackets DEF Gathers, Sound
<1> HIDE DEF T
<1> QED  BY <1>7, <1>8

LEMMA FiletopiaGathers ==
  ASSUME NEW f, IsFlow(f), NEW p, NEW in, NEW n \in Nat, Sound("filetopia_tcp", f, in, n)
  PROVE  Gathers("filetopia_tcp", f, search_filetopia_tcp(f, p), in, n)
<1> DEFINE T(g) == /\ Steps(g, "filetopia_stage", n + 1)
                   /\ g.detected = f.detected \/ (g.detected = "FILETOPIA" /\ n + 1 >= 3)
           st == f.stage.filetopia_stage
<1>1. "filetopia_stage" \in Stages /\ Values["filetopia_stage"] = 4  BY DEF Stages, Values
<1>2. Steps(f, "filetopia_stage", n)  BY DEF Sound
<1>3. T(f) /\ T(Exclude(f, "FILETOPIA"))
  BY <1>1, <1>2, StepsOn, RestSame DEF Steps
<1>4. st = 2 => T(Detect(f, "FILETOPIA"))
  BY <1>1, <1>2, StepsOn, RestSame DEF Steps
<1>5. (st = 0 => T(Set(f, "filetopia_stage", 1))) /\ (st = 1 => T(Set(f, "filetopia_stage", 2)))
  <2>1. /\ Set(f, "filetopia_stage", 1).detected = f.detected
        /\ Set(f, "filetopia_stage", 1).stage.filetopia_stage = 1
        /\ Set(f, "filetopia_stage", 2).detected = f.detected
        /\ Set(f, "filetopia_stage", 2).stage.filetopia_stage = 2
    BY <1>1 DEF Set, IsFlow, Fields
  <2> QED  BY <1>2, <2>1 DEF Steps
<1>6. T(search_filetopia_tcp(f, p))
  <2> HIDE DEF T
  <2> QED  BY <1>3, <1>4, <1>5 DEF search_filetopia_tcp
<1>7. ASSUME NEW g, T(g) PROVE Gathers("filetopia_tcp", f, g, in, n)
  BY <1>7, EnoughPackets DEF Gathers, Sound
<1> HIDE DEF T
<1> QED  BY <1>6, <1>7

\* TDS: three packets of alternating sides.
LEMMA TdsGathers ==
  ASSUME NEW f, IsFlow(f), NEW p, p.dir \in 0..1, NEW in \in [0..1 -> Nat], in[p.dir] > 0,
         NEW n \in Nat, Sound("tds_tcp", f, in, n)
  PROVE  Gathers("tds_tcp", f, search_tds_tcp(f, p), in, n)
<1> DEFINE st == f.stage.tds_stage
           U(x, m) == /\ x \in 0..4 /\ \A d \in 0..1 : x = 1 + d => in[d] > 0
                      /\ x > 0 => m >= 1
                      /\ x > 2 => Both(in) /\ m >= 2
           T(g) == /\ U(g.stage.tds_stage, n + 1)
                   /\ g.detected = f.detected \/ (g.detected = "TDS" /\ Both(in) /\ n + 1 >= 3)
<1>1. "tds_stage" \in Stages /\ Values["tds_stage"] = 8 /\ "tds_login_version" \in Memos
  BY DEF Stages, Values, Memos
<1>2. U(st, n)  BY DEF Sound, Sided
<1>3. T(f) /\ T(Exclude(f, "TDS"))
  <2>1. U(st, n + 1)  BY <1>2
  <2> QED  BY <2>1, RestSame
<1>4. ASSUME NEW v \in 0..7 PROVE LET h == Set(f, "tds_stage", v) IN
        IsFlow(h) /\ h.stage.tds_stage = v /\ h.detected = f.detected
  <2>1. v % 8 = v  OBVIOUS
  <2> QED  BY <1>1, <2>1 DEF Set, IsFlow, Fields
<1>5. T(Keep(Set(f, "tds_stage", 1 + p.dir), "tds_login_version", p.id))
  <2> DEFINE h == Set(f, "tds_stage", 1 + p.dir)
  <2>1. 1 + p.dir \in 0..7  OBVIOUS
  <2>2. IsFlow(h) /\ h.stage.tds_stage = 1 + p.dir /\ h.detected = f.detected
    BY <1>4, <2>1
  <2> HIDE DEF h
  <2>3. /\ Keep(h, "tds_login_version", p.id).stage = h.stage
        /\ Keep(h, "tds_login_version", p.id).detected = h.detected
    BY <2>2 DEF Keep, IsFlow, Fields
  <2>4. U(1 + p.dir, n + 1)  OBVIOUS
  <2>5. T(Keep(h, "tds_login_version", p.id))
    <3> HIDE DEF U
    <3> QED  BY <2>2, <2>3, <2>4
  <2> QED  BY <2>5 DEF h
<1>6. st = 2 - p.dir => T(Set(f, "tds_stage", 3 + p.dir))
  <2> SUFFICES ASSUME st = 2 - p.dir PROVE T(Set(f, "tds_stage", 3 + p.dir))  OBVIOUS
  <2>1. 3 + p.dir \in 0..7  OBVIOUS
  <2>2. in[1 - p.dir] > 0 /\ n >= 1  BY <1>2
  <2>3. Both(in)  BY <2>2 DEF Both
  <2>4. U(3 + p.dir, n + 1)  BY <2>2, <2>3
  <2> HIDE DEF U
  <2> QED  BY <1>4, <2>1, <2>4
<1>7. st = 4 - p.dir => T(Detect(f, "TDS"))
  <2> SUFFICES ASSUME st = 4 - p.dir PROVE T(Detect(f, "TDS"))  OBVIOUS
  <2>1. Both(in) /\ n >= 2 /\ U(st, n + 1)  BY <1>2
  <2> HIDE DEF U
  <2> QED  BY <2>1, RestSame
<1>8. T(search_tds_tcp(f, p))
  <2> HIDE DEF T
  <2> QED  BY <1>3, <1>5, <1>6, <1>7 DEF search_tds_tcp
<1>9. ASSUME NEW g, T(g) PROVE Gathers("tds_tcp", f, g, in, n)
  BY <1>9, EnoughPackets DEF Gathers, Sound, Sided
<1> HIDE DEF T
<1> QED  BY <1>8, <1>9

\* Aimini: six sequences of four packets, coded in one stage.
LEMMA AiminiGathers ==
  ASSUME NEW f, IsFlow(f), NEW p, NEW in, NEW n \in Nat, Sound("aimini", f, in, n)
  PROVE  Gathers("aimini", f, search_aimini(f, p), in, n)
<1> DEFINE st == f.stage.aimini_stage
           U(x, m) == x \in 0..18 /\ (x > 0 => ((x - 1) % 3) + 1 <= m)
           T(g) == /\ U(g.stage.aimini_stage, n + 1)
                   /\ g.detected = f.detected \/ (g.detected = "AIMINI" /\ n + 1 >= 4)
           begun == {c \in 1..6 : p.has \cap AiminiChronology[c][1] # {}}
           first == CHOOSE c \in begun : \A b \in begun : c <= b
<1>1. "aimini_stage" \in Stages /\ Values["aimini_stage"] = 32  BY DEF Stages, Values
<1>2. U(st, n)  BY DEF Sound
<1>3. T(f) /\ T(Exclude(f, "AIMINI"))
  <2>1. U(st, n + 1)  BY <1>2
  <2> QED  BY <2>1, RestSame
<1>4. ASSUME NEW v \in 0..18 PROVE LET h == Set(f, "aimini_stage", v) IN
        h.stage.aimini_stage = v /\ h.detected = f.detected
  <2>1. v % 32 = v  OBVIOUS
  <2> QED  BY <1>1, <2>1 DEF Set, IsFlow, Fields
<1>5. begun # {} => T(Set(f, "aimini_stage", 3 * first - 2))
  <2> SUFFICES ASSUME begun # {} PROVE T(Set(f, "aimini_stage", 3 * first - 2))  OBVIOUS
  <2>1. begun \subseteq 1..6 /\ begun \subseteq Nat  OBVIOUS
  <2> HIDE DEF begun
  <2>2. \E c \in begun : \A b \in begun : c <= b  BY <2>1, LeastElement
  <2>3. first \in 1..6  BY <2>1, <2>2
  <2> HIDE DEF first
  <2>4. 3 * first - 2 \in 0..18 /\ U(3 * first - 2, n + 1)  BY <2>3
  <2> HIDE DEF U
  <2> QED  BY <1>4, <2>4
<1>6. st # 0 /\ ((st - 1) % 3) + 1 = 3 => T(Detect(f, "AIMINI"))
  <2> SUFFICES ASSUME st # 0, ((st - 1) % 3) + 1 = 3 PROVE T(Detect(f, "AIMINI"))  OBVIOUS
  <2>1. n >= 3 /\ U(st, n + 1)  BY <1>2
  <2> HIDE DEF U
  <2> QED  BY <2>1, RestSame
<1>7. st # 0 /\ ((st - 1) % 3) + 1 # 3 => T(Set(f, "aimini_stage", st + 1))
  <2> SUFFICES ASSUME st # 0, ((st - 1) % 3) + 1 # 3 PROVE T(Set(f, "aimini_stage", st + 1))  OBVIOUS
  <2>1. st \in 0..18 /\ st + 1 \in 0..18  BY <1>2
  <2>2. U(st + 1, n + 1)  BY <1>2, <2>1
  <2> HIDE DEF U
  <2> QED  BY <1>4, <2>1, <2>2
<1>8. T(search_aimini(f, p))
  <2> HIDE DEF T
  <2> QED  BY <1>3, <1>5, <1>6, <1>7 DEF search_aimini
<1>9. ASSUME NEW g, T(g) PROVE Gathers("aimini", f, g, in, n)
  BY <1>9, EnoughPackets DEF Gathers, Sound
<1> HIDE DEF T
<1> QED  BY <1>8, <1>9

\* i23v5: three lengths, and a packet with their sum.
LEMMA I23v5Gathers ==
  ASSUME NEW f, IsFlow(f), NEW p, NEW in, NEW n \in Nat, Sound("i23v5", f, in, n)
  PROVE  Gathers("i23v5", f, search_i23v5(f, p), in, n)
<1> DEFINE G(h) == Given(h.memo.i23v5_len1) + Given(h.memo.i23v5_len2) + Given(h.memo.i23v5_len3)
           T(g) == G(g) <= n + 1 /\ (g.detected = f.detected \/ (g.detected = "I23V5" /\ n + 1 >= 4))
           all == 0 \notin {f.memo.i23v5_len1, f.memo.i23v5_len2, f.memo.i23v5_len3}
<1>0. \A x : Given(x) \in 0..1  BY DEF Given
<1>1. G(f) <= n  BY DEF Sound
<1>2. T(f) /\ T(Exclude(f, "I23V5"))  BY <1>0, <1>1, RestSame
<1>3. all => T(Exclude(Detect(f, "I23V5"), "I23V5"))
  <2> SUFFICES ASSUME all PROVE T(Exclude(Detect(f, "I23V5"), "I23V5"))  OBVIOUS
  <2>1. G(f) = 3  BY DEF Given
  <2>2. /\ Exclude(Detect(f, "I23V5"), "I23V5").memo = f.memo
        /\ Exclude(Detect(f, "I23V5"), "I23V5").detected = "I23V5"
    BY RestSame
  <2> QED  BY <1>1, <2>1, <2>2
<1>4. /\ T(Keep(f, "i23v5_len1", p.num)) /\ T(Keep(f, "i23v5_len2", p.num))
      /\ T(Keep(f, "i23v5_len3", p.num))
  <2>1. \A m \in {"i23v5_len1", "i23v5_len2", "i23v5_len3"} :
          /\ Keep(f, m, p.num).detected = f.detected
          /\ \A l \in {"i23v5_len1", "i23v5_len2", "i23v5_len3"} :
               l # m => Keep(f, m, p.num).memo[l] = f.memo[l]
    BY GuardedMemos DEF Keep, IsFlow, Fields
  <2> QED  BY <1>0, <1>1, <2>1
<1>5. T(search_i23v5(f, p))
  <2> HIDE DEF T
  <2> QED  BY <1>2, <1>3, <1>4 DEF search_i23v5
<1>6. ASSUME NEW g, T(g) PROVE Gathers("i23v5", f, g, in, n)
  BY <1>6, EnoughPackets DEF Gathers, Sound
<1> HIDE DEF T
<1> QED  BY <1>5, <1>6

\* A command more.
LEMMA AddsOne ==
  ASSUME NEW A, IsFiniteSet(A), NEW B, B = {} \/ \E c : B = {c}
  PROVE  /\ IsFiniteSet(A \cup B) /\ Cardinality(A \cup B) \in Nat
         /\ Cardinality(A \cup B) <= Cardinality(A) + 1
<1> DEFINE n == Cardinality(A)
           m == Cardinality(A \cup B)
<1>1. n \in Nat  BY FS_CardinalityType
<1>2. CASE B = {}
  <2>1. A \cup B = A  BY <1>2
  <2>2. IsFiniteSet(A \cup B) /\ m = n  BY <2>1, Zenon
  <2> HIDE DEF n, m
  <2>3. m \in Nat /\ m <= n + 1  BY <1>1, <2>2
  <2> QED  BY <2>2, <2>3 DEF n, m
<1>3. ASSUME NEW c, B = {c}
      PROVE  IsFiniteSet(A \cup B) /\ m \in Nat /\ m <= n + 1
  <2>1. A \cup B = A \cup {c}  BY <1>3
  <2>2. IsFiniteSet(A \cup {c}) /\ Cardinality(A \cup {c}) = IF c \in A THEN n ELSE n + 1
    BY FS_AddElement, Zenon
  <2>3. IsFiniteSet(A \cup B) /\ m = IF c \in A THEN n ELSE n + 1  BY <2>1, <2>2, Zenon
  <2> HIDE DEF n, m
  <2>4. m \in Nat /\ m <= n + 1  BY <1>1, <2>3
  <2> QED  BY <2>3, <2>4
<1> QED  BY <1>2, <1>3

\* POP: answers, counted in two bits, and different commands.
LEMMA PopGathers ==
  ASSUME NEW f, IsFlow(f), NEW p, NEW in, NEW n \in Nat, Sound("mail_pop_tcp", f, in, n),
         \A x, y \in p.has \cap PopCommands : x = y
  PROVE  Gathers("mail_pop_tcp", f, search_mail_pop_tcp(f, p), in, n)
<1> DEFINE T(g) == /\ IsFiniteSet(g.commands.pop) /\ g.stage.mail_pop_stage \in 0..3
                   /\ n + 1 >= 3 \/ Cardinality(g.commands.pop) + g.stage.mail_pop_stage <= n + 1
                   /\ g.detected = f.detected \/ (g.detected = "MAIL_POP" /\ n + 1 >= 3)
           answer == p.has \cap {"+OK", "-ERR"} # {}
           said == int_mail_pop_check_for_client_commands(p)
           h1 == Set(f, "mail_pop_stage", f.stage.mail_pop_stage + 1)
           h2 == [f EXCEPT !.commands.pop = @ \cup said]
<1>1. "mail_pop_stage" \in Stages /\ Values["mail_pop_stage"] = 4  BY DEF Stages, Values
<1>2. /\ IsFiniteSet(f.commands.pop) /\ f.stage.mail_pop_stage \in 0..3
      /\ Cardinality(f.commands.pop) \in Nat
      /\ n >= 3 \/ Cardinality(f.commands.pop) + f.stage.mail_pop_stage <= n
  BY FS_CardinalityType DEF Sound
<1>3. T(f) /\ T(Exclude(f, "MAIL_POP"))  BY <1>2, RestSame
<1>4. IsFlow(h1) /\ T(h1)
  <2>1. IsFlow(h1) /\ h1.detected = f.detected /\ h1.commands = f.commands
        /\ h1.stage.mail_pop_stage = (f.stage.mail_pop_stage + 1) % 4
    BY <1>1 DEF Set, IsFlow, Fields
  <2>2. ASSUME NEW x \in 0..3 PROVE (x + 1) % 4 \in 0..3 /\ (x + 1) % 4 <= x + 1  OBVIOUS
  <2> HIDE DEF h1
  <2>3. h1.stage.mail_pop_stage \in 0..3 /\ h1.stage.mail_pop_stage <= f.stage.mail_pop_stage + 1
    BY <1>2, <2>1, <2>2
  <2> QED  BY <1>2, <2>1, <2>3
<1>5. IsFlow(h2) /\ T(h2)
  <2>1. IsFlow(h2) /\ h2.detected = f.detected /\ h2.stage = f.stage
        /\ h2.commands.pop = f.commands.pop \cup said
    BY DEF IsFlow, Fields
  <2>2. said = {} \/ \E c : said = {c}
    BY DEF int_mail_pop_check_for_client_commands
  <2>3. /\ IsFiniteSet(f.commands.pop \cup said)
        /\ Cardinality(f.commands.pop \cup said) \in Nat
        /\ Cardinality(f.commands.pop \cup said) <= Cardinality(f.commands.pop) + 1
    <3> HIDE DEF said
    <3> QED  BY <1>2, <2>2, AddsOne
  <2> HIDE DEF h2, said
  <2> QED  BY <1>2, <2>1, <2>3
<1>6. ASSUME NEW h, IsFlow(h), T(h), Cardinality(h.commands.pop) + h.stage.mail_pop_stage >= 3
      PROVE  T(Detect(h, "MAIL_POP"))
  <2>1. n + 1 >= 3
    <3>1. Cardinality(h.commands.pop) \in Nat /\ h.stage.mail_pop_stage \in 0..3
      BY <1>6, FS_CardinalityType
    <3> QED  BY <1>6, <3>1
  <2>2. Detect(h, "MAIL_POP").commands = h.commands /\ Detect(h, "MAIL_POP").stage = h.stage
        /\ Detect(h, "MAIL_POP").detected = "MAIL_POP"
    BY <1>6, RestSame
  <2> QED  BY <1>6, <2>1, <2>2
<1>7. T(search_mail_pop_tcp(f, p))
  <2> DEFINE g == IF answer THEN h1 ELSE h2
  <2>1. IsFlow(g) /\ T(g)  BY <1>4, <1>5
  <2>2. search_mail_pop_tcp(f, p) \in {f, Exclude(f, "MAIL_POP"), g}
        \/ (/\ search_mail_pop_tcp(f, p) = Detect(g, "MAIL_POP")
            /\ Cardinality(g.commands.pop) + g.stage.mail_pop_stage >= 3)
    BY DEF search_mail_pop_tcp
  <2> HIDE DEF T, g
  <2> QED  BY <1>3, <1>6, <2>1, <2>2
<1>8. ASSUME NEW g, T(g) PROVE Gathers("mail_pop_tcp", f, g, in, n)
  BY <1>8, EnoughPackets DEF Gathers, Sound
<1> HIDE DEF T
<1> QED  BY <1>7, <1>8

\* RTP: four packets of one direction in sequence.
LEMMA RtpGathers ==
  ASSUME NEW f, IsFlow(f), NEW p, NEW in, NEW n \in Nat, Sound("rtp_udp", f, in, n)
  PROVE  Gathers("rtp_udp", f, search_rtp_udp(f, p), in, n)
<1> DEFINE S(g, m) == IsFlow(g) /\ g.detected = f.detected
                      /\ Steps(g, "rtp_stage1", m) /\ Steps(g, "rtp_stage2", m)
           T(g) == /\ Steps(g, "rtp_stage1", n + 1) /\ Steps(g, "rtp_stage2", n + 1)
                   /\ g.detected = f.detected \/ (g.detected = "RTP" /\ n + 1 >= 4)
           ssid == IF p.dir = 0 THEN "rtp_ssid0" ELSE "rtp_ssid1"
           seqnum == IF p.dir = 0 THEN "rtp_seqnum0" ELSE "rtp_seqnum1"
           stageOf == IF p.dir = 0 THEN "rtp_stage1" ELSE "rtp_stage2"
           type == IF "pt 8" \in p.has THEN 8 ELSE 0
           kept == Keep(Keep(f, ssid, 0), seqnum, 0)
           again == IF f.memo.rtp_payload_type \notin {0, type}
                    THEN Set(Set(kept, "rtp_stage1", 0), "rtp_stage2", 0) ELSE f
           g == Keep(again, "rtp_payload_type", type)
           stage == g.stage[stageOf]
           last == g.memo[seqnum]
           packet_difference == (IF p.num > last THEN p.num - last ELSE last - p.num) % 256
           strange == /\ stage > 0
                      /\ \/ g.memo[ssid] # p.id
                         \/ packet_difference > RTP_MAX_OUT_OF_ORDER
           noted == Keep(IF stage > 0 THEN g ELSE Keep(g, ssid, p.id), seqnum, p.num)
           refuse(h) == IF f.marked = "STUN" THEN h ELSE Exclude(h, "RTP")
<1> SUFFICES Gathers("rtp_udp", f, search_rtp_udp(f, p), in, n)  OBVIOUS
<1>1. /\ {"rtp_stage1", "rtp_stage2"} \subseteq Stages /\ Values["rtp_stage1"] = 4
      /\ Values["rtp_stage2"] = 4
  BY DEF Stages, Values
<1>2. {"rtp_ssid0", "rtp_ssid1", "rtp_seqnum0", "rtp_seqnum1", "rtp_payload_type"} \subseteq Memos
  BY FreeMemos
<1>3. ssid \in Memos /\ seqnum \in Memos /\ stageOf \in {"rtp_stage1", "rtp_stage2"}
  BY <1>2
<1>4. search_rtp_udp(f, p) =
        IF p.has \cap {"one zero byte", "12 zero bytes"} # {} THEN f
        ELSE IF "rtp version" \notin p.has THEN refuse(f)
        ELSE IF strange THEN refuse(g)
        ELSE IF stage > 0 /\ p.num = last THEN g
        ELSE IF p.num <= 3 THEN noted
        ELSE IF stage = 3 THEN Detect(noted, "RTP")
        ELSE Set(noted, stageOf, stage + 1)
  BY DEF search_rtp_udp
<1> HIDE DEF ssid, seqnum, stageOf, type
<1>5. S(f, n)  BY DEF Sound
<1>6. ASSUME NEW h, S(h, n), NEW m \in Memos, NEW v
      PROVE  S(Keep(h, m, v), n) /\ Keep(h, m, v).stage = h.stage
  BY <1>6 DEF Keep, IsFlow, Fields, Steps
<1>7. ASSUME NEW h, S(h, n), NEW s \in {"rtp_stage1", "rtp_stage2"} PROVE S(Set(h, s, 0), n)
  BY <1>1, <1>7 DEF Set, IsFlow, Fields, Steps
<1>8. S(g, n)
  <2> HIDE DEF S
  <2>1. S(kept, n)  BY <1>3, <1>5, <1>6
  <2> HIDE DEF kept
  <2>2. S(Set(Set(kept, "rtp_stage1", 0), "rtp_stage2", 0), n)  BY <2>1, <1>7
  <2>3. S(again, n)  BY <1>5, <2>2
  <2> HIDE DEF again
  <2> QED  BY <1>2, <2>3, <1>6
<1> HIDE DEF g
<1>9. S(noted, n) /\ noted.stage = g.stage
  <2> HIDE DEF S, stage
  <2>1. S(Keep(g, ssid, p.id), n) /\ Keep(g, ssid, p.id).stage = g.stage  BY <1>3, <1>6, <1>8
  <2> QED  BY <1>3, <1>6, <1>8, <2>1
<1> HIDE DEF noted
<1>10. ASSUME NEW h, S(h, n) PROVE T(h) /\ T(Exclude(h, "RTP"))
  BY <1>10, RestSame DEF Steps
<1>11. stage = 3 => T(Detect(noted, "RTP"))
  BY <1>3, <1>9, RestSame DEF Steps
<1>12. T(Set(noted, stageOf, stage + 1))
  <2>1. stage = noted.stage[stageOf]  BY <1>9
  <2>2. Steps(Set(noted, stageOf, stage + 1), stageOf, n + 1)
    <3>1. stageOf \in Stages /\ Values[stageOf] = 4 /\ Steps(noted, stageOf, n) /\ IsFlow(noted)
      BY <1>1, <1>3, <1>9
    <3> QED  BY <2>1, <3>1, StepsOn
  <2>3. Set(noted, stageOf, stage + 1).detected = f.detected
        /\ \A s \in {"rtp_stage1", "rtp_stage2"} :
             s # stageOf => Set(noted, stageOf, stage + 1).stage[s] = noted.stage[s]
    BY <1>1, <1>3, <1>9 DEF Set, IsFlow, Fields
  <2> HIDE DEF stage
  <2> QED  BY <1>3, <1>9, <2>2, <2>3 DEF Steps
<1>13. T(search_rtp_udp(f, p))
  <2>1. T(refuse(f)) /\ T(refuse(g)) /\ T(f) /\ T(g) /\ T(noted)  BY <1>5, <1>8, <1>9, <1>10
  <2> HIDE DEF T, refuse, strange, stage, last
  <2> QED  BY <1>4, <1>11, <1>12, <2>1
<1>14. ASSUME NEW h, T(h) PROVE Gathers("rtp_udp", f, h, in, n)
  BY <1>14, EnoughPackets DEF Gathers, Sound
<1> HIDE DEF T
<1> QED  BY <1>13, <1>14

-----------------------------------------------------------------------------
(* Evidence is not lost, and comes from nobody else.                       *)

\* The dissectors whose verdicts take several packets.
Gatherers == DOMAIN Keeps \ {"ftp_tcp"}

\* What supports a dissector does so later.
LEMMA SoundLater ==
  ASSUME NEW func, NEW f, NEW in \in [0..1 -> Nat], NEW n \in Int, Sound(func, f, in, n),
         NEW on \in [0..1 -> Nat], \A d \in 0..1 : in[d] <= on[d], NEW m \in Int, m >= n \/ m >= 3
  PROVE  Sound(func, f, on, m)
<1>1. \A s, base : Sided(f, s, base, in) => Sided(f, s, base, on)  BY DEF Sided
<1>2. Both(in) => Both(on)  BY DEF Both
<1>3. \A s : Steps(f, s, n) => Steps(f, s, m)  BY DEF Steps
<1>4. func = "tds_tcp" => /\ f.stage.tds_stage \in 0..4
                          /\ f.stage.tds_stage > 0 => m >= 1
                          /\ f.stage.tds_stage > 2 => Both(on) /\ m >= 2
  BY <1>2 DEF Sound
<1>5. func = "aimini" /\ f.stage.aimini_stage > 0 => ((f.stage.aimini_stage - 1) % 3) + 1 <= m
  <2>1. \A x \in 0..18 : x > 0 => (x - 1) % 3 \in 0..2  OBVIOUS
  <2> QED  BY <2>1 DEF Sound
<1>6. func = "i23v5" =>
        Given(f.memo.i23v5_len1) + Given(f.memo.i23v5_len2) + Given(f.memo.i23v5_len3) <= m
  <2>1. \A x : Given(x) \in 0..1  BY DEF Given
  <2> QED  BY <2>1 DEF Sound
<1>7. func = "mail_pop_tcp" => m >= 3 \/ Cardinality(f.commands.pop) + f.stage.mail_pop_stage <= m
  <2> SUFFICES ASSUME func = "mail_pop_tcp"
               PROVE  m >= 3 \/ Cardinality(f.commands.pop) + f.stage.mail_pop_stage <= m
    OBVIOUS
  <2>1. /\ Cardinality(f.commands.pop) \in Nat /\ f.stage.mail_pop_stage \in 0..3
        /\ n >= 3 \/ Cardinality(f.commands.pop) + f.stage.mail_pop_stage <= n
    BY FS_CardinalityType DEF Sound
  <2> QED  BY <2>1
<1> QED  BY <1>1, <1>3, <1>4, <1>5, <1>6, <1>7 DEF Sound

\* Whose a guarded field is.
Keeper ==
  [ssh_stage |-> "ssh_tcp", vnc_stage |-> "vnc_tcp", ssl_stage |-> "ssl_tcp", steam_stage |-> "steam",
   halflife2_stage |-> "halflife2", usenet_stage |-> "usenet_tcp", tds_stage |-> "tds_tcp",
   postgres_stage |-> "postgres_tcp", edk_stage |-> "edonkey", rtp_stage1 |-> "rtp_udp",
   rtp_stage2 |-> "rtp_udp", aimini_stage |-> "aimini", i23v5_len1 |-> "i23v5",
   i23v5_len2 |-> "i23v5", i23v5_len3 |-> "i23v5", telnet_stage |-> "telnet_tcp",
   mail_imap_stage |-> "mail_imap_tcp", mail_pop_stage |-> "mail_pop_tcp", pop |-> "mail_pop_tcp",
   filetopia_stage |-> "filetopia_tcp", ftp_stage |-> "ftp_tcp"]

\* A guarded field has one dissector.
LEMMA NotAnothers ==
  ASSUME NEW s \in Guarded, NEW func, s \in Own(func)
  PROVE  func = Keeper[s]
<1>1. \A k \in DOMAIN Keeps : s \in Keeps[k] => Keeper[s] = k  BY DEF Keeps, Keeper
<1> QED  BY <1>1 DEF Own, Free

\* What another dissector does is no evidence, and takes none away.
LEMMA SoundFrame ==
  ASSUME NEW func, NEW f, NEW g, NEW in, NEW n, NEW other, other # func, Frame(f, g, Own(other)),
         Sound(func, f, in, n)
  PROVE  Sound(func, g, in, n)
<1>1. \A s \in Guarded : Keeper[s] = func => s \notin Own(other)  BY NotAnothers
<1>2. \A s \in Guarded \cap Stages : Keeper[s] = func => g.stage[s] = f.stage[s]  BY <1>1 DEF Frame
<1>3. \A m \in Guarded \cap Memos : Keeper[m] = func => g.memo[m] = f.memo[m]  BY <1>1 DEF Frame
<1>4. Keeper["pop"] = func => g.commands.pop = f.commands.pop  BY <1>1 DEF Frame, Guarded
<1>5. \A s \in Guarded : s \in Stages \/ s \in Memos \/ s = "pop"
  BY DEF Guarded, Stages, Values, Memos
<1>6. \A s \in {"ssh_stage", "vnc_stage", "ssl_stage", "steam_stage", "halflife2_stage", "usenet_stage",
                "postgres_stage", "edk_stage", "tds_stage"} :
        func = Keeper[s] => \A base : Sided(f, s, base, in) => Sided(g, s, base, in)
  <2>1. {"ssh_stage", "vnc_stage", "ssl_stage", "steam_stage", "halflife2_stage", "usenet_stage",
                "postgres_stage", "edk_stage", "tds_stage"} \subseteq Guarded \cap Stages
    BY DEF Guarded, Stages, Values
  <2> QED  BY <1>2, <2>1 DEF Sided
<1>7. \A s \in {"rtp_stage1", "rtp_stage2", "telnet_stage", "mail_imap_stage", "filetopia_stage"} :
        func = Keeper[s] /\ Steps(f, s, n) => Steps(g, s, n)
  <2>1. {"rtp_stage1", "rtp_stage2", "telnet_stage", "mail_imap_stage", "filetopia_stage"}
          \subseteq Guarded \cap Stages
    BY DEF Guarded, Stages, Values
  <2> QED  BY <1>2, <2>1 DEF Steps
<1>8. \A s \in {"postgres_stage", "tds_stage", "aimini_stage", "mail_pop_stage"} :
        func = Keeper[s] => g.stage[s] = f.stage[s]
  <2>1. {"postgres_stage", "tds_stage", "aimini_stage", "mail_pop_stage"} \subseteq Guarded \cap Stages
    BY DEF Guarded, Stages, Values
  <2> QED  BY <1>2, <2>1
<1>9. \A m \in {"i23v5_len1", "i23v5_len2", "i23v5_len3"} : func = Keeper[m] => g.memo[m] = f.memo[m]
  <2>1. {"i23v5_len1", "i23v5_len2", "i23v5_len3"} \subseteq Guarded \cap Memos
    BY DEF Guarded, Memos
  <2> QED  BY <1>3, <2>1
<1> QED  BY <1>4, <1>6, <1>7, <1>8, <1>9 DEF Sound, Keeper

\* They are called for packets with data only, but for eDonkey.
LEMMA GatherersHavePayload ==
  \A e \in Members(Registry) : e.func \in Gatherers \ {"edonkey"} => "HAS_PAYLOAD" \in e.selection
<1> DEFINE Paid(s) == \A e \in Members(s) :
                        e.func \in Gatherers \ {"edonkey"} => "HAS_PAYLOAD" \in e.selection
<1> USE DEF Members, First, Known, Entry, Gatherers, Keeps, Any, AnyBare, AnyData, AnyNew,
            TcpBare, TcpData, TcpNew, UdpData, TcpDataV4V6, TcpNewV4V6, UdpDataV4V6
<1>1. Paid(SslToDirectconnect)  BY DEF SslToDirectconnect
<1>2. Paid(MsnToSmtp)  BY DEF MsnToSmtp
<1>3. Paid(FtpToNonTcpUdp)  BY DEF FtpToNonTcpUdp
<1>4. Paid(TvantsToFeidian)  BY DEF TvantsToFeidian
<1>5. Paid(SshToTelnet)  BY DEF SshToTelnet
<1>6. Paid(NtpToPcanywhere)  BY DEF NtpToPcanywhere
<1>7. Paid(RdpToMdns)  BY DEF RdpToMdns
<1>8. Paid(IppToAimini)  BY DEF IppToAimini
<1>9. HttpEntry.func \notin Gatherers  BY DEF HttpEntry
<1>10. ASSUME NEW e \in Members(Registry), e.func \in Gatherers \ {"edonkey"}
       PROVE  "HAS_PAYLOAD" \in e.selection
  <2> HIDE DEF Members, First, Known, Entry, Gatherers, Keeps, Any, AnyBare, AnyData, AnyNew,
               TcpBare, TcpData, TcpNew, UdpData, TcpDataV4V6, TcpNewV4V6, UdpDataV4V6
  <2>1. e # HttpEntry  BY <1>9, <1>10
  <2>2. \/ e \in {HttpEntry} \cup Members(SslToDirectconnect) \cup Members(MsnToSmtp)
        \/ e \in Members(FtpToNonTcpUdp) \cup Members(TvantsToFeidian) \cup Members(SshToTelnet)
        \/ e \in Members(NtpToPcanywhere) \cup Members(RdpToMdns) \cup Members(IppToAimini)
    BY RegistryEntries
  <2> QED  BY <1>1, <1>2, <1>3, <1>4, <1>5, <1>6, <1>7, <1>8, <1>10, <2>1, <2>2
<1> QED  BY <1>10

\* Each of them gathers.
LEMMA DissectorGathers ==
  ASSUME NEW func \in Gatherers, NEW f, IsFlow(f), NEW p, p.dir \in 0..1, NEW in \in [0..1 -> Nat],
         p.len = 0 \/ in[p.dir] > 0, NEW n \in Int, p.len = 0 => func = "edonkey",
         p.len # 0 => n \in Nat,
         \A x, y \in p.has \cap PopCommands : x = y, Sound(func, f, in, n), NEW b
  PROVE  Gathers(func, f, Dissector(func, f, p, b), in, n)
<1>1. /\ func = "ssh_tcp" => Dissector(func, f, p, b) = search_ssh_tcp(f, p)
      /\ func = "vnc_tcp" => Dissector(func, f, p, b) = search_vnc_tcp(f, p)
      /\ func = "ssl_tcp" => Dissector(func, f, p, b) = search_ssl_tcp(f, p, b)
      /\ func = "steam" => Dissector(func, f, p, b) = search_steam(f, p)
      /\ func = "halflife2" => Dissector(func, f, p, b) = search_halflife2(f, p)
      /\ func = "usenet_tcp" => Dissector(func, f, p, b) = search_usenet_tcp(f, p)
      /\ func = "tds_tcp" => Dissector(func, f, p, b) = search_tds_tcp(f, p)
      /\ func = "postgres_tcp" => Dissector(func, f, p, b) = search_postgres_tcp(f, p)
  BY DEF Dissector
<1>2. /\ func = "edonkey" => Dissector(func, f, p, b) = search_edonkey(f, p)
      /\ func = "rtp_udp" => Dissector(func, f, p, b) = search_rtp_udp(f, p)
      /\ func = "aimini" => Dissector(func, f, p, b) = search_aimini(f, p)
      /\ func = "i23v5" => Dissector(func, f, p, b) = search_i23v5(f, p)
      /\ func = "telnet_tcp" => Dissector(func, f, p, b) = search_telnet_tcp(f, p)
      /\ func = "mail_imap_tcp" => Dissector(func, f, p, b) = search_mail_imap_tcp(f, p)
      /\ func = "mail_pop_tcp" => Dissector(func, f, p, b) = search_mail_pop_tcp(f, p)
      /\ func = "filetopia_tcp" => Dissector(func, f, p, b) = search_filetopia_tcp(f, p)
  BY DEF Dissector
<1>3. \/ func \in {"ssh_tcp", "vnc_tcp", "steam", "halflife2"}
      \/ func \in {"ssl_tcp", "usenet_tcp"}
      \/ func \in {"postgres_tcp", "edonkey"}
      \/ func \in {"tds_tcp", "rtp_udp", "aimini", "i23v5"}
      \/ func \in {"telnet_tcp", "mail_imap_tcp", "mail_pop_tcp", "filetopia_tcp"}
  BY DEF Gatherers, Keeps
<1>4. func # "edonkey" => in[p.dir] > 0 /\ n \in Nat /\ p.len # 0  OBVIOUS
<1>5. CASE func \in {"ssh_tcp", "vnc_tcp", "steam", "halflife2"}
  BY <1>1, <1>4, <1>5, TwoSidedGather
<1>6. CASE func \in {"ssl_tcp", "usenet_tcp"}  BY <1>1, <1>4, <1>6, SslUsenetGather
<1>7. CASE func \in {"postgres_tcp", "edonkey"}  BY <1>1, <1>2, <1>4, <1>7, PostgresEdonkeyGather
<1>8. CASE func \in {"tds_tcp", "rtp_udp", "aimini", "i23v5"}
  BY <1>1, <1>2, <1>4, <1>8, TdsGathers, RtpGathers, AiminiGathers, I23v5Gathers
<1>9. CASE func \in {"telnet_tcp", "mail_imap_tcp", "mail_pop_tcp", "filetopia_tcp"}
  BY <1>2, <1>4, <1>9, TelnetGathers, ImapGathers, PopGathers, FiletopiaGathers
<1> QED  BY <1>3, <1>5, <1>6, <1>7, <1>8, <1>9

-----------------------------------------------------------------------------
(* No verdict comes too easily.                                            *)

\* A dissector still to be called for data has not yet used the packet in work.
Pending(func) == phase = "dissect" /\ packet.len > 0 /\ \E e \in Members(todo) : e.func = func

Used(func) == conn.packet_counter - (IF Pending(func) THEN 1 ELSE 0)

\* A control connection has announced a data connection, and that is recent.
Announced(f) == \E d \in 0..1 : "ftp" \in f.fresh[d] /\ "FTP" \in f.seen[d]

\* A packet that opens a connection.
Opens(p) == p.syn /\ (~ p.ack \/ p.len = 0)

\* What the verdict and every guarded field rest on.
Supported ==
  /\ Enough(flow.detected, conn.packet_direction_counter, conn.packet_counter)
  /\ \A func \in Gatherers : Sound(func, flow, conn.packet_direction_counter, Used(func))
  /\ ~ conn.init_finished => phase = "idle" /\ flow.stage.ftp_stage = 0
  /\ phase = "dissect" =>
       /\ packet.dir \in 0..1 /\ packet.len \in Nat
       /\ packet.len > 0 => conn.packet_direction_counter[packet.dir] > 0 /\ conn.packet_counter > 0
       /\ \A x, y \in packet.has \cap PopCommands : x = y
       /\ Opens(packet) /\ saved = UNKNOWN =>
            /\ flow.detected = "FTP" => Announced(flow)
            /\ packet.ack \/ flow.stage.ftp_stage = 0 \/ \A e \in Members(todo) : e.func # "ftp_tcp"

\* A new flow rests on nothing.
LEMMA EmptySound ==
  ASSUME NEW seen, NEW fresh, NEW ports, NEW in, NEW n \in Nat, NEW func
  PROVE  /\ Sound(func, EmptyFlow(seen, fresh, ports), in, n)
         /\ Enough(UNKNOWN, in, n)
         /\ EmptyFlow(seen, fresh, ports).stage.ftp_stage = 0
<1> DEFINE f == EmptyFlow(seen, fresh, ports)
<1>1. (\A s \in Stages : f.stage[s] = 0) /\ (\A m \in Memos : f.memo[m] = 0) /\ f.commands.pop = {}
  BY DEF EmptyFlow, Stages
<1>2. {"ssh_stage", "vnc_stage", "ssl_stage", "steam_stage", "halflife2_stage",
            "usenet_stage", "tds_stage", "postgres_stage", "edk_stage", "rtp_stage1",
            "rtp_stage2", "aimini_stage", "telnet_stage", "mail_imap_stage", "mail_pop_stage",
            "filetopia_stage", "ftp_stage"} \subseteq Stages
  BY DEF Stages, Values
<1>3. {"i23v5_len1", "i23v5_len2", "i23v5_len3"} \subseteq Memos  BY GuardedMemos
<1>4. IsFiniteSet({}) /\ Cardinality({}) = 0  BY FS_EmptySet
<1>5. Given(0) = 0  BY DEF Given
<1>6. \A s \in Stages : (\A base \in {1, 3, 16} : Sided(f, s, base, in)) /\ Steps(f, s, n)
  BY <1>1 DEF Sided, Steps
<1>7. Enough(UNKNOWN, in, n)  BY DEF Enough, UNKNOWN, TwoSidedProtocols, MinPackets
<1> HIDE DEF f
<1>8. IsFiniteSet(f.commands.pop) /\ Cardinality(f.commands.pop) + f.stage.mail_pop_stage = 0
  BY <1>1, <1>2, <1>4
<1>9. Sound(func, f, in, n)
  BY <1>1, <1>2, <1>3, <1>5, <1>6, <1>8 DEF Sound
<1> QED  BY <1>1, <1>2, <1>7, <1>9 DEF f

\* What is enough stays enough.
LEMMA EnoughLater ==
  ASSUME NEW X, NEW in \in [0..1 -> Nat], NEW n \in Int, Enough(X, in, n),
         NEW on \in [0..1 -> Nat], \A d \in 0..1 : in[d] <= on[d], NEW m \in Int, m >= n
  PROVE  Enough(X, on, m)
<1>1. Both(in) => Both(on)  BY DEF Both
<1>2. \A Y \in DOMAIN MinPackets : MinPackets[Y] \in Nat  BY DEF MinPackets
<1> QED  BY <1>1, <1>2 DEF Enough

\* What a packet adds to the counters of a connection.
LEMMA Counts ==
  ASSUME NEW c \in Conns, NEW p, p.dir \in 0..1, p.len \in Nat
  PROVE  LET t == ipoque_connection_tracking(c, p)
         IN /\ t.init_finished
            /\ t.packet_counter \in Nat /\ c.packet_counter \in Nat
            /\ t.packet_direction_counter \in [0..1 -> Nat]
            /\ c.packet_direction_counter \in [0..1 -> Nat]
            /\ \A d \in 0..1 : c.packet_direction_counter[d] <= t.packet_direction_counter[d]
            /\ c.packet_counter <= t.packet_counter
            /\ t.packet_counter - 1 >= c.packet_counter \/ t.packet_counter - 1 >= 3 \/ p.len = 0
            /\ p.len > 0 => t.packet_direction_counter[p.dir] > 0 /\ t.packet_counter > 0
<1> DEFINE t == ipoque_connection_tracking(c, p)
           in == c.packet_direction_counter
<1>1. /\ in \in [0..1 -> 0..MAX_PACKET_COUNTER] /\ c.packet_counter \in 0..MAX_PACKET_COUNTER
      /\ MAX_PACKET_COUNTER \in Nat /\ MAX_PACKET_COUNTER >= 4
  BY SizesAssumption, EvidenceAssumption DEF Conns
<1>2. /\ t.init_finished /\ t.packet_counter = Count(c.packet_counter, p)
      /\ t.packet_direction_counter = [in EXCEPT ![p.dir] = Count(in[p.dir], p)]
  BY DEF ipoque_connection_tracking
<1>3. \A x \in 0..MAX_PACKET_COUNTER :
        /\ Count(x, p) \in Nat /\ x <= Count(x, p)
        /\ p.len > 0 => Count(x, p) > 0
        /\ Count(x, p) - 1 >= x \/ Count(x, p) - 1 >= 3 \/ p.len = 0
  BY <1>1 DEF Count
<1> HIDE DEF t, in
<1>4. /\ t.packet_direction_counter \in [0..1 -> Nat] /\ in \in [0..1 -> Nat]
      /\ \A d \in 0..1 : in[d] <= t.packet_direction_counter[d]
      /\ p.len > 0 => t.packet_direction_counter[p.dir] > 0
  BY <1>1, <1>2, <1>3
<1>5. /\ t.packet_counter \in Nat /\ c.packet_counter \in Nat /\ c.packet_counter <= t.packet_counter
      /\ t.packet_counter - 1 >= c.packet_counter \/ t.packet_counter - 1 >= 3 \/ p.len = 0
      /\ p.len > 0 => t.packet_counter > 0
  BY <1>1, <1>2, <1>3
<1> QED  BY <1>2, <1>4, <1>5 DEF t, in

\* Only the guarded fields matter.
LEMMA SoundSame ==
  ASSUME NEW func, NEW f, NEW g, f.stage = g.stage, f.memo = g.memo, f.commands = g.commands,
         NEW in, NEW n, Sound(func, f, in, n)
  PROVE  Sound(func, g, in, n)
  BY DEF Sound, Sided, Steps

\* The entry of FTP.
LEMMA FtpIs == \A e \in Members(Registry) : e.func = "ftp_tcp" => e = Known("ftp_tcp", "FTP", TcpBare)
<1> DEFINE x == Known("ftp_tcp", "FTP", TcpBare)
<1>1. x = FtpToNonTcpUdp[1]  BY DEF FtpToNonTcpUdp
<1>2. 1 \in 1 .. Len(FtpToNonTcpUdp)  BY FtpToNonTcpUdpEntries
<1>3. x \in Members(FtpToNonTcpUdp)  BY <1>1, <1>2, Zenon DEF Members
<1>4. x \in Members(Registry)  BY <1>3, RegistryEntries
<1>5. x.func = "ftp_tcp"  BY DEF Known, Entry
<1> HIDE DEF x
<1>6. \A e \in Members(Registry) : e.func = "ftp_tcp" => e = x  BY <1>4, <1>5, FuncsDiffer
<1> QED  BY <1>6 DEF x

\* An arriving packet.
LEMMA SupportedArrive ==
  ASSUME TypeOK, Calls, Supported, NEW k \in Kinds(configured), NEW d \in 0..1,
         NEW o \in Offsets(configured),
         Arrive(k, d, o)
  PROVE  Supported'
<1> DEFINE p == PacketOf(k, d, edge[d] + o)
           c == IF IsReset(p) THEN NoConn ELSE conn
           f == IF IsReset(p) THEN EmptyFlow(flow.seen, flow.fresh, flow.ports) ELSE flow
           again == IsRetransmission(c, p)
           in == c.packet_direction_counter
           on == conn'.packet_direction_counter
<1>1. /\ conn' = ipoque_connection_tracking(c, p) /\ phase = "idle" /\ phase' = "dissect"
      /\ saved' = f.detected /\ flow' = [f EXCEPT !.marked = f.detected]
      /\ packet' = [p EXCEPT !.retransmission = again, !.retried = IsRetried(c, p),
                             !.judged = IsTcp(p) /\ Tracked(c) /\ p.len > 0]
  BY DEF Arrive
<1>2. /\ p.dir = d /\ p.len = k.len /\ p.has = k.has /\ p.syn = k.syn /\ p.ack = k.ack /\ k.len \in Nat
      /\ \A x, y \in k.has \cap PopCommands : x = y
  BY InputsAssumption, EvidenceAssumption DEF PacketOf, Calls
<1>3. /\ packet'.dir = d /\ packet'.len = k.len /\ packet'.has = k.has
      /\ packet'.syn = k.syn /\ packet'.ack = k.ack /\ (IsTcp(packet') <=> IsTcp(p))
  BY <1>1, <1>2 DEF PacketOf, IsTcp
<1>4. c \in Conns
  <2>1. NoConn \in Conns  BY SizesAssumption DEF NoConn, Conns
  <2> QED  BY <2>1 DEF TypeOK
<1>5. c.packet_counter \in Nat /\ in \in [0..1 -> Nat]
  BY <1>4, SizesAssumption DEF Conns
<1>6. /\ Enough(f.detected, in, c.packet_counter)
      /\ \A func \in Gatherers : Sound(func, f, in, c.packet_counter)
  <2>1. CASE IsReset(p)
    <3>1. f = EmptyFlow(flow.seen, flow.fresh, flow.ports)  BY <2>1
    <3>2. f.detected = UNKNOWN  BY <3>1 DEF EmptyFlow
    <3> HIDE DEF f, in, c
    <3> QED  BY <1>5, <3>1, <3>2, EmptySound
  <2>2. CASE ~ IsReset(p)
    <3>1. f = flow /\ c = conn  BY <2>2
    <3>2. \A func : Used(func) = conn.packet_counter
      <4>1. \A func : ~ Pending(func)  BY <1>1 DEF Pending
      <4> QED  BY <1>5, <3>1, <4>1 DEF Used
    <3> QED  BY <3>1, <3>2 DEF Supported
  <2> QED  BY <2>1, <2>2
<1>7. p.syn /\ ~ p.ack /\ f.detected = UNKNOWN /\ IsTcp(p) => f.stage.ftp_stage = 0
  <2>1. CASE IsReset(p)  BY <2>1, EmptySound
  <2>2. CASE ~ IsReset(p)
    BY <2>2 DEF IsReset, Supported
  <2> QED  BY <2>1, <2>2
<1>8. /\ flow'.detected = f.detected /\ flow'.stage = f.stage /\ flow'.memo = f.memo
      /\ flow'.commands = f.commands
  <2>1. IsState(f)
    <3>1. /\ DOMAIN flow.seen = 0..1 /\ DOMAIN flow.fresh = 0..1
          /\ DOMAIN flow.ports = 0..1 /\ IsState(flow)
      BY DEF Calls, IsState
    <3> QED  BY <3>1, EmptyIsState
  <2> HIDE DEF f
  <2> QED  BY <1>1, <2>1 DEF IsState
<1> HIDE DEF f
<1>9. /\ conn'.init_finished
      /\ conn'.packet_counter \in Nat
      /\ on \in [0..1 -> Nat] /\ \A x \in 0..1 : in[x] <= on[x]
      /\ c.packet_counter <= conn'.packet_counter
      /\ conn'.packet_counter - 1 >= c.packet_counter \/ conn'.packet_counter - 1 >= 3 \/ k.len = 0
      /\ k.len > 0 => on[d] > 0 /\ conn'.packet_counter > 0
  <2> HIDE DEF c, p
  <2> QED  BY <1>1, <1>2, <1>4, Counts
<1> HIDE DEF c, p, in, on
<1>10. Enough(flow'.detected, on, conn'.packet_counter)
  BY <1>5, <1>6, <1>8, <1>9, EnoughLater
<1>11. ASSUME NEW func \in Gatherers PROVE Sound(func, flow', on, Used(func)')
  <2>1. Used(func)' \in Int /\ (Used(func)' >= c.packet_counter \/ Used(func)' >= 3)
    <3>1. Used(func)' = conn'.packet_counter - (IF Pending(func)' THEN 1 ELSE 0)  BY DEF Used
    <3>2. Pending(func)' => k.len > 0  BY <1>3 DEF Pending
    <3> HIDE DEF Used
    <3> QED  BY <1>2, <1>5, <1>9, <3>1, <3>2
  <2>2. Sound(func, f, on, Used(func)')
    <3> HIDE DEF Used
    <3> QED  BY <1>5, <1>6, <1>9, <2>1, SoundLater
  <2> QED  BY <1>8, <2>2, SoundSame
<1>12. Opens(packet)' /\ saved' = UNKNOWN =>
         /\ flow'.detected = "FTP" => Announced(flow)'
         /\ packet'.ack \/ flow'.stage.ftp_stage = 0 \/ \A e \in Members(todo)' : e.func # "ftp_tcp"
  <2>1. saved' = UNKNOWN => flow'.detected # "FTP"  BY <1>1, <1>8 DEF UNKNOWN
  <2>2. ASSUME ~ IsTcp(packet') PROVE \A e \in Members(todo') : e.func # "ftp_tcp"
    <3>1. /\ \A e \in Members(todo') : e.selection \subseteq Selection(packet', packet'.retransmission)
          /\ \A e \in Members(todo') : e \in Members(Registry)
      BY ArriveChain, ChainMembers
    <3>2. "INT_TCP" \notin Selection(packet', packet'.retransmission)  BY <2>2 DEF Selection
    <3>3. "INT_TCP" \in Known("ftp_tcp", "FTP", TcpBare).selection  BY DEF Known, Entry, TcpBare
    <3> QED  BY <3>1, <3>2, <3>3, FtpIs
  <2>3. p.syn = packet'.syn /\ p.ack = packet'.ack  BY <1>2, <1>3
  <2>4. Opens(packet)' => packet'.syn  BY DEF Opens
  <2>5. saved' = UNKNOWN => f.detected = UNKNOWN  BY <1>1
  <2>6. \A e \in Members(todo)' : e \in Members(todo')  OBVIOUS
  <2> QED  BY <1>3, <1>7, <1>8, <2>1, <2>2, <2>3, <2>4, <2>5, <2>6
<1> QED  BY <1>1, <1>2, <1>3, <1>9, <1>10, <1>11, <1>12 DEF Supported, on

\* A connection that opens is taken for FTP only if it was announced.
LEMMA FtpAnnounced ==
  ASSUME NEW f, IsFlow(f), NEW p, Opens(p), p.ack \/ f.stage.ftp_stage = 0, p.dir \in 0..1
  PROVE  LET g == search_ftp_tcp(f, p)
         IN g.detected = f.detected \/ (g.detected = "FTP" /\ Announced(g))
<1> DEFINE T(g) == g.detected = f.detected \/ (g.detected = "FTP" /\ Announced(g))
<1>1. T(f) /\ T(Exclude(f, "FTP"))  BY RestSame
<1>2. FtpData(f, p) => T(Detect(f, "FTP"))
  BY DEF FtpData, Announced, Detect, Mark, IsFlow, Fields
<1>3. f.stage.ftp_stage = 0 => T(search_ftp(f, p)[2])
  <2>1. Set(f, "ftp_stage", 1 + p.dir).detected = f.detected  BY DEF Set, IsFlow, Fields
  <2>2. 1 + p.dir # 0 /\ 2 - p.dir # 0 /\ 4 - p.dir # 0  OBVIOUS
  <2>3. f.stage.ftp_stage = 0 => search_ftp(f, p)[2] \in {f, Set(f, "ftp_stage", 1 + p.dir)}
    BY <2>2 DEF search_ftp
  <2> QED  BY <1>1, <2>1, <2>3
<1>4. ASSUME NEW g, IsFlow(g), g.detected = f.detected, NEW hosts
      PROVE  IsFlow(FtpPeers(g, hosts)) /\ FtpPeers(g, hosts).detected = f.detected
  BY <1>4 DEF FtpPeers, Refresh, IsFlow, Fields
<1>5. T(search_active_ftp_mode(search_passive_ftp_mode(f, p), p))
  <2>1. IsFlow(search_passive_ftp_mode(f, p)) /\ search_passive_ftp_mode(f, p).detected = f.detected
    BY <1>4 DEF search_passive_ftp_mode
  <2> QED  BY <1>4, <2>1 DEF search_active_ftp_mode
<1>6. T(search_ftp_tcp(f, p))
  <2> HIDE DEF T
  <2>1. p.ack => p.len = 0  BY DEF Opens
  <2> QED  BY <1>1, <1>2, <1>3, <1>5, <2>1 DEF search_ftp_tcp
<1> QED  BY <1>6

\* A call.
LEMMA SupportedCall ==
  ASSUME Bound, TypeOK, Calls, Supported, Call
  PROVE  Supported'
<1> DEFINE in == conn.packet_direction_counter
           n == conn.packet_counter
<1>1. PICK e, g : Called(e, g)  BY CallIs
<1>2. /\ flow'.detected = g.detected /\ flow'.stage = g.stage /\ flow'.memo = g.memo
      /\ flow'.commands = g.commands /\ flow'.fresh = g.fresh /\ flow'.seen = g.seen
  BY <1>1, CallKeepsState DEF Calls, IsState
<1>3. /\ e \in Members(todo) /\ e \in Members(Registry) /\ Members(todo') = Members(todo) \ {e}
      /\ g = Dissector(e.func, View, packet, configured) /\ Frame(View, g, Own(e.func))
      /\ g.detected = flow.detected \/ g.detected \in Finds(e)
  BY <1>1 DEF Called
<1>4. /\ phase = "dissect" /\ phase' = phase /\ conn' = conn /\ packet' = packet /\ saved' = saved
  BY DEF Call
<1>5. View.stage = flow.stage /\ View.memo = flow.memo /\ View.commands = flow.commands
      /\ View.detected = flow.detected /\ View.seen = flow.seen
      /\ View.fresh = flow.fresh /\ IsFlow(View)
  BY ViewIsFlow DEF View, Calls
<1>6. /\ packet.dir \in 0..1 /\ packet.len \in Nat
      /\ packet.len > 0 => in[packet.dir] > 0 /\ n > 0
      /\ \A x, y \in packet.has \cap PopCommands : x = y
      /\ conn.init_finished
  BY <1>4 DEF Supported
<1>7. in \in [0..1 -> Nat] /\ n \in Nat  BY SizesAssumption DEF TypeOK, Conns
<1>8. /\ \A a \in Members(todo) : a \in Members(Registry)
      /\ \A a \in Members(todo) : a.func = e.func => a = e
  <2>1. \A a \in Members(todo) : a \in Members(Registry)  BY ChainMembers DEF Calls
  <2> QED  BY <1>3, <2>1, FuncsDiffer
<1>9. /\ ~ Pending(e.func)' /\ (packet.len > 0 => Pending(e.func))
      /\ \A func : func # e.func => (Pending(func)' <=> Pending(func))
  BY <1>3, <1>4, <1>8 DEF Pending
<1>10. \A func : func # e.func => Used(func)' = Used(func)
  BY <1>4, <1>9 DEF Used
<1>11. ASSUME NEW func \in Gatherers, func # e.func PROVE Sound(func, flow', in, Used(func)')
  <2>1. Sound(func, flow, in, Used(func))  BY DEF Supported
  <2>2. Sound(func, View, in, Used(func))  BY <1>5, <2>1, SoundSame
  <2>3. Sound(func, g, in, Used(func))  BY <1>3, <1>11, <2>2, SoundFrame
  <2>4. Sound(func, flow', in, Used(func))  BY <1>2, <2>3, SoundSame
  <2> QED  BY <1>10, <1>11, <2>4
<1>12. ASSUME e.func \in Gatherers
       PROVE  /\ Sound(e.func, flow', in, Used(e.func)')
              /\ flow'.detected = flow.detected \/ Enough(flow'.detected, in, n)
  <2>1. packet.len = 0 => e.func = "edonkey"
    <3>1. e.selection \subseteq Selection(packet, packet.retransmission)  BY <1>3, <1>4 DEF Calls
    <3>2. packet.len = 0 => "HAS_PAYLOAD" \notin Selection(packet, packet.retransmission)
      BY DEF Selection
    <3> QED  BY <1>3, <1>12, <3>1, <3>2, GatherersHavePayload
  <2>2. Sound(e.func, View, in, n - 1)
    <3>1. Sound(e.func, View, in, Used(e.func))
      <4>1. Sound(e.func, flow, in, Used(e.func))  BY <1>12 DEF Supported
      <4> QED  BY <1>5, <4>1, SoundSame
    <3>2. CASE packet.len > 0
      <4>1. Used(e.func) = n - 1  BY <1>7, <1>9, <3>2 DEF Used
      <4> QED  BY <3>1, <4>1
    <3>3. CASE ~ packet.len > 0
      <4>1. e.func = "edonkey"  BY <1>6, <2>1, <3>3
      <4> QED  BY <3>1, <4>1 DEF Sound
    <3> QED  BY <3>2, <3>3
  <2>3. Gathers(e.func, View, g, in, n - 1)
    <3>1. packet.len = 0 \/ in[packet.dir] > 0  BY <1>6
    <3>2. n - 1 \in Int /\ (packet.len # 0 => n - 1 \in Nat)  BY <1>6, <1>7
    <3> HIDE DEF in
    <3> QED  BY <1>3, <1>5, <1>6, <1>7, <1>12, <2>1, <2>2, <3>1, <3>2, DissectorGathers
  <2>4. (n - 1) + 1 = n  BY <1>7
  <2>5. Sound(e.func, g, in, n) /\ (g.detected = flow.detected \/ Enough(g.detected, in, n))
    BY <1>5, <2>3, <2>4 DEF Gathers
  <2>6. Used(e.func)' = n  BY <1>4, <1>7, <1>9 DEF Used
  <2> QED  BY <1>2, <2>5, <2>6, SoundSame
<1>13. ASSUME e.func \notin Gatherers
       PROVE  flow'.detected = flow.detected \/ Enough(flow'.detected, in, n)
  <2>1. CASE g.detected \in Finds(e)
    <3>1. \A X \in TwoSidedProtocols \cup DOMAIN MinPackets :
            X \in DOMAIN Finder /\ Finder[X] \in Gatherers
      BY DEF TwoSidedProtocols, MinPackets, Finder, Gatherers, Keeps
    <3>2. \A X \in DOMAIN Finder : X \in Finds(e) => e.func = Finder[X]
      BY <1>3, RegistryOK DEF EntryOK
    <3>3. g.detected \notin TwoSidedProtocols \cup DOMAIN MinPackets
      BY <1>13, <2>1, <3>1, <3>2
    <3>4. Enough(g.detected, in, n)  BY <3>3 DEF Enough
    <3> QED  BY <1>2, <3>4
  <2> QED  BY <1>2, <1>3, <2>1
<1>14. Enough(flow'.detected, in, n)
  <2>1. Enough(flow.detected, in, n)  BY DEF Supported
  <2> QED  BY <1>12, <1>13, <2>1
<1>15. ASSUME NEW func \in Gatherers PROVE Sound(func, flow', in, Used(func)')
  BY <1>11, <1>12
<1>16. ASSUME Opens(packet), saved = UNKNOWN
       PROVE  /\ flow'.detected = "FTP" => Announced(flow)'
              /\ packet.ack \/ flow'.stage.ftp_stage = 0 \/ \A a \in Members(todo') : a.func # "ftp_tcp"
  <2>1. /\ flow.detected = "FTP" => Announced(flow)
        /\ packet.ack \/ flow.stage.ftp_stage = 0 \/ \A a \in Members(todo) : a.func # "ftp_tcp"
    BY <1>4, <1>16 DEF Supported
  <2>2. Announced(flow) => Announced(flow)'
    <3>1. \A d \in 0..1 : flow.fresh[d] \subseteq flow'.fresh[d] /\ flow.seen[d] \subseteq flow'.seen[d]
      BY <1>2, <1>3, <1>5 DEF Frame
    <3> QED  BY <3>1 DEF Announced
  <2>3. CASE e.func = "ftp_tcp"
    <3>1. packet.ack \/ flow.stage.ftp_stage = 0  BY <1>3, <2>1, <2>3
    <3>2. g = search_ftp_tcp(View, packet)  BY <1>3, <2>3 DEF Dissector
    <3>3. g.detected = View.detected \/ (g.detected = "FTP" /\ Announced(g))
      BY <1>5, <1>6, <1>16, <3>1, <3>2, FtpAnnounced
    <3>4. Announced(g) => Announced(flow)'  BY <1>2 DEF Announced
    <3>5. \A a \in Members(todo') : a.func # "ftp_tcp"  BY <1>3, <1>8, <2>3
    <3> QED  BY <1>2, <1>5, <2>1, <2>2, <3>3, <3>4, <3>5
  <2>4. CASE e.func # "ftp_tcp"
    <3>1. flow'.stage.ftp_stage = flow.stage.ftp_stage
      <4>1. "ftp_stage" \in Guarded /\ Keeper["ftp_stage"] = "ftp_tcp" /\ "ftp_stage" \in Stages
        BY DEF Guarded, Keeper, Stages, Values
      <4>2. "ftp_stage" \notin Own(e.func)  BY <2>4, <4>1, NotAnothers
      <4> QED  BY <1>2, <1>3, <1>5, <4>1, <4>2 DEF Frame
    <3>2. flow'.detected = "FTP" => flow.detected = "FTP"
      <4>1. "FTP" \in Finds(e) => e.func = Finder["FTP"]  BY <1>3, RegistryOK DEF EntryOK, Finder
      <4>2. Finder["FTP"] = "ftp_tcp"  BY DEF Finder
      <4> QED  BY <1>2, <1>3, <2>4, <4>1, <4>2
    <3> QED  BY <1>3, <2>1, <2>2, <3>1, <3>2
  <2> QED  BY <2>3, <2>4
<1>17. Opens(packet)' <=> Opens(packet)  BY <1>4 DEF Opens
<1> QED  BY <1>4, <1>6, <1>14, <1>15, <1>16, <1>17 DEF Supported

\* Every step.
LEMMA SupportedNext == ASSUME Bound, TypeOK, Calls, Supported, [Next]_vars PROVE Supported'
<1>0. conn.packet_counter \in Nat  BY SizesAssumption DEF TypeOK, Conns
<1>1. ASSUME NEW k \in Kinds(configured), NEW d \in 0..1, NEW o \in Offsets(configured), Arrive(k, d, o)
      PROVE  Supported'
  BY <1>1, SupportedArrive
<1>2. ASSUME NEW k \in Kinds(configured), Refuse(k) PROVE Supported'
  BY <1>2 DEF Refuse, Supported, Used, Pending, Announced, Opens
<1>3. CASE Call  BY <1>3, SupportedCall
<1>4. CASE Skip
  <2>1. /\ Members(todo') = Members(todo) \ {Head(todo)}
        /\ UNCHANGED <<conn, flow, packet, phase, saved>>
        /\ phase = "dissect"
    BY <1>4, ChainTail DEF Skip, Calls
  <2>2. \A func : Used(func)' >= Used(func) /\ Used(func) \in Int /\ Used(func)' \in Int
    BY <1>0, <2>1 DEF Used, Pending
  <2>3. conn.packet_direction_counter \in [0..1 -> Nat]  BY SizesAssumption DEF TypeOK, Conns
  <2>4. ASSUME NEW func \in Gatherers
        PROVE  Sound(func, flow, conn.packet_direction_counter, Used(func)')
    <3>1. Sound(func, flow, conn.packet_direction_counter, Used(func))  BY DEF Supported
    <3>2. \A d \in 0..1 : conn.packet_direction_counter[d] <= conn.packet_direction_counter[d]
      BY <2>3
    <3> QED  BY <2>2, <2>3, <3>1, <3>2, SoundLater
  <2>5. /\ Opens(packet)' <=> Opens(packet)
        /\ Announced(flow)' <=> Announced(flow)
    BY <2>1 DEF Opens, Announced
  <2> QED  BY <2>1, <2>4, <2>5 DEF Supported
<1>5. CASE Return
  <2>1. \A func : Used(func)' = Used(func)
    <3>1. Members(todo) = {}  BY <1>5 DEF Return, Members
    <3>2. UNCHANGED conn /\ \A func : ~ Pending(func) /\ ~ Pending(func)'
      BY <1>5, <3>1 DEF Return, Pending
    <3> QED  BY <3>2 DEF Used
  <2> QED  BY <1>5, <2>1 DEF Return, Supported
<1>6. ASSUME NEW b \in Reconfigured(configured), SetBitmask(b) PROVE Supported'
  BY <1>6 DEF SetBitmask, Supported, Used, Pending, Announced, Opens
<1>7. CASE NewFlow
  <2>1. /\ conn' = NoConn /\ phase' = "idle" /\ flow' = EmptyFlow(flow.seen, flow.fresh, flow.ports)
    BY <1>7 DEF NewFlow
  <2>2. flow'.detected = UNKNOWN  BY <2>1 DEF EmptyFlow
  <2>3. NoConn.packet_counter = 0  BY DEF NoConn
  <2>4. \A func : Used(func)' = 0
    <3>1. conn'.packet_counter = 0 /\ phase' # "dissect"  BY <2>1, <2>3
    <3>2. ASSUME NEW func PROVE Used(func)' = 0
      <4>1. ~ Pending(func)'  BY <3>1 DEF Pending
      <4>2. Used(func)' = conn'.packet_counter - 0  BY <4>1 DEF Used
      <4> QED  BY <3>1, <4>2
    <3> QED  BY <3>2
  <2> QED  BY <2>1, <2>2, <2>3, <2>4, EmptySound DEF Supported
<1>8. ASSUME NEW d \in 0..1, NEW t \in Timers(configured), Expire(d, t) PROVE Supported'
  <2>1. /\ flow'.detected = flow.detected /\ flow'.stage = flow.stage /\ flow'.memo = flow.memo
        /\ flow'.commands = flow.commands /\ UNCHANGED <<conn, phase, todo, packet>> /\ phase = "idle"
    BY <1>8 DEF Expire, Calls, IsState
  <2>2. \A func : Used(func)' = Used(func)  BY <2>1 DEF Used, Pending
  <2>3. \A func \in Gatherers : Sound(func, flow', conn.packet_direction_counter, Used(func)')
    BY <2>1, <2>2, SoundSame DEF Supported
  <2> QED  BY <2>1, <2>3 DEF Supported
<1>9. CASE UNCHANGED vars
  BY <1>9 DEF vars, Supported, Used, Pending, Announced, Opens
<1> QED  BY <1>1, <1>2, <1>3, <1>4, <1>5, <1>6, <1>7, <1>8, <1>9 DEF Next

\* No verdict comes too easily (Evidence): a protocol of two sides is found after data of
\* both, one that takes several packets after as many, and an opening connection is taken
\* for FTP only if it was announced: for all packets and configurations, also at the
\* limit of the counters.
THEOREM VerdictRestsOnEvidence == ASSUME Bound PROVE Spec => []Evidence
<1>1. Init => Calls /\ Supported
  <2>1. ASSUME Init PROVE Supported
    <3>1. /\ flow.detected = UNKNOWN /\ conn = NoConn /\ NoConn.packet_counter = 0 /\ phase = "idle"
      BY <2>1 DEF Init, EmptyFlow, NoConn
    <3>2. \A func : Used(func) = 0
      <4>1. conn.packet_counter = 0 /\ phase # "dissect"  BY <3>1
      <4>2. ASSUME NEW func PROVE Used(func) = 0
        <5>1. ~ Pending(func)  BY <4>1 DEF Pending
        <5>2. Used(func) = conn.packet_counter - 0  BY <5>1 DEF Used
        <5> QED  BY <4>1, <5>2
      <4> QED  BY <4>2
    <3>3. \A func, in : /\ Sound(func, flow, in, 0) /\ Enough(UNKNOWN, in, 0)
                        /\ flow.stage.ftp_stage = 0
      BY <2>1, EmptySound DEF Init
    <3> QED  BY <3>1, <3>2, <3>3 DEF Supported
  <2> QED  BY <2>1, CallsInit
<1>2. TypeOK /\ Calls /\ Supported /\ [Next]_vars => Calls' /\ Supported'
  BY CallsNext, SupportedNext
<1>3. Calls /\ Supported => Evidence
  BY DEF Calls, Supported, Evidence, Enough, Both, AtReturn, Opens, Announced
<1> QED  BY <1>1, <1>2, <1>3, TrackingTyped, PTL DEF Spec
=============================================================================
