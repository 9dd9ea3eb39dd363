----------------------------- MODULE FlowTable -----------------------------
(***************************************************************************)
(* The flow and host tables of src/dpilogger.c.  pcap_loop hands every     *)
(* captured packet to process_packet, which looks up the states of the two *)
(* hosts and of the flow, cleans the flow table now and then, and passes   *)
(* the packet to the OpenDPI library.  There is one thread.                *)
(*                                                                         *)
(* The hash tables map strings to records; the strings here are the        *)
(* records they are formatted from, as the formats keep them apart.  A     *)
(* time is a uint32_t of seconds.                                          *)
(***************************************************************************)
EXTENDS Integers, Sequences, SequencesExt, FiniteSets, Functions

CONSTANTS Packet,               \* what may be captured, see Packets
          Slot,                 \* places in memory libpcap puts packets at
          CLEANUP_TIMEOUT, CONNECTION_TIMEOUT,
          WORD,                 \* values of a uint32_t
          ipsize,               \* bytes of a packet
          MaxTime, MaxPackets,  \* bounds
          MayStepBack,          \* may a packet be stamped before an earlier one?
          Nobody                \* no host

Packets == [saddr : Nat, daddr : Nat, source : Nat, dest : Nat, protocol : {"TCP", "UDP"},
            fragment : BOOLEAN]   \* a fragment of a datagram, not its first one

ASSUME PacketAssumption == Packet \subseteq Packets
ASSUME TimeAssumption ==
    /\ CLEANUP_TIMEOUT \in Nat /\ CONNECTION_TIMEOUT \in Nat
    /\ WORD \in Nat \ {0} /\ ipsize \in 1 .. WORD - 1
    /\ MaxTime \in 1 .. WORD - 1 /\ MaxPackets \in Nat
    /\ MayStepBack \in BOOLEAN

VARIABLES flows,      \* the flow table
          ids,        \* the host in the record of the host table, by key
          timer,      \* when the flow table was last cleaned, 0 for never
          detection,  \* the hosts of the last packet given to OpenDPI, and of its states
          now,        \* history: the time stamp of the last packet
          heard       \* history: the packets of each conversation

vars == <<flows, ids, timer, detection, now, heard>>

Conversation(p) == [ends |-> {<<p.saddr, p.source>>, <<p.daddr, p.dest>>}, protocol |-> p.protocol]

Init == /\ flows = << >>
        /\ ids = [at \in Slot \X {"saddr", "daddr"} |-> Nobody]
        /\ timer = 0
        /\ detection = [saddr |-> Nobody, src |-> Nobody, daddr |-> Nobody, dst |-> Nobody]
        /\ now = 1
        /\ heard = [c \in {Conversation(p) : p \in Packet} |-> << >>]

-----------------------------------------------------------------------------
MutFlowKeyKeepsPorts(p) ==
    IF p.saddr < p.daddr
    THEN [lower_ip |-> p.saddr, lower_port |-> p.source, upper_ip |-> p.daddr,
          upper_port |-> p.dest, protocol |-> p.protocol]
    ELSE [lower_ip |-> p.daddr, lower_port |-> p.source, upper_ip |-> p.saddr,
          upper_port |-> p.dest, protocol |-> p.protocol]

(* The same for both directions, unless a host talks to itself. *)
flow_key(p) ==
    IF p.saddr < p.daddr
    THEN [lower_ip |-> p.saddr, lower_port |-> p.source, upper_ip |-> p.daddr,
          upper_port |-> p.dest, protocol |-> p.protocol]
    ELSE [lower_ip |-> p.daddr, lower_port |-> p.dest, upper_ip |-> p.saddr,
          upper_port |-> p.source, protocol |-> p.protocol]

(* The difference of two uint32_t. *)
Elapsed(time, since) == IF time >= since THEN time - since ELSE time - since + WORD

MutCleanupLate(time) == timer # 0 /\ Elapsed(time, timer) > CLEANUP_TIMEOUT + CONNECTION_TIMEOUT

CleanupDue(time) == timer # 0 /\ Elapsed(time, timer) > CLEANUP_TIMEOUT

MutCollectOneEarly(time) ==
    Restrict(flows, {k \in DOMAIN flows : Elapsed(time, flows[k].last_pkt) < CONNECTION_TIMEOUT})

garbadge_collect_osdpi_flows(time) ==
    Restrict(flows, {k \in DOMAIN flows : Elapsed(time, flows[k].last_pkt) <= CONNECTION_TIMEOUT})

NewFlow(time) == [byte_count |-> ipsize, pkt_count |-> 1, first_pkt |-> time, last_pkt |-> time]

Update(flow, time) ==
    [flow EXCEPT !.byte_count = (@ + ipsize) % WORD, !.pkt_count = (@ + 1) % WORD, !.last_pkt = time]

(* The table is cleaned if that is due; then the packet is counted. *)
get_osdpi_flow(p, time) ==
    LET kept == IF CleanupDue(time) THEN garbadge_collect_osdpi_flows(time) ELSE flows
        k == flow_key(p)
    IN /\ timer' = IF timer = 0 \/ CleanupDue(time) THEN time ELSE timer
       /\ flows' = [j \in DOMAIN kept \cup {k} |->
                       IF j # k THEN kept[j]
                       ELSE IF k \in DOMAIN kept THEN Update(kept[k], time) ELSE NewFlow(time)]

(***************************************************************************)
(* The two host records.  The key is the address of the field in memory,   *)
(* not the host that is in it, and the key a record was stored with is a   *)
(* buffer on the stack that the next call overwrites with its own key, so  *)
(* that a record is found by where its key hashes to.                      *)
(***************************************************************************)
get_id(slot, p) ==
    ids' = [at \in DOMAIN ids |->
              IF at[1] = slot /\ ids[at] = Nobody THEN p[at[2]] ELSE ids[at]]

(* A packet of TCP or UDP over IPv4 with complete headers is captured; of  *)
(* others extract_headers takes no notice.                                 *)
process_packet(p, slot, time) ==
    /\ get_id(slot, p)
    /\ get_osdpi_flow(p, time)
    /\ detection' = IF p.fragment THEN detection
                    ELSE [saddr |-> p.saddr, src |-> ids'[<<slot, "saddr">>],
                          daddr |-> p.daddr, dst |-> ids'[<<slot, "daddr">>]]
    /\ now' = time
    /\ heard' = [heard EXCEPT ![Conversation(p)] = Append(@, [time |-> time, fragment |-> p.fragment])]

PacketsHeard == FoldFunction(LAMBDA s, n : Len(s) + n, 0, heard)

Next == /\ PacketsHeard < MaxPackets
        /\ \E p \in Packet, slot \in Slot :
              \E time \in (IF MayStepBack THEN 1 ELSE now) .. MaxTime : process_packet(p, slot, time)

Spec == Init /\ [][Next]_vars

-----------------------------------------------------------------------------
Flows == [byte_count : 0 .. WORD - 1, pkt_count : 0 .. WORD - 1,
          first_pkt : 0 .. WORD - 1, last_pkt : 0 .. WORD - 1]

(* The tables and times have their types. *)
TypeOK == /\ DOMAIN flows \subseteq {flow_key(p) : p \in Packet}
          /\ \A k \in DOMAIN flows : flows[k] \in Flows
          /\ ids \in [Slot \X {"saddr", "daddr"} -> Nat \cup {Nobody}]
          /\ timer \in 0 .. MaxTime /\ now \in 1 .. MaxTime

Spoken(k) == heard[[ends |-> {<<k.lower_ip, k.lower_port>>, <<k.upper_ip, k.upper_port>>},
                    protocol |-> k.protocol]]

Since(log, time) == {i \in DOMAIN log : log[i].time >= time}

BetweenHosts == {k \in DOMAIN flows : k.lower_ip # k.upper_ip}

(***************************************************************************)
(* Whatever was cleaned away in between, a flow between two hosts counts   *)
(* exactly the packets of its conversation, of both directions, since its  *)
(* first one, and knows the time of the last.                              *)
(***************************************************************************)
Accounted ==
    \A k \in BetweenHosts :
        LET n == Cardinality(Since(Spoken(k), flows[k].first_pkt))
        IN /\ flows[k].pkt_count = n % WORD
           /\ flows[k].byte_count = (ipsize * n) % WORD
           /\ flows[k].last_pkt = Last(Spoken(k)).time

(***************************************************************************)
(* Cleaning is driven by the packets alone, yet when one has been handled  *)
(* no flow has been silent for longer than the two time-outs together.     *)
(***************************************************************************)
NoStaleFlows ==
    \A k \in DOMAIN flows : now - flows[k].last_pkt <= CLEANUP_TIMEOUT + CONNECTION_TIMEOUT

(***************************************************************************)
(* "flow timed out": a flow leaves the table only when it has been silent  *)
(* for longer than CONNECTION_TIMEOUT, and so its state in the detection   *)
(* outlives every pause up to that length.                                 *)
(***************************************************************************)
OnlySilentFlowsLeave ==
    [][\A k \in DOMAIN flows :
          (k \notin DOMAIN flows' \/ flows'[k].first_pkt # flows[k].first_pkt)
             => now' - flows[k].last_pkt > CONNECTION_TIMEOUT]_vars

-----------------------------------------------------------------------------
(* What the program says of itself and does not guarantee.                 *)

(* "fragmented ip packets are not supported and will be skipped": what is  *)
(* counted for a flow are packets that are not fragments.                  *)
FragmentsSkipped ==
    \A k \in BetweenHosts :
        flows[k].pkt_count <= Len(SelectSeq(Spoken(k), LAMBDA e : ~e.fragment))

(* "id tracking": the states the detection gets for the two ends of a      *)
(* packet are the states of the hosts in its header.                       *)
IdsTrackHosts == detection.src = detection.saddr /\ detection.dst = detection.daddr
=============================================================================
