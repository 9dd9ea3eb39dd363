-------------------------- MODULE FlowTableProofs --------------------------
(***************************************************************************)
(* FlowTable for any packets, time-outs and numbers of flows, as long as   *)
(* time stamps do not go back: flows leave the table when they have been   *)
(* silent for long enough, and not before, and one that is in it accounts  *)
(* for its conversation.                                                   *)
(***************************************************************************)
EXTENDS FlowTable, SequenceTheorems, FiniteSetTheorems, NumberFacts

FlowRecord == [byte_count : Int, pkt_count : Int, first_pkt : Int, last_pkt : Int]

(* No flow was heard after the last packet, the table is cleaned before    *)
(* CLEANUP_TIMEOUT is over, and then only recent flows are left in it.     *)
Recent ==
    /\ now \in 1 .. MaxTime
    /\ timer \in 0 .. now
    /\ timer = 0 => DOMAIN flows = {}
    /\ timer # 0 => now - timer <= CLEANUP_TIMEOUT
    /\ \A k \in DOMAIN flows :
          /\ flows[k] \in FlowRecord
          /\ flows[k].last_pkt <= now
          /\ timer - flows[k].last_pkt <= CONNECTION_TIMEOUT

LEMMA InitRecent == Init => Recent
  BY TimeAssumption DEF Init, Recent

LEMMA NewFlowRecord ==
  ASSUME NEW time \in Int
  PROVE  NewFlow(time) \in FlowRecord /\ NewFlow(time).last_pkt = time
  BY TimeAssumption DEF NewFlow, FlowRecord

LEMMA UpdateRecord ==
  ASSUME NEW flow \in FlowRecord, NEW time \in Int
  PROVE  /\ Update(flow, time) \in FlowRecord
         /\ Update(flow, time).last_pkt = time
         /\ Update(flow, time).first_pkt = flow.first_pkt
<1>1. WORD \in Nat \ {0} /\ ipsize \in Int
  BY TimeAssumption
<1>2. (flow.byte_count + ipsize) % WORD \in Int /\ (flow.pkt_count + 1) % WORD \in Int
  BY <1>1 DEF FlowRecord
<1> QED
  BY <1>2 DEF Update, FlowRecord

(* What a cleaning that is due, or none, leaves of the table. *)
Kept(time) == IF CleanupDue(time) THEN garbadge_collect_osdpi_flows(time) ELSE flows

LEMMA KeptFlows ==
  ASSUME Recent, NEW time \in now .. MaxTime
  PROVE  /\ DOMAIN Kept(time) \subseteq DOMAIN flows
         /\ \A k \in DOMAIN Kept(time) :
               /\ Kept(time)[k] = flows[k]
               /\ CleanupDue(time) => time - flows[k].last_pkt <= CONNECTION_TIMEOUT
         /\ \A k \in DOMAIN flows \ DOMAIN Kept(time) :
               time - flows[k].last_pkt > CONNECTION_TIMEOUT
<1>1. \A k \in DOMAIN flows : /\ flows[k].last_pkt \in Int /\ flows[k].last_pkt <= time
                              /\ Elapsed(time, flows[k].last_pkt) = time - flows[k].last_pkt
  BY TimeAssumption DEF Recent, FlowRecord, Elapsed
<1>2. CASE CleanupDue(time)
  <2>1. Kept(time) = [k \in {j \in DOMAIN flows : Elapsed(time, flows[j].last_pkt) <= CONNECTION_TIMEOUT}
                        |-> flows[k]]
    BY <1>2 DEF Kept, garbadge_collect_osdpi_flows, Restrict
  <2> QED
    BY <1>1, <1>2, <2>1, TimeAssumption DEF Recent
<1>3. CASE ~CleanupDue(time)
  BY <1>3 DEF Kept
<1> QED
  BY <1>2, <1>3

LEMMA LaterTime ==
  ASSUME NEW a \in Int, NEW b \in Int, NEW c \in Nat, a <= b
  PROVE  b <= b /\ a - b <= c
  OBVIOUS

(* One captured packet. *)
LEMMA PacketStep ==
  ASSUME Recent, NEW p \in Packet, NEW slot \in Slot, NEW time \in now .. MaxTime,
         process_packet(p, slot, time)
  PROVE  /\ Recent'
         /\ now' = time
         /\ \A k \in DOMAIN flows :
               (k \notin DOMAIN flows' \/ flows'[k].first_pkt # flows[k].first_pkt)
                  => time - flows[k].last_pkt > CONNECTION_TIMEOUT
<1> DEFINE key == flow_key(p)
           kept == Kept(time)
<1>1. /\ flows' = [j \in DOMAIN kept \cup {key} |->
                     IF j # key THEN kept[j]
                     ELSE IF key \in DOMAIN kept THEN Update(kept[key], time) ELSE NewFlow(time)]
      /\ timer' = IF timer = 0 \/ CleanupDue(time) THEN time ELSE timer
      /\ now' = time
  BY DEF process_packet, get_osdpi_flow, Kept
<1>2. /\ DOMAIN kept \subseteq DOMAIN flows
      /\ \A k \in DOMAIN kept : /\ kept[k] = flows[k]
                                /\ kept[k] \in FlowRecord
                                /\ kept[k].last_pkt \in Int /\ kept[k].last_pkt <= now
                                /\ timer - kept[k].last_pkt <= CONNECTION_TIMEOUT
                                /\ CleanupDue(time) => time - kept[k].last_pkt <= CONNECTION_TIMEOUT
      /\ \A k \in DOMAIN flows \ DOMAIN kept : time - flows[k].last_pkt > CONNECTION_TIMEOUT
  BY KeptFlows DEF Recent, FlowRecord
<1> HIDE DEF kept, key
<1>3. time \in Int /\ now \in Int /\ timer \in Int /\ 1 <= now /\ now <= time /\ time <= MaxTime
      /\ 0 <= timer /\ timer <= now
      /\ CLEANUP_TIMEOUT \in Nat /\ CONNECTION_TIMEOUT \in Nat
  BY TimeAssumption DEF Recent
<1>4. timer' \in Int /\ 1 <= timer' /\ timer' <= time /\ time - timer' <= CLEANUP_TIMEOUT
  BY <1>1, <1>3, TimeAssumption DEF CleanupDue, Elapsed
<1>5. ASSUME NEW k \in DOMAIN flows'
      PROVE  /\ flows'[k] \in FlowRecord
             /\ flows'[k].last_pkt <= time
             /\ timer' - flows'[k].last_pkt <= CONNECTION_TIMEOUT
  <2>1. CASE k = key
    <3>1. flows'[k] \in FlowRecord /\ flows'[k].last_pkt = time
      BY <1>1, <1>2, <1>3, <2>1, NewFlowRecord, UpdateRecord
    <3>2. time <= time /\ timer' - time <= CONNECTION_TIMEOUT
      BY <1>3, <1>4, LaterTime
    <3> QED
      BY <3>1, <3>2
  <2>2. CASE k # key
    <3>1. k \in DOMAIN kept /\ flows'[k] = kept[k]
      BY <1>1, <2>2
    <3>2. timer = 0 => FALSE
      BY <1>2, <3>1 DEF Recent
    <3> QED
      BY <1>1, <1>2, <1>3, <3>1, <3>2
  <2> QED
    BY <2>1, <2>2
<1>6. Recent'
  <2>1. now' \in 1 .. MaxTime /\ timer' \in 0 .. now' /\ timer' # 0
    BY <1>1, <1>3, <1>4, TimeAssumption
  <2>2. now' - timer' <= CLEANUP_TIMEOUT
    BY <1>1, <1>4
  <2>3. \A k \in DOMAIN flows' : /\ flows'[k] \in FlowRecord
                                 /\ flows'[k].last_pkt <= now'
                                 /\ timer' - flows'[k].last_pkt <= CONNECTION_TIMEOUT
    BY <1>1, <1>5
  <2> QED
    BY <2>1, <2>2, <2>3 DEF Recent
<1>7. ASSUME NEW k \in DOMAIN flows, k \in DOMAIN kept
      PROVE  k \in DOMAIN flows' /\ flows'[k].first_pkt = flows[k].first_pkt
  BY <1>1, <1>2, <1>3, <1>7, UpdateRecord
<1> QED
  BY <1>1, <1>2, <1>6, <1>7

LEMMA NextRecent ==
  ASSUME MayStepBack = FALSE, Recent, [Next]_vars
  PROVE  Recent'
<1>1. CASE Next
  BY <1>1, PacketStep DEF Next
<1>2. CASE UNCHANGED vars
  BY <1>2 DEF vars, Recent
<1> QED
  BY <1>1, <1>2

(***************************************************************************)
(* With time stamps that do not go back, no flow stays in the table of     *)
(* dpilogger.c silent for longer than both time-outs.                      *)
(***************************************************************************)
THEOREM StaleCorrect == MayStepBack = FALSE => (Spec => []NoStaleFlows)
<1> SUFFICES ASSUME MayStepBack = FALSE PROVE Spec => []NoStaleFlows
  OBVIOUS
<1>1. Recent => NoStaleFlows
  BY TimeAssumption DEF Recent, NoStaleFlows, FlowRecord
<1> QED
  BY <1>1, InitRecent, NextRecent, PTL DEF Spec

(***************************************************************************)
(* With time stamps that do not go back, garbadge_collect_osdpi_flows      *)
(* removes no flow that was heard within CONNECTION_TIMEOUT.               *)
(***************************************************************************)
THEOREM LeavingCorrect == MayStepBack = FALSE => (Spec => OnlySilentFlowsLeave)
<1> SUFFICES ASSUME MayStepBack = FALSE PROVE Spec => OnlySilentFlowsLeave
  OBVIOUS
<1> DEFINE Leaving == \A k \in DOMAIN flows :
                        (k \notin DOMAIN flows' \/ flows'[k].first_pkt # flows[k].first_pkt)
                           => now' - flows[k].last_pkt > CONNECTION_TIMEOUT
<1>1. ASSUME Recent, Next PROVE Leaving
  BY <1>1, PacketStep DEF Next
<1>2. Recent /\ [Next]_vars => [Leaving]_vars
  BY <1>1
<1> QED
  BY <1>2, InitRecent, NextRecent, PTL DEF Spec, OnlySilentFlowsLeave

-----------------------------------------------------------------------------
(* Types, whether or not time stamps go back.                              *)

LEMMA NewFlowTyped ==
  ASSUME NEW time \in 1 .. MaxTime
  PROVE  NewFlow(time) \in Flows
  BY TimeAssumption DEF NewFlow, Flows

LEMMA UpdateTyped ==
  ASSUME NEW flow \in Flows, NEW time \in 1 .. MaxTime
  PROVE  Update(flow, time) \in Flows
<1>1. WORD \in Nat \ {0} /\ ipsize \in Nat /\ time \in 0 .. WORD - 1
  BY TimeAssumption
<1>2. /\ (flow.byte_count + ipsize) % WORD \in 0 .. WORD - 1
      /\ (flow.pkt_count + 1) % WORD \in 0 .. WORD - 1
  BY <1>1 DEF Flows
<1> QED
  BY <1>1, <1>2 DEF Update, Flows

LEMMA PacketTyped ==
  ASSUME TypeOK, NEW p \in Packet, NEW slot \in Slot, NEW time \in 1 .. MaxTime,
         process_packet(p, slot, time)
  PROVE  TypeOK'
<1> DEFINE key == flow_key(p)
           kept == Kept(time)
           keys == {flow_key(q) : q \in Packet}
<1>1. /\ flows' = [j \in DOMAIN kept \cup {key} |->
                     IF j # key THEN kept[j]
                     ELSE IF key \in DOMAIN kept THEN Update(kept[key], time) ELSE NewFlow(time)]
      /\ timer' = IF timer = 0 \/ CleanupDue(time) THEN time ELSE timer
      /\ now' = time
  BY DEF process_packet, get_osdpi_flow, Kept
<1>2. DOMAIN kept \subseteq DOMAIN flows /\ \A k \in DOMAIN kept : kept[k] = flows[k]
  BY DEF Kept, garbadge_collect_osdpi_flows, Restrict
<1>3. DOMAIN flows' \subseteq keys
  <2>1. key \in keys /\ DOMAIN flows \subseteq keys
    BY DEF TypeOK
  <2> HIDE DEF key, kept, keys
  <2> QED
    BY <1>1, <1>2, <2>1
<1>4. ASSUME NEW k \in DOMAIN flows' PROVE flows'[k] \in Flows
  <2>1. \A j \in DOMAIN kept : kept[j] \in Flows
    BY <1>2 DEF TypeOK
  <2> HIDE DEF key, kept
  <2> QED
    BY <1>1, <2>1, NewFlowTyped, UpdateTyped
<1>5. ids' \in [Slot \X {"saddr", "daddr"} -> Nat \cup {Nobody}]
  <2>1. p.saddr \in Nat /\ p.daddr \in Nat
    BY PacketAssumption DEF Packets
  <2>2. \A at \in Slot \X {"saddr", "daddr"} : p[at[2]] \in Nat
    BY <2>1
  <2> QED
    BY <2>2 DEF process_packet, get_id, TypeOK
<1>6. timer' \in 0 .. MaxTime /\ now' \in 1 .. MaxTime
  BY <1>1, TimeAssumption DEF TypeOK
<1> QED
  BY <1>3, <1>4, <1>5, <1>6 DEF TypeOK

(***************************************************************************)
(* process_packet keeps the types: the counters of a flow wrap within a    *)
(* uint32_t, keys come from packets, and host records are hosts.           *)
(***************************************************************************)
THEOREM TypeCorrect == Spec => []TypeOK
<1>1. Init => TypeOK
  BY TimeAssumption DEF Init, TypeOK
<1>2. ASSUME TypeOK, [Next]_vars PROVE TypeOK'
  <2>1. CASE Next
    <3>1. PICK p \in Packet, slot \in Slot, time \in (IF MayStepBack THEN 1 ELSE now) .. MaxTime :
            process_packet(p, slot, time)
      BY <2>1 DEF Next
    <3>2. time \in 1 .. MaxTime
      BY <1>2, TimeAssumption DEF TypeOK
    <3> QED
      BY <1>2, <3>1, <3>2, PacketTyped
  <2>2. CASE UNCHANGED vars
    BY <1>2, <2>2 DEF vars, TypeOK
  <2> QED
    BY <1>2, <2>1, <2>2
<1> QED
  BY <1>1, <1>2, PTL DEF Spec
-----------------------------------------------------------------------------
(* What a flow counts.                                                     *)

Entry == [time : Nat, fragment : BOOLEAN]

Conversations == {Conversation(p) : p \in Packet}

ConversationOf(k) == [ends |-> {<<k.lower_ip, k.lower_port>>, <<k.upper_ip, k.upper_port>>},
                      protocol |-> k.protocol]

Keys == {flow_key(p) : p \in {q \in Packet : q.saddr # q.daddr}}

(* A flow accounts for the log of its conversation. *)
Accounts(flow, log) ==
    LET n == Cardinality(Since(log, flow.first_pkt))
    IN /\ flow.pkt_count = n % WORD
       /\ flow.byte_count = (ipsize * n) % WORD
       /\ flow.last_pkt = Last(log).time

(***************************************************************************)
(* Time stamps in a log do not go beyond its last one.  A flow between two *)
(* hosts that is in the table accounts for its log; one that is not was    *)
(* last heard before now, so that its next packet is the only one of the   *)
(* log that a new record counts.                                           *)
(***************************************************************************)
AInv ==
    /\ heard \in [Conversations -> Seq(Entry)]
    /\ \A c \in Conversations : \A i \in 1 .. Len(heard[c]) :
          heard[c][i].time <= Last(heard[c]).time /\ heard[c][i].time <= now
    /\ \A k \in Keys :
          IF k \in DOMAIN flows
          THEN /\ Spoken(k) # << >>
               /\ flows[k].first_pkt <= flows[k].last_pkt
               /\ Accounts(flows[k], Spoken(k))
          ELSE \A i \in 1 .. Len(Spoken(k)) : Spoken(k)[i].time < now

LEMMA KeyConversation ==
  ASSUME NEW p \in Packet
  PROVE  ConversationOf(flow_key(p)) = Conversation(p)
  BY DEF flow_key, ConversationOf, Conversation

(* Two hosts apart: the conversation determines the key. *)
LEMMA KeyUnique ==
  ASSUME NEW k \in Keys, NEW p \in Packet, ConversationOf(k) = Conversation(p)
  PROVE  k = flow_key(p) /\ p.saddr # p.daddr
<1>1. PICK q \in Packet : q.saddr # q.daddr /\ k = flow_key(q)
  BY DEF Keys
<1>2. p \in Packets /\ q \in Packets
  BY PacketAssumption
<1>3. /\ {<<k.lower_ip, k.lower_port>>, <<k.upper_ip, k.upper_port>>}
            = {<<p.saddr, p.source>>, <<p.daddr, p.dest>>}
      /\ k.protocol = p.protocol
  BY DEF ConversationOf, Conversation
<1>4. k.lower_ip \in Nat /\ k.upper_ip \in Nat /\ k.lower_ip < k.upper_ip
      /\ k = [lower_ip |-> k.lower_ip, lower_port |-> k.lower_port, upper_ip |-> k.upper_ip,
              upper_port |-> k.upper_port, protocol |-> k.protocol]
  BY <1>1, <1>2 DEF flow_key, Packets
<1>5. \/ /\ k.lower_ip = p.saddr /\ k.lower_port = p.source
         /\ k.upper_ip = p.daddr /\ k.upper_port = p.dest
      \/ /\ k.lower_ip = p.daddr /\ k.lower_port = p.dest
         /\ k.upper_ip = p.saddr /\ k.upper_port = p.source
  <2>1. k.lower_ip # k.upper_ip
    BY <1>4
  <2>2. <<k.lower_ip, k.lower_port>> # <<k.upper_ip, k.upper_port>>
    BY <2>1
  <2>3. \/ /\ <<k.lower_ip, k.lower_port>> = <<p.saddr, p.source>>
           /\ <<k.upper_ip, k.upper_port>> = <<p.daddr, p.dest>>
        \/ /\ <<k.lower_ip, k.lower_port>> = <<p.daddr, p.dest>>
           /\ <<k.upper_ip, k.upper_port>> = <<p.saddr, p.source>>
    BY <1>3, <2>2, Zenon
  <2> QED
    BY <2>3
<1>6. p.saddr \in Nat /\ p.daddr \in Nat
  BY <1>2 DEF Packets
<1> QED
  BY <1>3, <1>4, <1>5, <1>6 DEF flow_key

LEMMA SinceFinite ==
  ASSUME NEW log \in Seq(Entry), NEW t
  PROVE  IsFiniteSet(Since(log, t)) /\ Cardinality(Since(log, t)) \in Nat
<1>1. IsFiniteSet(1 .. Len(log))
  BY FS_Interval
<1>2. Since(log, t) \subseteq 1 .. Len(log)
  BY DEF Since
<1>3. IsFiniteSet(Since(log, t))
  BY <1>1, <1>2, FS_Subset
<1> QED
  BY <1>3, FS_CardinalityType

LEMMA LogAppend ==
  ASSUME NEW log \in Seq(Entry), NEW e \in Entry
  PROVE  /\ Append(log, e) \in Seq(Entry) /\ Append(log, e) # << >>
         /\ Len(Append(log, e)) = Len(log) + 1
         /\ Last(Append(log, e)) = e
         /\ \A i \in 1 .. Len(log) : Append(log, e)[i] = log[i]
         /\ Append(log, e)[Len(log) + 1] = e
  BY DEF Last

(* One more packet is counted once. *)
LEMMA SinceAppend ==
  ASSUME NEW log \in Seq(Entry), NEW e \in Entry, NEW t \in Int, e.time >= t
  PROVE  Cardinality(Since(Append(log, e), t)) = Cardinality(Since(log, t)) + 1
<1> DEFINE more == Append(log, e)
           n == Len(log) + 1
<1>1. more \in Seq(Entry) /\ Len(more) = n /\ more[n] = e /\ \A i \in 1 .. n - 1 : more[i] = log[i]
  BY LogAppend
<1>2. DOMAIN more = 1 .. n /\ DOMAIN log = 1 .. n - 1 /\ n \in Nat /\ n > 0
  BY <1>1
<1> HIDE DEF more, n
<1>3. Since(more, t) = Since(log, t) \cup {n}
  BY <1>1, <1>2 DEF Since
<1>4. n \notin Since(log, t)
  BY <1>2 DEF Since
<1>5. Cardinality(Since(log, t) \cup {n}) = Cardinality(Since(log, t)) + 1
  BY <1>4, SinceFinite, FS_AddElement
<1> QED
  BY <1>3, <1>5 DEF more

(* The first packet of a record is the only one it counts. *)
LEMMA SinceFirst ==
  ASSUME NEW log \in Seq(Entry), NEW e \in Entry, \A i \in 1 .. Len(log) : log[i].time < e.time
  PROVE  Cardinality(Since(Append(log, e), e.time)) = 1
<1>0. \A i \in 1 .. Len(log) : log[i] \in Entry
  BY ElementOfSeq
<1>1. e.time \in Int /\ e.time >= e.time /\ \A i \in 1 .. Len(log) : log[i].time \in Int
  BY <1>0 DEF Entry
<1>2. Since(log, e.time) = {}
  BY <1>1 DEF Since
<1>3. Cardinality({}) = 0
  BY FS_EmptySet
<1>4. Cardinality(Since(Append(log, e), e.time)) = Cardinality(Since(log, e.time)) + 1
  BY <1>1, SinceAppend
<1> QED
  BY <1>2, <1>3, <1>4

LEMMA NewAccounts ==
  ASSUME NEW log \in Seq(Entry), NEW e \in Entry, \A i \in 1 .. Len(log) : log[i].time < e.time
  PROVE  /\ Accounts(NewFlow(e.time), Append(log, e))
         /\ NewFlow(e.time).first_pkt = NewFlow(e.time).last_pkt
<1>1. WORD \in Nat \ {0} /\ ipsize \in Nat /\ ipsize < WORD /\ 1 < WORD
  BY TimeAssumption
<1>2. 1 % WORD = 1 /\ ipsize % WORD = ipsize /\ ipsize * 1 = ipsize
  BY <1>1, ModSmall
<1> QED
  BY <1>2, SinceFirst, LogAppend DEF Accounts, NewFlow

LEMMA UpdateAccounts ==
  ASSUME NEW flow \in FlowRecord, NEW log \in Seq(Entry), NEW e \in Entry,
         flow.first_pkt <= e.time, Accounts(flow, log)
  PROVE  Accounts(Update(flow, e.time), Append(log, e))
<1> DEFINE n == Cardinality(Since(log, flow.first_pkt))
<1>1. WORD \in Nat \ {0} /\ ipsize \in Int /\ n \in Int /\ flow.first_pkt \in Int
  BY TimeAssumption, SinceFinite DEF FlowRecord
<1>2. flow.pkt_count = n % WORD /\ flow.byte_count = (ipsize * n) % WORD
  BY DEF Accounts
<1>3. Cardinality(Since(Append(log, e), flow.first_pkt)) = n + 1
  BY <1>1, SinceAppend
<1>4. Last(Append(log, e)).time = e.time
  BY LogAppend
<1> HIDE DEF n
<1>0. \A a \in Int, b \in Int : ((a % WORD) + b) % WORD = (a + b) % WORD
  BY <1>1, ModAdd
<1>5. ((n % WORD) + 1) % WORD = (n + 1) % WORD
  <2>1. 1 \in Int
    OBVIOUS
  <2> QED
    BY <1>0, <1>1, <2>1, Zenon
<1>6. (((ipsize * n) % WORD) + ipsize) % WORD = (ipsize * (n + 1)) % WORD
  <2>1. ipsize * n \in Int /\ ipsize * (n + 1) = ipsize * n + ipsize
    BY <1>1, SMT
  <2> QED
    BY <1>0, <1>1, <2>1
<1>7. /\ Update(flow, e.time).first_pkt = flow.first_pkt
      /\ Update(flow, e.time).last_pkt = e.time
      /\ Update(flow, e.time).pkt_count = (flow.pkt_count + 1) % WORD
      /\ Update(flow, e.time).byte_count = (flow.byte_count + ipsize) % WORD
  BY DEF Update, FlowRecord
<1> QED
  BY <1>2, <1>3, <1>4, <1>5, <1>6, <1>7 DEF Accounts

(* A packet is counted by its flow; a flow that leaves was silent. *)
LEMMA PacketAccounted ==
  ASSUME Recent, AInv, NEW p \in Packet, NEW slot \in Slot, NEW time \in now .. MaxTime,
         process_packet(p, slot, time)
  PROVE  AInv'
<1> DEFINE key == flow_key(p)
           kept == Kept(time)
           conv == Conversation(p)
           e == [time |-> time, fragment |-> p.fragment]
<1>1. /\ flows' = [j \in DOMAIN kept \cup {key} |->
                     IF j # key THEN kept[j]
                     ELSE IF key \in DOMAIN kept THEN Update(kept[key], time) ELSE NewFlow(time)]
      /\ heard' = [heard EXCEPT ![conv] = Append(@, e)]
      /\ now' = time
  BY DEF process_packet, get_osdpi_flow, Kept
<1>2. /\ DOMAIN kept \subseteq DOMAIN flows
      /\ \A k \in DOMAIN kept : kept[k] = flows[k] /\ kept[k] \in FlowRecord
      /\ \A k \in DOMAIN flows \ DOMAIN kept : time - flows[k].last_pkt > CONNECTION_TIMEOUT
      /\ \A k \in DOMAIN flows : flows[k] \in FlowRecord /\ flows[k].last_pkt <= now
  BY KeptFlows DEF Recent
<1>3. time \in Nat /\ now \in Nat /\ now <= time /\ CONNECTION_TIMEOUT \in Nat
  BY TimeAssumption DEF Recent
<1>4. e \in Entry /\ e.time = time
  BY <1>3, PacketAssumption DEF Entry, Packets
<1>5. /\ conv \in Conversations
      /\ heard[conv] \in Seq(Entry)
      /\ heard' \in [Conversations -> Seq(Entry)]
      /\ heard'[conv] = Append(heard[conv], e)
      /\ \A c \in Conversations \ {conv} : heard'[c] = heard[c]
  <2>1. conv \in Conversations /\ heard \in [Conversations -> Seq(Entry)]
    BY DEF Conversations, AInv
  <2> HIDE DEF conv, e
  <2> QED
    BY <1>1, <1>4, <2>1
<1>6. \A k \in Keys : Spoken(k) = heard[ConversationOf(k)] /\ Spoken(k)' = heard'[ConversationOf(k)]
  BY DEF Spoken, ConversationOf
<1>7. \A k \in Keys : /\ ConversationOf(k) \in Conversations
                      /\ ConversationOf(k) = conv => k = key
                      /\ k = key => ConversationOf(k) = conv
  BY KeyConversation, KeyUnique DEF Keys, Conversations
<1> HIDE DEF key, kept, conv, e
<1>8. ASSUME NEW c \in Conversations, NEW i \in 1 .. Len(heard'[c])
      PROVE  heard'[c][i].time <= Last(heard'[c]).time /\ heard'[c][i].time <= now'
  <2>1. \A j \in 1 .. Len(heard[c]) : /\ heard[c][j].time \in Nat
                                      /\ heard[c][j].time <= Last(heard[c]).time
                                      /\ heard[c][j].time <= now
    <3>1. heard[c] \in Seq(Entry)
      BY DEF AInv
    <3>2. \A j \in 1 .. Len(heard[c]) : heard[c][j] \in Entry
      BY <3>1, ElementOfSeq
    <3> QED
      BY <3>2 DEF AInv, Entry
  <2>2. CASE c = conv
    <3>0. heard'[c] = Append(heard[c], e) /\ heard[c] \in Seq(Entry)
      BY <1>5, <2>2
    <3>1. /\ Len(heard'[c]) = Len(heard[c]) + 1 /\ Last(heard'[c]) = e
          /\ \A j \in 1 .. Len(heard[c]) : heard'[c][j] = heard[c][j]
          /\ heard'[c][Len(heard[c]) + 1] = e
          /\ Len(heard[c]) \in Nat
      <4>1. PICK log \in Seq(Entry) : log = heard[c]
        BY <3>0
      <4> QED
        BY <1>4, <3>0, <4>1, LogAppend
    <3>2. CASE i = Len(heard[c]) + 1
      BY <1>1, <1>3, <1>4, <3>1, <3>2
    <3>3. CASE i \in 1 .. Len(heard[c])
      BY <1>1, <1>3, <1>4, <2>1, <3>1, <3>3
    <3> QED
      BY <3>1, <3>2, <3>3
  <2>3. CASE c # conv
    <3>1. heard'[c] = heard[c]
      BY <1>5, <2>3
    <3>2. i \in 1 .. Len(heard[c])
      BY <3>1
    <3>3. /\ heard[c][i].time \in Nat
          /\ heard[c][i].time <= Last(heard[c]).time
          /\ heard[c][i].time <= now
      BY <2>1, <3>2
    <3>4. heard[c][i].time <= now'
      BY <1>1, <1>3, <3>3
    <3> QED
      BY <3>1, <3>3, <3>4
  <2> QED
    BY <2>2, <2>3
<1>9. ASSUME NEW k \in Keys
      PROVE  IF k \in DOMAIN flows'
             THEN /\ heard'[ConversationOf(k)] # << >>
                  /\ flows'[k].first_pkt <= flows'[k].last_pkt
                  /\ Accounts(flows'[k], heard'[ConversationOf(k)])
             ELSE \A i \in 1 .. Len(heard'[ConversationOf(k)]) : heard'[ConversationOf(k)][i].time < now'
  <2> DEFINE log == heard[ConversationOf(k)]
  <2>1. IF k \in DOMAIN flows
        THEN /\ log # << >>
             /\ flows[k].first_pkt <= flows[k].last_pkt
             /\ Accounts(flows[k], log)
        ELSE \A i \in 1 .. Len(log) : log[i].time < now
    BY <1>6 DEF AInv
  <2>2. log \in Seq(Entry) /\ \A i \in 1 .. Len(log) : /\ log[i].time \in Nat
                                                     /\ log[i].time <= Last(log).time
                                                     /\ log[i].time <= now
    <3>1. log \in Seq(Entry)
      BY <1>7 DEF AInv
    <3>2. \A j \in 1 .. Len(log) : log[j] \in Entry
      BY <3>1, ElementOfSeq
    <3> QED
      BY <1>7, <3>1, <3>2 DEF AInv, Entry
  (* A flow that is not kept was last heard before this packet. *)
  <2>3. k \notin DOMAIN kept => \A i \in 1 .. Len(log) : log[i].time < time
    <3>1. CASE k \in DOMAIN flows /\ k \notin DOMAIN kept
      <4>1. Last(log).time = flows[k].last_pkt /\ flows[k].last_pkt \in Int
        BY <1>2, <2>1, <3>1 DEF Accounts, FlowRecord
      <4>2. time - flows[k].last_pkt > CONNECTION_TIMEOUT
        BY <1>2, <3>1
      <4> QED
        BY <1>3, <2>2, <4>1, <4>2
    <3>2. CASE k \notin DOMAIN flows
      BY <1>3, <2>1, <2>2, <3>2
    <3> QED
      BY <1>2, <3>1, <3>2
  <2>4. CASE k = key
    <3>1. k \in DOMAIN flows' /\ heard'[ConversationOf(k)] = Append(log, e)
      BY <1>1, <1>5, <1>7, <2>4
    <3>2. Append(log, e) # << >>
      BY <1>4, <2>2, LogAppend
    <3>3. CASE k \in DOMAIN kept
      <4>1. flows'[k] = Update(flows[k], e.time) /\ flows[k] \in FlowRecord
        BY <1>1, <1>2, <1>4, <2>4, <3>3
      <4>2. k \in DOMAIN flows /\ flows[k].first_pkt \in Int /\ flows[k].last_pkt \in Int
        BY <1>2, <3>3 DEF FlowRecord
      <4>3. flows[k].first_pkt <= e.time
        BY <1>2, <1>3, <1>4, <2>1, <4>2
      <4>4. Accounts(Update(flows[k], e.time), Append(log, e))
        <5> HIDE DEF log
        <5> QED
          BY <1>4, <2>1, <2>2, <4>1, <4>2, <4>3, UpdateAccounts
      <4>5. Update(flows[k], e.time).first_pkt <= Update(flows[k], e.time).last_pkt
        BY <1>3, <1>4, <4>1, <4>3, UpdateRecord
      <4> QED
        BY <3>1, <3>2, <4>1, <4>4, <4>5
    <3>4. CASE k \notin DOMAIN kept
      <4>1. flows'[k] = NewFlow(e.time)
        BY <1>1, <1>4, <2>4, <3>4
      <4>2. Accounts(NewFlow(e.time), Append(log, e)) /\ NewFlow(e.time).first_pkt = e.time
            /\ NewFlow(e.time).last_pkt = e.time
        <5>1. Accounts(NewFlow(e.time), Append(log, e))
          <6> HIDE DEF log
          <6> QED
            BY <1>4, <2>2, <2>3, <3>4, NewAccounts
        <5> QED
          BY <5>1 DEF NewFlow
      <4> QED
        BY <1>3, <1>4, <3>1, <3>2, <4>1, <4>2
    <3> QED
      BY <3>3, <3>4
  <2>5. CASE k # key
    <3>1. heard'[ConversationOf(k)] = log
      BY <1>5, <1>7, <2>5
    <3>2. k \in DOMAIN flows' <=> k \in DOMAIN kept
      BY <1>1, <2>5
    <3>3. k \in DOMAIN kept => flows'[k] = flows[k] /\ k \in DOMAIN flows
      BY <1>1, <1>2, <2>5
    <3> QED
      BY <1>1, <2>1, <2>3, <3>1, <3>2, <3>3
  <2> QED
    BY <2>4, <2>5
<1> QED
  BY <1>5, <1>6, <1>8, <1>9 DEF AInv

(***************************************************************************)
(* With time stamps that do not go back, what get_osdpi_flow counts for a  *)
(* flow between two hosts is right, for any number of packets, hosts and   *)
(* cleanings and modulo the width of the counters: the packets of its      *)
(* conversation, both ways, since the record was made, and their bytes.    *)
(***************************************************************************)
THEOREM AccountedCorrect == MayStepBack = FALSE => (Spec => []Accounted)
<1> SUFFICES ASSUME MayStepBack = FALSE PROVE Spec => []Accounted
  OBVIOUS
<1>1. Init => AInv
  <2>1. \A k \in Keys : ConversationOf(k) \in Conversations
    BY KeyConversation DEF Keys, Conversations
  <2> QED
    BY <2>1 DEF Init, AInv, Spoken, ConversationOf, Conversations
<1>2. ASSUME Recent, AInv, [Next]_vars PROVE AInv'
  <2>1. CASE Next
    BY <1>2, <2>1, PacketAccounted DEF Next
  <2>2. CASE UNCHANGED vars
    BY <1>2, <2>2 DEF vars, AInv, Spoken
  <2> QED
    BY <1>2, <2>1, <2>2
<1>3. TypeOK /\ AInv => Accounted
  <2>1. SUFFICES ASSUME TypeOK, AInv, NEW k \in BetweenHosts PROVE Accounts(flows[k], Spoken(k))
    BY DEF Accounted, Accounts
  <2>2. k \in Keys
    <3>1. PICK p \in Packet : k = flow_key(p)
      BY <2>1 DEF TypeOK, BetweenHosts
    <3>2. p.saddr # p.daddr
      BY <3>1 DEF BetweenHosts, flow_key
    <3> QED
      BY <3>1, <3>2 DEF Keys
  <2> QED
    BY <2>1, <2>2 DEF AInv, BetweenHosts
<1> QED
  BY <1>1, <1>2, <1>3, InitRecent, NextRecent, TypeCorrect, PTL DEF Spec
=============================================================================
