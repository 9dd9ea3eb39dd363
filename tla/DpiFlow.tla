------------------------------ MODULE DpiFlow ------------------------------
(***************************************************************************)
(* What OpenDPI remembers of a connection, and the two verdicts a          *)
(* dissector can reach about it.                                           *)
(*                                                                         *)
(* A dissector ipoque_search_X of lib/protocols is an operator from the    *)
(* record f and the packet p to the next record.  f holds the fields of    *)
(* struct ipoque_flow_struct that the modelled dissectors use, the         *)
(* detected_protocol of the packet (f.marked), and of the two hosts'       *)
(* struct ipoque_id_struct the protocols seen on them (f.seen), the time   *)
(* stamps younger than their timeout (f.fresh) and the ports kept of them  *)
(* (f.ports).  Host d sends the packets of direction d.  The dissectors    *)
(* also read what ipoque_connection_tracking counts (f.packet_counter,     *)
(* f.packet_direction_counter, f.setup_packet_direction); none writes it.  *)
(*                                                                         *)
(* A packet is [l4, dir, has, ...]: p.has is the set of byte patterns,     *)
(* lengths and ports that hold of it, each named for the test in the code. *)
(***************************************************************************)
EXTENDS Integers, Sequences, FiniteSets

UNKNOWN == "UNKNOWN"

\* The stage fields of the flow, and how many values the bits of each can hold.
Values ==
  [irc_stage |-> 256, irc_stage2 |-> 32, irc_3a_counter |-> 8, irc_direction |-> 4,
   irc_0x1000_full |-> 2, irc_ssl_min_number_of_packet |-> 16, bittorrent_stage |-> 256,
   rtp_stage1 |-> 4, rtp_stage2 |-> 4, edk_stage |-> 32, winmx_stage |-> 2,
   directconnect_stage |-> 4, soulseek_stage |-> 4, snmp_stage |-> 4,
   filetopia_stage |-> 4, manolito_stage |-> 16, battlefield_stage |-> 4,
   sip_yahoo_voice |-> 2, tds_stage |-> 8, gadugadu_stage |-> 4, usenet_stage |-> 4,
   imesh_stage |-> 16, ftp_stage |-> 8, http_setup_dir |-> 4, http_stage |-> 4,
   server_direction |-> 2, http_empty_line_seen |-> 2, http_detected |-> 2,
   flash_stage |-> 8, gnutella_stage |-> 4, mms_stage |-> 4,
   yahoo_detection_finished |-> 4, yahoo_http_proxy_stage |-> 4, pplive_stage |-> 8,
   msn_stage |-> 8, msn_ssl_ft |-> 4, zattoo_stage |-> 8, ppstream_stage |-> 8,
   feidian_stage |-> 2, qq_ssl_stage |-> 16, qq_stage |-> 16, ssh_stage |-> 8,
   thunder_stage |-> 4, oscar_stage |-> 16, vnc_stage |-> 4, steam_stage |-> 4,
   telnet_stage |-> 4, halflife2_stage |-> 4, ssl_stage |-> 4, postgres_stage |-> 8,
   ddlink_server_direction |-> 2, mail_pop_stage |-> 4, mail_imap_stage |-> 4,
   tftp_stage |-> 2, aimini_stage |-> 32, xbox_stage |-> 2, oscar_video_voice |-> 2]

\* The fields in which a dissector keeps what a packet carried, to recognise it
\* in a later one.
Memos == {"snmp_msg_id", "battlefield_msg_id", "tds_login_version", "flash_bytes",
          "i23v5_len1", "i23v5_len2", "i23v5_len3", "rtp_payload_type",
          "rtp_ssid0", "rtp_ssid1", "rtp_seqnum0", "rtp_seqnum1",
          "pplive_next_packet_size0", "pplive_next_packet_size1"}

\* What the dissectors keep of a flow that is new: memory set to zero.  commands
\* holds the commands the mail dissectors have seen; what is known of the hosts
\* stays.
EmptyFlow(seen, fresh, ports) ==
  [detected |-> UNKNOWN, marked |-> UNKNOWN, excluded |-> {},
   stage |-> [s \in DOMAIN Values |-> 0], memo |-> [m \in Memos |-> 0],
   commands |-> [smtp |-> {}, pop |-> {}], seen |-> seen, fresh |-> fresh, ports |-> ports]

\* An assignment to a stage field keeps as many bits as the field has.
Set(f, s, v) == [f EXCEPT !.stage[s] = v % Values[s]]

Keep(f, m, v) == [f EXCEPT !.memo[m] = v]

Src(p) == p.dir
Dst(p) == 1 - p.dir
IsTcp(p) == p.l4 = "tcp"
IsUdp(p) == p.l4 = "udp"

\* An add_connection that forgets the packet.
MarkFlowOnly(f, X) == [f EXCEPT !.detected = X]

\* ipoque_int_X_add_connection of a dissector that leaves the hosts alone.
Mark(f, X) == [f EXCEPT !.detected = X, !.marked = X]

\* ipoque_int_X_add_connection.
Detect(f, X) == [Mark(f, X) EXCEPT !.seen = [d \in 0..1 |-> @[d] \cup {X}]]

Exclude(f, X) == [f EXCEPT !.excluded = @ \cup {X}]

\* IPQ_SRC_OR_DST_HAS_PROTOCOL.
HostsHave(f, X) == \E d \in 0..1 : X \in f.seen[d]

Refresh(f, hosts, t) ==
  [f EXCEPT !.fresh = [d \in 0..1 |-> IF d \in hosts THEN @[d] \cup {t} ELSE @[d]]]

\* HTTP and what it carries: the module's generic_http_packet_bitmask whenever the
\* http dissector is registered.
HttpFamily == {"MPEG", "FLASH", "QUICKTIME", "REALMEDIA", "WINDOWSMEDIA", "MMS", "OFF", "XBOX",
               "QQ", "AVI", "OGG", "MOVE", "RTSP", "HTTP"}

-----------------------------------------------------------------------------
(* The shapes most dissectors share.                                       *)

\* A dissector that does not return after it has detected.
OneLookGoesOn(f, found, X) ==
  [f EXCEPT !.detected = IF found THEN X ELSE @, !.marked = IF found THEN X ELSE @,
            !.excluded = @ \cup {X}]

\* One look at the first packet decides.
OneLook(f, found, X) == IF found THEN Detect(f, X) ELSE Exclude(f, X)

\* An opening packet of one side, then the answer of the other side: the stage
\* is 1 + direction, so that only 2 - direction of the other side equals it.
TwoSided(f, p, X, s, opening, answer) ==
  CASE f.stage[s] = 0 /\ opening -> Set(f, s, 1 + p.dir)
    [] f.stage[s] = 2 - p.dir /\ answer -> Detect(f, X)
    [] OTHER -> Exclude(f, X)
=============================================================================
