------------------------------ MODULE DpiMedia ------------------------------
(***************************************************************************)
(* The dissectors of lib/protocols for streaming, television and           *)
(* telephony.                                                              *)
(***************************************************************************)
EXTENDS DpiFlow

-----------------------------------------------------------------------------
(* Decided on the first packet they are shown.                             *)

\* A SOURCE request with a line that begins with ice-.
search_icecast_tcp(f, p) == OneLook(f, {"SOURCE ", "ice-"} \subseteq p.has, "ICECAST")
\* A GET to a host of veoh.com from its client's referer.
search_veohtv_tcp(f, p) ==
  OneLook(f, {"GET /", "host veoh", "referer veoh"} \subseteq p.has, "VEOHTV")
\* One of the packet forms, of tcp or of udp.
search_tvuplayer(f, p) ==
  OneLook(f, (IsTcp(p) /\ "tvu tcp" \in p.has) \/ (IsUdp(p) /\ "tvu udp" \in p.has),
          "TVUPLAYER")

\* A verb of MGCP, and MGCP behind it in a packet that ends its line.
search_mgcp(f, p) == OneLook(f, {"mgcp verb", "MGCP ", "ends line"} \subseteq p.has, "MGCP")

\* The dissector does not return after it has detected: the flow is detected and
\* excluded at once.
search_tvants_udp(f, p) ==
  LET found == (IsUdp(p) /\ "tvants udp" \in p.has) \/ (IsTcp(p) /\ "tvants tcp" \in p.has)
  IN Exclude(IF found THEN Detect(f, "TVANTS") ELSE f, "TVANTS")

\* A full frame to port 4569, alone or with at most 15 information elements
\* that end where the packet ends.
search_setup_iax(f, p) ==
  OneLook(f, "iax frame" \in p.has /\ p.has \cap {"12 bytes", "iax elements"} # {}, "IAX")

search_iax(f, p) == IF f.marked = UNKNOWN THEN search_setup_iax(f, p) ELSE f

-----------------------------------------------------------------------------
(* Several packets.                                                        *)

\* MMS and Flash may also be found by the http dissector, and are excluded here
\* only once HTTP is.
ExcludeAfterHttp(f, X) == IF "HTTP" \in f.excluded THEN Exclude(f, X) ELSE f

search_mms_tcp(f, p) ==
  LET header == "MMS header" \in p.has
      at(v) == f.stage.mms_stage = v
  IN CASE at(0) /\ header -> Set(f, "mms_stage", 1 + p.dir)
       [] at(2 - p.dir) /\ header -> Detect(f, "MMS")
       [] OTHER -> ExcludeAfterHttp(f, "MMS")

\* A handshake of FlashLen bytes by one side, its last packet pushed.  The code's
\* length is 1537 and the sum is kept in 16 bits.
FlashLen == 3
search_flash(f, p) ==
  LET begins == f.stage.flash_stage = 0 /\ "03 or 06" \in p.has
      goesOn == f.stage.flash_stage = 1 + p.dir
      bytes == IF begins THEN p.len ELSE (f.memo.flash_bytes + p.len) % 65536
      pushed == "psh" \in p.has
      counted == IF begins \/ goesOn THEN Keep(f, "flash_bytes", bytes) ELSE f
  IN IF (begins \/ goesOn) /\ pushed /\ bytes = FlashLen THEN Detect(counted, "FLASH")
     ELSE IF begins /\ ~ pushed THEN Set(counted, "flash_stage", 1 + p.dir)
     ELSE IF ~ begins /\ goesOn /\ ~ pushed /\ bytes < FlashLen THEN counted
     ELSE IF f.stage.flash_stage = 0 /\ "policy-file-request" \in p.has
     THEN Detect(counted, "FLASH")
     ELSE ExcludeAfterHttp(counted, "FLASH")

\* tcp: the protocol's name.  udp: five packets of type 0x43, or two of the
\* other form.  The stage has three bits: 7 marks the other form, and one more
\* packet of type 0x43 makes it zero again.
search_ppstream_tcp(f, p) ==
  LET stage == f.stage.ppstream_stage
      sized == IsUdp(p) /\ "own length" \in p.has
      counted == Set(f, "ppstream_stage", stage + 1)
  IN IF IsTcp(p) /\ "PSProtocol" \in p.has THEN Detect(f, "PPSTREAM")
     ELSE IF sized /\ "type 43" \in p.has
     THEN IF counted.stage.ppstream_stage = 5 THEN Detect(counted, "PPSTREAM") ELSE counted
     ELSE IF stage = 0 /\ sized /\ "00 00 03" \in p.has THEN Set(f, "ppstream_stage", 7)
     ELSE IF stage = 7 /\ sized /\ "00 00 03" \in p.has THEN Detect(f, "PPSTREAM")
     ELSE Exclude(f, "PPSTREAM")

\* tcp: a command to port 8080 or a GET to the configuration host.
\* udp: two packets of the protocol on port 53124.
search_feidian(f, p) ==
  LET two == IsUdp(p) /\ "port 53124" \in p.has
      stage == f.stage.feidian_stage
  IN CASE IsTcp(p) /\ ("feidian command" \in p.has
                       \/ {"GET /", "host feidian"} \subseteq p.has) -> Detect(f, "FEIDIAN")
       [] two /\ stage = 0 /\ "1c 112" \in p.has -> Set(f, "feidian_stage", 1)
       [] two /\ stage = 1 /\ p.has \cap {"1c 112", "1c 116"} # {} -> Detect(f, "FEIDIAN")
       [] OTHER -> Exclude(f, "FEIDIAN")

\* The greeting of a source, then the server's answer within four packets.
search_shoutcast_tcp(f, p) ==
  LET n == f.packet_counter
      waits == \/ n = 1 /\ ("123456" \in p.has \/ f.marked = "HTTP")
               \/ n = 2 /\ p.has \cap {"empty line", "OK2"} # {} /\ "ICY 200 OK" \notin p.has
               \/ n \in {3, 4} /\ "OK2" \in p.has /\ "ICY 200 OK" \notin p.has
      found == "ICY 200 OK" \in p.has \/ (n \in {3, 4} /\ "icy-" \in p.has)
  IN IF waits THEN f ELSE OneLook(f, found, "SHOUTCAST")

\* A SIP request or a 200 answer.  udp waits for ten packets, four zero bytes
\* leave the question open, and Yahoo's voice packets delay the exclusion.
search_sip_handshake(f, p) ==
  LET heard == IF "yahoo voice" \in p.has THEN Set(f, "sip_yahoo_voice", 1) ELSE f
  IN IF p.has \cap {"REGISTER sip:", "INVITE sip:", "SIP/2.0 200 OK"} # {}
     THEN Detect(f, "SIP")
     ELSE IF IsUdp(p) /\ f.packet_counter < 10 THEN f
     ELSE IF "four zero bytes" \in p.has THEN f
     ELSE IF heard.stage.sip_yahoo_voice = 1 /\ f.packet_counter < 10 THEN heard
     ELSE Exclude(heard, "SIP")

search_sip(f, p) ==
  IF f.marked # "SIP" /\ ~ p.retransmission THEN search_sip_handshake(f, p) ELSE f

-----------------------------------------------------------------------------
(* Television.                                                             *)

search_sopcast_tcp(f, p) ==
  OneLook(f, f.packet_counter = 1 /\ "sopcast 54" \in p.has, "SOPCAST")
search_sopcast_udp(f, p) ==
  OneLook(f, p.has \cap {"52 ffff01", "80 28 94", "60 0001", "42 000201", "28 000c01",
                         "286 000201", "76 ffff01"} # {}, "SOPCAST")
search_sopcast(f, p) ==
  IF IsUdp(p) THEN search_sopcast_udp(f, p) ELSE search_sopcast_tcp(f, p)

int_zattoo_add_connection(f) == Refresh(Detect(f, "ZATTOO"), 0..1, "zattoo")

\* tcp: a request of the player, or its own protocol, in which the side that
\* opened may go on before the other answers.  Nothing sets a stage above 4.
\* udp: two packets on port 5003.
search_zattoo_tcp(f, p) ==
  LET at(v) == f.stage.zattoo_stage = v
      begin(v) == Set(f, "zattoo_stage", v)
      found == int_zattoo_add_connection(f)
      no == Exclude(f, "ZATTOO")
      answers == at(2 - p.dir) \/ at(4 - p.dir)
  IN IF f.marked = "ZATTOO" THEN f
     ELSE IF IsUdp(p)
     THEN IF {"port 5003", "zattoo word"} \subseteq p.has
          THEN IF at(1) THEN int_zattoo_add_connection(begin(2))
               ELSE begin(f.stage.zattoo_stage + 1)
          ELSE no
     ELSE IF "GET Zattoo" \in p.has THEN found
     ELSE IF "channel or epg" \in p.has THEN IF "User-Agent: Zattoo" \in p.has THEN found ELSE no
     ELSE IF "POST http://" \in p.has THEN IF "own address and 0304" \in p.has THEN found ELSE no
     ELSE IF at(0) THEN IF "03 04 00 04 0a" \in p.has THEN begin(1 + p.dir) ELSE no
     ELSE IF at(2 - p.dir) /\ "03 04" \in p.has THEN found
     ELSE IF at(1 + p.dir) THEN IF "500 zeros" \in p.has THEN begin(3 + p.dir) ELSE f
     ELSE IF \/ answers /\ "03 04" \in p.has
             \/ at(5 + p.dir) /\ "125 bytes" \in p.has
             \/ at(6 - p.dir) /\ "1412 bytes" \in p.has THEN found
     ELSE no

\* PPLive.  A packet from, or to, the port kept of a host: a stale port is
\* dropped and the search goes on.
PPLivePort(f, p, d) ==
  /\ "pplive" \in f.ports[d] /\ "PPLIVE" \in f.seen[d]
  /\ (IF d = Src(p) THEN "from pplive port" ELSE "to pplive port") \in p.has

\* A known port of a host that used it lately.  Over tcp the receiver's port
\* marks the flow and leaves the hosts alone.
PPLiveKnown(f, p) ==
  LET known(d) == PPLivePort(f, p, d) /\ "pplive" \in f.fresh[d]
      stale == {d \in 0..1 : PPLivePort(f, p, d) /\ "pplive" \notin f.fresh[d]}
      g == [f EXCEPT !.ports = [d \in 0..1 |-> IF d \in stale THEN @[d] \ {"pplive"} ELSE @[d]]]
  IN IF known(Src(p)) THEN <<TRUE, Detect(f, "PPLIVE")>>
     ELSE IF known(Dst(p)) THEN <<TRUE, IF IsTcp(p) THEN Mark(g, "PPLIVE") ELSE Detect(g, "PPLIVE")>>
     ELSE <<FALSE, g>>

\* A strong pattern; or within four packets one that opens, and then two lengths
\* of either side, or the other side's answer, whose port is kept.
PPLiveUdp(f, p) ==
  LET at(v) == f.stage.pplive_stage = v
      kept == [Refresh(f, {Dst(p)}, "pplive") EXCEPT !.ports[Dst(p)] = @ \cup {"pplive"}]
  IN IF p.has \cap {"76 ac", "e903 98ab", "94 b113", "90 4fde7e7f"} # {} THEN Detect(f, "PPLIVE")
     ELSE IF f.packet_counter < 5 /\ at(0)
     THEN IF "68 bytes 21" \in p.has THEN Set(f, "pplive_stage", 3 + p.dir)
          ELSE IF "90 zeros" \in p.has THEN Set(f, "pplive_stage", 2) ELSE f
     ELSE IF at(3 + p.dir) THEN f
     ELSE IF at(4 - p.dir) /\ "21 or 22" \in p.has THEN Detect(kept, "PPLIVE")
     ELSE IF at(2) /\ "28 or 30 bytes" \in p.has THEN Detect(f, "PPLIVE")
     ELSE IF at(2) /\ f.packet_counter < 45 THEN f
     ELSE Exclude(f, "PPLIVE")

\* A request of the player or a packet that holds its own length; some patterns
\* count once a packet of four bytes was seen.
PPLiveRequest(f, p) ==
  \/ {"GET /", "Client=PPLive"} \subseteq p.has \/ {"GET /", "PPLive DAC"} \subseteq p.has
  \/ "own length" \in p.has /\ p.has \cap {"21 00", "e9 03", "21 98ab", "16 digits"} # {}
  \/ f.stage.pplive_stage # 0 /\ p.has \cap {"begins 21 00", "begins e9 03"} # {}

\* Four bytes announce the length of the sender's next packet.
PPLiveTcp(f, p) ==
  LET at(v) == f.stage.pplive_stage = v
      size == IF p.dir = 0 THEN "pplive_next_packet_size0" ELSE "pplive_next_packet_size1"
      announces == "four bytes" \in p.has
      sized == IF announces THEN Keep(f, size, p.num) ELSE f
      meets == /\ f.memo[size] >= 4 /\ p.len > 7
               /\ \/ p.len = f.memo[size] /\ p.has \cap {"e903 98ab", "begins 16 digits", "ends zeros"} # {}
                  \/ p.len > f.memo[size] /\ {"e903 98ab", "further frames"} \subseteq p.has
  IN IF PPLiveRequest(f, p) THEN Detect(f, "PPLIVE")
     ELSE IF at(0) /\ announces THEN Set(sized, "pplive_stage", 1 + p.dir)
     ELSE IF at(2 - p.dir) THEN Set(sized, "pplive_stage", 3)
     ELSE OneLook(f, (at(1 + p.dir) \/ at(3)) /\ meets, "PPLIVE")

search_pplive_tcp_udp(f, p) ==
  LET k == PPLiveKnown(f, p)
  IN IF k[1] THEN k[2] ELSE IF IsUdp(p) THEN PPLiveUdp(k[2], p) ELSE PPLiveTcp(k[2], p)

-----------------------------------------------------------------------------
(* RTP: four packets of one side with one source and numbers that stay     *)
(* within RTP_MAX_OUT_OF_ORDER of each other.  The difference is kept in   *)
(* eight bits.  Another payload type begins again.  p.id is the source,    *)
(* p.num the sequence number.                                              *)

RTP_MAX_OUT_OF_ORDER == 10

search_rtp_udp(f, p) ==
  LET ssid == IF p.dir = 0 THEN "rtp_ssid0" ELSE "rtp_ssid1"
      seqnum == IF p.dir = 0 THEN "rtp_seqnum0" ELSE "rtp_seqnum1"
      stageOf == IF p.dir = 0 THEN "rtp_stage1" ELSE "rtp_stage2"
      type == IF "pt 8" \in p.has THEN 8 ELSE 0
      again == IF f.memo.rtp_payload_type \notin {0, type}
               THEN Set(Set(Keep(Keep(f, ssid, 0), seqnum, 0), "rtp_stage1", 0),
                        "rtp_stage2", 0)
               ELSE f
      g == Keep(again, "rtp_payload_type", type)
      stage == g.stage[stageOf]
      last == g.memo[seqnum]
      packet_difference == (IF p.num > last THEN p.num - last ELSE last - p.num) % 256
      strange == /\ stage > 0
                 /\ \/ g.memo[ssid] # p.id
                    \/ packet_difference > RTP_MAX_OUT_OF_ORDER
      noted == Keep(IF stage > 0 THEN g ELSE Keep(g, ssid, p.id), seqnum, p.num)
      refuse(h) == IF f.marked = "STUN" THEN h ELSE Exclude(h, "RTP")
  IN IF p.has \cap {"one zero byte", "12 zero bytes"} # {} THEN f
     ELSE IF "rtp version" \notin p.has THEN refuse(f)
     ELSE IF strange THEN refuse(g)
     ELSE IF stage > 0 /\ p.num = last THEN g
     ELSE IF p.num <= 3 THEN noted
     ELSE IF stage = 3 THEN Detect(noted, "RTP")
     ELSE Set(noted, stageOf, stage + 1)
=============================================================================
