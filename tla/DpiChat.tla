------------------------------ MODULE DpiChat ------------------------------
(***************************************************************************)
(* The dissectors of lib/protocols for instant messengers and chat, and    *)
(* for SSL, which recognises two of them by the server's certificate.      *)
(***************************************************************************)
EXTENDS DpiFlow

\* The server's subnet counts only for hosts that have used the protocol.
search_popo_tcp_udp(f, p) ==
  OneLook(f, \/ IsTcp(p) /\ "popo 20" \in p.has
             \/ IsTcp(p) /\ "popo server" \in p.has /\ HostsHave(f, "POPO")
             \/ {"own length", "@163.com"} \subseteq p.has, "POPO")

-----------------------------------------------------------------------------
(* IRC.  Inside SSL it is recognised by lengths: IrcLengths are the steps  *)
(* of the side that sends, <<stage, length, stage>>, and IrcAnswers the    *)
(* four bytes of the other side that end the search.                       *)

IrcLengths ==
  {<<0, 1460, 1>>, <<3, 1460, 1>>, <<1, 1460, 2>>, <<2, 1176, 3>>,
   <<0, 1448, 4>>, <<6, 1448, 4>>, <<4, 1448, 5>>, <<5, 1200, 6>>,
   <<0, 1380, 7>>, <<7, 1380, 7>>, <<0, 1200, 8>>, <<8, 1200, 8>>,
   <<0, 1024, 9>>, <<9, 1024, 9>>, <<0, 1248, 10>>, <<10, 1248, 10>>,
   <<5, 1448, 11>>, <<11, 1448, 12>>, <<12, 1448, 13>>, <<13, 952, 14>>,
   <<9, 1448, 15>>, <<15, 1448, 16>>, <<16, 1200, 17>>, <<17, 1448, 18>>, <<18, 600, 19>>,
   <<9, 1380, 20>>}

\* <<stages, values>>; 4096 and 8192 also answer a flow that was once full.
IrcAnswers ==
  {<<{3, 6}, {4096, 8192}>>, <<{7}, {1380, 2760}>>, <<{8}, {1200, 2400}>>,
   <<{9, 15}, {1024, 2048}>>, <<{10}, {1248, 2496}>>, <<{4, 5, 11, 13}, {1448, 2896}>>,
   <<{14}, {8192}>>, <<{19}, {7168}>>, <<{20}, {2404}>>}

\* p.num is the value the four bytes hold.  The next record, and whether the
\* packet fits.
search_irc_ssl_detect_ninty_percent_but_very_fast(f, p) ==
  LET stage2 == f.stage.irc_stage2
      sender == f.stage.irc_direction
      steps == {t \in IrcLengths : /\ t[1] = stage2 /\ t[2] = p.len
                                   /\ sender = IF stage2 = 0 THEN 0 ELSE 1 + p.dir}
      answers == \/ f.stage.irc_0x1000_full = 1 /\ p.num \in {4096, 8192}
                 \/ \E a \in IrcAnswers : stage2 \in a[1] /\ p.num \in a[2]
      next(to) == LET g == Set(Set(f, "irc_stage2", to), "irc_direction", 1 + p.dir)
                  IN IF to \in {3, 6} THEN Set(g, "irc_0x1000_full", 1) ELSE g
  IN IF steps # {} THEN <<TRUE, next((CHOOSE t \in steps : TRUE)[3])>>
     ELSE IF p.len = 4 /\ sender = 2 - p.dir /\ answers THEN <<TRUE, Detect(f, "IRC")>>
     ELSE <<FALSE, f>>

\* A known flow announces the port of a direct connection: both hosts keep it.
\* Of the table of sixteen ports per host this keeps the port that is announced.
IrcDcc(f, p) ==
  IF f.detected = "IRC" /\ {"ends 0a", "PRIVMSG DCC port"} \subseteq p.has
  THEN [Refresh(f, 0..1, "irc") EXCEPT !.ports = [d \in 0..1 |-> @[d] \cup {"irc"}]]
  ELSE f

\* In plain text: seven lines that begin with a colon (counted in three bits),
\* three packets that begin with a command, or one with NICK or USER behind it.
IrcText(f, p) ==
  LET colons == p.has \cap {"1 colon line", "2 colon lines"}
      n == IF "2 colon lines" \in colons THEN 2 ELSE IF colons = {} THEN 0 ELSE 1
      count == f.stage.irc_3a_counter
      full == n > 0 /\ count < 7 /\ count + n >= 7
      g == Set(f, "irc_3a_counter", IF full THEN 7 ELSE count + n)
      stage == f.stage.irc_stage
      told == IF stage > 2 THEN g ELSE Set(IF stage = 2 THEN Detect(g, "IRC") ELSE g,
                                           "irc_stage", stage + 1)
  IN IF f.packet_counter >= 20 \/ "ends 0a" \notin p.has THEN f
     ELSE IF full THEN IrcDcc(Detect(g, "IRC"), p)
     ELSE IF "irc command" \notin p.has THEN g
     ELSE IF "then NICK or USER" \in p.has THEN Set(Detect(told, "IRC"), "irc_stage", 3)
     ELSE IrcDcc(told, p)

search_irc_tcp(f, p) ==
  LET undetected == f.detected # "IRC"
      recent == \E d \in 0..1 : "IRC" \in f.seen[d] /\ "irc" \in f.fresh[d]
      g == IF undetected /\ f.packet_counter = 2 /\ "irc server name" \in p.has
           THEN Detect(f, "IRC") ELSE f
      ssl == search_irc_ssl_detect_ninty_percent_but_very_fast(g, p)
  IN IF \/ undetected /\ f.packet_counter > 70
        \/ undetected /\ f.packet_counter > 30 /\ f.stage.irc_stage2 = 0 THEN Exclude(f, "IRC")
     ELSE IF recent /\ (\E d \in 0..1 : "irc" \in f.ports[d]) /\ "irc port" \in p.has
     THEN Detect(f, "IRC")
     ELSE IF g.detected = "IRC" THEN IrcDcc(g, p)
     ELSE IF ssl[1] THEN ssl[2]
     ELSE IrcText(g, p)

-----------------------------------------------------------------------------
(* MSN, which may begin as HTTP or SSL.                                    *)

MAX_PACKETS_FOR_MSN == 100

\* The patterns of the first packet that detect, and USR or ANS, which decides
\* either way.
MsnFirst(f, p) ==
  \/ p.has \cap {"msn stun", "VER CVR", "VER MSNFT", "CONNECT messenger"} # {}
  \/ "x-msn-messenger" \in p.has /\ (f.marked = "HTTP" \/ p.has \cap {"POST http://", "200 OK"} # {})
  \/ /\ {"gateway.dll", "text/xml"} \subseteq p.has
     /\ HostsHave(f, "MSN") \/ "CVR VER ANS line" \in p.has

\* The first packets of the file transfer of MSN 8.
MsnTransfer(f, p) ==
  LET at(v) == f.stage.msn_stage = v
  IN CASE at(0) /\ "04000000" \in p.has -> Set(f, "msn_stage", 1 + p.dir)
       [] at(1 + p.dir) /\ "foo" \in p.has -> Detect(f, "MSN")
       [] at(1 + p.dir) /\ "56 bytes" \in p.has -> Set(f, "msn_stage", 3 + p.dir)
       [] (at(3 + p.dir) \/ at(4 - p.dir)) /\ "30000000" \in p.has -> Detect(f, "MSN")
       [] OTHER -> f

search_msn_tcp(f, p) ==
  LET n == f.packet_counter
      ssl == f.marked = "SSL"
      twice == Set(f, "msn_ssl_ft", f.stage.msn_ssl_ft + 1)
      first == n = 1 \/ (ssl /\ n <= 3)
      named == p.has \cap {"USR ", "ANS "} # {}
      transfer == MsnTransfer(f, p)
      later == \/ n <= 2 /\ "x-msn-messenger" \in p.has
                         /\ (f.marked = "HTTP" \/ "200 OK" \in p.has)
               \/ n = 1 /\ HostsHave(f, "MSN") /\ "recipientid=" \in p.has
  IN IF ssl /\ n = 7 /\ "MSNSLP or 30000000" \in p.has THEN Detect(f, "MSN")
     ELSE IF ssl /\ n \in {5, 6} /\ "18000000" \in p.has
     THEN IF twice.stage.msn_ssl_ft = 2 THEN Detect(twice, "MSN") ELSE twice
     ELSE IF first /\ MsnFirst(f, p) THEN Detect(f, "MSN")
     ELSE IF first /\ named THEN OneLook(f, "number and email" \in p.has, "MSN")
     ELSE IF later THEN Detect(f, "MSN")
     ELSE IF transfer # f THEN transfer
     ELSE IF n <= MAX_PACKETS_FOR_MSN /\ "port 443" \in p.has
     THEN IF "INVITE MSNMSGR" \in p.has THEN Detect(f, "MSN") ELSE f
     ELSE Exclude(f, "MSN")

search_udp_msn_misc(f, p) ==
  IF ~ HostsHave(f, "MSN") THEN Exclude(f, "MSN")
  ELSE IF "msn 20" \in p.has THEN Detect(f, "MSN")
  ELSE f

search_msn(f, p) ==
  IF "MSN" \in f.excluded THEN f
  ELSE IF IsUdp(p) THEN search_udp_msn_misc(f, p)
  ELSE IF f.marked \in {UNKNOWN, "HTTP", "SSL"} THEN search_msn_tcp(f, p)
  ELSE f

-----------------------------------------------------------------------------
(* Yahoo.                                                                  *)

\* Messages of the protocol up to the end of the packet.
check_ymsg(p) == "ymsg frames" \in p.has

\* A request of the messenger, or one that counts for hosts that have used it.
YahooRequest(f, p) ==
  \/ p.has \cap {"host filetransfer", "YMSG line", "<Ymsg Command=", "CONNECT scs.msg"} # {}
  \/ HostsHave(f, "YAHOO") /\ p.has \cap {"relay token", "Messenger.", "YAHOO!"} # {}

\* Video: the direction is kept of both hosts ("yahoo lan dir" is 1).
YahooVideo(f, p) ==
  LET dir == IF "SNDIMG" \in p.has THEN [d \in 0..1 |-> f.ports[d] \ {"yahoo lan dir"}]
             ELSE [d \in 0..1 |-> f.ports[d] \cup {"yahoo lan dir"}]
      ok(d, one) == "yahoo lan" \in f.fresh[d] /\ (("yahoo lan dir" \in f.ports[d]) = one)
  IN IF ~ HostsHave(f, "YAHOO") THEN f
     ELSE IF p.has \cap {"SNDIMG", "REQIMG"} # {}
     THEN Detect([Refresh(f, 0..1, "yahoo lan") EXCEPT !.ports = dir], "YAHOO")
     ELSE IF "port 5100" \in p.has /\ (ok(Src(p), TRUE) \/ ok(Dst(p), FALSE))
     THEN Detect(f, "YAHOO")
     ELSE f

\* Behind a proxy the other side's answer is examined.
YahooProxy(f, p) ==
  LET stage == f.stage.yahoo_http_proxy_stage
  IN IF f.marked = "HTTP" /\ stage = 0 THEN Set(f, "yahoo_http_proxy_stage", 1 + p.dir)
     ELSE IF f.marked = "HTTP" /\ stage = 1 + p.dir THEN f
     ELSE OneLook(f, f.marked = "HTTP" /\ stage = 2 - p.dir /\ "Session and Ymsg" \in p.has, "YAHOO")

search_yahoo_tcp(f, p) ==
  LET video == YahooVideo(f, p)
  IN IF p.len = 0 THEN f
     ELSE IF "YMSG" \in p.has /\ ("own length" \in p.has \/ check_ymsg(p))
     THEN Detect(Set(f, "yahoo_detection_finished", 2), "YAHOO")
     ELSE IF f.stage.yahoo_detection_finished = 2 /\ f.marked = "YAHOO" THEN f
     ELSE IF YahooRequest(f, p) THEN Detect(f, "YAHOO")
     ELSE IF video.detected = "YAHOO" THEN video
     ELSE YahooProxy(f, p)

\* Both branches of the code exclude.
search_yahoo_udp(f) == Exclude(f, "YAHOO")

\* The packet that finishes the detection is searched twice.
search_yahoo(f, p) ==
  LET looks == p.len > 0 /\ IsTcp(p) /\ ~ p.retransmission
      finished(g) == g.stage.yahoo_detection_finished
      g == IF finished(f) # 0 \/ p.len = 0 THEN f
           ELSE IF looks THEN IF f.marked \in {UNKNOWN, "HTTP"} THEN search_yahoo_tcp(f, p) ELSE f
           ELSE IF IsUdp(p) THEN search_yahoo_udp(f) ELSE f
  IN IF looks /\ finished(g) = 2 THEN search_yahoo_tcp(g, p) ELSE g

-----------------------------------------------------------------------------
(* Gadu-Gadu.  A login of the Miranda client leaves with both hosts the    *)
(* address ("gg ft") and the call ("gg call id") of a file transfer.       *)

\* A request with the host of the service.  The search ends here, also for a
\* request of 50 bytes or more that is none of the three.
check_for_http(f, p) ==
  IF "under 50 bytes" \in p.has THEN <<FALSE, f>>
  ELSE IF "gg request" \in p.has
  THEN IF "gg host" \in p.has THEN <<TRUE, Detect(f, "GADUGADU")>> ELSE <<FALSE, f>>
  ELSE <<TRUE, f>>

\* Two packets of the protocol within six on its ports.
GaduLogin(f, p) ==
  LET add == Cardinality(p.has \cap {"gg header", "gg 114"})
      g == Set(f, "gadugadu_stage", f.stage.gadugadu_stage + add)
      two == g.stage.gadugadu_stage = 2
      h == IF two /\ "gg 114" \in p.has
           THEN [g EXCEPT !.ports = [d \in 0..1 |-> @[d] \cup {"gg ft", "gg call id"}]] ELSE g
  IN IF two THEN Detect(h, "GADUGADU") ELSE h

\* The flow of a file transfer: the address is that of the packet, or the packet
\* carries the call.  A stale address is dropped.
GaduTransfer(f, p) ==
  LET used(d) == "GADUGADU" \in f.seen[d]
      address(d) == used(d) /\ "gg ft" \in f.ports[d] /\ "gg ft address" \in p.has
      call(d) == used(d) /\ "gg call id" \in f.ports[d] /\ "gg call" \in p.has
      fresh(d) == "gg" \in f.fresh[d]
      drop == {d \in 0..1 : address(d) /\ ~ fresh(d)}
      found == {d \in 0..1 : (address(d) \/ call(d)) /\ fresh(d)}
      gone == IF Src(p) \in found THEN {} ELSE drop
      g == [f EXCEPT !.ports = [d \in 0..1 |-> IF d \in gone THEN @[d] \ {"gg ft"} ELSE @[d]]]
  IN OneLook(g, found # {}, "GADUGADU")

search_gadugadu_tcp(f, p) ==
  LET http == check_for_http(f, p)
  IN IF f.marked = "GADUGADU" THEN Refresh(f, 0..1, "gg")
     ELSE IF f.marked = "HTTP" /\ "to port 80" \in p.has /\ http[1] THEN http[2]
     ELSE IF "gg port" \in p.has /\ f.packet_counter <= 6 THEN GaduLogin(f, p)
     ELSE GaduTransfer(f, p)

-----------------------------------------------------------------------------
(* Oscar, Jabber and QQ.                                                   *)

int_oscar_add_connection(f) == Refresh(Detect(f, "OSCAR"), 0..1, "oscar")

\* The two comparisons meant to keep the question open for two packet forms hold
\* for every packet: all of more than eleven bytes do so before the third.  What
\* the voice packet detects is not the end of the search.
search_oscar_tcp_connect(f, p) ==
  LET known == HostsHave(f, "OSCAR")
      g == IF known /\ f.packet_counter = 1 /\ "oscar voice" \in p.has
           THEN Set(f, "oscar_video_voice", 1) ELSE f
      h == IF known /\ g.stage.oscar_video_voice = 1 /\ "oscar length" \in p.has
           THEN int_oscar_add_connection(g) ELSE g
  IN IF p.has \cap {"oscar connect", "oscar message", "mobileAIM", "CONNECT login", "proxy hello"} # {}
     THEN int_oscar_add_connection(f)
     ELSE IF known /\ p.has \cap {"OFT", "ODC2", "DEST"} # {} THEN int_oscar_add_connection(h)
     ELSE IF f.packet_counter < 3 /\ "over 11 bytes" \in p.has THEN h
     ELSE IF h.marked # "OSCAR" THEN Exclude(h, "OSCAR")
     ELSE h

search_oscar(f, p) == IF IsTcp(p) THEN search_oscar_tcp_connect(f, p) ELSE f

\* Only the hosts are told: neither the flow nor the packet is marked.
int_jabber_add_connection(f, X) == [f EXCEPT !.seen = [d \in 0..1 |-> @[d] \cup {X}]]

\* A SYN on the file transfer port kept of a host; a stale port is dropped.
JabberSyn(f, p) ==
  LET g == [f EXCEPT !.ports = [d \in 0..1 |-> IF "jabber" \in f.fresh[d] THEN @[d]
                                               ELSE @[d] \ {"jabber ft"}]]
  IN IF "jabber ft port" \in p.has /\ \E d \in 0..1 : "jabber ft" \in g.ports[d]
     THEN int_jabber_add_connection(g, "UNENCRYPED_JABBER") ELSE g

\* A flow found inside SSL announces a port of a call or of a file transfer.
JabberPort(f, p) ==
  LET port == IF "to" \in p.has THEN "jabber stun" ELSE "jabber ft"
  IN IF {"<iq ", "@ port="} \subseteq p.has
     THEN [Refresh(f, 0..1, "jabber") EXCEPT !.ports = [d \in 0..1 |-> @[d] \cup {port}]]
     ELSE f

search_jabber_tcp(f, p) ==
  IF p.syn /\ p.len = 0 THEN JabberSyn(f, p)
  ELSE IF p.len = 0 THEN f
  ELSE IF f.marked = "UNENCRYPED_JABBER" THEN JabberPort(f, p)
  ELSE IF {"stream header", "etherx.jabber.org"} \subseteq p.has
  THEN int_jabber_add_connection(f, "UNENCRYPED_JABBER")
  ELSE IF f.packet_counter < 3 THEN f
  ELSE Exclude(f, "UNENCRYPED_JABBER")

\* Three packets of the protocol; once there is one, five packets' patience.
search_qq_udp(f, p) ==
  LET stage == f.stage.qq_stage
  IN IF stage <= 3 /\ "qq packet" \in p.has
     THEN IF stage = 2 THEN Detect(Set(f, "qq_stage", 3), "QQ") ELSE Set(f, "qq_stage", stage + 1)
     ELSE IF stage # 0 /\ f.packet_counter <= 5 THEN f
     ELSE Exclude(f, "QQ")

\* Three packets, or two of 39 bytes, whose stage is 4; a request of the client;
\* or a first packet of zeros.
search_qq_tcp(f, p) ==
  LET stage == f.stage.qq_stage
  IN IF "qq packet" \in p.has
     THEN IF stage = 2 THEN Detect(Set(f, "qq_stage", 3), "QQ") ELSE Set(f, "qq_stage", stage + 1)
     ELSE IF "39 bytes 27" \in p.has
     THEN IF stage = 4 THEN Detect(f, "QQ") ELSE Set(f, "qq_stage", 4)
     ELSE IF \/ {"GET or POST", "qq line"} \subseteq p.has
             \/ stage = 0 /\ p.has \cap {"82 zeros", "182 mail", "204 zeros"} # {}
     THEN Detect(f, "QQ")
     ELSE IF "HTTP" \in f.excluded THEN Exclude(f, "QQ")
     ELSE f

search_qq(f, p) == IF IsUdp(p) THEN search_qq_udp(f, p) ELSE search_qq_tcp(f, p)

-----------------------------------------------------------------------------
(* SSL.  configured is the detection bitmask of the module.                *)

\* The server's packet is searched for names if Jabber or Oscar is configured;
\* the names of AOL mark the flow as Oscar also when only Jabber is.
ssl_mark_and_payload_search_for_other_protocols(f, p, configured) ==
  LET searched == configured \cap {"UNENCRYPED_JABBER", "OSCAR"} # {}
      jabber == "talk.google.com" \in p.has /\ "UNENCRYPED_JABBER" \in configured
  IN IF searched /\ jabber THEN Detect(f, "UNENCRYPED_JABBER")
     ELSE IF searched /\ "America Online" \in p.has
     THEN Detect(Refresh(f, {Dst(p)}, "oscar"), "OSCAR")
     ELSE Detect(f, "SSL")

\* A server hello, whole or with its further records.
search_sslv3_direction1(p) == "server hello" \in p.has

search_ssl_tcp(f, p, configured) ==
  LET long == "over 40 bytes" \in p.has
      at(v) == long /\ f.stage.ssl_stage = v
      early == f.packet_direction_counter[p.dir] < 5
  IN IF at(0) /\ "client hello" \in p.has THEN Set(f, "ssl_stage", 1 + p.dir)
     ELSE IF at(1 + p.dir) /\ early THEN f
     ELSE IF at(2 - p.dir) /\ ("hello v2" \in p.has \/ search_sslv3_direction1(p))
     THEN ssl_mark_and_payload_search_for_other_protocols(f, p, configured)
     ELSE IF at(2 - p.dir) /\ early THEN f
     ELSE Exclude(f, "SSL")

-----------------------------------------------------------------------------
(* Direct Connect.  Hosts keep the port of a peer, and a time stamp.       *)

\* A peer's port is kept if it answers, or over udp.
int_directconnect_add_connection(f, p, peer) ==
  LET g == Refresh(Detect(f, "DIRECTCONNECT"), 0..1, "directconnect")
      port == IF IsTcp(p) THEN {"dc"} ELSE {"dc udp"}
  IN IF peer /\ (IsTcp(p) => f.setup_packet_direction # p.dir)
     THEN [g EXCEPT !.ports[Src(p)] = @ \cup port] ELSE g

\* A packet from (or to) the port kept of host d: only the flow is marked; a
\* stale port is dropped, and the search ends without a verdict.
DirectConnectPort(f, d, port) ==
  IF "directconnect" \in f.fresh[d] THEN Mark(f, "DIRECTCONNECT")
  ELSE [f EXCEPT !.ports[d] = @ \ {port}]

\* A hub's lock and the answer, a peer's nick and the answer, or the newer
\* protocol's first word.
search_directconnect_tcp(f, p) ==
  LET stage == f.stage.directconnect_stage
      adc == stage \in {0, 1} /\ "HSUP or CSUP" \in p.has
  IN IF "dc" \in f.ports[Src(p)] /\ "from dc port" \in p.has THEN DirectConnectPort(f, Src(p), "dc")
     ELSE IF "dc" \in f.ports[Dst(p)] /\ "to dc port" \in p.has THEN DirectConnectPort(f, Dst(p), "dc")
     ELSE IF stage = 0 /\ "$Lock |" \in p.has THEN Set(f, "directconnect_stage", 1)
     ELSE IF stage = 0 /\ "$MyNick |" \in p.has THEN Set(f, "directconnect_stage", 2)
     ELSE IF adc \/ (stage = 1 /\ "dc message" \in p.has)
     THEN int_directconnect_add_connection(f, p, FALSE)
     ELSE IF stage = 2 /\ "$ |" \in p.has THEN int_directconnect_add_connection(f, p, TRUE)
     ELSE Exclude(f, "DIRECTCONNECT")

\* A search result between hosts that have used the protocol: with a hash, or the
\* third.  Both hosts count it, in two bits, so the fourth begins again.
search_directconnect_udp(f, p) ==
  LET users == Cardinality({d \in 0..1 : "DIRECTCONNECT" \in f.seen[d]})
      result == users > 0 /\ "$SR " \in p.has
      once == Set(f, "directconnect_stage", f.stage.directconnect_stage + 1)
      twice == Set(once, "directconnect_stage", once.stage.directconnect_stage + 1)
      waits(g) == g.stage.directconnect_stage < 3
  IN IF "dc udp" \in f.ports[Dst(p)] /\ "to dc udp port" \in p.has
     THEN DirectConnectPort(f, Dst(p), "dc udp")
     ELSE IF result /\ "TTH:" \in p.has THEN int_directconnect_add_connection(f, p, TRUE)
     ELSE IF result /\ waits(once) THEN once
     ELSE IF result /\ users = 2 /\ waits(twice) THEN twice
     ELSE Exclude(IF ~ result THEN f ELSE IF users = 2 THEN twice ELSE once, "DIRECTCONNECT")

\* search_directconnect that drops the verdict on the flow too.
search_directconnectForgets(f, p) ==
  IF f.marked = "DIRECTCONNECT"
  THEN IF \E d \in 0..1 : "directconnect" \in f.fresh[d] THEN f ELSE Mark(f, UNKNOWN)
  ELSE IF IsTcp(p) THEN search_directconnect_tcp(f, p)
  ELSE search_directconnect_udp(f, p)

\* A known flow of two hosts whose time stamps are both old is not reported, and
\* the flow itself stays what it was.
search_directconnect(f, p) ==
  IF f.marked = "DIRECTCONNECT"
  THEN IF \E d \in 0..1 : "directconnect" \in f.fresh[d] THEN f ELSE [f EXCEPT !.marked = UNKNOWN]
  ELSE IF IsTcp(p) THEN search_directconnect_tcp(f, p)
  ELSE search_directconnect_udp(f, p)
=============================================================================
