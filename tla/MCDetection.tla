---------------------------- MODULE MCDetection ----------------------------
(* Scenarios: a configuration with the packets that matter to it.            *)
EXTENDS OpenDPI

Data(l4, has, len, id, num) ==
  [l4 |-> l4, has |-> has, len |-> len, id |-> id, num |-> num, syn |-> FALSE,
   ack |-> l4 = "tcp", rst |-> FALSE, whole |-> TRUE]
T(has) == Data("tcp", has, 1, 0, 0)
U(has) == Data("udp", has, 1, 0, 0)
Plain == T({})
Syn(has) == [Data("tcp", has, 0, 0, 0) EXCEPT !.syn = TRUE, !.ack = FALSE]
SynAck == [Data("tcp", {}, 0, 0, 0) EXCEPT !.syn = TRUE]
Rst == [Data("tcp", {}, 0, 0, 0) EXCEPT !.rst = TRUE]
Broken == [Plain EXCEPT !.whole = FALSE]

\* <<configuration, packets, offsets, packets of a flow, positions, flows, time stamps>>
Case(on, kinds, offsets, limit, span, flowsOf, timers) ==
  [on |-> on, kinds |-> kinds, offsets |-> offsets, limit |-> limit, span |-> span,
   flows |-> flowsOf, timers |-> timers]
S(on, kinds, limit) == Case(on, kinds, {0}, limit, 10000, 1, {})

Long(has) == T(has \cup {"over 40 bytes", "over 11 bytes"})
Request(more) == T({"GET or POST", "GET /", "verb", "several lines", " HTTP/1.", "host line"} \cup more)

Num(l4, has, id, num) == Data(l4, has, 1, id, num)
Whole(has, len) == Data("tcp", has, len, 0, 0)
Line(has) == T(has \cup {"ends line"})
Other(l4) == [Data(l4, {}, 0, 0, 0) EXCEPT !.ack = FALSE]

\* Sequence numbers that wrap, loss, reordering and repetition; time stamps and
\* ports that one flow leaves for the next; a change of configuration.
Tracking ==
  {Case({"SSH"}, {T({"SSH-"}), Whole({}, 3), Syn({}), SynAck, Rst, Broken}, {-2, 0, 2, 5}, 3, 5, 1, {}),
   Case({"FTP"},
        {Syn({"ftp ports"}), T({"220"}), T({"USER "}),
         T({"227 ", "address"}), T({"PORT "})}, {0}, 3, 3, 2, {"ftp"}),
   Case({"DIRECTCONNECT"},
        {T({"$Lock |"}), T({"$MyNick |"}), T({"$ |"}), T({"from dc port"}), U({"$SR ", "TTH:"}),
         U({"$SR "})}, {0}, 3, 10, 2, {"directconnect"}),
   Case({"GADUGADU", "HTTP"},
        {Request({"gg request", "gg host", "to port 80"}), T({"gg port", "gg header"}),
         T({"gg port", "gg 114"}), T({"gg ft address"})}, {0}, 3, 10, 2, {"gg"}),
   S({"SSH", "TDS"}, {T({"SSH-"}), Num("tcp", {"tds header"}, 18, 0), Plain}, 3),
   Case({"TELNET"}, {T({"iac"}), Plain}, {-1, 0}, 13, 13, 1, {})}

Remote ==
  {S({"SSH", "VNC", "STEAM", "USENET"},
     {T({"SSH-"}), T({"RFB 003.00"}), T({"steam hello"}), T({"steam 01"}), T({"200 "}),
      T({"MODE READER"}), Plain}, 4),
   S({"TDS", "POSTGRES"},
     {Num("tcp", {"tds header"}, 18, 0), Num("tcp", {"tds header"}, 4, 0),
      Num("tcp", {"tds header"}, 7, 0), T({"pg ssl request"}), T({"pg startup"}), T({"S"}),
      T({"pg auth"})}, 4),
   S({"SNMP", "TFTP", "HALFLIFE2", "BATTLEFIELD"},
     {Num("udp", {"snmp version"}, 1, 0), Num("udp", {"snmp version"}, 2, 0), U({"data 1"}),
      U({"ack 1"}), U({"ack 0"}), U({"hl2 frame"}), Num("udp", {"port 27000", "fefd"}, 1, 0),
      U({"bf header"})}, 3),
   S({"SSL", "OSCAR", "UNENCRYPED_JABBER", "MSN"},
     {Long({"client hello"}), Long({"server hello"}), Long({"server hello", "talk.google.com"}),
      Long({"server hello", "America Online"}), Long({}), T({"18000000"})}, 4),
   S({"SSL"}, {Long({"client hello"}), Long({"server hello"}), Long({})}, 9)}

Web ==
  {S({"HTTP", "FLASH", "AVI", "MPEG", "DIRECT_DOWNLOAD_LINK", "VEOHTV"},
     {Request({}), Request({"4shared.com"}), Request({"host veoh", "referer veoh"}), T({"verb"}),
      T({"several lines", " HTTP/1.", "host line"}), T({"video/flv", "empty line", "no room"}),
      T({"empty line", "then FLV"}), T({"begins RIFF AVI"}), T({"Icy-MetaData"}),
      T({"03 or 06"}), Plain}, 3),
   S({"HTTP", "MPEG", "MMS", "SHOUTCAST", "MSN", "QQ", "YAHOO", "XBOX"},
     {Request({}), Request({"x-msn-messenger"}), Request({"Xbox Live Client/"}), T({"MMS header"}),
      T({"123456"}), T({"OK2"}), T({"ICY 200 OK", "audio/mpeg"}), T({"qq packet"}), T({"Session and Ymsg"}),
      T({"YMSG", "own length"})}, 3),
   S({"SHOUTCAST"}, {T({"123456"}), T({"OK2"}), T({"empty line"}), T({"icy-"}), Plain}, 6)}

Media ==
  {S({"STUN", "RTP"},
     {U({"stun header", "20 bytes"}), Num("udp", {"rtp version"}, 1, 4),
      Num("udp", {"rtp version"}, 1, 5), Num("udp", {"rtp version", "pt 8"}, 1, 6),
      Num("udp", {"rtp version"}, 1, 270), Num("udp", {"rtp version"}, 2, 5)}, 5),
   S({"SIP"}, {U({"INVITE sip:"}), U({"four zero bytes"}), U({"yahoo voice"}), U({})}, 99),
   S({"PPLIVE", "ZATTOO", "PPSTREAM"},
     {T({"four bytes"}), T({"03 04"}), T({"03 04 00 04 0a"}), T({"500 zeros"}), T({"PSProtocol"}),
      U({"own length", "type 43"}), U({"own length", "00 00 03"}), U({"68 bytes 21"}),
      U({"21 or 22"}), U({"port 5003", "zattoo word"})}, 3),
   S({"PPSTREAM"}, {U({"own length", "type 43"}), U({"own length", "00 00 03"}), U({})}, 8),
   S({"FEIDIAN", "SOPCAST", "TVUPLAYER", "TVANTS", "IAX", "MGCP"},
     {U({"port 53124", "1c 112"}), T({"sopcast 54"}), U({"60 0001"}), U({"tvu udp"}),
      U({"tvants udp"}), U({"iax frame", "12 bytes"}), U({"mgcp verb", "MGCP ", "ends line"})}, 2)}

Sharing ==
  {S({"BITTORRENT", "EDONKEY"},
     {T({"BitTorrent protocol"}), T({"edk hello"}), T({"edk answer"}), T({"edk lower port"}),
      Plain, SynAck}, 4),
   Case({"GNUTELLA", "XBOX"},
     {U({"gnutella 23"}), U({"gnutella port"}), T({"high ports", "gnutella 11"}),
      T({"high ports", "33 or 22 bytes", "repeats three bytes"}), T({"urn:sha1:"}),
      U({"xbox 3074"}), T({"GIV"})}, {0}, 3, 10, 2, {"gnutella"}),
   Case({"SOULSEEK"},
     {T({"soulseek login"}), T({"listen port message"}), T({"7d message"}), T({"code 4"}),
      T({"four bytes"}), T({"8 bytes zero"}), T({"to listen port"})}, {0}, 3, 10, 2, {"soulseek"}),
   S({"SOULSEEK", "MAIL_SMTP"}, {T({"7d message"}), Line({"220"}), Line({"HELO"}), Plain}, 12),
   S({"IMESH", "THUNDER"},
     {T({"04 zeros"}), T({"06 00"}), U({"imesh 28"}), U({"imesh 36"}), T({"thunder header"}),
      T({"GET /", "thunder lines"}), U({"thunder header"})}, 5),
   S({"MANOLITO"},
     {T({"SIZ "}), T({"STR "}), T({"MD5 "}), T({"GO!!"}), U({"port 41170"}),
      U({"port 41170", "manolito message"})}, 8),
   S({"AIMINI", "QQ"},
     {U({"64 010b"}), U({">100 0115"}), U({"16 010c"}), U({"136 01c9"}), U({"32 01ca"}),
      U({"qq packet"})}, 4),
   S({"FILETOPIA", "I23V5", "WINMX"},
     {T({"filetopia hello"}), T({"filetopia name"}), T({"filetopia frame"}), T({"SEND"}),
      T({"name and number"}), Num("tcp", {"i23 bits", "0d58"}, 0, 1),
      Num("tcp", {"i23 bits", "0e58"}, 0, 2), Num("tcp", {"i23 bits", "0f58"}, 0, 3),
      Num("tcp", {"i23 bits"}, 0, 6)}, 5)}

Mail ==
  {S({"FTP", "MAIL_SMTP"}, {T({"220"}), T({"FEAT"}), T({"211-"}), Line({"USER "}), Plain}, 4),
   S({"MAIL_SMTP", "MAIL_POP", "MAIL_IMAP"},
     {Line({"220"}), Line({"AUTH"}), Line({"+OK"}), Line({"USER"}), Line({"imap tag", "OK "}),
      Line({}), Plain}, 4),
   S({"MAIL_IMAP"}, {Line({"DONE"}), Line({}), Plain}, 7),
   S({"MAIL_POP"}, {Line({"+OK"}), T({"+OK"}), Line({"USER"}), Line({})}, 8),
   S({"IRC"},
     {Whole({}, 1460), Whole({}, 1176), Data("tcp", {}, 4, 0, 4096), T({"ends 0a", "irc command"}),
      T({"ends 0a", "2 colon lines"}), T({"ends 0a", "PRIVMSG DCC port"})}, 4)}

\* Dissectors that decide at the first look.
OneLooks ==
  {S({"RDP", "BGP", "SMB", "MYSQL", "AFP", "NETBIOS", "DNS", "NFS"},
     {T({"rdp request"}), T({"bgp marker"}), T({"smb magic"}), T({"mysql greeting", "filler"}),
      T({"dsi open"}), T({"port 139", "session request"}), T({"port 53", "dns query"}),
      T({"rpc nfs", "record mark"})}, 2),
   S({"XDMCP", "SYSLOG", "IPP", "OPENFT", "APPLEJUICE", "STEALTHNET", "FASTTRACK", "SOCRATES"},
     {T({"x11 setup"}), T({"<pri>", "month"}), T({"printer idle"}), T({"GET /", "X-OpenftAlias:"}),
      T({"ajprot"}), T({"LARS REGENSBURGER"}), T({"GIVE number", "ends line"}),
      T({"socrates", "own length"})}, 2),
   S({"PCANYWHERE", "DHCP", "SSDP", "NTP", "MDNS", "QUAKE", "SECONDLIFE", "KONTIKI"},
     {U({"pcanywhere"}), U({"dhcp magic"}), U({"ssdp verb"}), U({"port 123", "48 bytes", "ntp version"}),
      U({"port 5353", "mdns group", "mdns query"}), U({"quake query"}), U({"secondlife header"}),
      U({"kontiki header"})}, 2),
   S({"ICECAST", "WORLDOFWARCRAFT", "POPO", "PANDO", "ICMP"},
     {T({"SOURCE ", "ice-"}), T({"wow login"}), T({"wow server"}), T({"popo 20"}),
      U({"pando header"}), U({"pando header", "Pando protocol"}), Other("ICMP"), Other("GRE")}, 2)}

Scenarios == Tracking \cup Remote \cup Web \cup Media \cup Sharing \cup Mail \cup OneLooks

Of(b) == CHOOSE s \in Scenarios : s.on = b

MCBitmasks == {s.on : s \in Scenarios}
MCKinds(b) == Of(b).kinds
MCOffsets(b) == Of(b).offsets
MCLimit(b) == Of(b).limit
MCSpan(b) == Of(b).span
MCMaxFlows(b) == Of(b).flows
MCTimers(b) == Of(b).timers
MCReconfigured(b) == IF b = {"SSH", "TDS"} THEN {{"TDS", "POSTGRES"}} ELSE {}
MCISN == [d \in 0..1 |-> 65532 + 2 * d]
=============================================================================
