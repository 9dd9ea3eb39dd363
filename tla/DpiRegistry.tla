---------------------------- MODULE DpiRegistry ----------------------------
(***************************************************************************)
(* The callbacks that ipoque_set_protocol_detection_bitmask2 registers, in *)
(* its order.  An entry is                                                 *)
(*   func       the dissector,                                             *)
(*   by         the protocols any one of which registers it,               *)
(*   selection  what a packet must be (ipq_selection_bitmask),             *)
(*   detection  the verdicts on the flow with which it is called,          *)
(*   excluded   the protocols whose exclusion keeps it from being called.  *)
(***************************************************************************)
EXTENDS DpiFlow, Chains

Entry(func, by, selection, detection, excluded) ==
  [func |-> func, by |-> by, selection |-> selection, detection |-> detection,
   excluded |-> excluded]

\* A dissector of X that is called on flows nothing is known of, and one that is
\* also called on the flows it has found.
First(func, X, selection) == Entry(func, {X}, selection, {UNKNOWN}, {X})
Known(func, X, selection) == Entry(func, {X}, selection, {UNKNOWN, X}, {X})

\* The combinations of selection bits in use.
IP == {"IP"}
Any == {"IP", "INT_TCP_OR_UDP"}
AnyBare == Any \cup {"NO_TCP_RETRANSMISSION"}
AnyData == Any \cup {"HAS_PAYLOAD"}
AnyNew == AnyData \cup {"NO_TCP_RETRANSMISSION"}
TcpBare == {"IP", "INT_TCP", "NO_TCP_RETRANSMISSION"}
TcpData == {"IP", "INT_TCP", "HAS_PAYLOAD"}
TcpNew == TcpData \cup {"NO_TCP_RETRANSMISSION"}
UdpData == {"IP", "INT_UDP", "HAS_PAYLOAD"}
TcpDataV4V6 == {"IPV4_OR_IPV6", "INT_TCP", "HAS_PAYLOAD"}
TcpNewV4V6 == TcpDataV4V6 \cup {"NO_TCP_RETRANSMISSION"}
UdpDataV4V6 == {"IPV4_OR_IPV6", "INT_UDP", "HAS_PAYLOAD"}

HttpEntry ==
  Entry("http_tcp", HttpFamily, TcpDataV4V6, HttpFamily \cup {UNKNOWN},
        HttpFamily \ {"QQ", "FLASH", "MMS", "RTSP", "XBOX"})

SslToDirectconnect ==
  <<First("ssl_tcp", "SSL", TcpData),
    Entry("stun_udp", {"STUN", "RTP"}, UdpData, {UNKNOWN}, {"STUN"}),
    Entry("rtp_udp", {"RTP"}, UdpData, {UNKNOWN, "STUN"}, {"RTP"}),
    Known("sip", "SIP", AnyData),
    Known("bittorrent", "BITTORRENT", Any),
    Entry("edonkey", {"EDONKEY"}, Any, {UNKNOWN, "EDONKEY", "BITTORRENT"}, {"EDONKEY"}),
    First("fasttrack_tcp", "FASTTRACK", TcpNew),
    Entry("gnutella", {"GNUTELLA"}, AnyNew, {UNKNOWN, "XBOX"}, {"GNUTELLA"}),
    First("winmx_tcp", "WINMX", TcpNew),
    Known("directconnect", "DIRECTCONNECT", AnyNew)>>

MsnToSmtp ==
  <<Entry("msn", {"MSN"}, AnyNew, {UNKNOWN, "MSN", "HTTP", "SSL"}, {"MSN"}),
    Known("yahoo", "YAHOO", Any),
    Known("oscar", "OSCAR", AnyNew),
    First("applejuice_tcp", "APPLEJUICE", TcpNew),
    Known("soulseek_tcp", "SOULSEEK", TcpData),
    Known("irc_tcp", "IRC", TcpNew),
    Entry("jabber_tcp", {"UNENCRYPED_JABBER"}, AnyBare, {UNKNOWN, "UNENCRYPED_JABBER", "SSL"},
          {"UNENCRYPED_JABBER"}),
    First("mail_pop_tcp", "MAIL_POP", TcpNew),
    First("mail_imap_tcp", "MAIL_IMAP", TcpNew),
    First("mail_smtp_tcp", "MAIL_SMTP", TcpNew)>>

\* The dissector of the other IP protocols is registered in any configuration.
FtpToNonTcpUdp ==
  <<Known("ftp_tcp", "FTP", TcpBare),
    First("usenet_tcp", "USENET", TcpNew),
    First("dns", "DNS", AnyNew),
    First("filetopia_tcp", "FILETOPIA", TcpNew),
    First("manolito_tcp_udp", "MANOLITO", AnyNew),
    Known("imesh_tcp_udp", "IMESH", AnyNew),
    First("mms_tcp", "MMS", TcpNew),
    First("pando_tcp_udp", "PANDO", AnyNew),
    Entry("in_non_tcp_udp", {}, IP, {UNKNOWN},
          {"IPSEC", "GRE", "ICMP", "IGMP", "EGP", "SCTP", "OSPF", "IP_IN_IP"})>>

TvantsToFeidian ==
  <<First("tvants_udp", "TVANTS", AnyData),
    First("sopcast", "SOPCAST", AnyData),
    First("tvuplayer", "TVUPLAYER", AnyData),
    First("ppstream_tcp", "PPSTREAM", AnyData),
    First("pplive_tcp_udp", "PPLIVE", AnyData),
    Known("iax", "IAX", UdpData),
    Known("mgcp", "MGCP", UdpData),
    Entry("gadugadu", {"GADUGADU"}, AnyData, {UNKNOWN, "HTTP", "GADUGADU"}, {"GADUGADU"}),
    Known("zattoo_tcp", "ZATTOO", AnyData),
    First("qq", "QQ", AnyNew),
    First("feidian", "FEIDIAN", AnyNew)>>

SshToTelnet ==
  <<First("ssh_tcp", "SSH", TcpNew),
    First("popo_tcp_udp", "POPO", AnyNew),
    First("thunder", "THUNDER", AnyNew),
    First("vnc_tcp", "VNC", TcpNew),
    First("dhcp_udp", "DHCP", UdpData),
    First("i23v5", "I23V5", TcpNew),
    First("socrates", "SOCRATES", AnyData),
    First("steam", "STEAM", TcpNew),
    First("halflife2", "HALFLIFE2", UdpData),
    First("xbox", "XBOX", AnyNew),
    First("smb_tcp", "SMB", TcpNew),
    First("telnet_tcp", "TELNET", TcpNew)>>

NtpToPcanywhere ==
  <<First("ntp_udp", "NTP", UdpData),
    First("nfs", "NFS", AnyNew),
    First("ssdp", "SSDP", UdpData),
    First("worldofwarcraft", "WORLDOFWARCRAFT", TcpNew),
    First("flash", "FLASH", TcpNew),
    First("postgres_tcp", "POSTGRES", TcpNew),
    First("mysql_tcp", "MYSQL", TcpNew),
    First("bgp", "BGP", TcpNew),
    First("quake", "QUAKE", UdpData),
    First("battlefield", "BATTLEFIELD", UdpData),
    First("secondlife", "SECONDLIFE", UdpData),
    First("pcanywhere", "PCANYWHERE", AnyNew)>>

RdpToMdns ==
  <<First("rdp", "RDP", TcpNew),
    First("snmp", "SNMP", UdpData),
    First("kontiki", "KONTIKI", UdpData),
    First("icecast_tcp", "ICECAST", TcpNew),
    Entry("shoutcast_tcp", {"SHOUTCAST"}, TcpNew, {UNKNOWN, "HTTP"}, {"SHOUTCAST"}),
    First("veohtv_tcp", "VEOHTV", TcpNew),
    First("openft_tcp", "OPENFT", TcpNew),
    First("syslog", "SYSLOG", AnyNew),
    First("tds_tcp", "TDS", TcpNew),
    Known("direct_download_link_tcp", "DIRECT_DOWNLOAD_LINK", TcpData),
    First("netbios", "NETBIOS", AnyNew),
    First("mdns", "MDNS", UdpData)>>

IppToAimini ==
  <<First("ipp", "IPP", AnyNew),
    Known("xdmcp", "XDMCP", AnyData),
    First("tftp", "TFTP", UdpDataV4V6),
    First("stealthnet", "STEALTHNET", TcpNewV4V6),
    First("afp", "AFP", TcpNewV4V6),
    First("aimini", "AIMINI", UdpDataV4V6)>>

Registry == <<HttpEntry>> \o SslToDirectconnect \o MsnToSmtp \o FtpToNonTcpUdp \o TvantsToFeidian
            \o SshToTelnet \o NtpToPcanywhere \o RdpToMdns \o IppToAimini

-----------------------------------------------------------------------------
(* The buffers of a configuration.                                         *)

callback_buffer(configured) ==
  LET registered(e) == e.func = "in_non_tcp_udp" \/ e.by \cap configured # {}
  IN Without(Registry, {e \in Members(Registry) : ~ registered(e)})

TcpBits == {"INT_TCP", "INT_TCP_OR_UDP", "COMPLETE_TRAFFIC"}
UdpBits == {"INT_UDP", "INT_TCP_OR_UDP", "COMPLETE_TRAFFIC"}

\* The specific buffers, of which a packet is shown to one.
Buffers(configured) ==
  LET tcp(e) == e.selection \cap TcpBits # {}
      bare(e) == tcp(e) /\ "HAS_PAYLOAD" \notin e.selection
      udp(e) == e.selection \cap UdpBits # {}
      other(e) == \/ e.selection \cap (TcpBits \cup UdpBits) = {}
                  \/ "COMPLETE_TRAFFIC" \in e.selection
      buffer == callback_buffer(configured)
      entries == Members(buffer)
  IN [tcp_payload |-> Without(buffer, {e \in entries : ~ tcp(e)}),
      tcp_no_payload |-> Without(buffer, {e \in entries : ~ bare(e)}),
      udp |-> Without(buffer, {e \in entries : ~ udp(e)}),
      non_tcp_udp |-> Without(buffer, {e \in entries : ~ other(e)})]
=============================================================================
