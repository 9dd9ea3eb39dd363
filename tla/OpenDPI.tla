------------------------------ MODULE OpenDPI ------------------------------
(***************************************************************************)
(* The library with its dissectors: the constant Dissect of Detection is   *)
(* Dissector, and the properties are about the verdicts on a flow.         *)
(***************************************************************************)
EXTENDS Detection, DpiServices, DpiGames, DpiMedia, DpiSharing, DpiMail, DpiChat, DpiHttp

\* The function a callback points to.
Dissector(func, f, p, bitmask) ==
  CASE func = "http_tcp" -> search_http_tcp(f, p, bitmask)
    [] func = "ssl_tcp" -> search_ssl_tcp(f, p, bitmask)
    [] func = "in_non_tcp_udp" -> search_in_non_tcp_udp(f, p, bitmask)
    [] func = "stun_udp" -> search_stun_udp(f, p)
    [] func = "rtp_udp" -> search_rtp_udp(f, p)
    [] func = "sip" -> search_sip(f, p)
    [] func = "bittorrent" -> search_bittorrent(f, p)
    [] func = "edonkey" -> search_edonkey(f, p)
    [] func = "fasttrack_tcp" -> search_fasttrack_tcp(f, p)
    [] func = "gnutella" -> search_gnutella(f, p)
    [] func = "winmx_tcp" -> search_winmx_tcp(f, p)
    [] func = "directconnect" -> search_directconnect(f, p)
    [] func = "msn" -> search_msn(f, p)
    [] func = "yahoo" -> search_yahoo(f, p)
    [] func = "oscar" -> search_oscar(f, p)
    [] func = "applejuice_tcp" -> search_applejuice_tcp(f, p)
    [] func = "soulseek_tcp" -> search_soulseek_tcp(f, p)
    [] func = "irc_tcp" -> search_irc_tcp(f, p)
    [] func = "jabber_tcp" -> search_jabber_tcp(f, p)
    [] func = "mail_pop_tcp" -> search_mail_pop_tcp(f, p)
    [] func = "mail_imap_tcp" -> search_mail_imap_tcp(f, p)
    [] func = "mail_smtp_tcp" -> search_mail_smtp_tcp(f, p)
    [] func = "ftp_tcp" -> search_ftp_tcp(f, p)
    [] func = "usenet_tcp" -> search_usenet_tcp(f, p)
    [] func = "dns" -> search_dns(f, p)
    [] func = "filetopia_tcp" -> search_filetopia_tcp(f, p)
    [] func = "manolito_tcp_udp" -> search_manolito_tcp_udp(f, p)
    [] func = "imesh_tcp_udp" -> search_imesh_tcp_udp(f, p)
    [] func = "mms_tcp" -> search_mms_tcp(f, p)
    [] func = "pando_tcp_udp" -> search_pando_tcp_udp(f, p)
    [] func = "tvants_udp" -> search_tvants_udp(f, p)
    [] func = "sopcast" -> search_sopcast(f, p)
    [] func = "tvuplayer" -> search_tvuplayer(f, p)
    [] func = "ppstream_tcp" -> search_ppstream_tcp(f, p)
    [] func = "pplive_tcp_udp" -> search_pplive_tcp_udp(f, p)
    [] func = "iax" -> search_iax(f, p)
    [] func = "mgcp" -> search_mgcp(f, p)
    [] func = "gadugadu" -> search_gadugadu_tcp(f, p)
    [] func = "zattoo_tcp" -> search_zattoo_tcp(f, p)
    [] func = "qq" -> search_qq(f, p)
    [] func = "feidian" -> search_feidian(f, p)
    [] func = "ssh_tcp" -> search_ssh_tcp(f, p)
    [] func = "popo_tcp_udp" -> search_popo_tcp_udp(f, p)
    [] func = "thunder" -> search_thunder(f, p)
    [] func = "vnc_tcp" -> search_vnc_tcp(f, p)
    [] func = "dhcp_udp" -> search_dhcp_udp(f, p)
    [] func = "i23v5" -> search_i23v5(f, p)
    [] func = "socrates" -> search_socrates(f, p)
    [] func = "steam" -> search_steam(f, p)
    [] func = "halflife2" -> search_halflife2(f, p)
    [] func = "xbox" -> search_xbox(f, p)
    [] func = "smb_tcp" -> search_smb_tcp(f, p)
    [] func = "telnet_tcp" -> search_telnet_tcp(f, p)
    [] func = "ntp_udp" -> search_ntp_udp(f, p)
    [] func = "nfs" -> search_nfs(f, p)
    [] func = "ssdp" -> search_ssdp(f, p)
    [] func = "worldofwarcraft" -> search_worldofwarcraft(f, p)
    [] func = "flash" -> search_flash(f, p)
    [] func = "postgres_tcp" -> search_postgres_tcp(f, p)
    [] func = "mysql_tcp" -> search_mysql_tcp(f, p)
    [] func = "bgp" -> search_bgp(f, p)
    [] func = "quake" -> search_quake(f, p)
    [] func = "battlefield" -> search_battlefield(f, p)
    [] func = "secondlife" -> search_secondlife(f, p)
    [] func = "pcanywhere" -> search_pcanywhere(f, p)
    [] func = "rdp" -> search_rdp(f, p)
    [] func = "snmp" -> search_snmp(f, p)
    [] func = "kontiki" -> search_kontiki(f, p)
    [] func = "icecast_tcp" -> search_icecast_tcp(f, p)
    [] func = "shoutcast_tcp" -> search_shoutcast_tcp(f, p)
    [] func = "veohtv_tcp" -> search_veohtv_tcp(f, p)
    [] func = "openft_tcp" -> search_openft_tcp(f, p)
    [] func = "syslog" -> search_syslog(f, p)
    [] func = "tds_tcp" -> search_tds_tcp(f, p)
    [] func = "direct_download_link_tcp" -> search_direct_download_link_tcp(f, p)
    [] func = "netbios" -> search_netbios(f, p)
    [] func = "mdns" -> search_mdns(f, p)
    [] func = "ipp" -> search_ipp(f, p)
    [] func = "xdmcp" -> search_xdmcp(f, p)
    [] func = "tftp" -> search_tftp(f, p)
    [] func = "stealthnet" -> search_stealthnet(f, p)
    [] func = "afp" -> search_afp(f, p)
    [] func = "aimini" -> search_aimini(f, p)

-----------------------------------------------------------------------------
(* The verdict on a flow.                                                  *)

\* All callbacks of the packet in work have been called.
AtReturn == phase = "dissect" /\ todo = <<>>

\* The protocols whose dissectors wait for an answer of the other side.
TwoSidedProtocols ==
  {"SSH", "VNC", "SSL", "STEAM", "HALFLIFE2", "USENET", "TDS", "POSTGRES", "EDONKEY"}

\* The packets a verdict takes, at the least.
MinPackets == [RTP |-> 4, AIMINI |-> 4, I23V5 |-> 4, TELNET |-> 3, MAIL_IMAP |-> 3,
               MAIL_POP |-> 3, FILETOPIA |-> 3, TDS |-> 3]

\* The counters outlast any verdict (65000 in the code), and a packet begins with at most
\* one command of POP: the first four bytes of its payload are compared.
ASSUME EvidenceAssumption ==
  /\ MAX_PACKET_COUNTER >= 4
  /\ \A b \in Bitmasks : \A k \in Kinds(b) : \A x, y \in k.has \cap PopCommands : x = y

\* No verdict comes too easily.  A stage of 1 + direction, or 16 + direction, keeps the
\* opening of one side from being taken for the answer of the other, however often it is
\* repeated; and the dissectors that gather evidence over several packets do not come to
\* their verdict sooner, also if a stage wraps or a new payload type begins again.  A
\* connection that opens between two hosts is taken for FTP data only while the control
\* connection that announced it is recent.
Evidence ==
  /\ flow.detected \in TwoSidedProtocols => \A d \in 0..1 : conn.packet_direction_counter[d] > 0
  /\ \A X \in DOMAIN MinPackets : flow.detected = X => conn.packet_counter >= MinPackets[X]
  /\ (/\ AtReturn /\ packet.syn /\ (~ packet.ack \/ packet.len = 0)
      /\ saved = UNKNOWN /\ flow.detected = "FTP") =>
       \E d \in 0..1 : "ftp" \in flow.fresh[d] /\ "FTP" \in flow.seen[d]

\* <<protocol, layer 4, packets after which the dissector has decided>>.
Patience ==
  {<<"TELNET", "tcp", 12>>, <<"MAIL_SMTP", "tcp", 12>>, <<"MAIL_IMAP", "tcp", 6>>,
   <<"SHOUTCAST", "tcp", 5>>, <<"SOULSEEK", "tcp", 11>>, <<"IMESH", "tcp", 5>>,
   <<"SSL", "tcp", 9>>, <<"SIP", "udp", 10>>, <<"MANOLITO", "udp", 7>>}

\* A dissector of limited patience has found or excluded its protocol by its limit, so
\* that it is not called for every packet of a long flow.  Four zero bytes keep SIP
\* open by design, and a packet of commands keeps TELNET open whatever the count.
Decided ==
  LET shown == /\ AtReturn /\ packet.len > 0 /\ ~ packet.retransmission
               /\ packet.has \cap {"four zero bytes", "iac"} = {}
      late(t) == t[1] \in configured /\ t[2] = packet.l4 /\ conn.packet_counter >= t[3]
  IN shown => \A t \in Patience : late(t) => flow.detected # UNKNOWN \/ t[1] \in flow.excluded

\* What a verdict may become: what HTTP carries is told apart as it is parsed, and
\* some protocols begin as another.
Successors(X) ==
  CASE X = "HTTP" -> HttpFamily \cup {"MSN", "GADUGADU", "SHOUTCAST"}
    [] X = "XBOX" -> HttpFamily \cup {"GNUTELLA"}
    [] X \in HttpFamily \ {"HTTP", "XBOX"} -> HttpFamily
    [] X = "SSL" -> {"MSN"}
    [] X = "STUN" -> {"RTP"}
    [] X = "BITTORRENT" -> {"EDONKEY"}
    [] OTHER -> {}

\* A verdict is never taken back while the flow lives, and the one that a packet met
\* stays or becomes a successor of it, whichever callbacks change it on the way.  Only
\* the packet that found the first verdict may still replace it by any other.
VerdictKept ==
  [][ flows' = flows /\ flow.detected # UNKNOWN =>
        \/ flow'.detected = flow.detected
        \/ /\ phase = "dissect" /\ flow'.detected # UNKNOWN
           /\ saved = UNKNOWN \/ flow'.detected \in {saved} \cup Successors(saved) ]_vars

\* The http dissector is called first and recognises the request, but the callbacks of
\* a packet are chosen by the verdict it met: a dissector of something more special
\* still has the last word on the same packet.
SpecialWins ==
  AtReturn /\ saved = UNKNOWN /\ "HTTP" \in configured /\ ~ packet.retransmission =>
    /\ (/\ "DIRECT_DOWNLOAD_LINK" \in configured \ flow.excluded
        /\ IsTcp(packet) /\ packet.len > 0 /\ search_ddl_domains(packet))
         => flow.detected = "DIRECT_DOWNLOAD_LINK"
    /\ (/\ "VEOHTV" \in configured \ flow.excluded
        /\ IsTcp(packet) /\ {"GET /", "host veoh", "referer veoh"} \subseteq packet.has)
         => flow.detected = "VEOHTV"

\* A packet returns the verdict on its flow if that is configured when it returns, and
\* UNKNOWN otherwise: also when the configuration has changed since the verdict, when it
\* was found with another's help, and when a later callback of the packet replaced it.
\* The one exception is a Direct Connect flow whose hosts have both grown stale.
Reported ==
  [][ phase = "dissect" /\ phase' = "idle" =>
        \/ result' = IF flow.detected \in configured THEN flow.detected ELSE UNKNOWN
        \/ /\ flow.detected = "DIRECTCONNECT" /\ result' = UNKNOWN
           /\ \A d \in 0..1 : "directconnect" \notin flow.fresh[d] ]_vars

\* The protocols whose dissectors are called again on the flows they have found, to
\* keep what those announce for later ones: ports, addresses, what a request carries.
FollowedProtocols ==
  {"FTP", "DIRECTCONNECT", "IRC", "GADUGADU", "MSN", "YAHOO", "EDONKEY", "ZATTOO",
   "DIRECT_DOWNLOAD_LINK", "HTTP", "MPEG", "AVI", "XBOX"}

\* No dissector of these gives up on its protocol before another packet, or another
\* dissector, finds it: an exclusion is for good and the flow would not be followed.
\* (Soulseek excludes itself on its own flows, and the ssl dissector finds Jabber and
\* Oscar on flows that theirs have excluded.)
Followed == flow.detected \in FollowedProtocols => flow.detected \notin flow.excluded
=============================================================================
