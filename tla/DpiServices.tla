---------------------------- MODULE DpiServices ----------------------------
(***************************************************************************)
(* The dissectors of lib/protocols for network services, remote access and *)
(* databases.  Each operator is one file: its search function with the     *)
(* add_connection function it calls.                                       *)
(***************************************************************************)
EXTENDS DpiFlow

-----------------------------------------------------------------------------
(* Decided on the first packet they are shown.                             *)

\* Port 5632, two bytes, NQ or ST.
search_pcanywhere(f, p) == OneLook(f, IsUdp(p) /\ "pcanywhere" \in p.has, "PCANYWHERE")
\* A TPKT connection request as long as it says.
search_rdp(f, p) == OneLook(f, "rdp request" \in p.has, "RDP")
\* The 16 byte marker, a type below 5 and port 179.
search_bgp(f, p) == OneLook(f, "bgp marker" \in p.has, "BGP")
\* Port 445 and the SMB magic behind the length.
search_smb_tcp(f, p) == OneLook(f, "smb magic" \in p.has, "SMB")
\* Ports 67 and 68, the DHCP magic and a message type option.
search_dhcp_udp(f, p) == OneLook(f, "dhcp magic" \in p.has, "DHCP")
\* M-SEARCH or NOTIFY in more than 100 bytes.
search_ssdp(f, p) == OneLook(f, IsUdp(p) /\ "ssdp verb" \in p.has, "SSDP")
\* Port 123, 48 bytes, version at most 4.
search_ntp_udp(f, p) ==
  OneLook(f, {"port 123", "48 bytes", "ntp version"} \subseteq p.has, "NTP")
\* A server greeting with its filler bytes behind the version string.
search_mysql_tcp(f, p) == OneLook(f, {"mysql greeting", "filler"} \subseteq p.has, "MYSQL")
\* The OpenSession or the GetStatus command of DSI.
search_afp(f, p) == OneLook(f, p.has \cap {"dsi open", "dsi status"} # {}, "AFP")
\* An RPC call of NFS, mount or the portmapper; over TCP behind a record mark.
search_nfs(f, p) ==
  OneLook(f, "rpc nfs" \in p.has /\ (IsTcp(p) => "record mark" \in p.has), "NFS")
\* A connection setup to the X server's ports, or a query to UDP port 177.
search_xdmcp(f, p) ==
  OneLook(f, \/ IsTcp(p) /\ "x11 setup" \in p.has
             \/ IsUdp(p) /\ "xdmcp query" \in p.has, "XDMCP")
\* A priority in brackets, then the name of a month.
search_syslog(f, p) == OneLook(f, {"<pri>", "month"} \subseteq p.has, "SYSLOG")
\* A printer's state line, or a POST of application/ipp.
search_ipp(f, p) ==
  OneLook(f, "printer idle" \in p.has \/ {"POST", "application/ipp"} \subseteq p.has, "IPP")
\* A query to port 53; over TCP it may stand behind its length.
search_dns(f, p) ==
  OneLook(f, "port 53" \in p.has /\ p.has \cap {"dns query", "dns query behind length"} # {},
          "DNS")

\* A query, or an answer with records.
check_mdns_payload(p) == p.has \cap {"mdns query", "mdns answer"} # {}

\* Port 5353 of 224.0.0.251.
search_mdns(f, p) ==
  OneLook(f, /\ IsUdp(p)
             /\ {"port 5353", "mdns group"} \subseteq p.has
             /\ check_mdns_payload(p), "MDNS")

\* One of the eight name service headers to port 137, a datagram to port 138
\* that names its own sender, or a session request to port 139.
search_netbios(f, p) ==
  OneLook(f, \/ IsUdp(p) /\ {"port 137", "name service header"} \subseteq p.has
             \/ IsUdp(p) /\ {"port 138", "datagram header", "own address"} \subseteq p.has
             \/ IsTcp(p) /\ {"port 139", "session request"} \subseteq p.has, "NETBIOS")

\* A message with a known type whose attributes end where it ends.
search_stun_udp(f, p) ==
  OneLook(f, /\ "stun header" \in p.has
             /\ p.has \cap {"20 bytes", "stun attributes"} # {}, "STUN")

\* The IP protocol number.  A protocol that is not configured is not recorded.
search_in_non_tcp_udp(f, p, configured) ==
  IF p.l4 \in {"IPSEC", "GRE", "ICMP", "IGMP", "EGP", "SCTP", "OSPF", "IP_IN_IP"}
     /\ p.l4 \in configured
  THEN Detect(f, p.l4) ELSE f

-----------------------------------------------------------------------------
(* An opening and the other side's answer.                                 *)

search_vnc_tcp(f, p) ==
  TwoSided(f, p, "VNC", "vnc_stage", "RFB 003.00" \in p.has, "RFB 003.00" \in p.has)

\* A slip of the stage: the side that opened is not recorded.
search_ssh_tcpSideForgotten(f, p) ==
  CASE f.stage.ssh_stage = 0 /\ "SSH-" \in p.has -> Set(f, "ssh_stage", 1)
    [] f.stage.ssh_stage # 0 /\ "SSH-" \in p.has -> Detect(f, "SSH")
    [] OTHER -> Exclude(f, "SSH")

search_ssh_tcp(f, p) ==
  TwoSided(f, p, "SSH", "ssh_stage", "SSH-" \in p.has, "SSH-" \in p.has)

\* Only login version 0x12 goes on: request, response 0x04, request 0x12.
search_tds_tcp(f, p) ==
  LET at(v) == f.stage.tds_stage = v
      stream == "tds header" \in p.has
      v12 == f.memo.tds_login_version = 18
  IN CASE stream /\ at(0) /\ p.id \in {2, 7, 18} ->
            Keep(Set(f, "tds_stage", 1 + p.dir), "tds_login_version", p.id)
       [] stream /\ at(2 - p.dir) /\ v12 /\ p.id = 4 -> Set(f, "tds_stage", 3 + p.dir)
       [] stream /\ at(4 - p.dir) /\ v12 /\ p.id = 18 -> Detect(f, "TDS")
       [] OTHER -> Exclude(f, "TDS")

\* An SSL request answered by S or N, or a startup answered by an
\* authentication request.  The stages 5 and 6 the code also tests are never set.
search_postgres_tcp(f, p) ==
  LET at(v) == f.stage.postgres_stage = v
  IN CASE at(0) /\ "pg ssl request" \in p.has -> Set(f, "postgres_stage", 1 + p.dir)
       [] at(0) /\ "pg startup" \in p.has -> Set(f, "postgres_stage", 3 + p.dir)
       [] at(2 - p.dir) /\ p.has \cap {"S", "N"} # {} -> Detect(f, "POSTGRES")
       [] at(4 - p.dir) /\ "pg auth" \in p.has -> Detect(f, "POSTGRES")
       [] at(6) /\ "pg p" \in p.has -> Detect(f, "POSTGRES")
       [] at(5) /\ "pg R" \in p.has -> Detect(f, "POSTGRES")
       [] OTHER -> Exclude(f, "POSTGRES")

\* A request to port 161 or 162 decides; otherwise the other side must answer
\* with the same message number.  A second request of the same side excludes.
search_snmp(f, p) ==
  LET message == "snmp version" \in p.has
      at(v) == f.stage.snmp_stage = v
  IN CASE message /\ at(0) /\ "port 161" \in p.has -> Detect(f, "SNMP")
       [] message /\ at(0) /\ "port 161" \notin p.has ->
            Keep(Set(f, "snmp_stage", 1 + p.dir), "snmp_msg_id", p.id)
       [] message /\ at(2 - p.dir) /\ f.memo.snmp_msg_id = p.id -> Detect(f, "SNMP")
       [] OTHER -> Exclude(f, "SNMP")

\* The server's 200 or 201, then the client's AUTHINFO USER or MODE READER.
search_usenet_tcp(f, p) ==
  LET at(v) == f.stage.usenet_stage = v
  IN CASE at(0) /\ "200 " \in p.has -> Set(f, "usenet_stage", 1 + p.dir)
       [] at(2 - p.dir) /\ "AUTHINFO USER " \in p.has ->
            Detect(Set(f, "usenet_stage", 3 + p.dir), "USENET")
       [] at(2 - p.dir) /\ "MODE READER" \in p.has -> Detect(f, "USENET")
       [] OTHER -> Exclude(f, "USENET")

-----------------------------------------------------------------------------
(* Several packets of the same kind.                                       *)

\* Block 1 of data, then its acknowledgement.  Packets that begin and end with
\* a zero leave the question open.
search_tftp(f, p) ==
  CASE f.stage.tftp_stage = 0 /\ "data 1" \in p.has -> Set(f, "tftp_stage", 1)
    [] f.stage.tftp_stage = 1 /\ "ack 1" \in p.has -> Detect(f, "TFTP")
    [] OTHER -> IF p.has \cap {"zero ends", "ack 0"} # {} THEN f ELSE Exclude(f, "TFTP")

\* A command IAC whose option is known, and only commands behind it.
search_iac(p) == "iac" \in p.has

search_telnet_tcpNoLimit(f, p) ==
  CASE search_iac(p) /\ f.stage.telnet_stage = 2 -> Detect(f, "TELNET")
    [] search_iac(p) /\ f.stage.telnet_stage # 2 ->
         Set(f, "telnet_stage", f.stage.telnet_stage + 1)
    [] OTHER -> IF f.stage.telnet_stage > 0 \/ f.packet_counter < 6
                THEN f ELSE Exclude(f, "TELNET")

\* Three packets of commands, among the first 12.
search_telnet_tcp(f, p) ==
  CASE search_iac(p) /\ f.stage.telnet_stage = 2 -> Detect(f, "TELNET")
    [] search_iac(p) /\ f.stage.telnet_stage # 2 ->
         Set(f, "telnet_stage", f.stage.telnet_stage + 1)
    [] OTHER -> IF \/ f.packet_counter < 12 /\ f.stage.telnet_stage > 0
                   \/ f.packet_counter < 6
                THEN f ELSE Exclude(f, "TELNET")
=============================================================================
