----------------------------- MODULE DpiSharing -----------------------------
(***************************************************************************)
(* The dissectors of lib/protocols for file sharing.                       *)
(***************************************************************************)
EXTENDS DpiFlow

-----------------------------------------------------------------------------
(* Decided on the first packet they are shown.                             *)

search_openft_tcp(f, p) == OneLook(f, {"GET /", "X-OpenftAlias:"} \subseteq p.has, "OPENFT")
search_applejuice_tcp(f, p) == OneLook(f, "ajprot" \in p.has, "APPLEJUICE")
search_stealthnet(f, p) == OneLook(f, "LARS REGENSBURGER" \in p.has, "STEALTHNET")
search_kontiki(f, p) == OneLook(f, "kontiki header" \in p.has, "KONTIKI")

\* GIVE and a number, or a GET with a line of Kazaa or PeerEnabler; either ends
\* its line.
search_fasttrack_tcp(f, p) ==
  OneLook(f, /\ "ends line" \in p.has
             /\ "GIVE number" \in p.has \/ {"GET /", "X-Kazaa"} \subseteq p.has, "FASTTRACK")

\* The dissector does not return after it has detected.
search_socrates(f, p) ==
  LET found == "socrates" \in p.has /\ (IsTcp(p) => "own length" \in p.has)
  IN Exclude(IF found THEN Detect(f, "SOCRATES") ELSE f, "SOCRATES")

\* Three lengths in any order, then a packet that holds their sum.  p.num is the
\* number behind the tag, or one the packet holds.  Zero means not seen yet.
search_i23v5(f, p) ==
  LET sum == f.memo.i23v5_len1 + f.memo.i23v5_len2 + f.memo.i23v5_len3
      all == 0 \notin {f.memo.i23v5_len1, f.memo.i23v5_len2, f.memo.i23v5_len3}
  IN IF "i23 bits" \in p.has /\ "0d58" \in p.has THEN Keep(f, "i23v5_len1", p.num)
     ELSE IF "i23 bits" \in p.has /\ "0e58" \in p.has THEN Keep(f, "i23v5_len2", p.num)
     ELSE IF "i23 bits" \in p.has /\ "0f58" \in p.has THEN Keep(f, "i23v5_len3", p.num)
     ELSE Exclude(IF "i23 bits" \in p.has /\ all /\ p.num = sum
                  THEN Detect(f, "I23V5") ELSE f, "I23V5")

\* The header alone, over udp, leaves the question open.
search_pando_tcp_udp(f, p) ==
  LET header == IsUdp(p) /\ "pando header" \in p.has
  IN IF "Pando protocol" \in p.has /\ (IsTcp(p) \/ header) THEN Detect(f, "PANDO")
     ELSE IF header THEN f
     ELSE Exclude(f, "PANDO")

-----------------------------------------------------------------------------
(* Several packets.                                                        *)

\* Three packets of either side.
search_filetopia_tcp(f, p) ==
  LET stage == f.stage.filetopia_stage
  IN CASE stage = 0 /\ "filetopia hello" \in p.has -> Set(f, "filetopia_stage", 1)
       [] stage = 1 /\ "filetopia name" \in p.has -> Set(f, "filetopia_stage", 2)
       [] stage = 2 /\ "filetopia frame" \in p.has -> Detect(f, "FILETOPIA")
       [] OTHER -> Exclude(f, "FILETOPIA")

\* A single byte, or a packet that begins with 0x31, leaves the question open.
search_winmx_tcp(f, p) ==
  LET stage == f.stage.winmx_stage
  IN IF stage = 0 /\ "one byte or 31" \in p.has THEN f
     ELSE IF stage = 0 /\ "SEND" \in p.has THEN Set(f, "winmx_stage", 1)
     ELSE OneLook(f, \/ stage = 0 /\ "winmx GET" \in p.has
                     \/ stage = 1 /\ "name and number" \in p.has, "WINMX")

\* A client hello, then the other side's answer.  A flow that is known as
\* something else is left alone until the hello has been seen.  A build that sets
\* IPOQUE_EDONKEY_UPPER_PORTS_ONLY excludes flows of lower ports, by empty packets too.
check_edk_len(p) == "edk frames" \in p.has

int_edonkey_tcp(f, p) ==
  LET stage == f.stage.edk_stage
      answer == "edk answer" \in p.has \/ ("edk 40 or 4c" \in p.has /\ check_edk_len(p))
  IN IF "EDONKEY" \in f.excluded THEN f
     ELSE IF "edk lower port" \in p.has THEN Exclude(f, "EDONKEY")
     ELSE IF p.len = 0 THEN f
     ELSE IF stage = 0 /\ f.marked # UNKNOWN THEN f
     ELSE IF stage = 0 /\ "edk hello" \in p.has THEN Set(f, "edk_stage", 16 + p.dir)
     ELSE IF stage = 17 - p.dir /\ answer THEN Mark(f, "EDONKEY")
     ELSE Exclude(f, "EDONKEY")

search_edonkey(f, p) ==
  IF f.marked # "EDONKEY" /\ IsTcp(p) /\ ~ p.retransmission THEN int_edonkey_tcp(f, p) ELSE f

\* Only the first packet with payload is searched, and the protocol is never
\* excluded: a handshake, a web seed, or a client's GET request;
BitTorrentClient(p) ==
  p.has \cap {"BitTorrent protocol", "GET webseed", "GET data fid", "Azureus",
              "Shareaza queue", "self built client"} # {}

\* a tracker request with twenty bytes of hash, Warez, or the host ip2p.com.
BitTorrentTracker(p) == p.has \cap {"info_hash", "warez", "ip2p.com"} # {}

int_search_bittorrent_tcp(f, p) ==
  IF p.len = 0 \/ f.stage.bittorrent_stage # 0 THEN f
  ELSE LET g == Set(f, "bittorrent_stage", 1)
       IN IF BitTorrentClient(p) \/ BitTorrentTracker(p) THEN Mark(g, "BITTORRENT") ELSE g

search_bittorrent(f, p) ==
  IF f.marked # "BITTORRENT" /\ IsTcp(p) /\ (~ p.retransmission \/ p.retried)
  THEN int_search_bittorrent_tcp(f, p) ELSE f

-----------------------------------------------------------------------------
(* Thunder: four packets with its header, or over tcp a POST that carries  *)
(* one.  The search for its GET request does not end the search: what it   *)
(* detects may be excluded by the rest.                                    *)

int_thunder_add_connection(f) == Refresh(Detect(f, "THUNDER"), 0..1, "thunder")

int_search_thunder_udp(f, p) ==
  IF "thunder header" \notin p.has THEN Exclude(f, "THUNDER")
  ELSE IF f.stage.thunder_stage = 3 THEN int_thunder_add_connection(f)
  ELSE Set(f, "thunder_stage", f.stage.thunder_stage + 1)

int_search_thunder_tcp(f, p) ==
  IF /\ "thunder header" \notin p.has
     /\ f.stage.thunder_stage = 0
     /\ {"POST / HTTP/1.1", "thunder body"} \subseteq p.has
  THEN int_thunder_add_connection(f)
  ELSE int_search_thunder_udp(f, p)

\* A time stamp that is still fresh is renewed, which leaves it fresh.
int_search_thunder_http(f, p) ==
  IF /\ f.marked # "THUNDER"
     /\ {"GET /", "thunder lines"} \subseteq p.has
     /\ HostsHave(f, "THUNDER")
  THEN int_thunder_add_connection(f) ELSE f

search_thunder(f, p) ==
  IF IsTcp(p) THEN int_search_thunder_tcp(int_search_thunder_http(f, p), p)
  ELSE int_search_thunder_udp(f, p)

-----------------------------------------------------------------------------
(* Manolito.                                                               *)

int_manolito_add_connection(f, p) ==
  IF IsUdp(p) THEN Refresh(Detect(f, "MANOLITO"), 0..1, "manolito") ELSE Detect(f, "MANOLITO")

\* SIZ, STR, MD5 and GO!!, the two sides in turn.
search_manolito_tcp(f, p) ==
  LET at(v) == f.stage.manolito_stage = v
  IN CASE at(0) /\ "SIZ " \in p.has -> Set(f, "manolito_stage", 1 + p.dir)
       [] at(2 - p.dir) /\ "STR " \in p.has -> Set(f, "manolito_stage", 3 + p.dir)
       [] at(4 - p.dir) /\ "MD5 " \in p.has -> Set(f, "manolito_stage", 5 + p.dir)
       [] at(6 - p.dir) /\ "GO!!" \in p.has -> int_manolito_add_connection(f, p)
       [] OTHER -> Exclude(f, "MANOLITO")

\* udp: on port 41170, a host that used it lately, a message, or six packets'
\* patience.
search_manolito_tcp_udp(f, p) ==
  IF IsTcp(p) THEN search_manolito_tcp(f, p)
  ELSE IF f.detected = "MANOLITO" THEN Refresh(f, 0..1, "manolito")
  ELSE IF "port 41170" \notin p.has THEN Exclude(f, "MANOLITO")
  ELSE IF (\E d \in 0..1 : "manolito" \in f.fresh[d]) \/ "manolito message" \in p.has
  THEN int_manolito_add_connection(f, p)
  ELSE IF f.packet_counter < 7 THEN f
  ELSE Exclude(f, "MANOLITO")

-----------------------------------------------------------------------------
(* Aimini: six chronologies of four packets, each packet a length and a    *)
(* leading word.  The stage is 3 (c - 1) + n after n packets of            *)
(* chronology c.                                                           *)

Same(x) == <<{x}, {x}, {x}, {x}>>

AiminiChronology ==
  <<<<{"64 010b"}, {">100 0115"}, {"16 010c", "64 010b"},
      {"16 010c", "64 010b", ">100 0115"}>>,
    <<{"136 01c9"}, {"136 01c9"}, {"136 01c9"}, {"136 01c9", "32 01ca"}>>,
    Same("88 0101"),
    <<{"104 0102"}, {"104 0102"}, {"104 0102"}, {"104 0102", "32 01ca"}>>,
    <<{"32 01ca"}, {"32 01ca"}, {"32 01ca", "136 0166"}, {"32 01ca", "136 0166"}>>,
    Same("16 010c")>>

search_aimini(f, p) ==
  LET stage == f.stage.aimini_stage
      begun == {c \in 1..6 : p.has \cap AiminiChronology[c][1] # {}}
      n == ((stage - 1) % 3) + 1
      goesOn == p.has \cap AiminiChronology[((stage - 1) \div 3) + 1][n + 1] # {}
  IN IF stage = 0 /\ begun # {}
     THEN Set(f, "aimini_stage", 3 * (CHOOSE c \in begun : \A b \in begun : c <= b) - 2)
     ELSE IF stage = 0 \/ ~ goesOn THEN Exclude(f, "AIMINI")
     ELSE IF n = 3 THEN Detect(f, "AIMINI")
     ELSE Set(f, "aimini_stage", stage + 1)

-----------------------------------------------------------------------------
(* iMesh: patterns weigh two, or one, and four is enough.  A flow that     *)
(* reaches four is detected, and excluded in the same step.                *)

\* The eleven patterns of weight two, and the one of weight one.
ImeshWeight(p) ==
  CASE p.has \cap {"04 zeros", "?? 04 64", "06 00 04", "06 12 34", "06 02 33", "02 33",
                   "06 06 64", "own length zeros", "06 6c", "ee", "06 zeros"} # {} -> 2
    [] "06 00" \in p.has -> 1
    [] OTHER -> 0

search_imesh_tcp_udp(f, p) ==
  LET added == IF IsTcp(p) THEN Set(f, "imesh_stage", f.stage.imesh_stage + ImeshWeight(p)) ELSE f
      recent == \E d \in 0..1 : "imesh" \in f.fresh[d]
  IN IF f.marked = "IMESH" THEN Refresh(f, 0..1, "imesh")
     ELSE IF f.marked # UNKNOWN THEN Exclude(f, "IMESH")
     ELSE IF IsUdp(p) /\ "imesh 28" \in p.has
     THEN Detect(Refresh(f, 0..1, "imesh"), "IMESH")
     ELSE IF IsUdp(p) /\ "imesh 36" \in p.has
     THEN IF recent THEN Detect(f, "IMESH") ELSE f
     ELSE IF IsTcp(p) /\ p.len = 0 THEN f
     ELSE IF added.stage.imesh_stage >= 4 THEN Exclude(Detect(added, "IMESH"), "IMESH")
     ELSE IF f.packet_counter < 5 THEN added
     ELSE Exclude(added, "IMESH")

-----------------------------------------------------------------------------
(* Soulseek.                                                               *)

int_soulseek_add_connection(f) == Refresh(Detect(f, "SOULSEEK"), 0..1, "soulseek")

\* The port a host tells the server it listens on is kept once.
Listens(f, d) == [f EXCEPT !.ports[d] = @ \cup {"soulseek"}]

SoulseekRefresh(f, p) ==
  LET tells == "listen port message" \in p.has
  IN IF "431 bytes" \in p.has THEN Refresh(f, {Dst(p)}, "soulseek")
     ELSE IF tells THEN Refresh(f, {Src(p)}, "soulseek") ELSE f

\* The first packet: a login, a peer's message, or the port the host listens on;
\* two messages only open the exchange.
SoulseekFirst(f, p) ==
  IF "soulseek login" \in p.has THEN int_soulseek_add_connection(f)
  ELSE IF "7d message" \in p.has THEN Set(f, "soulseek_stage", 1 + p.dir)
  ELSE IF "listen port message" \in p.has /\ "soulseek" \notin f.ports[Src(p)]
  THEN int_soulseek_add_connection(Listens(f, Src(p)))
  ELSE IF "soulseek peer" \in p.has THEN int_soulseek_add_connection(f)
  ELSE IF "five bytes" \in p.has THEN Set(f, "soulseek_stage", 1 + p.dir)
  ELSE IF "soulseek user" \in p.has THEN int_soulseek_add_connection(f)
  ELSE Exclude(IF "listen port message" \in p.has
               THEN Refresh(f, {Src(p)}, "soulseek") ELSE f, "SOULSEEK")

\* A known flow is searched again, and may be excluded by a packet of its own.
search_soulseek_tcp(f, p) ==
  LET known == f.marked = "SOULSEEK"
      g == IF known THEN SoulseekRefresh(f, p) ELSE f
      at(v) == g.stage.soulseek_stage = v
      answers == at(2 - p.dir) /\ p.has \cap {"search result", "peer address", "code 4", "distance"} # {}
      repeats == at(1 + p.dir) /\ "03 31" \in p.has
  IN IF known /\ "431 bytes" \in p.has THEN g
     ELSE IF known /\ "listen port message" \in p.has /\ "soulseek" \notin f.ports[Src(p)]
     THEN Listens(g, Src(p))
     ELSE IF /\ "soulseek" \in g.ports[Dst(p)] /\ "to listen port" \in p.has
             /\ "soulseek" \in g.fresh[Dst(p)]
     THEN int_soulseek_add_connection(g)
     ELSE IF at(0) THEN SoulseekFirst(g, p)
     ELSE IF answers \/ repeats THEN int_soulseek_add_connection(g)
     ELSE IF at(2 - p.dir) /\ "four bytes" \in p.has THEN Set(g, "soulseek_stage", 3)
     ELSE IF at(3) /\ "8 bytes zero" \in p.has THEN int_soulseek_add_connection(g)
     ELSE IF g.packet_counter < 11 THEN g
     ELSE Exclude(g, "SOULSEEK")

-----------------------------------------------------------------------------
(* Gnutella.                                                               *)

\* Over udp the sender's port is kept, in the second place if the first is
\* taken: the port is compared with the first place in the other byte order, so
\* the same port takes both.
int_gnutella_add_connection(f, p) ==
  LET g == Refresh(Detect(f, "GNUTELLA"), 0..1, "gnutella")
      free == IF "gnutella1" \in f.ports[Src(p)] THEN "gnutella2" ELSE "gnutella1"
  IN IF IsUdp(p) THEN [g EXCEPT !.ports[Src(p)] = @ \cup {free}] ELSE g

\* A known flow drops the ports of a host whose time stamp is too old.
GnutellaRefresh(f) ==
  [f EXCEPT !.ports = [d \in 0..1 |-> IF "gnutella" \in f.fresh[d] THEN @[d]
                                      ELSE @[d] \ {"gnutella1", "gnutella2"}]]

\* The patterns that end the search, and the two that do not.
GnutellaTcp(p) ==
  \/ p.has \cap {"GNUTELLA/", "push-proxy", "PUSH guid", "GET gnutella foxy", "gnutella ssl"} # {}
  \/ {"GET /get/", "X-Gnutella-"} \subseteq p.has
GnutellaTcpGoesOn(p) == p.has \cap {"BearShare Lite", "urn:sha1:"} # {}
GnutellaUdp(p) == p.has \cap {"gnutella 23", "SCP@", "LIME", "urn:sha1:", "GND"} # {}

\* The first two packets of a flow between high ports, the second repeating
\* three bytes of the first.
GnutellaPorts(f, p) ==
  LET stage == f.stage.gnutella_stage
      repeats == "repeats three bytes" \in p.has /\ HostsHave(f, "GNUTELLA")
      opens == stage = 0 /\ f.packet_counter = 1 /\ "gnutella 11" \in p.has
      answers == \/ stage = 1 + p.dir /\ "33 or 22 bytes" \in p.has
                 \/ stage = 2 - p.dir /\ "10 or 75 bytes" \in p.has
  IN IF IsTcp(p) /\ "high ports" \in p.has /\ opens THEN Set(f, "gnutella_stage", 1 + p.dir)
     ELSE IF IsTcp(p) /\ "high ports" \in p.has /\ answers /\ repeats /\ f.packet_counter = 2
     THEN int_gnutella_add_connection(f, p)
     ELSE Exclude(f, "GNUTELLA")

search_gnutella(f, p) ==
  LET ownPort == /\ {"gnutella1", "gnutella2"} \cap f.ports[Src(p)] # {}
                 /\ "gnutella port" \in p.has
                 /\ "gnutella" \in f.fresh[Src(p)]
      found == (IsTcp(p) /\ GnutellaTcp(p)) \/ (IsUdp(p) /\ GnutellaUdp(p))
      goesOn == (IsTcp(p) /\ GnutellaTcpGoesOn(p)) \/ (IsUdp(p) /\ ownPort)
      g == IF goesOn THEN int_gnutella_add_connection(f, p) ELSE f
  IN IF f.marked = "GNUTELLA" THEN GnutellaRefresh(f)
     ELSE IF "one byte" \in p.has THEN f
     ELSE IF found THEN int_gnutella_add_connection(g, p)
     ELSE IF IsTcp(p) /\ "GIV" \in p.has THEN g
     ELSE GnutellaPorts(g, p)
=============================================================================
