------------------------------ MODULE DpiHttp ------------------------------
(***************************************************************************)
(* The dissectors of http.c, which finds what is carried over HTTP, and of *)
(* directdownloadlink.c, which finds the hosts of file services.           *)
(* configured is the detection bitmask of the module.                      *)
(***************************************************************************)
EXTENDS DpiFlow

\* int_http_add_connection: the sender is noted as the server's direction.
int_http_add_connection(f, p, X) ==
  Detect(Set(Set(f, "http_detected", 1), "server_direction", p.dir), X)

\* The content types, and the protocol each stands for.
MpegTypes == {"audio/mpeg", "audio/x-mpeg", "audio/mpeg3", "audio/mp4a", "video/mpeg",
              "video/nsv", "misc/ultravox"}
OggTypes == {"audio/ogg", "video/ogg", "application/ogg"}
FlashTypes == {"video/flv", "video/x-flv", "application/x-fcs", "application/x-shockwave-flash",
               "video/flash", "application/flv", "flv-application/octet-stream"}
QuicktimeTypes == {"video/quicktime", "video/mp4", "video/x-m4v"}
RealmediaTypes == {"audio/x-pn-realaudio", "application/vnd.rn-realmedia"}
WindowsmediaTypes == {"video/x-ms-wmv", "video/x-ms-asf", "video/x-ms-asx", "video/x-msvideo",
                      "audio/x-wav", "application/vnd.ms.wms-hdr.asfv1"}
MmsTypes == {"application/x-mms-framed"}
OffTypes == {"off/"}
MoveTypes == {"application/qmx", "application/qss"}
XboxAgents == {"Xbox Live Client/"}
WinmediaAgents == {"NSPlayer/"}
QqHosts == {"host qq.com and cookie"}
RtspAccepts == {"application/x-rtsp-tunnelled"}

\* The lines in the order in which they are tried; a later one overrides.
HttpLines ==
  <<<<MpegTypes, "MPEG">>, <<FlashTypes, "FLASH">>, <<QuicktimeTypes, "QUICKTIME">>,
    <<RealmediaTypes, "REALMEDIA">>, <<WindowsmediaTypes, "WINDOWSMEDIA">>, <<MmsTypes, "MMS">>,
    <<OffTypes, "OFF">>, <<OggTypes, "OGG">>, <<MoveTypes, "MOVE">>, <<XboxAgents, "XBOX">>,
    <<WinmediaAgents, "WINDOWSMEDIA">>, <<QqHosts, "QQ">>, <<RtspAccepts, "RTSP">>>>

\* What is not configured is not tried, but Icy-MetaData stands for MPEG in any
\* configuration.
check_content_type_and_change_protocol(f, p, configured) ==
  LET tried == {i \in DOMAIN HttpLines : HttpLines[i][2] \in configured
                                         /\ HttpLines[i][1] \cap p.has # {}}
      icy == IF "Icy-MetaData" \in p.has THEN {"MPEG"} ELSE {}
      names == {HttpLines[i][2] : i \in tried} \cup icy
      last == IF icy # {} THEN "MPEG"
              ELSE HttpLines[CHOOSE i \in tried : \A j \in tried : j <= i][2]
      g == [f EXCEPT !.seen = [d \in 0..1 |-> @[d] \cup names]]
  IN IF names = {} THEN f ELSE int_http_add_connection(g, p, last)

flash_check_http_payload(f, p) ==
  IF {"empty line", "then FLV"} \subseteq p.has THEN int_http_add_connection(f, p, "FLASH") ELSE f

\* The body may begin behind the empty line or, if there is no room, in the next
\* packet.
avi_check_http_payload(f, p) ==
  LET avi == int_http_add_connection(f, p, "AVI")
      seen == f.stage.http_empty_line_seen = 1
      behind == "empty line" \in p.has
  IN IF ~ behind /\ ~ seen THEN f
     ELSE IF behind /\ "no room" \in p.has /\ ~ seen THEN Set(f, "http_empty_line_seen", 1)
     ELSE IF seen THEN Set(IF "begins RIFF AVI" \in p.has THEN avi ELSE f, "http_empty_line_seen", 0)
     ELSE IF "then RIFF AVI" \in p.has THEN avi ELSE f

check_http_payload(f, p, configured) ==
  LET g == IF "FLASH" \in configured THEN flash_check_http_payload(f, p) ELSE f
  IN IF "AVI" \in configured THEN avi_check_http_payload(g, p) ELSE g

\* One of the seven verbs.
http_request_url_offset(p) == "verb" \in p.has

http_bitmask_exclude(f) ==
  [f EXCEPT !.excluded = @ \cup {"HTTP", "MPEG", "QUICKTIME", "WINDOWSMEDIA", "REALMEDIA", "AVI",
                                 "OGG", "MOVE", "OFF", "XBOX"}]

\* A flow nothing is known of: the client's request in one or two packets.
HttpRequest(f, p, configured) ==
  LET stage == f.stage.http_stage
      client == f.stage.http_setup_dir = 1 + p.dir
      found == check_content_type_and_change_protocol(int_http_add_connection(f, p, "HTTP"),
                                                      p, configured)
      lines == "several lines" \in p.has
      version == lines /\ " HTTP/1." \in p.has
      host == "host line" \in p.has
  IN IF client /\ stage = 0 /\ http_request_url_offset(p) /\ ~ lines THEN Set(f, "http_stage", 1)
     ELSE IF client /\ stage = 0 /\ http_request_url_offset(p) /\ version
     THEN Set(found, "http_stage", IF host THEN 2 ELSE 1)
     ELSE IF client /\ stage = 1 /\ version THEN Set(found, "http_stage", 2)
     ELSE http_bitmask_exclude(f)

\* A flow that is known as HTTP or as something HTTP carries: requests and
\* answers in turn.
HttpParse(f, p, configured) ==
  LET stage == f.stage.http_stage
      client == f.stage.http_setup_dir = 1 + p.dir
      parse(g) == check_content_type_and_change_protocol(g, p, configured)
      request == http_request_url_offset(p) /\ {"several lines", " HTTP/1."} \subseteq p.has
      asked == parse(IF request THEN int_http_add_connection(f, p, "HTTP") ELSE f)
      told == parse(f)
      body == "empty line" \in p.has \/ told.stage.http_empty_line_seen = 1
      answered == IF body THEN check_http_payload(told, p, configured) ELSE told
  IN IF client
     THEN IF stage \in {0, 3} THEN Set(asked, "http_stage", IF "host line" \in p.has THEN 2 ELSE 1)
          ELSE IF stage = 1 THEN Set(told, "http_stage", 2)
          ELSE f
     ELSE IF stage > 0 THEN Set(answered, "http_stage", IF stage = 2 THEN 3 ELSE 0)
     ELSE f

search_http_tcp(f, p, configured) ==
  LET g == IF f.stage.http_setup_dir = 0 THEN Set(f, "http_setup_dir", 1 + p.dir) ELSE f
  IN IF f.marked \in HttpFamily THEN HttpParse(g, p, configured) ELSE HttpRequest(g, p, configured)

-----------------------------------------------------------------------------
(* Direct download links: the host of a request is, or is below, one of    *)
(* these domains.                                                          *)

DdlDomainsCom1 ==
  {"4shared.com", "filecloud.com", "files-upload.com", "megaupload.com", "rapidupload.com",
   "turboupload.com", "badongo.com", "fileho.com", "bestsharing.com", "quicksharing.com",
   "uploading.com", "sharebig.com", "bigfilez.com", "chinamofile.com", "mofile.com",
   "hotfile.com", "keepmyfile.com", "savefile.com", "sendmefile.com"}
DdlDomainsCom2 ==
  {"sharebigfile.com", "up-file.com", "easy-share.com", "fast-share.com", "live-share.com",
   "ftp2share.com", "gigeshare.com", "megashare.com", "rapidshare.com", "mediafire.com",
   "gigasize.com", "sendspace.com", "sharebee.com", "sharebigflie.com", "depositfiles.com",
   "megashares.com", "fileupyours.com", "filefactory.com", "filefront.com", "uploadingit.com"}
DdlDomainsNet ==
  {"yourfilehost.com", "mytempdir.com", "uploadpower.com", "badongo.net", "fast-load.net",
   "file-upload.net", "simpleupload.net", "wiiupload.net", "filesend.net", "filer.net",
   "livedepot.net", "mofile.net", "odsiebie.najlepsze.net", "zshare.net"}
DdlDomainsOther ==
  {"data.hu", "filearchiv.ru", "filepost.ru", "ifolder.ru", "filehost.tv", "filesafe.to",
   "sharebase.to", "files.to", "file-upload.to", "load.to", "uploaded.to", "leteckaposta.cz",
   "yourfiles.biz", "netload.in", "rapidshare.de", "ultrashare.de", "uploadyourfiles.de",
   "speedshare.org"}

search_ddl_domains(p) ==
  /\ {"GET or POST", "host line", " HTTP/1."} \subseteq p.has
  /\ p.has \cap (DdlDomainsCom1 \cup DdlDomainsCom2 \cup DdlDomainsNet \cup DdlDomainsOther) # {}

\* No caller in the repository sets the counter callback, which would change what
\* is searched.
search_direct_download_link_tcp(f, p) ==
  IF f.marked = "DIRECT_DOWNLOAD_LINK" THEN f
  ELSE IF search_ddl_domains(p)
  THEN Set(Detect(f, "DIRECT_DOWNLOAD_LINK"), "ddlink_server_direction", p.dir)
  ELSE Exclude(f, "DIRECT_DOWNLOAD_LINK")
=============================================================================
