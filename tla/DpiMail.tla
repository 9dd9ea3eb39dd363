------------------------------ MODULE DpiMail ------------------------------
(***************************************************************************)
(* The dissectors of lib/protocols that count the commands of a text       *)
(* protocol: SMTP, POP, IMAP and FTP.                                      *)
(***************************************************************************)
EXTENDS DpiFlow

-----------------------------------------------------------------------------
(* Mail.  p.has names the commands the packet's lines begin with.          *)

SmtpCommands == {"220", "250", "235", "334", "354", "HELO", "MAIL", "RCPT", "AUTH",
                 "STARTTLS", "DATA", "NOOP", "RSET"}

\* Three different commands; while there is one, twelve packets' patience.
search_mail_smtp_tcp(f, p) ==
  LET g == [f EXCEPT !.commands.smtp = @ \cup (p.has \cap SmtpCommands)]
      bit_count == Cardinality(g.commands.smtp)
  IN IF "ends line" \notin p.has THEN Exclude(f, "MAIL_SMTP")
     ELSE IF bit_count >= 3 THEN Detect(g, "MAIL_SMTP")
     ELSE IF bit_count >= 1 /\ f.packet_counter < 12 THEN g
     ELSE Exclude(g, "MAIL_SMTP")

PopCommands == {"AUTH", "APOP", "USER", "PASS", "CAPA", "LIST", "STAT", "UIDL", "RETR", "DELE"}

int_mail_pop_check_for_client_commands(p) == p.has \cap PopCommands

\* The server's answers and the client's different commands add up.  An answer
\* or a command keeps the question open, whatever the number of packets; the
\* answers are counted in two bits, so the fifth counts as the first.
search_mail_pop_tcp(f, p) ==
  LET answer == p.has \cap {"+OK", "-ERR"} # {}
      said == int_mail_pop_check_for_client_commands(p)
      g == IF answer THEN Set(f, "mail_pop_stage", f.stage.mail_pop_stage + 1)
           ELSE [f EXCEPT !.commands.pop = @ \cup said]
      begun == f.commands.pop # {} \/ f.stage.mail_pop_stage # 0
  IN IF ~ answer /\ said = {}
     THEN IF ("ends line" \in p.has \/ begun) /\ f.packet_counter < 12 THEN f
          ELSE Exclude(f, "MAIL_POP")
     ELSE IF /\ "ends line" \in p.has
             /\ Cardinality(g.commands.pop) + g.stage.mail_pop_stage >= 3
     THEN Detect(g, "MAIL_POP") ELSE g

\* The words of IMAP behind a tag, or a DONE.
ImapCommands == {"OK ", "UID", "CAPABILITY", "STARTTLS", "LOGIN", "FETCH", "FLAGS", "CHECK",
                 "AUTHENTICATE", "NAMESPACE", "LSUB", "LIST", "NOOP", "IDLE", "SELECT", "EXISTS"}
ImapSaysCommand(p) ==
  "DONE" \in p.has \/ ("imap tag" \in p.has /\ p.has \cap ImapCommands # {})

search_mail_imap_tcp(f, p) ==
  LET saw_command == "ends line" \in p.has /\ ImapSaysCommand(p)
      g == IF saw_command THEN Set(f, "mail_imap_stage", f.stage.mail_imap_stage + 1) ELSE f
      stage == g.stage.mail_imap_stage
  IN IF saw_command /\ stage = 3 THEN Detect(g, "MAIL_IMAP")
     ELSE IF "ends line" \in p.has /\ f.packet_counter < 6 /\ stage >= 1 THEN g
     ELSE Exclude(g, "MAIL_IMAP")

-----------------------------------------------------------------------------
(* FTP.  A control connection is a greeting and a login.  Its PASV, EPSV,  *)
(* PORT and EPRT leave with each host the address of its peer ("ftp peer") *)
(* and a time stamp; a SYN between the two is then a data connection.      *)

\* The next record, and whether the search found anything.
search_ftp(f, p) ==
  LET at(v) == f.stage.ftp_stage = v
      greets == "220" \in p.has
  IN IF at(0) /\ greets THEN <<TRUE, Set(f, "ftp_stage", 1 + p.dir)>>
     ELSE IF at(1 + p.dir) /\ (f.packet_counter <= 10 \/ greets) THEN <<TRUE, f>>
     ELSE IF at(2 - p.dir) /\ "USER " \in p.has THEN <<TRUE, Detect(f, "FTP")>>
     ELSE IF at(2 - p.dir) /\ "FEAT" \in p.has THEN <<TRUE, Set(f, "ftp_stage", 3 + p.dir)>>
     ELSE IF at(4 - p.dir) /\ "211-" \in p.has THEN <<TRUE, Detect(f, "FTP")>>
     ELSE <<FALSE, f>>

\* Who now keeps the other's address.
FtpPeers(f, hosts) ==
  [Refresh(f, 0..1, "ftp") EXCEPT
     !.ports = [d \in 0..1 |-> IF d \in hosts THEN @[d] \cup {"ftp peer"} ELSE @[d] \ {"ftp peer"}]]

\* The server may name another address than its own in its 227 answer: the
\* client then keeps that one.
search_passive_ftp_mode(f, p) ==
  IF {"227 ", "address"} \subseteq p.has
  THEN FtpPeers(f, IF "own address" \in p.has THEN 0..1 ELSE {Src(p)})
  ELSE IF "229 " \in p.has THEN FtpPeers(f, 0..1) ELSE f

search_active_ftp_mode(f, p) ==
  IF p.has \cap {"PORT ", "EPRT "} # {} THEN FtpPeers(f, 0..1) ELSE f

\* A stale time stamp is taken away, which leaves it stale.
FtpData(f, p) ==
  /\ p.syn /\ ~ p.ack /\ f.marked = UNKNOWN /\ "ftp ports" \in p.has
  /\ \E d \in 0..1 : "ftp peer" \in f.ports[d] /\ "FTP" \in f.seen[d] /\ "ftp" \in f.fresh[d]

search_ftp_tcp(f, p) ==
  LET s == search_ftp(f, p)
  IN IF FtpData(f, p) THEN Detect(f, "FTP")
     ELSE IF p.len = 0 THEN f
     ELSE IF f.marked = "FTP" THEN search_active_ftp_mode(search_passive_ftp_mode(f, p), p)
     ELSE IF f.marked = UNKNOWN /\ s[1] THEN s[2]
     ELSE Exclude(f, "FTP")
=============================================================================
