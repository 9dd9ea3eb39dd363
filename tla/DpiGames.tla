------------------------------ MODULE DpiGames ------------------------------
(***************************************************************************)
(* The dissectors of lib/protocols for games and game platforms.           *)
(***************************************************************************)
EXTENDS DpiFlow

\* getInfo, challenge or getServers behind 0xffff, each in its own length.
search_quake(f, p) == OneLook(f, "quake query" \in p.has, "QUAKE")
\* One of three packet headers with their lengths.
search_secondlife(f, p) == OneLook(f, "secondlife header" \in p.has, "SECONDLIFE")

\* A login to port 3724; on a host that plays already, the server's answer.
search_worldofwarcraft(f, p) ==
  OneLook(f, /\ IsTcp(p)
             /\ \/ "wow login" \in p.has
                \/ "wow server" \in p.has /\ HostsHave(f, "WORLDOFWARCRAFT"),
          "WORLDOFWARCRAFT")

\* Four bytes to a port of 27030..27040, then one or five bytes 0x01.
search_steam(f, p) ==
  TwoSided(f, p, "STEAM", "steam_stage", "steam hello" \in p.has, "steam 01" \in p.has)

search_halflife2(f, p) ==
  TwoSided(f, p, "HALFLIFE2", "halflife2_stage", "hl2 frame" \in p.has, "hl2 frame" \in p.has)

\* On hosts that play already: a request 0xfefd and the answer with its number.
search_battlefield(f, p) ==
  LET ports == "port 27000" \in p.has /\ HostsHave(f, "BATTLEFIELD")
      at(v) == f.stage.battlefield_stage = v
      asks == ports /\ (at(0) \/ at(1 + p.dir)) /\ "fefd" \in p.has
      answers == ports /\ at(2 - p.dir) /\ f.memo.battlefield_msg_id = p.id
      timer == "battlefield"
  IN IF f.marked = "BATTLEFIELD"
     THEN IF timer \in f.fresh[Src(p)] THEN Refresh(f, {Src(p)}, timer)
          ELSE IF timer \in f.fresh[Dst(p)] THEN Refresh(f, {Dst(p)}, timer)
          ELSE f
     ELSE IF asks
     THEN Keep(Set(f, "battlefield_stage", 1 + p.dir), "battlefield_msg_id", p.id)
     ELSE IF answers \/ p.has \cap {"battlefield2", "bf header"} # {}
     THEN Refresh(Detect(f, "BATTLEFIELD"), 0..1, timer)
     ELSE Exclude(f, "BATTLEFIELD")

\* UDP only: one certain pattern, or twice one of the weak ones on port 3074.
\* The tcp side is left to the http dissector.
search_xbox(f, p) ==
  IF ~ IsUdp(p) THEN f
  ELSE IF "xbox key exchange" \in p.has THEN Detect(f, "XBOX")
  ELSE IF "xbox 3074" \in p.has
       THEN IF f.stage.xbox_stage = 1 THEN Detect(f, "XBOX")
            ELSE Set(f, "xbox_stage", f.stage.xbox_stage + 1)
  ELSE Exclude(f, "XBOX")
=============================================================================
