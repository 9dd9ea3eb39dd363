----------------------------- MODULE SrpcProofs -----------------------------
(***************************************************************************)
(* The RPC engine for any number of calls, fragments and attempts and any  *)
(* capacity of the network.  Whether or not it keeps datagrams in order:   *)
(* types, and that no record of the server executes a call twice.  If it   *)
(* does: the two sides stay in step, and the promise of srpc.h is kept.    *)
(***************************************************************************)
EXTENDS Srpc, SequenceTheorems, TLAPS

LEMMA ProcFacts ==
  /\ Client \in Proc /\ Server \in Proc /\ Client # Server
  /\ \A p \in Proc : Other(p) \in Proc /\ Other(p) # p /\ Other(Other(p)) = p
  /\ Other(Client) = Server /\ Other(Server) = Client
  BY DEF Proc, Client, Server, Other

LEMMA StateNames ==
  /\ {"IDLE", "TIMEDOUT", "CONNECT_SENT", "QUERY_SENT", "FRAGMENT_SENT", "RESPONSE_SENT",
      "DISCONNECT_SENT", "SEQNO_SENT", "QACK_SENT", "FACK_SENT", "AWAITING_RESPONSE",
      "FACK_RECEIVED"} \subseteq States
  BY DEF States, Retrying, Quiet

-----------------------------------------------------------------------------
(* Operations on records keep their types.                                 *)

LEMMA Counters ==
  ATTEMPTS \in Nat /\ TICKS \in Nat /\ TICKS_BETWEEN_PINGS \in Nat /\ PINGS_BEFORE_PURGE \in Nat
  BY CounterAssumption

LEMMA SetStateTyped ==
  ASSUME NEW cr \in Records, NEW st \in States
  PROVE  /\ crecord_setState(cr, st) \in Records
         /\ crecord_setState(cr, st).id = cr.id
         /\ crecord_setState(cr, st).seqno = cr.seqno
         /\ crecord_setState(cr, st).pl = cr.pl
         /\ crecord_setState(cr, st).state = st
         /\ crecord_setState(cr, st).resp = cr.resp
         /\ crecord_setState(cr, st).lastFrag = cr.lastFrag
  BY Counters DEF crecord_setState, Records

LEMMA SetPayloadTyped ==
  ASSUME NEW cr \in Records, NEW pl \in Messages
  PROVE  /\ crecord_setPayload(cr, pl) \in Records
         /\ crecord_setPayload(cr, pl).id = cr.id
         /\ crecord_setPayload(cr, pl).seqno = cr.seqno
         /\ crecord_setPayload(cr, pl).pl = pl
         /\ crecord_setPayload(cr, pl).resp = cr.resp
         /\ crecord_setPayload(cr, pl).lastFrag = cr.lastFrag
  BY Counters DEF crecord_setPayload, Records

(* Payload and state together, as the handlers set them. *)
LEMMA PreparedTyped ==
  ASSUME NEW cr \in Records, NEW pl \in Messages, NEW st \in States
  PROVE  /\ crecord_setState(crecord_setPayload(cr, pl), st) \in Records
         /\ crecord_setState(crecord_setPayload(cr, pl), st).id = cr.id
         /\ crecord_setState(crecord_setPayload(cr, pl), st).seqno = cr.seqno
         /\ crecord_setState(crecord_setPayload(cr, pl), st).pl = pl
         /\ crecord_setState(crecord_setPayload(cr, pl), st).state = st
         /\ crecord_setState(crecord_setPayload(cr, pl), st).resp = cr.resp
         /\ crecord_setState(crecord_setPayload(cr, pl), st).lastFrag = cr.lastFrag
  BY SetStateTyped, SetPayloadTyped

LEMMA CreatedTyped ==
  ASSUME NEW seqno \in Nat, NEW id \in Nat, NEW pl \in Messages, NEW st \in States
  PROVE  LET r == crecord_setState(crecord_setPayload(crecord_create(seqno, id), pl), st)
         IN r \in Records /\ r.id = id /\ r.seqno = seqno /\ r.pl = pl /\ r.state = st
<1>1. << >> \in Buffers
  BY DEF Buffers
<1> QED
  BY <1>1, Counters
  DEF crecord_setState, crecord_setPayload, crecord_create, Records, NULL

LEMMA MessageTyped ==
  ASSUME NEW cmd \in Commands, NEW seqno \in Nat, NEW fnum \in Nat, NEW nfrags \in Nat,
         NEW body \in 0 .. MaxCalls
  PROVE  /\ Message(cmd, seqno, fnum, nfrags, body) \in Messages
         /\ Message(cmd, seqno, fnum, nfrags, body).cmd = cmd
         /\ Message(cmd, seqno, fnum, nfrags, body).seqno = seqno
         /\ Message(cmd, seqno, fnum, nfrags, body).fnum = fnum
         /\ Message(cmd, seqno, fnum, nfrags, body).nfrags = nfrags
         /\ Message(cmd, seqno, fnum, nfrags, body).body = body
  BY DEF Message, Messages

LEMMA ControlTyped ==
  ASSUME NEW cmd \in Commands, NEW seqno \in Nat
  PROVE  Control(cmd, seqno) \in Messages /\ Control(cmd, seqno).cmd = cmd
         /\ Control(cmd, seqno).seqno = seqno
<1>1. 0 \in 0 .. MaxCalls /\ 1 \in Nat
  BY SrpcAssumption
<1> QED
  BY <1>1, MessageTyped DEF Control

LEMMA CopiedTyped ==
  ASSUME NEW m \in Messages
  PROVE  Copied(m) \in Buffers
<1>1. <<m.body, m.fnum>> \in (0 .. MaxCalls) \X Nat /\ Junk \in (0 .. MaxCalls) \X Nat
      /\ m.nfrags \in Nat
  BY SrpcAssumption DEF Messages, Junk
<1> HIDE DEF Junk
<1>2. \A j \in 1 .. m.nfrags : (IF j = 1 THEN <<m.body, m.fnum>> ELSE Junk) \in (0 .. MaxCalls) \X Nat
  BY <1>1
<1> QED
  BY <1>1, <1>2 DEF Copied, Buffers

LEMMA FilledTyped ==
  ASSUME NEW buf \in Buffers, NEW m \in Messages
  PROVE  Filled(buf, m) \in Buffers
<1> DEFINE V == (0 .. MaxCalls) \X Nat
<1>1. <<m.body, m.fnum>> \in V /\ buf \in Seq(V)
  BY DEF Messages, Buffers
<1> HIDE DEF V
<1>2. [buf EXCEPT ![m.fnum] = <<m.body, m.fnum>>] \in Seq(V)
  <2>1. Len(buf) \in Nat /\ buf \in [1 .. Len(buf) -> V]
    BY <1>1
  <2>2. [buf EXCEPT ![m.fnum] = <<m.body, m.fnum>>] \in [1 .. Len(buf) -> V]
    BY <1>1, <2>1
  <2> QED
    BY <2>1, <2>2
<1> QED
  BY <1>2 DEF Filled, Buffers, V

LEMMA CallOfTyped ==
  ASSUME NEW buf, NEW n
  PROVE  CallOf(buf, n) \in 0 .. MaxCalls
<1>1. CASE \E k \in 1 .. MaxCalls : Complete(buf, k, n)
  <2>1. (CHOOSE k \in 1 .. MaxCalls : Complete(buf, k, n)) \in 1 .. MaxCalls
    BY <1>1
  <2> QED
    BY <1>1, <2>1, SrpcAssumption DEF CallOf
<1>2. CASE ~\E k \in 1 .. MaxCalls : Complete(buf, k, n)
  BY <1>2, SrpcAssumption DEF CallOf
<1> QED
  BY <1>1, <1>2

(* A datagram taken out of a queue. *)
LEMMA RemoveAtFacts ==
  ASSUME NEW T, NEW s \in Seq(T), NEW i \in 1 .. Len(s)
  PROVE  /\ RemoveAt(s, i) \in Seq(T)
         /\ \A j \in 1 .. Len(RemoveAt(s, i)) :
               \E k \in 1 .. Len(s) : RemoveAt(s, i)[j] = s[k]
<1> DEFINE a == SubSeq(s, 1, i - 1)
           b == SubSeq(s, i + 1, Len(s))
           n == Len(s)
<1>1. n \in Nat /\ i \in 1 .. n
  OBVIOUS
<1>2. a \in Seq(T) /\ Len(a) = i - 1 /\ \A j \in 1 .. i - 1 : a[j] = s[j]
  OBVIOUS
<1>3. b \in Seq(T) /\ Len(b) = n - i /\ \A j \in 1 .. n - i : b[j] = s[i + j]
  OBVIOUS
<1>4. RemoveAt(s, i) = a \o b
  BY DEF RemoveAt
<1> HIDE DEF a, b, n
<1>5. /\ a \o b \in Seq(T) /\ Len(a \o b) = n - 1
      /\ \A j \in 1 .. n - 1 : (a \o b)[j] = IF j <= i - 1 THEN a[j] ELSE b[j - (i - 1)]
  <2>1. PICK x \in Seq(T), y \in Seq(T) : x = a /\ y = b
    BY <1>2, <1>3
  <2>2. /\ x \o y \in Seq(T) /\ Len(x \o y) = Len(x) + Len(y)
        /\ \A j \in 1 .. Len(x) + Len(y) : (x \o y)[j] = IF j <= Len(x) THEN x[j] ELSE y[j - Len(x)]
    BY ConcatProperties
  <2>3. Len(x) = i - 1 /\ Len(x) + Len(y) = n - 1
    <3>1. Len(x) = i - 1 /\ Len(y) = n - i
      BY <1>2, <1>3, <2>1, Zenon
    <3>2. (i - 1) + (n - i) = n - 1
      BY <1>1
    <3> QED
      BY <3>1, <3>2, Zenon
  <2> QED
    BY <2>1, <2>2, <2>3, Zenon
<1>6. ASSUME NEW j \in 1 .. n - 1 PROVE \E k \in 1 .. n : (a \o b)[j] = s[k]
  <2>1. CASE j <= i - 1
    <3>1. j \in 1 .. n /\ (a \o b)[j] = s[j]
      BY <1>1, <1>2, <1>5, <2>1
    <3> QED
      BY <3>1
  <2>2. CASE ~(j <= i - 1)
    <3>1. PICK x \in 1 .. n - i : x = j - (i - 1)
      BY <1>1, <2>2
    <3>2. (a \o b)[j] = s[i + x] /\ i + x \in 1 .. n
      BY <1>1, <1>3, <1>5, <2>2, <3>1
    <3> QED
      BY <3>2
  <2> QED
    BY <2>1, <2>2
<1> QED
  BY <1>4, <1>5, <1>6 DEF n

(* A queue of datagrams stays one when a transmission finds room or is lost. *)
LEMMA SentFacts ==
  ASSUME NEW T, NEW q \in Seq(T), NEW out \in Seq(T)
  PROVE  Sent(q, out) \in Seq(T)
  BY DEF Sent

LEMMA DecTyped ==
  ASSUME NEW x \in Nat
  PROVE  Dec(x) \in Nat /\ Twice(x) \in Nat
  BY CounterAssumption DEF Dec, Twice

(* A tick touches the counters and the state of a record. *)
Ticked(r, cr) ==
  /\ r \in Records /\ r.id = cr.id /\ r.seqno = cr.seqno /\ r.pl = cr.pl
  /\ r.state \in {cr.state, "TIMEDOUT"} /\ r.resp = cr.resp /\ r.lastFrag = cr.lastFrag

LEMMA ScanTyped ==
  ASSUME NEW cr \in Records
  PROVE  Ticked(scan_record(cr), cr)
<1> USE DEF Ticked
<1>1. /\ Dec(cr.ticksLeft) \in Nat /\ Dec(cr.nattempts) \in Nat /\ Twice(cr.ticks) \in Nat
      /\ Dec(cr.ticksTilPing) \in Nat /\ Dec(cr.pingsTilPurge) \in Nat
      /\ TICKS_BETWEEN_PINGS \in Nat /\ 0 \in Nat
  BY DecTyped, Counters DEF Records
<1>2. Ticked([cr EXCEPT !.ticksLeft = Dec(cr.ticksLeft)], cr)
  BY <1>1 DEF Records
<1>3. Ticked([cr EXCEPT !.ticksLeft = 0, !.nattempts = 0], cr)
  BY <1>1 DEF Records
<1>4. Ticked([cr EXCEPT !.nattempts = Dec(cr.nattempts),
                       !.ticks = Twice(cr.ticks),
                       !.ticksLeft = Twice(cr.ticks)], cr)
  BY <1>1 DEF Records
<1>5. Ticked([cr EXCEPT !.ticksTilPing = Dec(cr.ticksTilPing)], cr)
  BY <1>1 DEF Records
<1>6. Ticked([cr EXCEPT !.ticksTilPing = 0, !.pingsTilPurge = 0], cr)
  BY <1>1 DEF Records
<1>7. Ticked([cr EXCEPT !.ticksTilPing = TICKS_BETWEEN_PINGS,
                       !.pingsTilPurge = Dec(cr.pingsTilPurge)], cr)
  BY <1>1 DEF Records
<1>8. Ticked(cr, cr)
  OBVIOUS
<1> HIDE DEF Ticked
<1> QED
  BY <1>2, <1>3, <1>4, <1>5, <1>6, <1>7, <1>8 DEF scan_record

LEMMA TickTyped ==
  ASSUME NEW cr \in Records
  PROVE  Ticked(after_tick(cr), cr)
<1>1. Ticked(scan_record(cr), cr)
  BY ScanTyped
<1>2. Ticked(crecord_setState(scan_record(cr), "TIMEDOUT"), cr)
  <2>1. scan_record(cr) \in Records
    BY <1>1 DEF Ticked
  <2> DEFINE t == scan_record(cr)
  <2>2. /\ crecord_setState(t, "TIMEDOUT") \in Records
        /\ crecord_setState(t, "TIMEDOUT").id = t.id
        /\ crecord_setState(t, "TIMEDOUT").seqno = t.seqno
        /\ crecord_setState(t, "TIMEDOUT").pl = t.pl
        /\ crecord_setState(t, "TIMEDOUT").state = "TIMEDOUT"
        /\ crecord_setState(t, "TIMEDOUT").resp = t.resp
        /\ crecord_setState(t, "TIMEDOUT").lastFrag = t.lastFrag
    <3> HIDE DEF t
    <3> QED
      BY <2>1, StateNames, SetStateTyped DEF t
  <2> HIDE DEF t
  <2>3. t.id = cr.id /\ t.seqno = cr.seqno /\ t.pl = cr.pl /\ t.resp = cr.resp /\ t.lastFrag = cr.lastFrag
    BY <1>1 DEF Ticked, t
  <2>4. Ticked(crecord_setState(t, "TIMEDOUT"), cr)
    BY <2>2, <2>3 DEF Ticked
  <2> QED
    BY <2>4 DEF t
<1> QED
  BY <1>1, <1>2 DEF after_tick

-----------------------------------------------------------------------------
(* Types.                                                                  *)

(* What a handler leaves behind. *)
LEMMA HandledTyped ==
  ASSUME TypeOK, NEW p \in Proc, NEW i \in 1 .. Len(net[p]),
         NEW r \in Records \cup {NoRecord}, NEW out \in Seq(Messages), Handled(p, i, r, out)
  PROVE  /\ rec' \in [Proc -> Records \cup {NoRecord}]
         /\ net' \in [Proc -> Seq(Messages)]
<1>1. net[p] \in Seq(Messages) /\ net[Other(p)] \in Seq(Messages) /\ Other(p) \in Proc
  BY ProcFacts DEF TypeOK
<1>2. RemoveAt(net[p], i) \in Seq(Messages)
  BY <1>1, RemoveAtFacts
<1>3. \A q \in Seq(Messages) : Sent(q, out) \in Seq(Messages)
  BY SentFacts
<1>4. net' \in [Proc -> Seq(Messages)]
  <2>1. net \in [Proc -> Seq(Messages)]
    BY DEF TypeOK
  <2>2. net' = [net EXCEPT ![p] = RemoveAt(net[p], i), ![Other(p)] = Sent(net[Other(p)], out)]
    BY <1>1, <2>1, ProcFacts DEF Handled
  <2> QED
    BY <1>1, <1>2, <1>3, <2>1, <2>2
<1>5. rec' \in [Proc -> Records \cup {NoRecord}]
  BY DEF Handled, TypeOK
<1> QED
  BY <1>4, <1>5

LEMMA OneMessage ==
  ASSUME NEW m \in Messages
  PROVE  <<m>> \in Seq(Messages) /\ Len(<<m>>) = 1 /\ <<m>>[1] = m
  OBVIOUS

LEMMA NoMessage ==
  << >> \in Seq(Messages) /\ Len(<< >>) = 0
  OBVIOUS

LEMMA MessageFields ==
  ASSUME NEW m \in Messages
  PROVE  m.cmd \in Commands /\ m.seqno \in Nat /\ m.fnum \in Nat /\ m.nfrags \in Nat
         /\ m.body \in 0 .. MaxCalls
  BY DEF Messages

LEMMA RecordFields ==
  ASSUME NEW cr \in Records
  PROVE  /\ cr.id \in Nat /\ cr.seqno \in Nat /\ cr.state \in States /\ cr.pl \in Messages
         /\ cr.resp \in Buffers /\ cr.lastFrag \in Nat
  BY DEF Records

(* The answer to a datagram. *)
LEMMA AnswerTyped ==
  ASSUME NEW m \in Messages, NEW cmd \in Commands
  PROVE  /\ Message(cmd, m.seqno, m.fnum, m.nfrags, 0) \in Messages
         /\ Message(cmd, m.seqno, m.fnum, m.nfrags, 0).cmd = cmd
         /\ Message(cmd, m.seqno, m.fnum, m.nfrags, 0).seqno = m.seqno
         /\ Message(cmd, m.seqno, m.fnum, m.nfrags, 0).fnum = m.fnum
<1>1. 0 \in 0 .. MaxCalls
  BY SrpcAssumption
<1> QED
  BY <1>1, MessageFields, MessageTyped

-----------------------------------------------------------------------------
(* What the fourteen handlers of the reader thread have in common.         *)

Answers == {<<"CONNECT", "CACK">>, <<"QUERY", "QACK">>, <<"RESPONSE", "RACK">>,
            <<"DISCONNECT", "DACK">>, <<"FRAGMENT", "FACK">>, <<"PING", "PACK">>,
            <<"SEQNO", "SACK">>}

(* p answers m with x, or transmits again what it last transmitted. *)
Answer(p, m, x) ==
  \/ known(p) /\ x = rec[p].pl
  \/ x \in Messages /\ <<m.cmd, x.cmd>> \in Answers /\ x.seqno = m.seqno

Change(p, m, r, out) ==
  /\ r \in Records \cup {NoRecord} /\ out \in Seq(Messages)
  /\ \A j \in 1 .. Len(out) : Answer(p, m, out[j])
  /\ r # NoRecord => /\ Answer(p, m, r.pl)
                     /\ r.state = "FACK_SENT" => \/ m.cmd = "FRAGMENT"
                                                 \/ known(p) /\ rec[p].state = "FACK_SENT"

(* The record stays, with its number or with one that the datagram brings. *)
Keeps(p, m, r) ==
  /\ UNCHANGED <<created, queue>>
  /\ r # NoRecord => /\ known(p) /\ r.id = rec[p].id
                     /\ \/ r.seqno = rec[p].seqno
                        \/ m.cmd = "FRAGMENT" /\ r.seqno = m.seqno /\ m.seqno = rec[p].seqno + 1
                        \/ m.cmd = "SEQNO" /\ r.seqno = m.seqno

(* A new record. *)
Makes(p, m, r) ==
  /\ m.cmd = "CONNECT" /\ ~known(p) /\ r \in Records
  /\ created' = created + 1 /\ r.id = created + 1 /\ r.seqno = m.seqno
  /\ UNCHANGED queue

(* A query is complete, and goes to the worker. *)
Queues(p, m, r) ==
  /\ m.cmd = "QUERY" /\ known(p) /\ r \in Records /\ r.id = rec[p].id
  /\ UNCHANGED created
  /\ \/ /\ StartsQuery(p, m) /\ r.seqno = m.seqno
        /\ queue' = Append(queue, [ep |-> rec[p].id, data |-> Copied(m)])
     \/ /\ EndsFragments(p, m) /\ r.seqno = rec[p].seqno
        /\ queue' = Append(queue, [ep |-> rec[p].id, data |-> Filled(rec[p].resp, m)])

Effect(p, i, m) ==
  \E r, out : /\ Handled(p, i, r, out) /\ Change(p, m, r, out)
              /\ Keeps(p, m, r) \/ Makes(p, m, r) \/ Queues(p, m, r)

LEMMA EffectIs ==
  ASSUME NEW p, NEW i, NEW m, NEW r, NEW out, Handled(p, i, r, out), Change(p, m, r, out),
         Keeps(p, m, r) \/ Makes(p, m, r) \/ Queues(p, m, r)
  PROVE  Effect(p, i, m)
  BY DEF Effect

LEMMA KnownRecord ==
  ASSUME TypeOK, NEW p \in Proc
  PROVE  /\ rec[p] \in Records \cup {NoRecord}
         /\ known(p) => rec[p] \in Records /\ rec[p].pl \in Messages /\ rec[p].state \in States
  BY RecordFields DEF TypeOK, known

(* Nothing is sent, and the record stays. *)
LEMMA IgnoredChange ==
  ASSUME TypeOK, NEW p \in Proc, NEW m \in Messages
  PROVE  Change(p, m, rec[p], << >>)
  BY KnownRecord, NoMessage DEF Change, Answer, known

(* Only the state of the record changes. *)
LEMMA StateChange ==
  ASSUME TypeOK, NEW p \in Proc, NEW m \in Messages, known(p), NEW st \in States,
         st # "FACK_SENT" \/ rec[p].state = "FACK_SENT",
         NEW out \in Seq(Messages), \A j \in 1 .. Len(out) : Answer(p, m, out[j])
  PROVE  /\ Change(p, m, crecord_setState(rec[p], st), out)
         /\ crecord_setState(rec[p], st).id = rec[p].id
         /\ crecord_setState(rec[p], st).seqno = rec[p].seqno
<1>1. rec[p] \in Records
  BY KnownRecord
<1>2. /\ crecord_setState(rec[p], st) \in Records
      /\ crecord_setState(rec[p], st).id = rec[p].id
      /\ crecord_setState(rec[p], st).seqno = rec[p].seqno
      /\ crecord_setState(rec[p], st).pl = rec[p].pl
  BY <1>1, SetStateTyped
<1>3. crecord_setState(rec[p], st).state = st
  BY <1>1 DEF crecord_setState, Records
<1> QED
  BY <1>2, <1>3 DEF Change, Answer

(* A record r with a new payload that is the answer, and a new state. *)
LEMMA AnsweredChange ==
  ASSUME TypeOK, NEW p \in Proc, NEW m \in Messages, NEW r \in Records,
         NEW x \in Messages, <<m.cmd, x.cmd>> \in Answers, x.seqno = m.seqno,
         NEW st \in States, st # "FACK_SENT" \/ m.cmd = "FRAGMENT"
  PROVE  LET q == crecord_setState(crecord_setPayload(r, x), st)
         IN Change(p, m, q, <<x>>) /\ q \in Records /\ q.id = r.id /\ q.seqno = r.seqno
<1> DEFINE q == crecord_setState(crecord_setPayload(r, x), st)
<1>1. q \in Records /\ q.id = r.id /\ q.seqno = r.seqno /\ q.pl = x
  BY PreparedTyped
<1>2. q.state = st
  <2>1. crecord_setPayload(r, x) \in Records
    BY SetPayloadTyped
  <2> QED
    BY <2>1 DEF crecord_setState, Records
<1>3. Answer(p, m, x)
  BY DEF Answer
<1> HIDE DEF q
<1>4. Change(p, m, q, <<x>>)
  BY <1>1, <1>2, <1>3, OneMessage DEF Change
<1> QED
  BY <1>1, <1>4 DEF q

LEMMA NoAnswer ==
  ASSUME NEW p, NEW m
  PROVE  << >> \in Seq(Messages) /\ \A j \in 1 .. Len(<< >>) : Answer(p, m, << >>[j])
<1>1. \A j \in 1 .. 0 : FALSE
  OBVIOUS
<1> QED
  BY <1>1, NoMessage

LEMMA PayloadAnswer ==
  ASSUME TypeOK, NEW p \in Proc, NEW m \in Messages, known(p)
  PROVE  <<rec[p].pl>> \in Seq(Messages) /\ \A j \in 1 .. Len(<<rec[p].pl>>) : Answer(p, m, <<rec[p].pl>>[j])
<1>1. rec[p].pl \in Messages
  BY KnownRecord
<1> QED
  BY <1>1, OneMessage DEF Answer

-----------------------------------------------------------------------------
(* The handlers one by one.                                                *)

LEMMA AcknowledgedEffect ==
  ASSUME TypeOK, NEW p \in Proc, NEW i \in 1 .. Len(net[p]), NEW m \in Messages,
         NEW st \in {"IDLE", "AWAITING_RESPONSE", "TIMEDOUT"}, Acknowledged(p, i, m, st)
  PROVE  Effect(p, i, m)
<1>1. UNCHANGED <<created, queue>>
  BY DEF Acknowledged
<1>2. CASE known(p) /\ m.seqno = rec[p].seqno
  <2>1. Handled(p, i, crecord_setState(rec[p], st), << >>)
    BY <1>2 DEF Acknowledged
  <2>2. st \in States /\ st # "FACK_SENT"
    BY StateNames
  <2>3. /\ Change(p, m, crecord_setState(rec[p], st), << >>)
        /\ crecord_setState(rec[p], st).id = rec[p].id
        /\ crecord_setState(rec[p], st).seqno = rec[p].seqno
    BY <1>2, <2>2, NoAnswer, StateChange
  <2>4. Keeps(p, m, crecord_setState(rec[p], st))
    BY <1>1, <1>2, <2>3 DEF Keeps
  <2> QED
    BY <2>1, <2>3, <2>4, EffectIs
<1>3. CASE ~(known(p) /\ m.seqno = rec[p].seqno)
  <2>1. Handled(p, i, rec[p], << >>)
    BY <1>3 DEF Acknowledged
  <2>2. Keeps(p, m, rec[p])
    BY <1>1 DEF Keeps, known
  <2> QED
    BY <2>1, <2>2, IgnoredChange, EffectIs
<1> QED
  BY <1>2, <1>3

LEMMA IgnoredEffect ==
  ASSUME TypeOK, NEW p \in Proc, NEW i \in 1 .. Len(net[p]), NEW m \in Messages,
         Handled(p, i, rec[p], << >>), UNCHANGED <<created, queue>>
  PROVE  Effect(p, i, m)
<1>1. Keeps(p, m, rec[p])
  BY DEF Keeps, known
<1> QED
  BY <1>1, IgnoredChange, EffectIs

LEMMA StateEffect ==
  ASSUME TypeOK, NEW p \in Proc, NEW i \in 1 .. Len(net[p]), NEW m \in Messages, known(p),
         NEW st \in States, st # "FACK_SENT" \/ rec[p].state = "FACK_SENT",
         NEW out \in Seq(Messages), \A j \in 1 .. Len(out) : Answer(p, m, out[j]),
         Handled(p, i, crecord_setState(rec[p], st), out), UNCHANGED <<created, queue>>
  PROVE  Effect(p, i, m)
<1>1. /\ Change(p, m, crecord_setState(rec[p], st), out)
      /\ crecord_setState(rec[p], st).id = rec[p].id
      /\ crecord_setState(rec[p], st).seqno = rec[p].seqno
  BY StateChange
<1>2. Keeps(p, m, crecord_setState(rec[p], st))
  BY <1>1 DEF Keeps
<1> QED
  BY <1>1, <1>2, EffectIs

LEMMA ConnectEffect ==
  ASSUME TypeOK, NEW p \in Proc, NEW i \in 1 .. Len(net[p]), NEW m \in Messages, CONNECT(p, i, m)
  PROVE  Effect(p, i, m)
<1> DEFINE new == AcceptedConnection(m.seqno, created + 1)
<1>1. m.cmd = "CONNECT" /\ UNCHANGED queue /\ m.seqno \in Nat /\ created \in Nat
  BY MessageFields DEF CONNECT, TypeOK
<1>2. CASE ~known(p) /\ Handled(p, i, new, <<new.pl>>) /\ created' = created + 1
  <2> DEFINE x == Control("CACK", m.seqno)
  <2>1. x \in Messages /\ x.cmd = "CACK" /\ x.seqno = m.seqno
    BY <1>1, ControlTyped DEF Commands
  <2> HIDE DEF x
  <2>2. new = crecord_setState(crecord_setPayload(crecord_create(m.seqno, created + 1), x), "IDLE")
    BY DEF AcceptedConnection, x
  <2> HIDE DEF new
  <2>3. new \in Records /\ new.id = created + 1 /\ new.seqno = m.seqno /\ new.pl = x
        /\ new.state = "IDLE"
    <3>1. created + 1 \in Nat /\ "IDLE" \in States
      BY <1>1, StateNames
    <3> QED
      BY <1>1, <2>1, <2>2, <3>1, CreatedTyped
  <2>5. Answer(p, m, new.pl)
    BY <1>1, <2>1, <2>3 DEF Answer, Answers
  <2>6. Change(p, m, new, <<new.pl>>)
    BY <2>1, <2>3, <2>5, OneMessage DEF Change
  <2>7. Makes(p, m, new)
    BY <1>1, <1>2, <2>3 DEF Makes
  <2> QED
    BY <1>2, <2>6, <2>7, EffectIs
<1>3. CASE /\ known(p) /\ rec[p].state = "IDLE"
           /\ Handled(p, i, crecord_setState(rec[p], "IDLE"), <<rec[p].pl>>) /\ UNCHANGED created
  BY <1>1, <1>3, PayloadAnswer, StateEffect, StateNames
<1>4. CASE Handled(p, i, rec[p], << >>) /\ UNCHANGED created
  BY <1>1, <1>4, IgnoredEffect
<1> HIDE DEF new
<1> QED
  BY <1>2, <1>3, <1>4 DEF CONNECT, new

LEMMA QueryEffect ==
  ASSUME TypeOK, NEW p \in Proc, NEW i \in 1 .. Len(net[p]), NEW m \in Messages, QUERY(p, i, m)
  PROVE  Effect(p, i, m)
<1> DEFINE cr == rec[p]
           qack == Message("QACK", m.seqno, m.fnum, m.nfrags, 0)
           accepted(r) == crecord_setState(crecord_setPayload(r, qack), "QACK_SENT")
<1>1. m.cmd = "QUERY" /\ UNCHANGED created
  BY DEF QUERY
<1>2. qack \in Messages /\ <<m.cmd, qack.cmd>> \in Answers /\ qack.seqno = m.seqno
  BY <1>1, AnswerTyped DEF Commands, Answers
<1>3. known(p) => cr \in Records /\ cr.id \in Nat /\ cr.seqno \in Nat
  BY KnownRecord, RecordFields
<1> HIDE DEF qack
<1>4. ASSUME NEW r \in Records
      PROVE  Change(p, m, accepted(r), <<qack>>) /\ accepted(r) \in Records
             /\ accepted(r).id = r.id /\ accepted(r).seqno = r.seqno
  <2>1. "QACK_SENT" \in States
    BY StateNames
  <2> QED
    BY <1>2, <2>1, AnsweredChange
<1>5. CASE /\ StartsQuery(p, m)
           /\ Handled(p, i, accepted([cr EXCEPT !.seqno = m.seqno]), <<qack>>)
           /\ queue' = Append(queue, [ep |-> cr.id, data |-> Copied(m)])
  <2> DEFINE r == [cr EXCEPT !.seqno = m.seqno]
  <2>1. known(p)
    BY <1>5 DEF StartsQuery
  <2>2. r \in Records /\ r.id = cr.id /\ r.seqno = m.seqno
    BY <1>3, <2>1, MessageFields DEF Records
  <2> HIDE DEF r
  <2>3. /\ Change(p, m, accepted(r), <<qack>>) /\ accepted(r) \in Records
        /\ accepted(r).id = cr.id /\ accepted(r).seqno = m.seqno
    BY <1>4, <2>2
  <2> HIDE DEF accepted
  <2>4. Queues(p, m, accepted(r))
    BY <1>1, <1>5, <2>1, <2>3 DEF Queues
  <2>5. Handled(p, i, accepted(r), <<qack>>)
    BY <1>5 DEF r
  <2> QED
    BY <2>3, <2>4, <2>5, EffectIs
<1>6. CASE /\ EndsFragments(p, m)
           /\ Handled(p, i, accepted([cr EXCEPT !.resp = NULL]), <<qack>>)
           /\ queue' = Append(queue, [ep |-> cr.id, data |-> Filled(cr.resp, m)])
  <2> DEFINE r == [cr EXCEPT !.resp = NULL]
  <2>1. known(p)
    BY <1>6 DEF EndsFragments
  <2>2. r \in Records /\ r.id = cr.id /\ r.seqno = cr.seqno
    <3>1. NULL \in Buffers
      BY DEF NULL, Buffers
    <3> QED
      BY <1>3, <2>1, <3>1 DEF Records
  <2> HIDE DEF r
  <2>3. /\ Change(p, m, accepted(r), <<qack>>) /\ accepted(r) \in Records
        /\ accepted(r).id = cr.id /\ accepted(r).seqno = cr.seqno
    BY <1>4, <2>2
  <2> HIDE DEF accepted
  <2>4. Queues(p, m, accepted(r))
    BY <1>1, <1>6, <2>1, <2>3 DEF Queues
  <2>5. Handled(p, i, accepted(r), <<qack>>)
    BY <1>6 DEF r
  <2> QED
    BY <2>3, <2>4, <2>5, EffectIs
<1>7. CASE /\ known(p) /\ Handled(p, i, crecord_setState(cr, cr.state), <<cr.pl>>)
           /\ UNCHANGED queue
  BY <1>1, <1>7, PayloadAnswer, KnownRecord, StateEffect
<1>8. CASE Handled(p, i, cr, << >>) /\ UNCHANGED queue
  BY <1>1, <1>8, IgnoredEffect
<1> QED
  BY <1>5, <1>6, <1>7, <1>8 DEF QUERY, qack

LEMMA ResponseEffect ==
  ASSUME TypeOK, NEW p \in Proc, NEW i \in 1 .. Len(net[p]), NEW m \in Messages, RESPONSE(p, i, m)
  PROVE  Effect(p, i, m)
<1> DEFINE cr == rec[p]
           rack == Message("RACK", m.seqno, m.fnum, m.nfrags, 0)
           accepted(r) == crecord_setState(crecord_setPayload(r, rack), "IDLE")
<1>1. m.cmd = "RESPONSE" /\ UNCHANGED <<created, queue>>
  BY DEF RESPONSE
<1>2. rack \in Messages /\ <<m.cmd, rack.cmd>> \in Answers /\ rack.seqno = m.seqno
  BY <1>1, AnswerTyped DEF Commands, Answers
<1>3. known(p) => cr \in Records /\ cr.resp \in Buffers
  BY KnownRecord, RecordFields
<1> HIDE DEF rack
<1>4. ASSUME NEW r \in Records, known(p), r.id = cr.id, r.seqno = cr.seqno,
             Handled(p, i, accepted(r), <<rack>>)
      PROVE  Effect(p, i, m)
  <2>1. "IDLE" \in States
    BY StateNames
  <2>2. /\ Change(p, m, accepted(r), <<rack>>)
        /\ accepted(r).id = cr.id /\ accepted(r).seqno = cr.seqno
    BY <1>2, <1>4, <2>1, AnsweredChange
  <2> HIDE DEF accepted
  <2>3. Keeps(p, m, accepted(r))
    BY <1>1, <1>4, <2>2 DEF Keeps
  <2> QED
    BY <1>4, <2>2, <2>3, EffectIs
<1>5. CASE known(p) /\ Handled(p, i, accepted([cr EXCEPT !.resp = Copied(m)]), <<rack>>)
  <2> DEFINE r == [cr EXCEPT !.resp = Copied(m)]
  <2>1. r \in Records /\ r.id = cr.id /\ r.seqno = cr.seqno
    BY <1>3, <1>5, CopiedTyped DEF Records
  <2>2. Handled(p, i, accepted(r), <<rack>>)
    BY <1>5
  <2> HIDE DEF r, accepted
  <2> QED
    BY <1>4, <1>5, <2>1, <2>2
<1>6. CASE known(p) /\ Handled(p, i, accepted([cr EXCEPT !.resp = Filled(@, m), !.lastFrag = m.fnum]),
                               <<rack>>)
  <2> DEFINE r == [cr EXCEPT !.resp = Filled(@, m), !.lastFrag = m.fnum]
  <2>1. r \in Records /\ r.id = cr.id /\ r.seqno = cr.seqno
    <3>1. Filled(cr.resp, m) \in Buffers /\ m.fnum \in Nat
      BY <1>3, <1>6, FilledTyped, MessageFields
    <3> QED
      BY <1>3, <1>6, <3>1 DEF Records
  <2>2. Handled(p, i, accepted(r), <<rack>>)
    BY <1>6
  <2> HIDE DEF r, accepted
  <2> QED
    BY <1>4, <1>6, <2>1, <2>2
<1>7. CASE Handled(p, i, cr, << >>)
  BY <1>1, <1>7, IgnoredEffect
<1> QED
  BY <1>5, <1>6, <1>7 DEF RESPONSE, EndsFragments, rack

LEMMA FragmentEffect ==
  ASSUME TypeOK, NEW p \in Proc, NEW i \in 1 .. Len(net[p]), NEW m \in Messages, FRAGMENT(p, i, m)
  PROVE  Effect(p, i, m)
<1> DEFINE cr == rec[p]
           fack == Message("FACK", m.seqno, m.fnum, m.nfrags, 0)
           accepted(r) == crecord_setState(crecord_setPayload([r EXCEPT !.lastFrag = m.fnum], fack),
                                           "FACK_SENT")
<1>1. m.cmd = "FRAGMENT" /\ UNCHANGED <<created, queue>>
  BY DEF FRAGMENT
<1>2. fack \in Messages /\ <<m.cmd, fack.cmd>> \in Answers /\ fack.seqno = m.seqno
  BY <1>1, AnswerTyped DEF Commands, Answers
<1>3. known(p) => cr \in Records /\ cr.resp \in Buffers /\ cr.seqno \in Nat
  BY KnownRecord, RecordFields
<1>0. m.seqno \in Nat /\ m.fnum \in Nat
  BY MessageFields
<1> HIDE DEF fack
<1>4. ASSUME NEW r \in Records, known(p), r.id = cr.id,
             r.seqno = cr.seqno \/ (r.seqno = m.seqno /\ m.seqno = cr.seqno + 1),
             Handled(p, i, accepted(r), <<fack>>)
      PROVE  Effect(p, i, m)
  <2>1. "FACK_SENT" \in States
    BY StateNames
  <2> DEFINE q == [r EXCEPT !.lastFrag = m.fnum]
  <2>2. q \in Records /\ q.id = cr.id /\ q.seqno = r.seqno
    BY <1>0, <1>4 DEF Records
  <2> HIDE DEF q
  <2> DEFINE z == crecord_setState(crecord_setPayload(q, fack), "FACK_SENT")
  <2>3. Change(p, m, z, <<fack>>) /\ z.id = cr.id /\ z.seqno = r.seqno
    BY <1>1, <1>2, <2>1, <2>2, AnsweredChange
  <2>4. Handled(p, i, z, <<fack>>)
    BY <1>4 DEF q
  <2> HIDE DEF z
  <2>5. Keeps(p, m, z)
    BY <1>1, <1>4, <2>3 DEF Keeps
  <2> QED
    BY <2>3, <2>4, <2>5, EffectIs
<1>5. ASSUME known(p), m.seqno = cr.seqno \/ m.seqno = cr.seqno + 1,
             Handled(p, i, accepted([cr EXCEPT !.seqno = m.seqno, !.resp = Copied(m)]), <<fack>>)
      PROVE  Effect(p, i, m)
  <2> DEFINE r == [cr EXCEPT !.seqno = m.seqno, !.resp = Copied(m)]
  <2>1. r \in Records /\ r.id = cr.id /\ r.seqno = m.seqno
    BY <1>0, <1>3, <1>5, CopiedTyped DEF Records
  <2>2. Handled(p, i, accepted(r), <<fack>>)
    BY <1>5
  <2> HIDE DEF r, accepted
  <2> QED
    BY <1>4, <1>5, <2>1, <2>2
<1>6. CASE known(p) /\ Handled(p, i, accepted([cr EXCEPT !.resp = Filled(@, m)]), <<fack>>)
  <2> DEFINE r == [cr EXCEPT !.resp = Filled(@, m)]
  <2>1. r \in Records /\ r.id = cr.id /\ r.seqno = cr.seqno
    <3>1. Filled(cr.resp, m) \in Buffers
      BY <1>3, <1>6, FilledTyped
    <3> QED
      BY <1>3, <1>6, <3>1 DEF Records
  <2>2. Handled(p, i, accepted(r), <<fack>>)
    BY <1>6
  <2> HIDE DEF r, accepted
  <2> QED
    BY <1>4, <1>6, <2>1, <2>2
<1>7. CASE known(p) /\ Handled(p, i, crecord_setState(cr, cr.state), <<cr.pl>>)
  BY <1>1, <1>7, PayloadAnswer, KnownRecord, StateEffect
<1>8. CASE Handled(p, i, cr, << >>)
  BY <1>1, <1>8, IgnoredEffect
<1>9. known(p) /\ m.seqno - cr.seqno = 1 => m.seqno = cr.seqno + 1
  BY <1>0, <1>3
<1> HIDE DEF accepted
<1> QED
  BY <1>5, <1>6, <1>7, <1>8, <1>9 DEF FRAGMENT, StartsQuery, fack, accepted

LEMMA DisconnectEffect ==
  ASSUME TypeOK, NEW p \in Proc, NEW i \in 1 .. Len(net[p]), NEW m \in Messages, DISCONNECT(p, i, m)
  PROVE  Effect(p, i, m)
<1> DEFINE x == Control("DACK", m.seqno)
<1>1. m.cmd = "DISCONNECT" /\ UNCHANGED <<created, queue>>
  BY DEF DISCONNECT
<1>2. x \in Messages /\ x.cmd = "DACK" /\ x.seqno = m.seqno
  BY MessageFields, ControlTyped DEF Commands
<1> HIDE DEF x
<1>3. <<x>> \in Seq(Messages) /\ \A j \in 1 .. Len(<<x>>) : Answer(p, m, <<x>>[j])
  BY <1>1, <1>2, OneMessage DEF Answer, Answers
<1>4. CASE known(p)
  <2>1. Handled(p, i, crecord_setState(rec[p], "TIMEDOUT"), <<x>>)
    BY <1>4 DEF DISCONNECT, x
  <2> QED
    BY <1>1, <1>3, <1>4, <2>1, StateEffect, StateNames
<1>5. CASE ~known(p)
  <2>1. Handled(p, i, NoRecord, <<x>>)
    BY <1>5 DEF DISCONNECT, x
  <2>2. Change(p, m, NoRecord, <<x>>) /\ Keeps(p, m, NoRecord)
    BY <1>1, <1>3 DEF Change, Keeps
  <2> QED
    BY <2>1, <2>2, EffectIs
<1> QED
  BY <1>4, <1>5

LEMMA FackEffect ==
  ASSUME TypeOK, NEW p \in Proc, NEW i \in 1 .. Len(net[p]), NEW m \in Messages, FACK(p, i, m)
  PROVE  Effect(p, i, m)
<1>1. UNCHANGED <<created, queue>>
  BY DEF FACK
<1>2. CASE known(p) /\ Handled(p, i, crecord_setState(rec[p], "FACK_RECEIVED"), << >>)
  BY <1>1, <1>2, NoAnswer, StateNames, StateEffect
<1>3. CASE Handled(p, i, rec[p], << >>)
  BY <1>1, <1>3, IgnoredEffect
<1> QED
  BY <1>2, <1>3 DEF FACK

LEMMA PingEffect ==
  ASSUME TypeOK, NEW p \in Proc, NEW i \in 1 .. Len(net[p]), NEW m \in Messages, PING(p, i, m)
  PROVE  Effect(p, i, m)
<1> DEFINE x == Control("PACK", m.seqno)
<1>1. m.cmd = "PING" /\ UNCHANGED <<created, queue>>
  BY DEF PING
<1>2. x \in Messages /\ x.cmd = "PACK" /\ x.seqno = m.seqno
  BY MessageFields, ControlTyped DEF Commands
<1> HIDE DEF x
<1>3. <<x>> \in Seq(Messages) /\ \A j \in 1 .. Len(<<x>>) : Answer(p, m, <<x>>[j])
  BY <1>1, <1>2, OneMessage DEF Answer, Answers
<1>4. CASE known(p)
  <2>1. Handled(p, i, rec[p], <<x>>)
    BY <1>4 DEF PING, x
  <2>2. Change(p, m, rec[p], <<x>>) /\ Keeps(p, m, rec[p])
    BY <1>1, <1>3, <1>4, KnownRecord DEF Change, Keeps, Answer
  <2> QED
    BY <2>1, <2>2, EffectIs
<1>5. CASE ~known(p)
  <2>1. Handled(p, i, rec[p], << >>)
    BY <1>5 DEF PING
  <2> QED
    BY <1>1, <2>1, IgnoredEffect
<1> QED
  BY <1>4, <1>5

LEMMA PackEffect ==
  ASSUME TypeOK, NEW p \in Proc, NEW i \in 1 .. Len(net[p]), NEW m \in Messages, PACK(p, i, m)
  PROVE  Effect(p, i, m)
<1>1. UNCHANGED <<created, queue>>
  BY DEF PACK
<1>2. CASE known(p)
  <2>1. Handled(p, i, crecord_setState(rec[p], rec[p].state), << >>)
    BY <1>2 DEF PACK
  <2>2. rec[p].state \in States
    BY <1>2, KnownRecord
  <2> QED
    BY <1>1, <1>2, <2>1, <2>2, NoAnswer, StateEffect
<1>3. CASE ~known(p)
  <2>1. Handled(p, i, rec[p], << >>)
    BY <1>3 DEF PACK, known
  <2> QED
    BY <1>1, <2>1, IgnoredEffect
<1> QED
  BY <1>2, <1>3

LEMMA SeqnoEffect ==
  ASSUME TypeOK, NEW p \in Proc, NEW i \in 1 .. Len(net[p]), NEW m \in Messages, SEQNO(p, i, m)
  PROVE  Effect(p, i, m)
<1> DEFINE x == Control("SACK", m.seqno)
<1>1. m.cmd = "SEQNO" /\ UNCHANGED <<created, queue>>
  BY DEF SEQNO
<1>2. x \in Messages /\ x.cmd = "SACK" /\ x.seqno = m.seqno /\ m.seqno \in Nat
  BY MessageFields, ControlTyped DEF Commands
<1> HIDE DEF x
<1>3. Answer(p, m, x)
  BY <1>1, <1>2 DEF Answer, Answers
<1> DEFINE r == [crecord_setPayload(rec[p], x) EXCEPT !.seqno = m.seqno]
           z == crecord_setState(r, "IDLE")
<1>4. CASE known(p) /\ Handled(p, i, z, <<x>>)
  <2>1. /\ crecord_setPayload(rec[p], x) \in Records
        /\ crecord_setPayload(rec[p], x).id = rec[p].id /\ crecord_setPayload(rec[p], x).pl = x
    BY <1>2, <1>4, KnownRecord, SetPayloadTyped
  <2>2. r \in Records /\ r.id = rec[p].id /\ r.seqno = m.seqno /\ r.pl = x
    BY <1>2, <2>1 DEF Records
  <2> HIDE DEF r
  <2>3. /\ z \in Records /\ z.id = rec[p].id /\ z.seqno = m.seqno /\ z.pl = x
    BY <2>2, StateNames, SetStateTyped
  <2>4. z.state = "IDLE"
    BY <2>2 DEF crecord_setState, Records
  <2> HIDE DEF z
  <2>5. Change(p, m, z, <<x>>) /\ Keeps(p, m, z)
    BY <1>1, <1>2, <1>3, <1>4, <2>3, <2>4, OneMessage DEF Change, Keeps
  <2> QED
    BY <1>4, <2>5, EffectIs
<1>5. CASE Handled(p, i, rec[p], << >>)
  BY <1>1, <1>5, IgnoredEffect
<1> HIDE DEF r, z
<1> QED
  BY <1>4, <1>5 DEF SEQNO, x, r, z

LEMMA SackEffect ==
  ASSUME TypeOK, NEW p \in Proc, NEW i \in 1 .. Len(net[p]), NEW m \in Messages, SACK(p, i, m)
  PROVE  Effect(p, i, m)
<1>1. UNCHANGED <<created, queue>>
  BY DEF SACK
<1>2. CASE known(p) /\ Handled(p, i, crecord_setState(rec[p], "IDLE"), << >>)
  BY <1>1, <1>2, NoAnswer, StateNames, StateEffect
<1>3. CASE Handled(p, i, rec[p], << >>)
  BY <1>1, <1>3, IgnoredEffect
<1> QED
  BY <1>2, <1>3 DEF SACK

(* Every handler, so every step of a reader. *)
LEMMA ReaderEffect ==
  ASSUME TypeOK, NEW p \in Proc, reader(p)
  PROVE  /\ \E i \in 1 .. Len(net[p]) : net[p][i] \in Messages /\ Effect(p, i, net[p][i])
         /\ UNCHANGED <<offered, app, worker, executed>>
<1>1. PICK i \in Arriving(p) :
          LET m == net[p][i] IN
          \/ CONNECT(p, i, m) \/ CACK(p, i, m)
          \/ QUERY(p, i, m) \/ QACK(p, i, m)
          \/ RESPONSE(p, i, m) \/ RACK(p, i, m)
          \/ DISCONNECT(p, i, m) \/ DACK(p, i, m)
          \/ FRAGMENT(p, i, m) \/ FACK(p, i, m)
          \/ PING(p, i, m) \/ PACK(p, i, m)
          \/ SEQNO(p, i, m) \/ SACK(p, i, m)
  BY DEF reader
<1>2. net[p] \in Seq(Messages)
  BY DEF TypeOK
<1>3. i \in 1 .. Len(net[p])
  <2>1. net[p] # << >> => Len(net[p]) \in Nat \ {0}
    BY <1>2
  <2> QED
    BY <2>1 DEF Arriving
<1>4. net[p][i] \in Messages
  BY <1>2, <1>3, ElementOfSeq
<1>5. Effect(p, i, net[p][i])
  <2> DEFINE m == net[p][i]
  <2> HIDE DEF m
  <2>1. m \in Messages
    BY <1>4 DEF m
  <2>2. \/ CONNECT(p, i, m) \/ QUERY(p, i, m) \/ RESPONSE(p, i, m) \/ DISCONNECT(p, i, m)
        \/ FRAGMENT(p, i, m) \/ FACK(p, i, m) \/ PING(p, i, m) \/ PACK(p, i, m)
        \/ SEQNO(p, i, m) \/ SACK(p, i, m)
        \/ Acknowledged(p, i, m, "IDLE") \/ Acknowledged(p, i, m, "AWAITING_RESPONSE")
        \/ Acknowledged(p, i, m, "TIMEDOUT")
    BY <1>1 DEF m, CACK, QACK, RACK, DACK
  <2>3. Effect(p, i, m)
    BY <1>3, <2>1, <2>2, ConnectEffect, QueryEffect, ResponseEffect, DisconnectEffect,
       FragmentEffect, FackEffect, PingEffect, PackEffect, SeqnoEffect, SackEffect,
       AcknowledgedEffect
  <2> QED
    BY <2>3 DEF m
<1> QED
  BY <1>3, <1>4, <1>5 DEF reader

-----------------------------------------------------------------------------
(* Type correctness of every step.                                         *)

LEMMA SendTyped ==
  ASSUME TypeOK, NEW p \in Proc, NEW out \in Seq(Messages), send_payload(p, out)
  PROVE  net' \in [Proc -> Seq(Messages)]
<1>1. net \in [Proc -> Seq(Messages)] /\ Other(p) \in Proc
  BY ProcFacts DEF TypeOK
<1>2. Sent(net[Other(p)], out) \in Seq(Messages)
  BY <1>1, SentFacts
<1> QED
  BY <1>1, <1>2 DEF send_payload

LEMMA ReaderTyped ==
  ASSUME TypeOK, NEW p \in Proc, reader(p)
  PROVE  TypeOK'
<1>1. PICK i \in 1 .. Len(net[p]) : net[p][i] \in Messages /\ Effect(p, i, net[p][i])
  BY ReaderEffect
<1> DEFINE m == net[p][i]
<1>2. m \in Messages
  BY <1>1
<1>3. PICK r, out : /\ Handled(p, i, r, out) /\ Change(p, m, r, out)
                    /\ Keeps(p, m, r) \/ Makes(p, m, r) \/ Queues(p, m, r)
  BY <1>1 DEF Effect
<1> HIDE DEF m
<1>4. r \in Records \cup {NoRecord} /\ out \in Seq(Messages)
  BY <1>3 DEF Change
<1>5. rec' \in [Proc -> Records \cup {NoRecord}] /\ net' \in [Proc -> Seq(Messages)]
  BY <1>3, <1>4, HandledTyped
<1>6. created' \in Nat
  BY <1>3 DEF Keeps, Makes, Queues, TypeOK
<1>7. queue' \in Seq([ep : Nat, data : Buffers])
  <2>1. queue \in Seq([ep : Nat, data : Buffers])
    BY DEF TypeOK
  <2>2. CASE Queues(p, m, r)
    <3>1. rec[p] \in Records /\ rec[p].id \in Nat /\ rec[p].resp \in Buffers
      BY <2>2, KnownRecord, RecordFields DEF Queues
    <3>2. Copied(m) \in Buffers /\ Filled(rec[p].resp, m) \in Buffers
      BY <1>2, <3>1, CopiedTyped, FilledTyped
    <3>3. /\ [ep |-> rec[p].id, data |-> Copied(m)] \in [ep : Nat, data : Buffers]
          /\ [ep |-> rec[p].id, data |-> Filled(rec[p].resp, m)] \in [ep : Nat, data : Buffers]
      BY <3>1, <3>2
    <3>4. \A e \in [ep : Nat, data : Buffers] : Append(queue, e) \in Seq([ep : Nat, data : Buffers])
      BY <2>1, AppendProperties
    <3> QED
      BY <2>2, <3>3, <3>4, Zenon DEF Queues
  <2> QED
    BY <1>3, <2>1, <2>2 DEF Keeps, Makes
<1>8. UNCHANGED <<offered, app, worker, executed>>
  BY ReaderEffect
<1> QED
  BY <1>5, <1>6, <1>7, <1>8 DEF TypeOK

LEMMA LoseTyped ==
  ASSUME TypeOK, NEW p \in Proc, lose(p)
  PROVE  TypeOK'
<1>1. PICK i \in Arriving(p) : net' = [net EXCEPT ![p] = RemoveAt(@, i)]
  BY DEF lose
<1>2. net \in [Proc -> Seq(Messages)] /\ net[p] \in Seq(Messages)
  BY DEF TypeOK
<1>3. i \in 1 .. Len(net[p])
  <2>1. net[p] # << >> => Len(net[p]) \in Nat \ {0}
    BY <1>2
  <2> QED
    BY <2>1 DEF Arriving
<1>4. RemoveAt(net[p], i) \in Seq(Messages)
  BY <1>2, <1>3, RemoveAtFacts
<1>5. net' \in [Proc -> Seq(Messages)]
  BY <1>1, <1>2, <1>4
<1> QED
  BY <1>5 DEF lose, TypeOK

(* What a tick transmits. *)
TickSends(cr) == CASE scan_list(cr) = "ping" -> <<Control("PING", cr.seqno)>>
                   [] scan_list(cr) = "retry" -> <<cr.pl>>
                   [] OTHER -> << >>

LEMMA TickSendsFacts ==
  ASSUME NEW cr \in Records
  PROVE  /\ TickSends(cr) \in Seq(Messages)
         /\ \A j \in 1 .. Len(TickSends(cr)) :
               TickSends(cr)[j] = cr.pl \/ TickSends(cr)[j] = Control("PING", cr.seqno)
<1>1. cr.pl \in Messages /\ Control("PING", cr.seqno) \in Messages
  BY RecordFields, ControlTyped DEF Commands
<1>2. TickSends(cr) \in {<<Control("PING", cr.seqno)>>, <<cr.pl>>, << >>}
  BY DEF TickSends
<1>3. CASE TickSends(cr) = << >>
  BY <1>3, NoMessage
<1>4. ASSUME NEW x \in Messages, TickSends(cr) = <<x>>
      PROVE  TickSends(cr) \in Seq(Messages) /\ \A j \in 1 .. Len(TickSends(cr)) : TickSends(cr)[j] = x
  BY <1>4, OneMessage
<1> QED
  BY <1>1, <1>2, <1>3, <1>4, Zenon

LEMMA TimerTyped ==
  ASSUME TypeOK, NEW p \in Proc, timer(p)
  PROVE  TypeOK'
<1>1. rec[p] \in Records
  BY KnownRecord DEF timer
<1>2. Ticked(after_tick(rec[p]), rec[p])
  BY <1>1, TickTyped
<1>3. rec' \in [Proc -> Records \cup {NoRecord}]
  <2>1. rec \in [Proc -> Records \cup {NoRecord}] /\ after_tick(rec[p]) \in Records
    BY <1>2 DEF TypeOK, Ticked
  <2>2. rec' = [rec EXCEPT ![p] = NoRecord] \/ rec' = [rec EXCEPT ![p] = after_tick(rec[p])]
    BY DEF timer
  <2> QED
    BY <2>1, <2>2
<1>4. net' \in [Proc -> Seq(Messages)]
  <2>1. CASE UNCHANGED net
    BY <2>1 DEF TypeOK
  <2>2. CASE send_payload(p, TickSends(rec[p]))
    BY <1>1, <2>2, TickSendsFacts, SendTyped
  <2> QED
    BY <2>1, <2>2 DEF timer, TickSends
<1> QED
  BY <1>3, <1>4 DEF timer, TypeOK

Pcs == {"start", "connect", "ready", "seqno", "fragment", "query", "disconnect", "over"}

Apps == [pc : Pcs, call : 0 .. MaxCalls, fnum : Nat,
         result : (0 .. MaxCalls) \cup {NoResult, Fail, Crash}]

(* The client transmits m with record cr. *)
LEMMA ClientSendsTyped ==
  ASSUME TypeOK, NEW cr \in Records, NEW m \in Messages, NEW st \in States, ClientSends(cr, m, st)
  PROVE  rec' \in [Proc -> Records \cup {NoRecord}] /\ net' \in [Proc -> Seq(Messages)]
<1>1. crecord_setState(crecord_setPayload(cr, m), st) \in Records
  BY PreparedTyped
<1>2. send_payload(Client, <<m>>) /\ <<m>> \in Seq(Messages)
  BY OneMessage DEF ClientSends
<1>3. net' \in [Proc -> Seq(Messages)]
  BY <1>2, ProcFacts, SendTyped
<1>4. rec' \in [Proc -> Records \cup {NoRecord}]
  BY <1>1 DEF ClientSends, TypeOK
<1> QED
  BY <1>3, <1>4

LEMMA ConnectTyped ==
  ASSUME TypeOK, rpc_connect
  PROVE  TypeOK'
<1> DEFINE m == Control("CONNECT", SeqnoStart)
<1>1. m \in Messages /\ SeqnoStart \in Nat /\ 0 \in Nat
  BY SrpcAssumption, ControlTyped DEF Commands
<1>2. crecord_setState(crecord_setPayload(crecord_create(SeqnoStart, 0), m), "CONNECT_SENT") \in Records
  BY <1>1, StateNames, CreatedTyped
<1>3. /\ rec' = [rec EXCEPT ![Client] = crecord_setState(crecord_setPayload(crecord_create(SeqnoStart, 0), m),
                                                         "CONNECT_SENT")]
      /\ send_payload(Client, <<m>>)
      /\ app' = [app EXCEPT !.pc = "connect"]
      /\ UNCHANGED <<offered, created, queue, worker, executed>>
  BY DEF rpc_connect, ClientSends, Untouched
<1>4. net' \in [Proc -> Seq(Messages)]
  <2>1. <<m>> \in Seq(Messages)
    BY <1>1, OneMessage
  <2> HIDE DEF m
  <2> QED
    BY <1>3, <2>1, ProcFacts, SendTyped
<1>5. rec' \in [Proc -> Records \cup {NoRecord}]
  BY <1>2, <1>3 DEF TypeOK
<1> QED
  BY <1>3, <1>4, <1>5 DEF TypeOK

LEMMA SendQueryTyped ==
  ASSUME TypeOK, NEW cr \in Records, NEW k \in 0 .. MaxCalls, NEW f \in Nat, SendQuery(cr, k, f), Untouched
  PROVE  TypeOK'
<1>0. QueryFrags \in Nat /\ cr.seqno \in Nat
  BY SrpcAssumption, RecordFields
<1>1. CASE f < QueryFrags
  <2> DEFINE r == [cr EXCEPT !.lastFrag = f]
             m == Message("FRAGMENT", cr.seqno, f, QueryFrags, k)
  <2>1. r \in Records /\ r.seqno = cr.seqno
    BY DEF Records
  <2>2. m \in Messages
    BY <1>0, MessageTyped DEF Commands
  <2>3. ClientSends(r, m, "FRAGMENT_SENT")
        /\ app' = [pc |-> "fragment", call |-> k, fnum |-> f, result |-> NoResult]
    BY <1>1 DEF SendQuery
  <2> HIDE DEF r, m
  <2>4. rec' \in [Proc -> Records \cup {NoRecord}] /\ net' \in [Proc -> Seq(Messages)]
    BY <2>1, <2>2, <2>3, StateNames, ClientSendsTyped
  <2> QED
    BY <2>3, <2>4 DEF TypeOK, Untouched
<1>2. CASE ~(f < QueryFrags)
  <2> DEFINE m == Message("QUERY", cr.seqno, f, QueryFrags, k)
  <2>2. m \in Messages
    BY <1>0, MessageTyped DEF Commands
  <2>3. ClientSends(cr, m, "QUERY_SENT")
        /\ app' = [pc |-> "query", call |-> k, fnum |-> f, result |-> NoResult]
    BY <1>2 DEF SendQuery
  <2> HIDE DEF m
  <2>4. rec' \in [Proc -> Records \cup {NoRecord}] /\ net' \in [Proc -> Seq(Messages)]
    BY <2>2, <2>3, StateNames, ClientSendsTyped
  <2> QED
    BY <2>3, <2>4 DEF TypeOK, Untouched
<1> QED
  BY <1>1, <1>2

LEMMA NextNumberTyped ==
  ASSUME NEW cr \in Records
  PROVE  /\ NextNumber(cr) \in Records /\ NextNumber(cr).seqno = cr.seqno + 1
         /\ NextNumber(cr).id = cr.id
  BY DEF NextNumber, Records

LEMMA ClientTyped ==
  ASSUME TypeOK, ClientStep
  PROVE  TypeOK'
<1>0. /\ app \in Apps /\ app.call \in 0 .. MaxCalls /\ app.fnum \in Nat /\ MaxCalls \in Nat
      /\ rec \in [Proc -> Records \cup {NoRecord}] /\ Client \in Proc
      /\ known(Client) => rec[Client] \in Records
  BY SrpcAssumption, KnownRecord, ProcFacts DEF TypeOK, Apps, Pcs
(* A step that leaves records and network alone. *)
<1>1. ASSUME app' \in Apps, UNCHANGED <<rec, net>>, Untouched PROVE TypeOK'
  BY <1>1 DEF TypeOK, Untouched, Apps, Pcs
<1>2. CASE CallFails /\ Untouched
  <2>1. app' \in Apps
    BY <1>0, <1>2 DEF CallFails, Apps, Pcs
  <2> QED
    BY <1>1, <1>2, <2>1 DEF CallFails
<1>3. CASE rpc_connect
  BY <1>3, ConnectTyped
<1>4. CASE rpc_connect_returns
  <2>1. app' \in Apps
    BY <1>0, <1>4 DEF rpc_connect_returns, Apps, Pcs
  <2>2. rec' \in [Proc -> Records \cup {NoRecord}]
    BY <1>0, <1>4 DEF rpc_connect_returns
  <2> QED
    BY <1>4, <2>1, <2>2 DEF rpc_connect_returns, TypeOK, Untouched, Apps, Pcs
<1>5. CASE rpc_call
  <2> DEFINE cr == rec[Client]
             k == app.call + 1
  <2>1. k \in 0 .. MaxCalls
    BY <1>0, <1>5 DEF rpc_call
  <2>2. CASE app' = [app EXCEPT !.call = k, !.result = Fail] /\ UNCHANGED <<rec, net>>
    <3>1. app' \in Apps
      BY <1>0, <2>1, <2>2 DEF Apps, Pcs
    <3> QED
      BY <1>1, <1>5, <2>2, <3>1 DEF rpc_call
  <2>3. CASE /\ known(Client)
             /\ ClientSends([cr EXCEPT !.seqno = SEQNO_START], Control("SEQNO", SEQNO_START), "SEQNO_SENT")
             /\ app' = [pc |-> "seqno", call |-> k, fnum |-> 0, result |-> NoResult]
    <3> DEFINE r == [cr EXCEPT !.seqno = SEQNO_START]
    <3>1. r \in Records /\ Control("SEQNO", SEQNO_START) \in Messages
      <4>1. SEQNO_START \in Nat
        BY DEF SEQNO_START
      <4> QED
        BY <1>0, <2>3, <4>1, ControlTyped DEF Records, Commands
    <3>2. ClientSends(r, Control("SEQNO", SEQNO_START), "SEQNO_SENT")
      BY <2>3
    <3> HIDE DEF r
    <3>3. rec' \in [Proc -> Records \cup {NoRecord}] /\ net' \in [Proc -> Seq(Messages)]
      BY <3>1, <3>2, StateNames, ClientSendsTyped
    <3>4. app' \in Apps
      BY <2>1, <2>3 DEF Apps, Pcs
    <3> QED
      BY <1>5, <3>3, <3>4 DEF rpc_call, Untouched, TypeOK, Apps, Pcs
  <2>4. CASE known(Client) /\ SendQuery(NextNumber(cr), k, 1)
    <3>1. NextNumber(cr) \in Records /\ 1 \in Nat
      BY <1>0, <2>4, NextNumberTyped
    <3>2. Untouched
      BY <1>5 DEF rpc_call
    <3> HIDE DEF k
    <3> QED
      BY <2>1, <2>4, <3>1, <3>2, SendQueryTyped
  <2> QED
    BY <1>5, <2>2, <2>3, <2>4 DEF rpc_call
<1>6. CASE rpc_call_seqno
  <2>1. CASE SendQuery(NextNumber(rec[Client]), app.call, 1)
    <3>1. NextNumber(rec[Client]) \in Records /\ 1 \in Nat /\ Untouched
      BY <1>0, <1>6, NextNumberTyped DEF rpc_call_seqno
    <3> QED
      BY <1>0, <2>1, <3>1, SendQueryTyped
  <2> QED
    BY <1>2, <1>6, <2>1 DEF rpc_call_seqno
<1>7. CASE rpc_call_fragment
  <2>1. CASE SendQuery(rec[Client], app.call, app.fnum + 1)
    <3>1. rec[Client] \in Records /\ app.fnum + 1 \in Nat /\ Untouched
      BY <1>0, <1>7 DEF rpc_call_fragment
    <3> QED
      BY <1>0, <2>1, <3>1, SendQueryTyped
  <2> QED
    BY <1>2, <1>7, <2>1 DEF rpc_call_fragment
<1>8. CASE rpc_call_returns
  <2>1. CallOf(rec[Client].resp, ResponseFrags) \in 0 .. MaxCalls
    BY CallOfTyped
  <2>2. app' \in Apps
    BY <1>0, <1>8, <2>1 DEF rpc_call_returns, Apps, Pcs
  <2>3. rec' \in [Proc -> Records \cup {NoRecord}]
    <3>1. rec[Client] \in Records /\ rec' = [rec EXCEPT ![Client].resp = NULL]
      BY <1>0, <1>8 DEF rpc_call_returns
    <3>2. NULL \in Buffers
      BY DEF NULL, Buffers
    <3>3. [rec[Client] EXCEPT !.resp = NULL] \in Records
      BY <3>1, <3>2 DEF Records
    <3> QED
      BY <1>0, <3>1, <3>3
  <2> QED
    BY <1>8, <2>2, <2>3 DEF rpc_call_returns, Untouched, TypeOK, Apps, Pcs
<1>9. CASE rpc_disconnect
  <2>1. CASE /\ known(Client)
             /\ ClientSends(rec[Client], Control("DISCONNECT", rec[Client].seqno), "DISCONNECT_SENT")
             /\ app' = [app EXCEPT !.pc = "disconnect"]
    <3>1. rec[Client] \in Records /\ Control("DISCONNECT", rec[Client].seqno) \in Messages
      BY <1>0, <2>1, RecordFields, ControlTyped DEF Commands
    <3>2. rec' \in [Proc -> Records \cup {NoRecord}] /\ net' \in [Proc -> Seq(Messages)]
      BY <2>1, <3>1, StateNames, ClientSendsTyped
    <3>3. app' \in Apps
      BY <1>0, <2>1 DEF Apps, Pcs
    <3> QED
      BY <1>9, <3>2, <3>3 DEF rpc_disconnect, Untouched, TypeOK, Apps, Pcs
  <2>2. CASE app' = [app EXCEPT !.pc = "over"] /\ UNCHANGED <<rec, net>>
    <3>1. app' \in Apps
      BY <1>0, <2>2 DEF Apps, Pcs
    <3> QED
      BY <1>1, <1>9, <2>2, <3>1 DEF rpc_disconnect
  <2> QED
    BY <1>9, <2>1, <2>2 DEF rpc_disconnect
<1>10. CASE rpc_disconnect_returns
  <2>1. app' \in Apps
    BY <1>0, <1>10 DEF rpc_disconnect_returns, Apps, Pcs
  <2> QED
    BY <1>1, <1>10, <2>1 DEF rpc_disconnect_returns
<1>11. CASE client_reads_freed
  <2>1. app' \in Apps
    BY <1>0, <1>11 DEF client_reads_freed, Apps, Pcs
  <2> QED
    BY <1>1, <1>11, <2>1 DEF client_reads_freed
<1> QED
  BY <1>3, <1>4, <1>5, <1>6, <1>7, <1>8, <1>9, <1>10, <1>11 DEF ClientStep

(* The server transmits a fragment of a response. *)
LEMMA SendResponseTyped ==
  ASSUME TypeOK, NEW cr \in Records, NEW k \in 0 .. MaxCalls, NEW f \in Nat, SendResponse(cr, k, f),
         UNCHANGED <<offered, created, queue, app, executed>>
  PROVE  TypeOK'
<1> DEFINE more == f < ResponseFrags
           m == Message(IF more THEN "FRAGMENT" ELSE "RESPONSE", cr.seqno, f, ResponseFrags, k)
           r == IF more THEN [cr EXCEPT !.lastFrag = f] ELSE cr
           st == IF more THEN "FRAGMENT_SENT" ELSE "RESPONSE_SENT"
<1>1. ResponseFrags \in Nat /\ cr.seqno \in Nat
  BY SrpcAssumption, RecordFields
<1>2. m \in Messages
  <2>1. (IF more THEN "FRAGMENT" ELSE "RESPONSE") \in Commands
    BY DEF Commands
  <2> QED
    BY <1>1, <2>1, MessageTyped
<1>3. r \in Records
  BY DEF Records
<1>4. st \in States
  BY StateNames
<1>5. /\ rec' = [rec EXCEPT ![Server] = crecord_setState(crecord_setPayload(r, m), st)]
      /\ send_payload(Server, <<m>>)
      /\ worker' = [worker EXCEPT !.pc = IF more THEN "fragment" ELSE "idle", !.fnum = f]
  BY DEF SendResponse
<1>6. worker' \in [pc : {"idle", "work", "fragment"}, ep : Nat, call : 0 .. MaxCalls, fnum : Nat]
  BY <1>5 DEF TypeOK
<1> HIDE DEF more, m, r, st
<1>7. net' \in [Proc -> Seq(Messages)]
  BY <1>2, <1>5, OneMessage, ProcFacts, SendTyped
<1>8. rec' \in [Proc -> Records \cup {NoRecord}]
  <2>1. crecord_setState(crecord_setPayload(r, m), st) \in Records
    BY <1>2, <1>3, <1>4, PreparedTyped
  <2> QED
    BY <1>5, <2>1 DEF TypeOK
<1> QED
  BY <1>6, <1>7, <1>8 DEF TypeOK

LEMMA WorkerTyped ==
  ASSUME TypeOK, WorkerStep
  PROVE  TypeOK'
<1> DEFINE W == [pc : {"idle", "work", "fragment"}, ep : Nat, call : 0 .. MaxCalls, fnum : Nat]
           E == [ep : Nat, call : 0 .. MaxCalls]
           Q == [ep : Nat, data : Buffers]
<1>0. /\ worker \in W /\ worker.call \in 0 .. MaxCalls /\ worker.fnum \in Nat
      /\ queue \in Seq(Q) /\ executed \in Seq(E)
      /\ known(Server) => rec[Server] \in Records
  BY KnownRecord, ProcFacts DEF TypeOK
<1>1. CASE rpc_query
  <2>1. Head(queue) \in Q /\ Tail(queue) \in Seq(Q)
    BY <1>0, <1>1, HeadTailProperties DEF rpc_query
  <2>2. CallOf(Head(queue).data, QueryFrags) \in 0 .. MaxCalls
    BY CallOfTyped
  <2>3. [ep |-> Head(queue).ep, call |-> CallOf(Head(queue).data, QueryFrags)] \in E
    BY <2>1, <2>2
  <2>4. executed' \in Seq(E)
    <3>1. \A e \in E : Append(executed, e) \in Seq(E)
      BY <1>0, AppendProperties
    <3> QED
      BY <1>1, <2>3, <3>1, Zenon DEF rpc_query
  <2>5. worker' \in W
    BY <1>1, <2>1, <2>2 DEF rpc_query
  <2> QED
    BY <1>1, <2>1, <2>4, <2>5 DEF rpc_query, TypeOK
(* The worker gives up and waits for the next query. *)
<1>2. ASSUME worker' = [worker EXCEPT !.pc = "idle"],
             UNCHANGED <<rec, net, offered, created, queue, app, executed>>
      PROVE  TypeOK'
  <2>1. worker' \in W
    BY <1>0, <1>2
  <2> QED
    BY <1>2, <2>1 DEF TypeOK
<1>3. CASE rpc_response
  <2>1. CASE known(Server) /\ SendResponse(rec[Server], worker.call, 1)
    <3>1. 1 \in Nat /\ UNCHANGED <<offered, created, queue, app, executed>>
      BY <1>3 DEF rpc_response
    <3> QED
      BY <1>0, <2>1, <3>1, SendResponseTyped
  <2> QED
    BY <1>2, <1>3, <2>1 DEF rpc_response
<1>4. CASE rpc_response_fragment
  <2>1. CASE known(Server) /\ SendResponse(rec[Server], worker.call, worker.fnum + 1)
    <3>1. worker.fnum + 1 \in Nat /\ UNCHANGED <<offered, created, queue, app, executed>>
      BY <1>0, <1>4 DEF rpc_response_fragment
    <3> QED
      BY <1>0, <2>1, <3>1, SendResponseTyped
  <2> QED
    BY <1>2, <1>4, <2>1 DEF rpc_response_fragment
<1>5. CASE worker_reads_freed
  BY <1>2, <1>5 DEF worker_reads_freed
<1> QED
  BY <1>1, <1>3, <1>4, <1>5 DEF WorkerStep

LEMMA InitTyped ==
  Init => TypeOK
<1> SUFFICES ASSUME Init PROVE TypeOK
  OBVIOUS
<1>1. rec \in [Proc -> Records \cup {NoRecord}] /\ net \in [Proc -> Seq(Messages)]
  BY NoMessage DEF Init
<1>2. 0 \in 0 .. MaxCalls
  BY SrpcAssumption
<1>3. /\ app \in Apps
      /\ worker \in [pc : {"idle", "work", "fragment"}, ep : Nat, call : 0 .. MaxCalls, fnum : Nat]
  BY <1>2 DEF Init, Apps, Pcs
<1>4. /\ queue \in Seq([ep : Nat, data : Buffers]) /\ executed \in Seq([ep : Nat, call : 0 .. MaxCalls])
      /\ offered \in BOOLEAN /\ created \in Nat
  <2>1. \A T : << >> \in Seq(T)
    OBVIOUS
  <2>2. queue = << >> /\ executed = << >> /\ offered = FALSE /\ created = 0
    BY DEF Init
  <2>3. 0 \in Nat /\ FALSE \in BOOLEAN
    OBVIOUS
  <2> QED
    BY <2>1, <2>2, <2>3, Zenon
<1> QED
  BY <1>1, <1>3, <1>4 DEF TypeOK, Apps, Pcs

LEMMA NextTyped ==
  TypeOK /\ [Next]_vars => TypeOK'
<1> SUFFICES ASSUME TypeOK, [Next]_vars PROVE TypeOK'
  OBVIOUS
<1>1. CASE rpc_offer
  BY <1>1 DEF rpc_offer, TypeOK
<1>2. CASE UNCHANGED vars
  BY <1>2 DEF vars, TypeOK
<1> QED
  BY <1>1, <1>2, ClientTyped, WorkerTyped, ReaderTyped, LoseTyped, TimerTyped DEF Next

(***************************************************************************)
(* Type correctness of the RPC engine, for every value of the constants:   *)
(* no handler, tick or API call of src/srpc.c leaves a record, a datagram, *)
(* the query list or a thread with a value outside its type.               *)
(***************************************************************************)
THEOREM TypeCorrect == Spec => []TypeOK
<1>1. Init => TypeOK
  BY InitTyped
<1>2. TypeOK /\ [Next]_vars => TypeOK'
  BY NextTyped
<1> QED
  BY <1>1, <1>2, PTL DEF Spec

-----------------------------------------------------------------------------
(***************************************************************************)
(* No record of the server executes a call twice.                          *)
(*                                                                         *)
(* The queries in flight, and the one the client would transmit again, are *)
(* ordered: a larger sequence number belongs to a later call.  The server  *)
(* accepts a query only with a number above its own, so behind everything  *)
(* that a record has accepted there are only later calls.                  *)
(***************************************************************************)

(* Queries of one datagram, and numbers that rpc_call need not reset. *)
ShortCalls == QueryFrags = 1 /\ SeqnoStart + MaxCalls <= SEQNO_LIMIT

(* What each side transmits. *)
CommandsOf(p) ==
  IF p = Client THEN {"CONNECT", "QUERY", "RACK", "FACK", "DISCONNECT", "PING", "PACK"}
                ELSE {"CACK", "QACK", "RESPONSE", "FRAGMENT", "DACK", "PING", "PACK"}

(* A datagram that p may have transmitted in the course of n calls. *)
Sound(p, m, n) ==
  /\ m.cmd \in CommandsOf(p) /\ m.seqno <= SeqnoStart + n
  /\ m.cmd = "QUERY" => m.fnum = 1 /\ m.nfrags = 1 /\ m.body \in 1 .. n

(* The queries the server may still receive. *)
Data == {m \in Messages :
           /\ m.cmd = "QUERY"
           /\ \/ \E i \in 1 .. Len(net[Server]) : net[Server][i] = m
              \/ known(Client) /\ rec[Client].pl = m}

(* The calls accepted so far: handed to the worker, or waiting for it. *)
Accepted(q) == [ep |-> q.ep, call |-> CallOf(q.data, QueryFrags)]

Log == [n \in 1 .. Len(executed) + Len(queue) |->
          IF n <= Len(executed) THEN executed[n] ELSE Accepted(queue[n - Len(executed)])]

AllSound ==
  \A p \in Proc : /\ \A i \in 1 .. Len(net[Other(p)]) : Sound(p, net[Other(p)][i], app.call)
                  /\ known(p) => /\ Sound(p, rec[p].pl, app.call)
                                 /\ rec[p].seqno <= SeqnoStart + app.call

NoFragments == /\ app.pc \notin {"seqno", "fragment"}
               /\ known(Server) => rec[Server].state # "FACK_SENT"

DataOrdered ==
  /\ app.pc = "start" => Data = {}
  /\ known(Client) => \A d \in Data : d.seqno <= rec[Client].seqno
  /\ \A d, e \in Data : d.seqno < e.seqno => d.body < e.body

LogOrdered ==
  /\ \A n \in DOMAIN Log : Log[n].ep <= created /\ Log[n].call \in 1 .. app.call
  /\ \A n, k \in DOMAIN Log : n < k /\ Log[n].ep = Log[k].ep => Log[n].call < Log[k].call

(* What the server's record would still accept is later than what it has. *)
Ahead ==
  known(Server) =>
     /\ rec[Server].id <= created
     /\ \A n \in DOMAIN Log : \A d \in Data :
           Log[n].ep = rec[Server].id /\ d.seqno > rec[Server].seqno => d.body > Log[n].call

OInv == TypeOK /\ AllSound /\ NoFragments /\ DataOrdered /\ LogOrdered /\ Ahead

(* The new datagrams on their way to q are among `new'. *)
Grows(q, new) ==
  \A j \in 1 .. Len(net'[q]) : \/ \E k \in 1 .. Len(net[q]) : net'[q][j] = net[q][k]
                               \/ net'[q][j] \in new

(* The datagrams of a sequence. *)
Elements(out) == {out[k] : k \in 1 .. Len(out)}

LEMMA ElementsOfOne ==
  ASSUME NEW m \in Messages
  PROVE  Elements(<<m>>) = {m}
  BY OneMessage DEF Elements

(* What is in a queue after a transmission was there, or was transmitted. *)
LEMMA SentElements ==
  \A q, out \in Seq(Messages) : \A j \in 1 .. Len(Sent(q, out)) :
      \/ \E k \in 1 .. Len(q) : Sent(q, out)[j] = q[k]
      \/ Sent(q, out)[j] \in Elements(out)
<1> SUFFICES ASSUME NEW q \in Seq(Messages), NEW out \in Seq(Messages), NEW j \in 1 .. Len(Sent(q, out))
             PROVE  \/ \E k \in 1 .. Len(q) : Sent(q, out)[j] = q[k]
                    \/ Sent(q, out)[j] \in Elements(out)
  OBVIOUS
<1>1. CASE Sent(q, out) = q
  BY <1>1
<1>2. CASE Sent(q, out) = q \o out
  <2>1. Len(q \o out) = Len(q) + Len(out) /\ j \in 1 .. Len(q \o out) /\ Len(q) \in Nat /\ Len(out) \in Nat
    BY <1>2
  <2>2. CASE j <= Len(q)
    <3>1. j \in 1 .. Len(q) /\ (q \o out)[j] = q[j]
      BY <2>1, <2>2
    <3> QED
      BY <1>2, <3>1, Zenon
  <2>3. CASE j > Len(q)
    <3>1. j - Len(q) \in 1 .. Len(out) /\ (q \o out)[j] = out[j - Len(q)]
      BY <2>1, <2>3
    <3> QED
      BY <1>2, <3>1, Zenon DEF Elements
  <2> QED
    BY <2>1, <2>2, <2>3
<1> QED
  BY <1>1, <1>2 DEF Sent

LEMMA HandledGrows ==
  ASSUME TypeOK, NEW p \in Proc, NEW i \in 1 .. Len(net[p]), NEW r, NEW out \in Seq(Messages),
         Handled(p, i, r, out)
  PROVE  /\ Grows(p, {}) /\ Grows(Other(p), Elements(out))
         /\ rec'[p] = r /\ rec'[Other(p)] = rec[Other(p)]
<1>1. /\ net \in [Proc -> Seq(Messages)] /\ rec \in [Proc -> Records \cup {NoRecord}]
      /\ net[p] \in Seq(Messages) /\ net[Other(p)] \in Seq(Messages) /\ Other(p) \in Proc /\ Other(p) # p
  BY ProcFacts DEF TypeOK
<1>2. net'[p] = RemoveAt(net[p], i) /\ net'[Other(p)] = Sent(net[Other(p)], out)
  BY <1>1 DEF Handled
<1>3. Grows(p, {})
  <2>1. \A j \in 1 .. Len(RemoveAt(net[p], i)) : \E k \in 1 .. Len(net[p]) : RemoveAt(net[p], i)[j] = net[p][k]
    BY <1>1, RemoveAtFacts
  <2> QED
    BY <1>2, <2>1 DEF Grows
<1>4. Grows(Other(p), Elements(out))
  <2>1. \A j \in 1 .. Len(Sent(net[Other(p)], out)) :
            \/ \E k \in 1 .. Len(net[Other(p)]) : Sent(net[Other(p)], out)[j] = net[Other(p)][k]
            \/ Sent(net[Other(p)], out)[j] \in Elements(out)
    BY <1>1, SentElements, Zenon
  <2> QED
    BY <1>2, <2>1, Zenon DEF Grows
<1>5. rec'[p] = r /\ rec'[Other(p)] = rec[Other(p)]
  BY <1>1 DEF Handled
<1> QED
  BY <1>3, <1>4, <1>5

LEMMA SendGrows ==
  ASSUME TypeOK, NEW p \in Proc, NEW out \in Seq(Messages), send_payload(p, out)
  PROVE  Grows(p, {}) /\ Grows(Other(p), Elements(out))
<1>1. /\ net \in [Proc -> Seq(Messages)] /\ net[p] \in Seq(Messages)
      /\ net[Other(p)] \in Seq(Messages) /\ Other(p) \in Proc /\ Other(p) # p
  BY ProcFacts DEF TypeOK
<1>2. net'[p] = net[p] /\ net'[Other(p)] = Sent(net[Other(p)], out)
  BY <1>1 DEF send_payload
<1>3. \A j \in 1 .. Len(Sent(net[Other(p)], out)) :
          \/ \E k \in 1 .. Len(net[Other(p)]) : Sent(net[Other(p)], out)[j] = net[Other(p)][k]
          \/ Sent(net[Other(p)], out)[j] \in Elements(out)
  BY <1>1, SentElements, Zenon
<1> QED
  BY <1>2, <1>3, Zenon DEF Grows

LEMMA LoseGrows ==
  ASSUME TypeOK, NEW p \in Proc, lose(p)
  PROVE  \A q \in Proc : Grows(q, {})
<1>1. PICK i \in Arriving(p) : net' = [net EXCEPT ![p] = RemoveAt(@, i)]
  BY DEF lose
<1>2. net \in [Proc -> Seq(Messages)] /\ net[p] \in Seq(Messages)
  BY DEF TypeOK
<1>3. i \in 1 .. Len(net[p])
  <2>1. net[p] # << >> => Len(net[p]) \in Nat \ {0}
    BY <1>2
  <2> QED
    BY <2>1 DEF Arriving
<1>4. \A j \in 1 .. Len(RemoveAt(net[p], i)) : \E k \in 1 .. Len(net[p]) : RemoveAt(net[p], i)[j] = net[p][k]
  BY <1>2, <1>3, RemoveAtFacts
<1>5. net'[p] = RemoveAt(net[p], i) /\ \A q \in Proc : q # p => net'[q] = net[q]
  BY <1>1, <1>2
<1> QED
  BY <1>4, <1>5 DEF Grows

LEMMA SameGrows ==
  ASSUME UNCHANGED net
  PROVE  \A q \in Proc : Grows(q, {})
  BY DEF Grows

(* A query the server may receive is one that the client may have sent. *)
LEMMA DataSound ==
  ASSUME TypeOK, AllSound, NEW d \in Data
  PROVE  d \in Messages /\ d.seqno \in Nat /\ d.body \in Nat /\ Sound(Client, d, app.call)
<1>1. d \in Messages /\ d.seqno \in Nat /\ d.body \in Nat
  BY MessageFields, SrpcAssumption DEF Data
<1>2. Sound(Client, d, app.call)
  BY ProcFacts DEF Data, AllSound
<1> QED
  BY <1>1, <1>2

LEMMA SoundLater ==
  ASSUME NEW p, NEW m \in Messages, NEW a \in Nat, NEW b \in Nat, a <= b, Sound(p, m, a)
  PROVE  Sound(p, m, b)
  BY SrpcAssumption, MessageFields DEF Sound

LEMMA AppFacts ==
  ASSUME TypeOK
  PROVE  app.call \in Nat /\ app.call <= MaxCalls
  BY SrpcAssumption DEF TypeOK

(* Datagrams and retained payloads stay sound. *)
LEMMA SoundStep ==
  ASSUME TypeOK, AllSound, TypeOK', app'.call >= app.call, NEW new,
         \A p \in Proc : /\ Grows(Other(p), new[p])
                         /\ \A m \in new[p] : Sound(p, m, app'.call)
                         /\ known(p)' => /\ Sound(p, rec'[p].pl, app'.call)
                                         /\ rec'[p].seqno <= SeqnoStart + app'.call
  PROVE  AllSound'
<1> SUFFICES ASSUME NEW p \in Proc
             PROVE  \A i \in 1 .. Len(net'[Other(p)]) : Sound(p, net'[Other(p)][i], app'.call)
  BY DEF AllSound
<1> SUFFICES ASSUME NEW i \in 1 .. Len(net'[Other(p)])
             PROVE  Sound(p, net'[Other(p)][i], app'.call)
  OBVIOUS
<1>1. app.call \in Nat /\ app'.call \in Nat
  BY SrpcAssumption DEF TypeOK
<1>2. CASE net'[Other(p)][i] \in new[p]
  BY <1>2
<1>3. ASSUME NEW k \in 1 .. Len(net[Other(p)]), net'[Other(p)][i] = net[Other(p)][k]
      PROVE  Sound(p, net'[Other(p)][i], app'.call)
  <2>1. Sound(p, net[Other(p)][k], app.call)
    BY DEF AllSound
  <2>2. net[Other(p)][k] \in Messages
    <3>1. net[Other(p)] \in Seq(Messages)
      BY ProcFacts DEF TypeOK
    <3> QED
      BY <3>1, ElementOfSeq
  <2> QED
    BY <1>1, <1>3, <2>1, <2>2, SoundLater
<1> QED
  BY <1>2, <1>3 DEF Grows

(* Where the queries of the next state come from. *)
LEMMA DataStep ==
  ASSUME NEW new, NEW more, Grows(Server, new),
         \A m \in new : m.cmd = "QUERY" => m \in Data \cup more,
         known(Client)' /\ rec'[Client].pl.cmd = "QUERY" => rec'[Client].pl \in Data \cup more
  PROVE  Data' \subseteq Data \cup more
<1> SUFFICES ASSUME NEW d \in Data' PROVE d \in Data \cup more
  OBVIOUS
<1>1. d \in Messages /\ d.cmd = "QUERY"
  BY DEF Data
<1>2. \/ \E i \in 1 .. Len(net'[Server]) : net'[Server][i] = d
      \/ known(Client)' /\ rec'[Client].pl = d
  BY DEF Data
<1>3. ASSUME NEW i \in 1 .. Len(net'[Server]), net'[Server][i] = d PROVE d \in Data \cup more
  <2>1. CASE d \in new
    BY <1>1, <2>1
  <2>2. ASSUME NEW k \in 1 .. Len(net[Server]), d = net[Server][k] PROVE d \in Data
    BY <1>1, <2>2 DEF Data
  <2> QED
    BY <1>3, <2>1, <2>2 DEF Grows
<1> QED
  BY <1>1, <1>2, <1>3

-----------------------------------------------------------------------------
(* The calls accepted so far.                                              *)

LogLength == Len(executed) + Len(queue)

LEMMA LogFacts ==
  ASSUME TypeOK
  PROVE  /\ Len(executed) \in Nat /\ Len(queue) \in Nat /\ LogLength \in Nat
         /\ DOMAIN Log = 1 .. LogLength
         /\ \A n \in DOMAIN Log : Log[n].ep \in Nat /\ Log[n].call \in 0 .. MaxCalls
<1>1. /\ executed \in Seq([ep : Nat, call : 0 .. MaxCalls]) /\ queue \in Seq([ep : Nat, data : Buffers])
  BY DEF TypeOK
<1>2. Len(executed) \in Nat /\ Len(queue) \in Nat /\ LogLength \in Nat
  BY <1>1 DEF LogLength
<1>3. DOMAIN Log = 1 .. LogLength
  BY DEF Log, LogLength
<1>4. ASSUME NEW n \in 1 .. LogLength
      PROVE  Log[n].ep \in Nat /\ Log[n].call \in 0 .. MaxCalls
  <2>1. Log[n] = IF n <= Len(executed) THEN executed[n] ELSE Accepted(queue[n - Len(executed)])
    BY DEF Log, LogLength
  <2>2. CASE n <= Len(executed)
    <3>1. n \in 1 .. Len(executed)
      BY <1>2, <2>2
    <3>2. executed[n] \in [ep : Nat, call : 0 .. MaxCalls]
      BY <1>1, <3>1, ElementOfSeq
    <3> QED
      BY <2>1, <2>2, <3>2
  <2>3. CASE ~(n <= Len(executed))
    <3>1. n - Len(executed) \in 1 .. Len(queue)
      BY <1>2, <2>3 DEF LogLength
    <3>2. queue[n - Len(executed)] \in [ep : Nat, data : Buffers]
      BY <1>1, <3>1, ElementOfSeq
    <3>3. CallOf(queue[n - Len(executed)].data, QueryFrags) \in 0 .. MaxCalls
      BY CallOfTyped
    <3> QED
      BY <2>1, <2>3, <3>2, <3>3 DEF Accepted
  <2> QED
    BY <2>2, <2>3
<1> QED
  BY <1>2, <1>3, <1>4

LEMMA LogSame ==
  ASSUME UNCHANGED <<queue, executed>>
  PROVE  Log' = Log
  BY DEF Log, Accepted, CallOf, Complete

(* The worker takes the oldest query: the log stays as it was. *)
LEMMA LogMoves ==
  ASSUME TypeOK, rpc_query
  PROVE  Log' = Log
<1> DEFINE E == [ep : Nat, call : 0 .. MaxCalls]
           Q == [ep : Nat, data : Buffers]
           e == Accepted(Head(queue))
<1>1. executed \in Seq(E) /\ queue \in Seq(Q) /\ queue # << >>
  BY DEF TypeOK, rpc_query
<1>2. queue' = Tail(queue) /\ executed' = Append(executed, e)
  BY DEF rpc_query, Accepted
<1>3. Len(executed) \in Nat /\ Len(queue) \in Nat \ {0} /\ Head(queue) = queue[1]
  BY <1>1
<1>4. e \in E
  <2>1. Head(queue) \in Q
    BY <1>1, HeadTailProperties
  <2> QED
    BY <2>1, CallOfTyped DEF Accepted
<1>5. /\ Len(executed') = Len(executed) + 1
      /\ \A n \in 1 .. Len(executed) : executed'[n] = executed[n]
      /\ executed'[Len(executed) + 1] = e
  <2> HIDE DEF e, E
  <2> QED
    BY <1>1, <1>2, <1>4, AppendProperties
<1>6. /\ Len(queue') = Len(queue) - 1
      /\ \A n \in 1 .. Len(queue) - 1 : queue'[n] = queue[n + 1]
  <2> HIDE DEF Q
  <2> QED
    BY <1>1, <1>2, HeadTailProperties
<1> DEFINE x == Len(executed)
           y == Len(queue)
           f(n) == IF n <= x THEN executed[n] ELSE Accepted(queue[n - x])
           g(n) == IF n <= x + 1 THEN executed'[n] ELSE Accepted(queue'[n - (x + 1)])
<1>7. Log = [n \in 1 .. x + y |-> f(n)]
  BY DEF Log
<1>8. Log' = [n \in 1 .. x + y |-> g(n)]
  <2>1. Log' = [n \in 1 .. Len(executed') + Len(queue') |->
                  IF n <= Len(executed') THEN executed'[n] ELSE Accepted(queue'[n - Len(executed')])]
    BY DEF Log, Accepted, CallOf, Complete
  <2>2. Len(executed') + Len(queue') = x + y
    BY <1>3, <1>5, <1>6
  <2> QED
    BY <1>5, <2>1, <2>2
<1>9. ASSUME NEW n \in 1 .. x + y PROVE f(n) = g(n)
  <2>0. x \in Nat /\ y \in Nat \ {0} /\ n \in Nat
    BY <1>3
  <2>1. CASE n <= x
    <3>1. executed'[n] = executed[n] /\ n <= x + 1
      BY <1>5, <2>0, <2>1
    <3> QED
      BY <2>1, <3>1
  <2>2. CASE n = x + 1
    <3>1. f(n) = Accepted(queue[1])
      BY <2>0, <2>2
    <3>2. g(n) = e
      BY <1>5, <2>0, <2>2
    <3> QED
      BY <1>3, <3>1, <3>2
  <2>3. CASE n > x + 1
    <3>1. n - (x + 1) \in 1 .. y - 1 /\ (n - (x + 1)) + 1 = n - x /\ ~(n <= x) /\ ~(n <= x + 1)
      BY <2>0, <2>3
    <3>2. queue'[n - (x + 1)] = queue[n - x]
      BY <1>6, <3>1
    <3> QED
      BY <3>1, <3>2
  <2> QED
    BY <2>0, <2>1, <2>2, <2>3
<1> HIDE DEF f, g, x, y
<1> QED
  BY <1>7, <1>8, <1>9, Zenon

(* The server accepts one more query. *)
LEMMA LogAppends ==
  ASSUME TypeOK, NEW e \in [ep : Nat, data : Buffers], queue' = Append(queue, e), UNCHANGED executed
  PROVE  /\ DOMAIN Log' = 1 .. LogLength + 1
         /\ \A n \in DOMAIN Log : Log'[n] = Log[n]
         /\ Log'[LogLength + 1] = Accepted(e)
<1> DEFINE Q == [ep : Nat, data : Buffers]
           x == Len(executed)
           y == Len(queue)
<1>1. x \in Nat /\ y \in Nat /\ LogLength = x + y /\ DOMAIN Log = 1 .. x + y
  BY LogFacts DEF LogLength
<1>2. Len(queue') = y + 1 /\ (\A n \in 1 .. y : queue'[n] = queue[n]) /\ queue'[y + 1] = e
  <2>1. queue \in Seq(Q) /\ e \in Q
    BY DEF TypeOK
  <2> HIDE DEF Q
  <2> QED
    BY <2>1, AppendProperties
<1>3. Log' = [n \in 1 .. x + (y + 1) |-> IF n <= x THEN executed[n] ELSE Accepted(queue'[n - x])]
  BY <1>2 DEF Log, Accepted, CallOf, Complete
<1>4. Log = [n \in 1 .. x + y |-> IF n <= x THEN executed[n] ELSE Accepted(queue[n - x])]
  BY DEF Log
<1> HIDE DEF x, y
<1>5. DOMAIN Log' = 1 .. LogLength + 1
  <2>1. x + (y + 1) = LogLength + 1
    BY <1>1
  <2> QED
    BY <1>3, <2>1
<1>6. ASSUME NEW n \in 1 .. x + y PROVE Log'[n] = Log[n]
  <2>1. n \in 1 .. x + (y + 1) /\ (~(n <= x) => n - x \in 1 .. y)
    BY <1>1
  <2> QED
    BY <1>2, <1>3, <1>4, <2>1
<1>7. Log'[LogLength + 1] = Accepted(e)
  <2>1. x + y + 1 \in 1 .. x + (y + 1) /\ ~(x + y + 1 <= x) /\ (x + y + 1) - x = y + 1
        /\ LogLength + 1 = x + y + 1
    BY <1>1
  <2> QED
    BY <1>2, <1>3, <2>1
<1> QED
  BY <1>1, <1>5, <1>6, <1>7

-----------------------------------------------------------------------------
(* Steps that accept no query.                                             *)

(* The client has a record with all the numbers given out, or none. *)
ClientKeepsNumbers ==
  /\ app'.pc = "start" => Data' = {}
  /\ known(Client)' => \A d \in Data' : d.seqno <= rec'[Client].seqno

(* The server keeps its record and goes on counting, or has a new record. *)
ServerKeepsNumbers ==
  known(Server)' =>
     \/ known(Server) /\ rec'[Server].id = rec[Server].id /\ rec'[Server].seqno >= rec[Server].seqno
        /\ created' = created
     \/ rec'[Server].id = created + 1 /\ created' = created + 1

(* `more': queries of a call that is new, with a number that is new. *)
LEMMA OrderStep ==
  ASSUME OInv, TypeOK', AllSound', NoFragments', app'.call >= app.call, Log' = Log, created' >= created,
         NEW more, Data' \subseteq Data \cup more,
         \A d \in more : d.body > app.call /\ \A e \in Data : e.seqno < d.seqno,
         \A d, e \in more : d = e,
         ClientKeepsNumbers, ServerKeepsNumbers
  PROVE  OInv'
<1>0. /\ TypeOK /\ AllSound /\ DataOrdered /\ LogOrdered /\ Ahead
      /\ app.call \in Nat /\ app'.call \in Nat /\ created \in Nat /\ created' \in Nat
  BY SrpcAssumption DEF OInv, TypeOK
<1>1. \A d \in Data : d.seqno \in Nat /\ d.body \in 1 .. app.call
  BY <1>0, DataSound DEF Sound, Data
<1>2. \A d \in Data' : d.seqno \in Nat /\ d.body \in Nat
  BY MessageFields, SrpcAssumption DEF Data
<1>3. DataOrdered'
  <2>1. ASSUME NEW d \in Data', NEW e \in Data', d.seqno < e.seqno PROVE d.body < e.body
    <3>1. CASE d \in Data /\ e \in Data
      BY <1>0, <2>1, <3>1 DEF DataOrdered
    <3>2. CASE d \in Data /\ e \in more
      BY <1>0, <1>1, <1>2, <3>2
    <3>3. CASE d \in more /\ e \in Data
      <4>1. e.seqno < d.seqno
        BY <3>3
      <4> QED
        BY <1>2, <2>1, <4>1
    <3>4. CASE d \in more /\ e \in more
      <4>1. d = e
        BY <3>4
      <4> QED
        BY <1>2, <2>1, <4>1
    <3> QED
      BY <3>1, <3>2, <3>3, <3>4
  <2> QED
    BY <2>1 DEF DataOrdered, ClientKeepsNumbers
<1>4. \A n \in DOMAIN Log : /\ Log[n].ep \in Nat /\ Log[n].ep <= created
                            /\ Log[n].call \in 1 .. app.call
  BY <1>0, LogFacts DEF LogOrdered
<1>5. LogOrdered'
  <2>1. \A n \in DOMAIN Log : Log[n].ep <= created' /\ Log[n].call \in 1 .. app'.call
    BY <1>0, <1>4
  <2>2. \A n, k \in DOMAIN Log : n < k /\ Log[n].ep = Log[k].ep => Log[n].call < Log[k].call
    BY <1>0 DEF LogOrdered
  <2> QED
    BY <2>1, <2>2 DEF LogOrdered
<1>6. Ahead'
  <2> SUFFICES ASSUME known(Server)'
               PROVE  /\ rec'[Server].id <= created'
                      /\ \A n \in DOMAIN Log : \A d \in Data' :
                            Log[n].ep = rec'[Server].id /\ d.seqno > rec'[Server].seqno => d.body > Log[n].call
    BY DEF Ahead
  <2>1. CASE /\ known(Server) /\ rec'[Server].id = rec[Server].id
             /\ rec'[Server].seqno >= rec[Server].seqno /\ created' = created
    <3>1. rec[Server].seqno \in Nat /\ rec'[Server].seqno \in Nat
      <4>1. rec[Server] \in Records
        BY <1>0, <2>1, ProcFacts, KnownRecord
      <4>2. rec'[Server] \in Records
        BY ProcFacts DEF TypeOK, known
      <4> QED
        BY <4>1, <4>2, RecordFields
    <3>2. ASSUME NEW n \in DOMAIN Log, NEW d \in Data', Log[n].ep = rec'[Server].id,
                 d.seqno > rec'[Server].seqno
          PROVE  d.body > Log[n].call
      <4>1. CASE d \in Data
        <5>1. d.seqno > rec[Server].seqno
          BY <1>2, <2>1, <3>1, <3>2
        <5> QED
          BY <1>0, <2>1, <3>2, <4>1, <5>1 DEF Ahead
      <4>2. CASE d \in more
        BY <1>0, <1>2, <1>4, <4>2
      <4> QED
        BY <4>1, <4>2
    <3>3. rec'[Server].id <= created'
      BY <1>0, <2>1 DEF Ahead
    <3> QED
      BY <3>2, <3>3
  <2>2. CASE rec'[Server].id = created + 1 /\ created' = created + 1
    <3>1. \A n \in DOMAIN Log : Log[n].ep # created + 1
      BY <1>0, <1>4
    <3> QED
      BY <1>0, <2>2, <3>1
  <2> QED
    BY <2>1, <2>2 DEF ServerKeepsNumbers
<1> QED
  BY <1>3, <1>5, <1>6 DEF OInv

LEMMA QuietStep ==
  ASSUME OInv, TypeOK', AllSound', NoFragments', app'.call >= app.call, Log' = Log, created' >= created,
         Data' \subseteq Data, ClientKeepsNumbers, ServerKeepsNumbers
  PROVE  OInv'
<1>1. PICK more : more = {}
  OBVIOUS
<1>2. /\ Data' \subseteq Data \cup more
      /\ \A d \in more : d.body > app.call /\ \A e \in Data : e.seqno < d.seqno
      /\ \A d, e \in more : d = e
  BY <1>1
<1> QED
  BY <1>2, OrderStep

(* Only p acts: it transmits `new' and may change its own record. *)
Acts(p, new) ==
  /\ Grows(p, {}) /\ Grows(Other(p), new)
  /\ rec'[Other(p)] = rec[Other(p)]
  /\ \A m \in new : Sound(p, m, app'.call)
  /\ known(p)' => Sound(p, rec'[p].pl, app'.call) /\ rec'[p].seqno <= SeqnoStart + app'.call

LEMMA ActsSound ==
  ASSUME TypeOK, AllSound, TypeOK', app'.call >= app.call, NEW p \in Proc, NEW new, Acts(p, new)
  PROVE  AllSound'
<1> DEFINE f == [q \in Proc |-> IF q = p THEN new ELSE {}]
<1>1. app.call \in Nat /\ app'.call \in Nat
  BY SrpcAssumption DEF TypeOK
<1>2. ASSUME NEW q \in Proc
      PROVE  /\ Grows(Other(q), f[q])
             /\ \A m \in f[q] : Sound(q, m, app'.call)
             /\ known(q)' => /\ Sound(q, rec'[q].pl, app'.call)
                             /\ rec'[q].seqno <= SeqnoStart + app'.call
  <2>1. CASE q = p
    <3>1. f[q] = new
      BY <2>1
    <3> HIDE DEF f
    <3> QED
      BY <2>1, <3>1 DEF Acts
  <2>2. CASE q = Other(p)
    <3>1. f[q] = {} /\ Other(q) = p
      BY <2>2, ProcFacts
    <3>2. known(q)' => known(q) /\ rec[q] \in Records /\ rec'[q] = rec[q]
      BY <2>2, KnownRecord DEF Acts, known
    <3>3. known(q)' => /\ Sound(q, rec[q].pl, app.call) /\ rec[q].pl \in Messages
                       /\ rec[q].seqno <= SeqnoStart + app.call /\ rec[q].seqno \in Nat
      BY <3>2, RecordFields DEF AllSound
    <3>4. known(q)' => Sound(q, rec[q].pl, app'.call)
      BY <1>1, <3>3, SoundLater
    <3>5. known(q)' => rec[q].seqno <= SeqnoStart + app'.call
      BY <1>1, <3>3, SrpcAssumption
    <3> HIDE DEF f
    <3> QED
      BY <3>1, <3>2, <3>4, <3>5 DEF Acts
  <2> QED
    BY <2>1, <2>2 DEF Proc, Other, Client, Server
<1> HIDE DEF f
<1> QED
  BY <1>2, SoundStep

LEMMA ServerActsData ==
  ASSUME NEW new, Acts(Server, new)
  PROVE  Data' \subseteq Data
<1>1. Grows(Server, {}) /\ rec'[Client] = rec[Client]
  BY ProcFacts DEF Acts
<1> SUFFICES ASSUME NEW d \in Data' PROVE d \in Data
  OBVIOUS
<1> QED
  BY <1>1 DEF Data, Grows, known

(* When only the server acts, the client has what it had. *)
LEMMA ServerActs ==
  ASSUME OInv, NEW new, Acts(Server, new), UNCHANGED app
  PROVE  ClientKeepsNumbers
<1>1. Data' \subseteq Data /\ rec'[Client] = rec[Client] /\ (known(Client)' => known(Client))
  BY ServerActsData, ProcFacts DEF Acts, known
<1> QED
  BY <1>1 DEF ClientKeepsNumbers, OInv, DataOrdered

LEMMA ClientActs ==
  ASSUME NEW new, Acts(Client, new), UNCHANGED created, NoFragments, app'.pc \notin {"seqno", "fragment"},
         TypeOK
  PROVE  ServerKeepsNumbers /\ NoFragments'
<1>1. rec'[Server] = rec[Server] /\ (known(Server)' => known(Server))
  BY ProcFacts DEF Acts, known
<1>2. known(Server) => rec[Server].seqno \in Nat
  BY ProcFacts, KnownRecord, RecordFields
<1> QED
  BY <1>1, <1>2 DEF ServerKeepsNumbers, NoFragments

-----------------------------------------------------------------------------
(* The reader.                                                             *)

LEMMA AnswerSound ==
  ASSUME TypeOK, AllSound, NEW p \in Proc, NEW m \in Messages, Sound(Other(p), m, app.call),
         NEW x, Answer(p, m, x)
  PROVE  Sound(p, x, app.call) /\ (x.cmd = "QUERY" => known(p) /\ x = rec[p].pl)
<1>1. CASE known(p) /\ x = rec[p].pl
  BY <1>1 DEF AllSound
<1>2. CASE x \in Messages /\ <<m.cmd, x.cmd>> \in Answers /\ x.seqno = m.seqno
  <2>1. x.cmd \in CommandsOf(p) /\ x.cmd # "QUERY"
    <3>1. m.cmd \in CommandsOf(Other(p))
      BY DEF Sound
    <3>2. CASE p = Client
      <4>1. m.cmd \in {"CACK", "QACK", "RESPONSE", "FRAGMENT", "DACK", "PING", "PACK"}
        BY <3>1, <3>2, ProcFacts DEF CommandsOf
      <4> QED
        BY <1>2, <3>2, <4>1 DEF CommandsOf, Answers
    <3>3. CASE p = Server
      <4>1. m.cmd \in {"CONNECT", "QUERY", "RACK", "FACK", "DISCONNECT", "PING", "PACK"}
        BY <3>1, <3>3, ProcFacts DEF CommandsOf
      <4> QED
        BY <1>2, <3>3, <4>1, ProcFacts DEF CommandsOf, Answers
    <3> QED
      BY <3>2, <3>3 DEF Proc
  <2>2. x.seqno <= SeqnoStart + app.call
    BY <1>2 DEF Sound
  <2> QED
    BY <2>1, <2>2 DEF Sound
<1> QED
  BY <1>1, <1>2 DEF Answer

(* p receives m at i, ends with record r and transmits `out'. *)
Receives(p, i, m, r, out) ==
  /\ i \in 1 .. Len(net[p]) /\ m = net[p][i] /\ m \in Messages
  /\ Handled(p, i, r, out) /\ Change(p, m, r, out)
  /\ Keeps(p, m, r) \/ Makes(p, m, r) \/ Queues(p, m, r)
  /\ UNCHANGED <<offered, app, worker, executed>>

LEMMA ReaderReceives ==
  ASSUME TypeOK, NEW p \in Proc, reader(p)
  PROVE  \E i, m, r, out : Receives(p, i, m, r, out)
<1>1. PICK i \in 1 .. Len(net[p]) : net[p][i] \in Messages /\ Effect(p, i, net[p][i])
  BY ReaderEffect
<1>2. PICK r, out : /\ Handled(p, i, r, out) /\ Change(p, net[p][i], r, out)
                    /\ Keeps(p, net[p][i], r) \/ Makes(p, net[p][i], r) \/ Queues(p, net[p][i], r)
  BY <1>1 DEF Effect
<1>3. UNCHANGED <<offered, app, worker, executed>>
  BY ReaderEffect
<1>4. Receives(p, i, net[p][i], r, out)
  BY <1>1, <1>2, <1>3, Zenon DEF Receives
<1> QED
  BY <1>4

(* What m may be. *)
LEMMA ReceivedSound ==
  ASSUME TypeOK, AllSound, NEW p \in Proc, NEW i, NEW m, NEW r, NEW out, Receives(p, i, m, r, out)
  PROVE  /\ Sound(Other(p), m, app.call) /\ m \in Messages /\ m.seqno \in Nat
         /\ p = Server /\ m.cmd = "QUERY" => m \in Data
         /\ known(p) => rec[p].seqno \in Nat /\ rec[p].seqno <= SeqnoStart + app.call
<1>1. m \in Messages /\ m.seqno \in Nat
  BY MessageFields DEF Receives
<1>2. Sound(Other(p), m, app.call)
  BY ProcFacts DEF Receives, AllSound
<1>3. p = Server /\ m.cmd = "QUERY" => m \in Data
  BY <1>1 DEF Data, Receives
<1>4. known(p) => rec[p].seqno \in Nat /\ rec[p].seqno <= SeqnoStart + app.call
  BY KnownRecord, RecordFields DEF AllSound
<1> QED
  BY <1>1, <1>2, <1>3, <1>4

LEMMA ReceivesActs ==
  ASSUME TypeOK, AllSound, NEW p \in Proc, NEW i, NEW m, NEW r, NEW out, Receives(p, i, m, r, out)
  PROVE  Acts(p, Elements(out)) /\ rec'[p] = r
<1>1. /\ Sound(Other(p), m, app.call) /\ m \in Messages /\ m.seqno \in Nat
      /\ known(p) => rec[p].seqno \in Nat /\ rec[p].seqno <= SeqnoStart + app.call
  BY ReceivedSound
<1>2. i \in 1 .. Len(net[p]) /\ Handled(p, i, r, out) /\ out \in Seq(Messages) /\ app' = app
  BY DEF Receives, Change
<1>3. /\ Grows(p, {}) /\ Grows(Other(p), Elements(out))
      /\ rec'[p] = r /\ rec'[Other(p)] = rec[Other(p)]
  BY <1>2, HandledGrows
<1>4. \A x \in Elements(out) : Sound(p, x, app.call)
  <2>1. \A j \in 1 .. Len(out) : Answer(p, m, out[j])
    BY DEF Receives, Change
  <2>2. \A j \in 1 .. Len(out) : Sound(p, out[j], app.call)
    BY <1>1, <2>1, AnswerSound
  <2> QED
    BY <2>2 DEF Elements
<1>5. r # NoRecord => Sound(p, r.pl, app.call)
  <2>1. r # NoRecord => Answer(p, m, r.pl)
    BY DEF Receives, Change
  <2> QED
    BY <1>1, <2>1, AnswerSound
<1>6. r # NoRecord => r.seqno <= SeqnoStart + app.call
  <2>1. m.seqno <= SeqnoStart + app.call
    BY <1>1 DEF Sound
  <2>2. r # NoRecord => r.seqno = m.seqno \/ (known(p) /\ r.seqno = rec[p].seqno)
    BY DEF Receives, Keeps, Makes, Queues
  <2> QED
    BY <1>1, <2>1, <2>2
<1> QED
  BY <1>2, <1>3, <1>4, <1>5, <1>6 DEF Acts, known

LEMMA ClientReads ==
  ASSUME OInv, reader(Client)
  PROVE  OInv'
<1>0. TypeOK /\ AllSound /\ NoFragments /\ DataOrdered /\ Client \in Proc
      /\ Other(Client) = Server /\ Other(Server) = Client /\ Client # Server
  BY ProcFacts DEF OInv
<1>1. TypeOK'
  BY <1>0, ReaderTyped
<1>2. PICK i, m, r, out : Receives(Client, i, m, r, out)
  BY <1>0, ReaderReceives
<1>3. /\ Acts(Client, Elements(out)) /\ rec'[Client] = r
      /\ Sound(Server, m, app.call) /\ m \in Messages /\ m.seqno \in Nat
      /\ known(Client) => rec[Client].seqno \in Nat
  <2>1. Acts(Client, Elements(out)) /\ rec'[Client] = r
    BY <1>0, <1>2, ReceivesActs
  <2>2. /\ Sound(Other(Client), m, app.call) /\ m \in Messages /\ m.seqno \in Nat
        /\ known(Client) => rec[Client].seqno \in Nat
    BY <1>0, <1>2, ReceivedSound
  <2> QED
    BY <1>0, <2>1, <2>2
<1>4. Keeps(Client, m, r) /\ app' = app /\ executed' = executed /\ m.cmd # "SEQNO"
  <2>1. m.cmd \notin {"CONNECT", "QUERY", "SEQNO"}
    BY <1>0, <1>3 DEF Sound, CommandsOf
  <2> QED
    BY <1>2, <2>1 DEF Receives, Makes, Queues
<1>5. app.call \in Nat /\ app'.call = app.call /\ app'.call >= app.call
      /\ created' = created /\ created' >= created
  BY <1>0, <1>4, AppFacts DEF Keeps, TypeOK
<1>6. AllSound'
  BY <1>0, <1>1, <1>3, <1>5, ActsSound
<1>7. ServerKeepsNumbers /\ NoFragments'
  <2>1. app'.pc \notin {"seqno", "fragment"}
    BY <1>0, <1>4 DEF NoFragments
  <2> QED
    BY <1>0, <1>3, <1>5, <2>1, ClientActs
<1>8. Data' \subseteq Data
  <2>1. Grows(Server, Elements(out))
    BY <1>0, <1>3 DEF Acts
  <2>2. ASSUME NEW x, Answer(Client, m, x), x.cmd = "QUERY" PROVE x \in Data
    <3>1. known(Client) /\ x = rec[Client].pl
      BY <1>0, <1>3, <2>2, AnswerSound
    <3>2. rec[Client].pl \in Messages
      BY <1>0, <3>1, KnownRecord
    <3> QED
      BY <2>2, <3>1, <3>2 DEF Data
  <2>3. \A x \in Elements(out) : x.cmd = "QUERY" => x \in Data \cup {}
    BY <1>2, <2>2 DEF Receives, Change, Elements
  <2>4. known(Client)' /\ rec'[Client].pl.cmd = "QUERY" => rec'[Client].pl \in Data \cup {}
    <3>1. known(Client)' => Answer(Client, m, r.pl)
      BY <1>2, <1>3 DEF Receives, Change, known
    <3> QED
      BY <1>3, <2>2, <3>1
  <2>5. Data' \subseteq Data \cup {}
    BY <2>1, <2>3, <2>4, DataStep
  <2> QED
    BY <2>5
<1>9. ClientKeepsNumbers
  <2>1. known(Client)' => known(Client) /\ r.seqno \in Nat /\ r.seqno >= rec[Client].seqno
    BY <1>3, <1>4 DEF Keeps, known
  <2>2. ASSUME known(Client)', NEW d \in Data' PROVE d.seqno <= rec'[Client].seqno
    <3>1. d \in Data /\ d.seqno \in Nat /\ d.seqno <= rec[Client].seqno
      <4>1. d \in Data
        BY <1>8
      <4> QED
        BY <1>0, <2>1, <2>2, <4>1, DataSound DEF DataOrdered
    <3> QED
      BY <1>3, <2>1, <2>2, <3>1
  <2>3. app'.pc = "start" => Data' = {}
    BY <1>0, <1>4, <1>8 DEF DataOrdered
  <2> QED
    BY <2>2, <2>3 DEF ClientKeepsNumbers
<1>10. Log' = Log
  BY <1>4, LogSame DEF Keeps
<1> QED
  BY <1>1, <1>5, <1>6, <1>7, <1>8, <1>9, <1>10, QuietStep

(* The server takes a query of one datagram: the log grows by its call. *)
LEMMA CopiedCall ==
  ASSUME ShortCalls, NEW m \in Messages, m.fnum = 1, m.nfrags = 1, m.body \in 1 .. MaxCalls
  PROVE  CallOf(Copied(m), QueryFrags) = m.body
<1>1. Copied(m) = [j \in 1 .. 1 |-> <<m.body, 1>>]
  BY DEF Copied
<1>2. QueryFrags = 1
  BY DEF ShortCalls
<1>3. ASSUME NEW k \in 1 .. MaxCalls PROVE Complete(Copied(m), k, QueryFrags) <=> k = m.body
  <2>1. CASE k = m.body
    <3>1. [j \in 1 .. 1 |-> <<m.body, 1>>] = [j \in 1 .. 1 |-> <<m.body, j>>]
      OBVIOUS
    <3> QED
      BY <1>1, <1>2, <2>1, <3>1 DEF Complete
  <2>2. CASE Complete(Copied(m), k, QueryFrags)
    <3>1. Copied(m) = [j \in 1 .. 1 |-> <<k, j>>]
      BY <1>2, <2>2 DEF Complete
    <3>2. Copied(m)[1] = <<m.body, 1>>
      BY <1>1
    <3>3. Copied(m)[1] = <<k, 1>>
      <4>1. 1 \in 1 .. 1
        OBVIOUS
      <4> QED
        BY <3>1, <4>1, Zenon
    <3>4. <<m.body, 1>>[1] = m.body /\ <<k, 1>>[1] = k
      OBVIOUS
    <3> QED
      BY <2>2, <3>2, <3>3, <3>4, Zenon
  <2> QED
    BY <2>1, <2>2
<1>4. (CHOOSE k \in 1 .. MaxCalls : Complete(Copied(m), k, QueryFrags)) = m.body
  BY <1>3
<1> QED
  BY <1>3, <1>4 DEF CallOf

LEMMA ServerAccepts ==
  ASSUME ShortCalls, OInv, TypeOK', AllSound', NoFragments', NEW i, NEW m, NEW r, NEW out,
         Receives(Server, i, m, r, out), Queues(Server, m, r), rec'[Server] = r,
         Data' \subseteq Data, ClientKeepsNumbers
  PROVE  OInv'
<1>0. /\ TypeOK /\ AllSound /\ NoFragments /\ DataOrdered /\ LogOrdered /\ Ahead /\ Server \in Proc
      /\ Other(Server) = Client
  BY ProcFacts DEF OInv
<1>1. app' = app /\ executed' = executed /\ created' = created /\ app.call \in Nat /\ created \in Nat
      /\ app.call <= MaxCalls /\ MaxCalls \in Nat
  BY <1>0, AppFacts, SrpcAssumption DEF Receives, Queues, TypeOK
<1>2. /\ m \in Messages /\ m \in Data /\ m.seqno \in Nat
      /\ known(Server) /\ rec[Server] \in Records /\ rec[Server].seqno \in Nat /\ rec[Server].id \in Nat
      /\ r \in Records /\ r.id = rec[Server].id
  <2>1. m.cmd = "QUERY" /\ known(Server) /\ r \in Records /\ r.id = rec[Server].id
    BY DEF Queues
  <2>2. m \in Messages /\ m.seqno \in Nat /\ m \in Data
    BY <1>0, <2>1, ReceivedSound
  <2> QED
    BY <1>0, <2>1, <2>2, KnownRecord, RecordFields
<1>3. m.fnum = 1 /\ m.nfrags = 1 /\ m.body \in 1 .. app.call
  <2>1. Sound(Client, m, app.call)
    BY <1>0, <1>2, DataSound
  <2>2. m.cmd = "QUERY"
    BY DEF Queues
  <2> QED
    BY <2>1, <2>2 DEF Sound
<1>4. /\ r.seqno = m.seqno /\ m.seqno - rec[Server].seqno = 1
      /\ queue' = Append(queue, [ep |-> rec[Server].id, data |-> Copied(m)])
  <2>1. ~EndsFragments(Server, m)
    BY <1>0, <1>2 DEF EndsFragments, NoFragments
  <2> QED
    BY <2>1 DEF Queues, StartsQuery
<1> DEFINE e == [ep |-> rec[Server].id, data |-> Copied(m)]
           L == LogLength
<1>5. e \in [ep : Nat, data : Buffers]
  BY <1>2, CopiedTyped
<1>6. Accepted(e).ep = rec[Server].id /\ Accepted(e).call = m.body
  <2>1. m.body \in 1 .. MaxCalls
    BY <1>1, <1>3
  <2>2. CallOf(Copied(m), QueryFrags) = m.body
    BY <1>2, <1>3, <2>1, CopiedCall
  <2> QED
    BY <2>2 DEF Accepted
<1>7. /\ DOMAIN Log' = 1 .. L + 1 /\ L \in Nat /\ DOMAIN Log = 1 .. L
      /\ \A n \in 1 .. L : Log'[n] = Log[n]
      /\ Log'[L + 1].ep = rec[Server].id /\ Log'[L + 1].call = m.body
  <2>1. queue' = Append(queue, e)
    BY <1>4
  <2> HIDE DEF e
  <2>2. /\ DOMAIN Log' = 1 .. LogLength + 1
        /\ \A n \in DOMAIN Log : Log'[n] = Log[n]
        /\ Log'[LogLength + 1] = Accepted(e)
    BY <1>0, <1>1, <1>5, <2>1, LogAppends
  <2>3. LogLength \in Nat /\ DOMAIN Log = 1 .. LogLength
    BY <1>0, LogFacts
  <2> QED
    BY <1>6, <2>2, <2>3
<1> HIDE DEF e, L
<1>8. \A n \in 1 .. L : /\ Log[n].ep <= created /\ Log[n].call \in 1 .. app.call
                        /\ Log[n].ep = rec[Server].id => m.body > Log[n].call
  <2>1. m.seqno > rec[Server].seqno
    BY <1>2, <1>4
  <2> QED
    BY <1>0, <1>2, <1>7, <2>1 DEF LogOrdered, Ahead
<1>9. rec[Server].id <= created
  BY <1>0, <1>2 DEF Ahead
<1>10. LogOrdered'
  <2>1. ASSUME NEW n \in 1 .. L + 1
        PROVE  Log'[n].ep <= created' /\ Log'[n].call \in 1 .. app'.call
    <3>1. CASE n \in 1 .. L
      BY <1>1, <1>7, <1>8, <3>1
    <3>2. CASE n = L + 1
      BY <1>1, <1>3, <1>7, <1>9, <3>2
    <3> QED
      BY <1>7, <3>1, <3>2
  <2>2. ASSUME NEW n \in 1 .. L + 1, NEW k \in 1 .. L + 1, n < k, Log'[n].ep = Log'[k].ep
        PROVE  Log'[n].call < Log'[k].call
    <3>0. n \in 1 .. L
      BY <1>7, <2>2
    <3>1. CASE k \in 1 .. L
      BY <1>0, <1>7, <2>2, <3>0, <3>1 DEF LogOrdered
    <3>2. CASE k = L + 1
      <4>1. Log[n].ep = rec[Server].id /\ Log'[n] = Log[n] /\ Log'[k].call = m.body
        BY <1>7, <2>2, <3>0, <3>2
      <4>2. m.body > Log[n].call /\ Log[n].call \in 1 .. app.call
        BY <1>8, <3>0, <4>1
      <4> QED
        BY <1>1, <1>3, <4>1, <4>2
    <3> QED
      BY <1>7, <3>1, <3>2
  <2> QED
    BY <1>7, <2>1, <2>2 DEF LogOrdered
<1>11. DataOrdered'
  <2>1. \A x, y \in Data' : x.seqno < y.seqno => x.body < y.body
    BY <1>0 DEF DataOrdered
  <2> QED
    BY <2>1 DEF DataOrdered, ClientKeepsNumbers
<1>12. Ahead'
  <2>1. ASSUME NEW n \in 1 .. L + 1, NEW d \in Data', Log'[n].ep = rec'[Server].id,
               d.seqno > rec'[Server].seqno
        PROVE  d.body > Log'[n].call
    <3>1. d \in Data /\ d.seqno \in Nat /\ d.body \in Nat
      BY <1>0, DataSound
    <3>2. d.seqno > m.seqno /\ d.seqno > rec[Server].seqno
      BY <1>2, <1>4, <2>1, <3>1
    <3>3. CASE n \in 1 .. L
      <4>1. Log'[n] = Log[n] /\ Log[n].ep = rec[Server].id /\ n \in DOMAIN Log
        BY <1>2, <1>7, <2>1, <3>3
      <4> QED
        BY <1>0, <1>2, <3>1, <3>2, <4>1 DEF Ahead
    <3>4. CASE n = L + 1
      <4>1. m.body < d.body
        <5>1. m.seqno < d.seqno
          BY <1>2, <3>1, <3>2
        <5> QED
          BY <1>0, <1>2, <3>1, <5>1 DEF DataOrdered
      <4> QED
        BY <1>1, <1>3, <1>7, <3>1, <3>4, <4>1
    <3> QED
      BY <1>7, <3>3, <3>4
  <2> QED
    BY <1>1, <1>2, <1>7, <1>9, <2>1 DEF Ahead
<1> QED
  BY <1>10, <1>11, <1>12 DEF OInv

LEMMA ServerReads ==
  ASSUME ShortCalls, OInv, reader(Server)
  PROVE  OInv'
<1>0. TypeOK /\ AllSound /\ NoFragments /\ Server \in Proc /\ Other(Server) = Client /\ Client # Server
  BY ProcFacts DEF OInv
<1>1. TypeOK'
  BY <1>0, ReaderTyped
<1>2. PICK i, m, r, out : Receives(Server, i, m, r, out)
  BY <1>0, ReaderReceives
<1>3. Acts(Server, Elements(out)) /\ rec'[Server] = r
  BY <1>0, <1>2, ReceivesActs
<1>4. app' = app /\ executed' = executed /\ app.call \in Nat /\ app'.call >= app.call /\ created \in Nat
  BY <1>0, <1>2, AppFacts DEF Receives, TypeOK
<1>5. AllSound'
  BY <1>0, <1>1, <1>3, <1>4, ActsSound
<1>6. Data' \subseteq Data /\ ClientKeepsNumbers
  BY <1>3, <1>4, ServerActsData, ServerActs
<1>7. m.cmd \notin {"FRAGMENT", "SEQNO"}
  <2>1. Sound(Client, m, app.call)
    BY <1>0, <1>2, ReceivedSound
  <2> QED
    BY <2>1 DEF Sound, CommandsOf
<1>8. NoFragments'
  <2>1. r # NoRecord => r.state # "FACK_SENT"
    BY <1>0, <1>2, <1>7 DEF Receives, Change, NoFragments
  <2> QED
    BY <1>0, <1>3, <1>4, <2>1 DEF NoFragments, known
<1>9. CASE Queues(Server, m, r)
  BY <1>1, <1>2, <1>3, <1>5, <1>6, <1>8, <1>9, ServerAccepts
<1>10. ASSUME UNCHANGED queue, ServerKeepsNumbers, created' >= created PROVE OInv'
  <2>1. Log' = Log
    BY <1>4, <1>10, LogSame
  <2> QED
    BY <1>1, <1>4, <1>5, <1>6, <1>8, <1>10, <2>1, QuietStep
<1>11. CASE Keeps(Server, m, r)
  <2>1. known(Server)' => /\ known(Server) /\ r.id = rec[Server].id /\ r.seqno = rec[Server].seqno
                          /\ rec[Server].seqno \in Nat
    BY <1>0, <1>3, <1>7, <1>11, KnownRecord, RecordFields DEF Keeps, known
  <2>2. ServerKeepsNumbers
    BY <1>3, <1>11, <2>1 DEF ServerKeepsNumbers, Keeps
  <2> QED
    BY <1>4, <1>10, <1>11, <2>2 DEF Keeps
<1>12. CASE Makes(Server, m, r)
  BY <1>3, <1>4, <1>10, <1>12 DEF Makes, ServerKeepsNumbers
<1> QED
  BY <1>2, <1>9, <1>11, <1>12 DEF Receives

-----------------------------------------------------------------------------
(* The timer and the network.                                              *)

LEMMA PingSound ==
  ASSUME NEW p \in Proc, NEW n \in Nat, NEW cr \in Records, cr.seqno <= SeqnoStart + n
  PROVE  Sound(p, Control("PING", cr.seqno), n) /\ Control("PING", cr.seqno).cmd # "QUERY"
<1>1. Control("PING", cr.seqno).cmd = "PING" /\ Control("PING", cr.seqno).seqno = cr.seqno
  BY RecordFields, ControlTyped DEF Commands
<1> QED
  BY <1>1 DEF Sound, CommandsOf

(* A tick transmits `new'; the record is gone, or only ticked. *)
Ticks(p, new) ==
  /\ Acts(p, new) /\ known(p) /\ (known(p)' => Ticked(rec'[p], rec[p]))
  /\ \A x \in new : x = rec[p].pl \/ x = Control("PING", rec[p].seqno)

LEMMA TimerActs ==
  ASSUME OInv, NEW p \in Proc, timer(p)
  PROVE  \E new : Ticks(p, new)
<1>0. /\ TypeOK /\ AllSound /\ known(p) /\ rec[p] \in Records /\ app' = app /\ app.call \in Nat
      /\ rec \in [Proc -> Records \cup {NoRecord}] /\ Other(p) \in Proc /\ Other(p) # p
  BY KnownRecord, AppFacts, ProcFacts DEF OInv, timer, TypeOK
<1>1. Sound(p, rec[p].pl, app.call) /\ rec[p].seqno <= SeqnoStart + app.call
  BY <1>0 DEF AllSound
<1>2. CASE rec' = [rec EXCEPT ![p] = NoRecord] /\ UNCHANGED net
  <2>1. ~known(p)' /\ rec'[Other(p)] = rec[Other(p)]
    BY <1>0, <1>2 DEF known
  <2>2. \A q \in Proc : Grows(q, {})
    BY <1>2, SameGrows
  <2>3. Ticks(p, {})
    BY <1>0, <2>1, <2>2 DEF Acts, Ticks
  <2> QED
    BY <2>3
<1>3. CASE rec' = [rec EXCEPT ![p] = after_tick(rec[p])] /\ send_payload(p, TickSends(rec[p]))
  <2>1. rec'[p] = after_tick(rec[p]) /\ rec'[Other(p)] = rec[Other(p)]
    BY <1>0, <1>3
  <2>2. Ticked(rec'[p], rec[p])
    BY <1>0, <2>1, TickTyped
  <2>3. /\ TickSends(rec[p]) \in Seq(Messages)
        /\ \A j \in 1 .. Len(TickSends(rec[p])) :
              TickSends(rec[p])[j] = rec[p].pl \/ TickSends(rec[p])[j] = Control("PING", rec[p].seqno)
    BY <1>0, TickSendsFacts
  <2>4. Grows(p, {}) /\ Grows(Other(p), Elements(TickSends(rec[p])))
    BY <1>0, <1>3, <2>3, SendGrows
  <2>5. Sound(p, Control("PING", rec[p].seqno), app.call)
    BY <1>0, <1>1, PingSound
  <2>6. \A x \in Elements(TickSends(rec[p])) :
           Sound(p, x, app.call) /\ (x = rec[p].pl \/ x = Control("PING", rec[p].seqno))
    BY <1>1, <2>3, <2>5 DEF Elements
  <2>7. Sound(p, rec'[p].pl, app.call) /\ rec'[p].seqno <= SeqnoStart + app.call
    BY <1>1, <2>2 DEF Ticked
  <2>8. Ticks(p, Elements(TickSends(rec[p])))
    BY <1>0, <2>1, <2>2, <2>4, <2>6, <2>7 DEF Acts, Ticks
  <2> QED
    BY <2>8
<1> QED
  BY <1>2, <1>3 DEF timer, TickSends

LEMMA TimerKeeps ==
  ASSUME OInv, NEW p \in Proc, timer(p)
  PROVE  OInv'
<1>0. /\ TypeOK /\ AllSound /\ NoFragments /\ DataOrdered
      /\ Other(Client) = Server /\ Other(Server) = Client /\ Client # Server
  BY ProcFacts DEF OInv
<1>1. TypeOK'
  BY <1>0, TimerTyped
<1>2. PICK new : Ticks(p, new)
  BY TimerActs
<1>3. /\ Acts(p, new) /\ app' = app /\ executed' = executed /\ queue' = queue /\ created' = created
      /\ app.call \in Nat /\ app'.call >= app.call /\ created \in Nat /\ created' >= created
  BY <1>0, <1>2, AppFacts DEF Ticks, timer, TypeOK
<1>4. AllSound'
  BY <1>0, <1>1, <1>3, ActsSound
<1>5. Log' = Log
  BY <1>3, LogSame
<1>6. rec[p] \in Records /\ rec[p].seqno \in Nat /\ rec[p].pl \in Messages
  BY <1>0, <1>2, KnownRecord, RecordFields DEF Ticks
<1>7. CASE p = Client
  <2>1. ServerKeepsNumbers /\ NoFragments'
    <3>1. app'.pc \notin {"seqno", "fragment"}
      BY <1>0, <1>3 DEF NoFragments
    <3> QED
      BY <1>0, <1>3, <1>7, <3>1, ClientActs
  <2>2. Data' \subseteq Data
    <3>1. Grows(Server, new)
      BY <1>0, <1>3, <1>7 DEF Acts
    <3>2. Control("PING", rec[p].seqno).cmd # "QUERY"
      BY <1>6, ControlTyped DEF Commands
    <3>3. rec[p].pl.cmd = "QUERY" => rec[p].pl \in Data
      BY <1>2, <1>6, <1>7 DEF Data, Ticks
    <3>4. \A x \in new : x.cmd = "QUERY" => x \in Data \cup {}
      BY <1>2, <3>2, <3>3 DEF Ticks
    <3>5. known(Client)' /\ rec'[Client].pl.cmd = "QUERY" => rec'[Client].pl \in Data \cup {}
      BY <1>2, <1>7, <3>3 DEF Ticks, Ticked
    <3>6. Data' \subseteq Data \cup {}
      BY <3>1, <3>4, <3>5, DataStep
    <3> QED
      BY <3>6
  <2>3. ClientKeepsNumbers
    <3>1. known(Client)' => known(Client) /\ rec'[Client].seqno = rec[Client].seqno
      BY <1>2, <1>7 DEF Ticks, Ticked
    <3> QED
      BY <1>0, <1>3, <2>2, <3>1 DEF ClientKeepsNumbers, DataOrdered
  <2> QED
    BY <1>1, <1>3, <1>4, <1>5, <2>1, <2>2, <2>3, QuietStep
<1>8. CASE p = Server
  <2>1. ClientKeepsNumbers /\ Data' \subseteq Data
    BY <1>3, <1>8, ServerActs, ServerActsData
  <2>2. known(Server) /\ (known(Server)' => Ticked(rec'[Server], rec[Server]))
    BY <1>2, <1>8 DEF Ticks
  <2>3. ServerKeepsNumbers
    BY <1>3, <1>6, <1>8, <2>2 DEF ServerKeepsNumbers, Ticked
  <2>4. NoFragments'
    BY <1>0, <1>3, <2>2 DEF NoFragments, Ticked
  <2> QED
    BY <1>1, <1>3, <1>4, <1>5, <2>1, <2>3, <2>4, QuietStep
<1> QED
  BY <1>7, <1>8 DEF Proc

(* The client's record keeps its payload and number, or goes. *)
SameClient ==
  /\ rec'[Server] = rec[Server]
  /\ known(Client)' => /\ known(Client) /\ rec'[Client].pl = rec[Client].pl
                       /\ rec'[Client].seqno = rec[Client].seqno

(* The network, or an application, when nothing is sent. *)
LEMMA RecordsKept ==
  ASSUME OInv, TypeOK', SameClient, UNCHANGED created, \A q \in Proc : Grows(q, {}), Log' = Log,
         app'.call >= app.call, app'.pc \notin {"seqno", "fragment"}, app'.pc = "start" => app.pc = "start"
  PROVE  OInv'
<1>0. /\ TypeOK /\ AllSound /\ NoFragments /\ DataOrdered /\ Client \in Proc /\ Server \in Proc
      /\ Other(Client) = Server /\ Other(Server) = Client
  BY ProcFacts DEF OInv
<1>1. Acts(Client, {})
  <2>1. app.call \in Nat /\ app'.call \in Nat /\ SeqnoStart \in Nat
    BY <1>0, SrpcAssumption DEF TypeOK
  <2>2. known(Client) => /\ Sound(Client, rec[Client].pl, app.call) /\ rec[Client].pl \in Messages
                         /\ rec[Client].seqno <= SeqnoStart + app.call /\ rec[Client].seqno \in Nat
    BY <1>0, KnownRecord, RecordFields DEF AllSound
  <2>3. known(Client) => Sound(Client, rec[Client].pl, app'.call)
    BY <2>1, <2>2, SoundLater
  <2>4. known(Client) => rec[Client].seqno <= SeqnoStart + app'.call
    BY <2>1, <2>2
  <2> QED
    BY <1>0, <2>3, <2>4 DEF Acts, SameClient
<1>2. AllSound'
  BY <1>0, <1>1, ActsSound
<1>3. ServerKeepsNumbers /\ NoFragments'
  BY <1>0, <1>1, ClientActs
<1>4. Data' \subseteq Data
  <2>1. Grows(Server, {})
    BY <1>0
  <2>2. known(Client)' /\ rec'[Client].pl.cmd = "QUERY" => rec'[Client].pl \in Data \cup {}
    BY <1>0, KnownRecord DEF Data, SameClient
  <2>3. Data' \subseteq Data \cup {}
    <3>1. \A m \in {} : m.cmd = "QUERY" => m \in Data \cup {}
      OBVIOUS
    <3> QED
      BY <2>1, <2>2, <3>1, DataStep
  <2> QED
    BY <2>3
<1>5. ClientKeepsNumbers
  BY <1>0, <1>4 DEF ClientKeepsNumbers, DataOrdered, SameClient
<1>6. created' >= created
  BY <1>0 DEF TypeOK
<1> QED
  BY <1>2, <1>3, <1>4, <1>5, <1>6, QuietStep

LEMMA LoseKeeps ==
  ASSUME OInv, NEW p \in Proc, lose(p)
  PROVE  OInv'
<1>1. TypeOK /\ TypeOK' /\ NoFragments
  BY LoseTyped DEF OInv
<1>2. \A q \in Proc : Grows(q, {})
  BY <1>1, LoseGrows
<1>3. UNCHANGED <<rec, created, queue, app, executed>>
  BY DEF lose
<1>4. Log' = Log
  BY <1>3, LogSame
<1>5. app'.call >= app.call /\ app'.pc \notin {"seqno", "fragment"} /\ SameClient
  BY <1>1, <1>3, AppFacts DEF NoFragments, SameClient, known
<1> QED
  BY <1>1, <1>2, <1>3, <1>4, <1>5, RecordsKept

-----------------------------------------------------------------------------
(* The client's thread.                                                    *)

(* The client transmits m, which its record r retains. *)
Transmits(r, m) ==
  /\ r \in Records /\ m \in Messages /\ r.pl = m
  /\ rec' = [rec EXCEPT ![Client] = r] /\ send_payload(Client, <<m>>)

LEMMA TransmitsActs ==
  ASSUME OInv, NEW r, NEW m, Transmits(r, m), Sound(Client, m, app'.call),
         r.seqno <= SeqnoStart + app'.call
  PROVE  Acts(Client, {m}) /\ rec'[Client] = r
<1>1. TypeOK /\ Client \in Proc /\ Other(Client) = Server /\ Server \in Proc /\ Client # Server
  BY ProcFacts DEF OInv
<1>2. rec'[Client] = r /\ rec'[Server] = rec[Server]
  BY <1>1 DEF Transmits, TypeOK
<1>3. Grows(Client, {}) /\ Grows(Server, {m})
  <2>1. <<m>> \in Seq(Messages) /\ Elements(<<m>>) = {m} /\ send_payload(Client, <<m>>)
    BY OneMessage, ElementsOfOne DEF Transmits
  <2>2. Grows(Client, {}) /\ Grows(Other(Client), Elements(<<m>>))
    BY <1>1, <2>1, SendGrows
  <2> QED
    BY <1>1, <2>1, <2>2
<1>4. r.pl = m
  BY DEF Transmits
<1> QED
  BY <1>1, <1>2, <1>3, <1>4 DEF Acts

(* The client transmits something that is not a query. *)
LEMMA ControlKeeps ==
  ASSUME OInv, TypeOK', NEW r, NEW m, Transmits(r, m), Sound(Client, m, app.call), m.cmd # "QUERY",
         \/ known(Client) /\ r.seqno = rec[Client].seqno
         \/ Data = {} /\ r.seqno = SeqnoStart,
         app'.call = app.call, app'.pc \in {"connect", "disconnect"}, Untouched
  PROVE  OInv'
<1>0. /\ TypeOK /\ AllSound /\ NoFragments /\ DataOrdered /\ Client \in Proc
      /\ Other(Client) = Server
      /\ app.call \in Nat /\ SeqnoStart \in Nat
  BY ProcFacts, AppFacts, SrpcAssumption DEF OInv
<1>1. r.seqno <= SeqnoStart + app'.call
  BY <1>0 DEF AllSound
<1>2. Acts(Client, {m}) /\ rec'[Client] = r
  BY <1>1, TransmitsActs
<1>3. AllSound' /\ app'.call >= app.call
  <2>1. app'.call >= app.call
    BY <1>0
  <2> QED
    BY <1>0, <1>2, <2>1, ActsSound
<1>4. ServerKeepsNumbers /\ NoFragments'
  <2>1. app'.pc \notin {"seqno", "fragment"} /\ created' = created
    BY DEF Untouched
  <2> QED
    BY <1>0, <1>2, <2>1, ClientActs
<1>5. Data' \subseteq Data
  <2>1. Grows(Server, {m}) /\ rec'[Client].pl = m
    BY <1>0, <1>2 DEF Acts, Transmits
  <2>2. Data' \subseteq Data \cup {}
    BY <2>1, DataStep
  <2> QED
    BY <2>2
<1>6. ClientKeepsNumbers
  <2>1. \A d \in Data' : d.seqno <= r.seqno
    BY <1>0, <1>5 DEF DataOrdered
  <2> QED
    BY <1>2, <2>1 DEF ClientKeepsNumbers
<1>7. Log' = Log /\ created' >= created
  BY <1>0, LogSame DEF Untouched, TypeOK
<1> QED
  BY <1>3, <1>4, <1>5, <1>6, <1>7, QuietStep

(* The query of the next call, with the next number. *)
LEMMA QueryKeeps ==
  ASSUME ShortCalls, OInv, TypeOK', known(Client), rec[Client].state = "IDLE",
         app'.call = app.call + 1,
         SendQuery(NextNumber(rec[Client]), app.call + 1, 1), Untouched
  PROVE  OInv'
<1> DEFINE cr == NextNumber(rec[Client])
           k == app.call + 1
           m == Message("QUERY", cr.seqno, 1, 1, k)
           r == crecord_setState(crecord_setPayload(cr, m), "QUERY_SENT")
<1>0. /\ TypeOK /\ AllSound /\ NoFragments /\ DataOrdered /\ Client \in Proc
      /\ Other(Client) = Server
      /\ app.call \in Nat /\ SeqnoStart \in Nat /\ k \in Nat /\ k <= MaxCalls /\ MaxCalls \in Nat
  <2>1. TypeOK /\ AllSound /\ NoFragments /\ DataOrdered
    BY DEF OInv
  <2>2. app.call \in Nat /\ MaxCalls \in Nat /\ SeqnoStart \in Nat /\ app'.call \in 0 .. MaxCalls
    BY <2>1, AppFacts, SrpcAssumption DEF TypeOK
  <2> QED
    BY <2>1, <2>2, ProcFacts
<1>1. /\ rec[Client] \in Records /\ rec[Client].seqno \in Nat /\ rec[Client].seqno <= SeqnoStart + app.call
      /\ cr \in Records /\ cr.seqno = rec[Client].seqno + 1 /\ cr.seqno \in Nat
      /\ cr.seqno <= SeqnoStart + k
  <2>1. rec[Client] \in Records /\ rec[Client].seqno \in Nat /\ rec[Client].seqno <= SeqnoStart + app.call
    BY <1>0, KnownRecord, RecordFields DEF AllSound
  <2> QED
    BY <1>0, <2>1, NextNumberTyped
<1>2. ClientSends(cr, m, "QUERY_SENT") /\ app' = [pc |-> "query", call |-> k, fnum |-> 1, result |-> NoResult]
  BY DEF SendQuery, ShortCalls
<1> HIDE DEF cr, k
<1>3. /\ m \in Messages /\ m.cmd = "QUERY" /\ m.seqno = cr.seqno /\ m.fnum = 1 /\ m.nfrags = 1
      /\ m.body = k
  <2>1. k \in 0 .. MaxCalls /\ "QUERY" \in Commands
    BY <1>0 DEF Commands
  <2> QED
    BY <1>1, <2>1 DEF Message, Messages
<1> HIDE DEF m
<1>4. r \in Records /\ r.seqno = cr.seqno /\ r.pl = m
  BY <1>1, <1>3, StateNames, PreparedTyped
<1>5. Transmits(r, m) /\ app'.call = k /\ app'.pc = "query"
  BY <1>2, <1>3, <1>4 DEF ClientSends, Transmits
<1> HIDE DEF r
<1>6. Sound(Client, m, app'.call)
  BY <1>0, <1>1, <1>3, <1>5 DEF Sound, CommandsOf, k
<1>7. Acts(Client, {m}) /\ rec'[Client] = r
  BY <1>1, <1>4, <1>5, <1>6, TransmitsActs
<1>8. AllSound' /\ app'.call >= app.call
  <2>1. app'.call >= app.call
    BY <1>0, <1>5 DEF k
  <2> QED
    BY <1>0, <1>7, <2>1, ActsSound
<1>9. ServerKeepsNumbers /\ NoFragments'
  <2>1. app'.pc \notin {"seqno", "fragment"} /\ created' = created
    BY <1>5 DEF Untouched
  <2> QED
    BY <1>0, <1>7, <2>1, ClientActs
<1>10. Data' \subseteq Data \cup {m}
  <2>1. Grows(Server, {m}) /\ rec'[Client].pl = m
    BY <1>0, <1>4, <1>7 DEF Acts
  <2> QED
    BY <2>1, DataStep
<1>11. \A e \in Data : e.seqno \in Nat /\ e.seqno < m.seqno
  <2>1. \A e \in Data : e.seqno \in Nat /\ e.seqno <= rec[Client].seqno
    BY <1>0, DataSound DEF DataOrdered
  <2> QED
    BY <1>1, <1>3, <2>1
<1>12. ClientKeepsNumbers
  <2>1. \A d \in Data' : d.seqno <= r.seqno
    <3>1. ASSUME NEW d \in Data' PROVE d.seqno <= r.seqno
      <4>1. CASE d \in Data
        BY <1>1, <1>3, <1>4, <1>11, <4>1
      <4>2. CASE d = m
        BY <1>1, <1>3, <1>4, <4>2
      <4> QED
        BY <1>10, <4>1, <4>2
    <3> QED
      BY <3>1
  <2> QED
    BY <1>5, <1>7, <2>1 DEF ClientKeepsNumbers
<1>13. Log' = Log /\ created' >= created
  BY <1>0, LogSame DEF Untouched, TypeOK
<1>14. PICK more : more = {m}
  OBVIOUS
<1>15. /\ Data' \subseteq Data \cup more
       /\ \A d \in more : d.body > app.call /\ \A e \in Data : e.seqno < d.seqno
       /\ \A d, e \in more : d = e
  <2>1. m.body > app.call
    BY <1>0, <1>3 DEF k
  <2> QED
    BY <1>10, <1>11, <1>14, <2>1
<1> QED
  BY <1>8, <1>9, <1>12, <1>13, <1>15, OrderStep

LEMMA ClientKeeps ==
  ASSUME ShortCalls, OInv, ClientStep
  PROVE  OInv'
<1>0. /\ TypeOK /\ TypeOK' /\ AllSound /\ NoFragments /\ DataOrdered /\ Client \in Proc
      /\ app.call \in Nat /\ app \in Apps /\ SeqnoStart \in Nat /\ MaxCalls \in Nat /\ SEQNO_LIMIT \in Nat
  BY ClientTyped, ProcFacts, AppFacts, SrpcAssumption DEF OInv, TypeOK, Apps, Pcs
<1>1. app.pc \notin {"seqno", "fragment"}
  BY <1>0 DEF NoFragments
(* A step that sends nothing. *)
<1>2. ASSUME UNCHANGED net, Untouched, SameClient, app'.call >= app.call,
             app'.pc \notin {"seqno", "fragment", "start"}
      PROVE  OInv'
  <2>1. Log' = Log /\ created' = created
    BY <1>2, LogSame DEF Untouched
  <2>2. \A q \in Proc : Grows(q, {})
    BY <1>2, SameGrows
  <2> QED
    BY <1>0, <1>2, <2>1, <2>2, RecordsKept
<1>3. UNCHANGED rec => SameClient
  BY DEF SameClient, known
<1>4. CASE rpc_connect
  <2> DEFINE m == Control("CONNECT", SeqnoStart)
             r == crecord_setState(crecord_setPayload(crecord_create(SeqnoStart, 0), m), "CONNECT_SENT")
  <2>1. m \in Messages /\ m.cmd = "CONNECT" /\ m.seqno = SeqnoStart /\ 0 \in Nat
    BY <1>0, ControlTyped DEF Commands
  <2>2. /\ rec' = [rec EXCEPT ![Client] = r] /\ send_payload(Client, <<m>>)
        /\ app' = [app EXCEPT !.pc = "connect"] /\ Untouched /\ app.pc = "start"
    BY <1>4 DEF rpc_connect, ClientSends
  <2> HIDE DEF m
  <2>3. r \in Records /\ r.pl = m /\ r.seqno = SeqnoStart
    <3>1. "CONNECT_SENT" \in States /\ SeqnoStart \in Nat /\ 0 \in Nat /\ m \in Messages
      BY <1>0, <2>1, StateNames
    <3> QED
      BY <3>1, CreatedTyped
  <2> HIDE DEF r
  <2>4. Transmits(r, m)
    BY <2>1, <2>2, <2>3 DEF Transmits
  <2>5. Sound(Client, m, app.call) /\ m.cmd # "QUERY"
    BY <1>0, <2>1 DEF Sound, CommandsOf
  <2>6. Data = {}
    BY <1>0, <2>2 DEF DataOrdered
  <2>7. app'.call = app.call /\ app'.pc \in {"connect", "disconnect"}
    BY <1>0, <2>2 DEF Apps
  <2> QED
    BY <1>0, <2>2, <2>3, <2>4, <2>5, <2>6, <2>7, ControlKeeps
<1>5. CASE rpc_connect_returns
  <2>1. UNCHANGED net /\ Untouched
    BY <1>5 DEF rpc_connect_returns
  <2>2. app'.call = app.call /\ app'.pc \in {"ready", "over"}
    BY <1>0, <1>5 DEF rpc_connect_returns, Apps
  <2>3. SameClient
    <3>1. CASE rec' = [rec EXCEPT ![Client] = NoRecord]
      BY <1>0, <3>1, ProcFacts DEF SameClient, known, TypeOK
    <3> QED
      BY <1>3, <1>5, <3>1 DEF rpc_connect_returns
  <2> QED
    BY <1>0, <1>2, <2>1, <2>2, <2>3
<1>6. CASE rpc_call
  <2>1. Untouched
    BY <1>6 DEF rpc_call
  <2>2. CASE app' = [app EXCEPT !.call = app.call + 1, !.result = Fail] /\ UNCHANGED <<rec, net>>
    <3>1. app'.call = app.call + 1 /\ app'.pc = "ready"
      BY <1>0, <1>6, <2>2 DEF rpc_call, Apps
    <3> QED
      BY <1>0, <1>2, <1>3, <2>1, <2>2, <3>1
  <2>3. known(Client) => rec[Client].seqno < SEQNO_LIMIT
    <3>1. app.call < MaxCalls /\ SeqnoStart + MaxCalls <= SEQNO_LIMIT
      BY <1>6 DEF rpc_call, ShortCalls
    <3>2. known(Client) => rec[Client].seqno \in Nat /\ rec[Client].seqno <= SeqnoStart + app.call
      BY <1>0, KnownRecord, RecordFields DEF AllSound
    <3> QED
      BY <1>0, <3>1, <3>2
  <2>4. known(Client) => ~(rec[Client].seqno >= SEQNO_LIMIT)
    <3>1. known(Client) => rec[Client].seqno \in Nat
      BY <1>0, KnownRecord, RecordFields
    <3> QED
      BY <1>0, <2>3, <3>1
  <2>5. CASE /\ known(Client) /\ rec[Client].state = "IDLE"
             /\ SendQuery(NextNumber(rec[Client]), app.call + 1, 1)
    <3>1. app'.call = app.call + 1
      BY <2>5 DEF SendQuery
    <3> QED
      BY <1>0, <2>1, <2>5, <3>1, QueryKeeps
  <2> QED
    BY <1>6, <2>2, <2>4, <2>5 DEF rpc_call
<1>7. CASE rpc_call_returns
  <2>1. UNCHANGED net /\ Untouched /\ known(Client) /\ rec' = [rec EXCEPT ![Client].resp = NULL]
    BY <1>7 DEF rpc_call_returns
  <2>2. app'.call = app.call /\ app'.pc \in {"ready", "over"}
    BY <1>0, <1>7 DEF rpc_call_returns, Apps
  <2>3. SameClient
    <3>1. rec[Client] \in Records /\ rec \in [Proc -> Records \cup {NoRecord}]
      BY <1>0, <2>1, KnownRecord DEF TypeOK
    <3>2. rec'[Client] = [rec[Client] EXCEPT !.resp = NULL] /\ rec'[Server] = rec[Server]
      BY <1>0, <2>1, <3>1, ProcFacts
    <3>3. rec'[Client].pl = rec[Client].pl /\ rec'[Client].seqno = rec[Client].seqno
      BY <3>1, <3>2 DEF Records
    <3> QED
      BY <2>1, <3>2, <3>3 DEF SameClient
  <2> QED
    BY <1>0, <1>2, <2>1, <2>2, <2>3
<1>8. CASE rpc_disconnect
  <2>1. Untouched
    BY <1>8 DEF rpc_disconnect
  <2>2. CASE /\ known(Client)
             /\ ClientSends(rec[Client], Control("DISCONNECT", rec[Client].seqno), "DISCONNECT_SENT")
             /\ app' = [app EXCEPT !.pc = "disconnect"]
    <3> DEFINE cr == rec[Client]
               m == Control("DISCONNECT", cr.seqno)
               r == crecord_setState(crecord_setPayload(cr, m), "DISCONNECT_SENT")
    <3>1. cr \in Records /\ cr.seqno \in Nat /\ cr.seqno <= SeqnoStart + app.call
      BY <1>0, <2>2, KnownRecord, RecordFields DEF AllSound
    <3>2. rec' = [rec EXCEPT ![Client] = r] /\ send_payload(Client, <<m>>)
      BY <2>2 DEF ClientSends
    <3> HIDE DEF cr
    <3>3. m \in Messages /\ m.cmd = "DISCONNECT" /\ m.seqno = cr.seqno
      BY <3>1, ControlTyped DEF Commands
    <3> HIDE DEF m
    <3>4. r \in Records /\ r.pl = m /\ r.seqno = cr.seqno
      BY <3>1, <3>3, StateNames, PreparedTyped
    <3> HIDE DEF r
    <3>5. Transmits(r, m)
      BY <3>2, <3>3, <3>4 DEF Transmits
    <3>6. Sound(Client, m, app.call) /\ m.cmd # "QUERY"
      BY <3>1, <3>3 DEF Sound, CommandsOf
    <3>7. app'.call = app.call /\ app'.pc \in {"connect", "disconnect"}
      BY <1>0, <2>2 DEF Apps
    <3>8. r.seqno = rec[Client].seqno
      BY <3>4 DEF cr
    <3> QED
      BY <1>0, <2>1, <2>2, <3>5, <3>6, <3>7, <3>8, ControlKeeps
  <2>3. CASE app' = [app EXCEPT !.pc = "over"] /\ UNCHANGED <<rec, net>>
    <3>1. app'.call = app.call /\ app'.pc = "over"
      BY <1>0, <2>3 DEF Apps
    <3> QED
      BY <1>0, <1>2, <1>3, <2>1, <2>3, <3>1
  <2> QED
    BY <1>8, <2>2, <2>3 DEF rpc_disconnect
<1>9. CASE rpc_disconnect_returns
  <2>1. app'.call = app.call /\ app'.pc = "over" /\ UNCHANGED <<rec, net>> /\ Untouched
    BY <1>0, <1>9 DEF rpc_disconnect_returns, Apps
  <2> QED
    BY <1>0, <1>2, <1>3, <2>1
<1>10. CASE client_reads_freed
  <2>1. app'.call = app.call /\ app'.pc \in {"over", "ready"} /\ UNCHANGED <<rec, net>> /\ Untouched
    BY <1>0, <1>10 DEF client_reads_freed, Apps
  <2> QED
    BY <1>0, <1>2, <1>3, <2>1
<1>11. ~rpc_call_seqno /\ ~rpc_call_fragment
  BY <1>1 DEF rpc_call_seqno, rpc_call_fragment
<1> QED
  BY <1>4, <1>5, <1>6, <1>7, <1>8, <1>9, <1>10, <1>11 DEF ClientStep

-----------------------------------------------------------------------------
(* The server's worker.                                                    *)

LEMMA ResponseKeeps ==
  ASSUME OInv, TypeOK', known(Server), NEW f \in Nat, SendResponse(rec[Server], worker.call, f),
         UNCHANGED <<offered, created, queue, app, executed>>
  PROVE  OInv'
<1> DEFINE cr == rec[Server]
           more == f < ResponseFrags
           cmd == IF more THEN "FRAGMENT" ELSE "RESPONSE"
           m == Message(cmd, cr.seqno, f, ResponseFrags, worker.call)
           q == IF more THEN [cr EXCEPT !.lastFrag = f] ELSE cr
           st == IF more THEN "FRAGMENT_SENT" ELSE "RESPONSE_SENT"
           r == crecord_setState(crecord_setPayload(q, m), st)
<1>0. /\ TypeOK /\ AllSound /\ NoFragments /\ Server \in Proc /\ Other(Server) = Client /\ Client \in Proc
      /\ Client # Server
      /\ worker.call \in 0 .. MaxCalls /\ ResponseFrags \in Nat /\ app.call \in Nat /\ app'.call >= app.call
      /\ created' >= created
  BY ProcFacts, AppFacts, SrpcAssumption DEF OInv, TypeOK
<1>1. cr \in Records /\ cr.seqno \in Nat /\ cr.seqno <= SeqnoStart + app.call
  BY <1>0, KnownRecord, RecordFields DEF AllSound
<1>2. rec' = [rec EXCEPT ![Server] = r] /\ send_payload(Server, <<m>>)
  BY DEF SendResponse
<1>3. m \in Messages /\ m.cmd \in {"FRAGMENT", "RESPONSE"} /\ m.seqno = cr.seqno
  <2>1. cmd \in Commands /\ cmd \in {"FRAGMENT", "RESPONSE"}
    BY DEF Commands
  <2> HIDE DEF cmd, more, cr
  <2>2. cmd \in Commands /\ cr.seqno \in Nat /\ worker.call \in 0 .. MaxCalls /\ ResponseFrags \in Nat
    BY <1>0, <1>1, <2>1
  <2>3. m \in Messages /\ m.cmd = cmd /\ m.seqno = cr.seqno
    BY <2>2, MessageTyped
  <2> QED
    BY <2>1, <2>3, Zenon
<1>4. q \in Records /\ q.seqno = cr.seqno /\ q.id = cr.id
  BY <1>1 DEF Records
<1>5. st \in States /\ st # "FACK_SENT"
  BY StateNames
<1> HIDE DEF cr, more, cmd, m, q, st
<1>6. r \in Records /\ r.pl = m /\ r.seqno = cr.seqno /\ r.id = cr.id
  BY <1>3, <1>4, <1>5, PreparedTyped
<1>7. r.state = st
  <2>1. crecord_setPayload(q, m) \in Records
    BY <1>3, <1>4, SetPayloadTyped
  <2> QED
    BY <2>1 DEF crecord_setState, Records
<1> HIDE DEF r
<1>8. rec'[Server] = r /\ rec'[Client] = rec[Client]
  BY <1>0, <1>2 DEF TypeOK
<1>9. Grows(Server, {}) /\ Grows(Client, {m})
  <2>1. <<m>> \in Seq(Messages) /\ Elements(<<m>>) = {m}
    BY <1>3, OneMessage, ElementsOfOne
  <2>2. Grows(Server, {}) /\ Grows(Other(Server), Elements(<<m>>))
    BY <1>0, <1>2, <2>1, SendGrows
  <2> QED
    BY <1>0, <2>1, <2>2
<1>10. Sound(Server, m, app.call)
  BY <1>0, <1>1, <1>3 DEF Sound, CommandsOf
<1>11. Acts(Server, {m})
  BY <1>0, <1>1, <1>6, <1>8, <1>9, <1>10 DEF Acts
<1>12. AllSound'
  BY <1>0, <1>11, ActsSound
<1>13. NoFragments'
  BY <1>0, <1>5, <1>7, <1>8 DEF NoFragments
<1>14. ServerKeepsNumbers
  BY <1>1, <1>6, <1>8 DEF ServerKeepsNumbers, cr
<1>15. Data' \subseteq Data /\ ClientKeepsNumbers
  BY <1>11, ServerActsData, ServerActs
<1>16. Log' = Log
  BY LogSame
<1> QED
  BY <1>0, <1>12, <1>13, <1>14, <1>15, <1>16, QuietStep

LEMMA WorkerKeeps ==
  ASSUME OInv, WorkerStep
  PROVE  OInv'
<1>0. TypeOK /\ TypeOK' /\ NoFragments /\ worker.fnum \in Nat /\ app.call \in Nat
  BY WorkerTyped, AppFacts DEF OInv, TypeOK
<1>1. ASSUME UNCHANGED <<rec, net, created, app>>, Log' = Log PROVE OInv'
  <2>1. (\A q \in Proc : Grows(q, {})) /\ SameClient
    BY <1>1, SameGrows DEF SameClient, known
  <2>2. app'.call >= app.call /\ app'.pc \notin {"seqno", "fragment"} /\ app'.pc = app.pc
    BY <1>0, <1>1 DEF NoFragments
  <2> QED
    BY <1>0, <1>1, <2>1, <2>2, RecordsKept
<1>2. CASE rpc_query
  <2>1. Log' = Log
    BY <1>0, <1>2, LogMoves
  <2> QED
    BY <1>1, <1>2, <2>1 DEF rpc_query
<1>3. ASSUME UNCHANGED <<rec, net, offered, created, queue, app, executed>> PROVE OInv'
  <2>1. Log' = Log
    BY <1>3, LogSame
  <2> QED
    BY <1>1, <1>3, <2>1
<1>4. CASE rpc_response
  <2>1. CASE known(Server) /\ SendResponse(rec[Server], worker.call, 1)
    <3>1. 1 \in Nat /\ UNCHANGED <<offered, created, queue, app, executed>>
      BY <1>4 DEF rpc_response
    <3> QED
      BY <1>0, <2>1, <3>1, ResponseKeeps
  <2> QED
    BY <1>3, <1>4, <2>1 DEF rpc_response
<1>5. CASE rpc_response_fragment
  <2>1. CASE known(Server) /\ SendResponse(rec[Server], worker.call, worker.fnum + 1)
    <3>1. worker.fnum + 1 \in Nat /\ UNCHANGED <<offered, created, queue, app, executed>>
      BY <1>0, <1>5 DEF rpc_response_fragment
    <3> QED
      BY <1>0, <2>1, <3>1, ResponseKeeps
  <2> QED
    BY <1>3, <1>5, <2>1 DEF rpc_response_fragment
<1>6. CASE worker_reads_freed
  BY <1>3, <1>6 DEF worker_reads_freed
<1> QED
  BY <1>2, <1>4, <1>5, <1>6 DEF WorkerStep

LEMMA InitOrdered ==
  Init => OInv
<1> SUFFICES ASSUME Init PROVE OInv
  OBVIOUS
<1>1. TypeOK
  BY InitTyped
<1>2. /\ ~known(Client) /\ ~known(Server) /\ app.pc = "start" /\ executed = << >> /\ queue = << >>
      /\ net[Client] = << >> /\ net[Server] = << >>
  BY ProcFacts DEF Init, known
<1>3. Len(executed) = 0 /\ Len(queue) = 0 /\ Len(net[Client]) = 0 /\ Len(net[Server]) = 0
  BY <1>2
<1>4. Data = {}
  BY <1>2, <1>3 DEF Data
<1>5. DOMAIN Log = {}
  BY <1>3 DEF Log
<1>6. AllSound
  BY <1>2, <1>3, ProcFacts DEF AllSound, Proc
<1> QED
  BY <1>1, <1>2, <1>4, <1>5, <1>6 DEF OInv, NoFragments, DataOrdered, LogOrdered, Ahead

LEMMA NextOrdered ==
  ASSUME ShortCalls, OInv, [Next]_vars
  PROVE  OInv'
<1>0. TypeOK /\ NoFragments /\ TypeOK' /\ app.call \in Nat
  BY NextTyped, AppFacts DEF OInv
<1>1. ASSUME UNCHANGED <<rec, net, created, queue, app, executed>> PROVE OInv'
  <2>1. (\A q \in Proc : Grows(q, {})) /\ SameClient /\ Log' = Log
    BY <1>1, SameGrows, LogSame DEF SameClient, known
  <2>2. app'.call >= app.call /\ app'.pc \notin {"seqno", "fragment"} /\ app'.pc = app.pc
    BY <1>0, <1>1 DEF NoFragments
  <2> QED
    BY <1>0, <1>1, <2>1, <2>2, RecordsKept
<1>2. CASE rpc_offer
  BY <1>1, <1>2 DEF rpc_offer
<1>3. CASE UNCHANGED vars
  BY <1>1, <1>3 DEF vars
<1>4. ASSUME NEW p \in Proc, reader(p) PROVE OInv'
  BY <1>4, ClientReads, ServerReads DEF Proc
<1> QED
  BY <1>2, <1>3, <1>4, ClientKeeps, WorkerKeeps, LoseKeeps, TimerKeeps DEF Next

(* What the worker was handed is the beginning of the log. *)
LEMMA OrderedOnce ==
  ASSUME OInv
  PROVE  OncePerRecord
<1>0. TypeOK /\ LogOrdered /\ app.call \in Nat
  BY AppFacts DEF OInv
<1>1. Len(executed) \in Nat /\ Len(queue) \in Nat /\ DOMAIN Log = 1 .. LogLength
  BY <1>0, LogFacts
<1>2. \A n \in 1 .. Len(executed) : n \in DOMAIN Log /\ Log[n] = executed[n]
  BY <1>1 DEF Log, LogLength
<1>3. \A n \in 1 .. Len(executed) : executed[n].call \in 1 .. app.call
  BY <1>0, <1>2 DEF LogOrdered
<1>4. ASSUME NEW n \in 1 .. Len(executed), NEW k \in 1 .. Len(executed), executed[n] = executed[k]
      PROVE  n = k
  <2>1. ~(n < k)
    BY <1>0, <1>2, <1>3, <1>4 DEF LogOrdered
  <2>2. ~(k < n)
    BY <1>0, <1>2, <1>3, <1>4 DEF LogOrdered
  <2> QED
    BY <1>1, <2>1, <2>2
<1> QED
  BY <1>0, <1>3, <1>4 DEF OncePerRecord

(***************************************************************************)
(* No connection record of the server executes a call twice, or executes   *)
(* one that was not received whole, for queries of one datagram while the  *)
(* sequence numbers are not reset: the QUERY handler of src/srpc.c accepts *)
(* only the number after the last one.  Datagrams may be lost, transmitted *)
(* again and overtake each other, records may time out and be created      *)
(* again by a CONNECT that comes late, and threads may wake up late.       *)
(***************************************************************************)
THEOREM OnceCorrect == ShortCalls => (Spec => []OncePerRecord)
<1> SUFFICES ASSUME ShortCalls PROVE Spec => []OncePerRecord
  OBVIOUS
<1>1. Init => OInv
  BY InitOrdered
<1>2. OInv /\ [Next]_vars => OInv'
  BY NextOrdered
<1>3. OInv => OncePerRecord
  BY OrderedOnce
<1> QED
  BY <1>1, <1>2, <1>3, PTL DEF Spec

-----------------------------------------------------------------------------
(***************************************************************************)
(* The call promise, on a network that keeps datagrams in order.           *)
(*                                                                         *)
(* A call runs through stages: the client's fragments 1 .. QueryFrags, the *)
(* last of them the QUERY, then the server's fragments 1 .. ResponseFrags, *)
(* the last of them the RESPONSE.  Each side's record says with its        *)
(* sequence number and with the datagram it would transmit again how far   *)
(* it has got, and neither side is ever more than one datagram ahead of    *)
(* what the other has acknowledged.  Everything in flight is bounded by    *)
(* these two positions.                                                    *)
(***************************************************************************)

(* Datagrams in order, and numbers that rpc_call need not reset. *)
InOrder == Ordered = TRUE /\ SeqnoStart + MaxCalls <= SEQNO_LIMIT

cli == rec[Client]
srv == rec[Server]
HasClient == known(Client)
HasServer == known(Server)

(* The client's thread is using its record. *)
Active == HasClient /\ app.pc \in {"connect", "ready", "fragment", "query"}

(* It is in rpc_call. *)
InCall == HasClient /\ app.pc \in {"fragment", "query"}

(* What the server may still receive, and what the client may. *)
Up == Elements(net[Server]) \cup (IF HasClient THEN {cli.pl} ELSE {})
Down == Elements(net[Client]) \cup (IF HasServer THEN {srv.pl} ELSE {})

Asks == {"FRAGMENT", "QUERY"}           \* from the client
Acks == {"FACK", "RACK"}
Confirms == {"FACK", "QACK"}            \* from the server
Replies == {"FRAGMENT", "RESPONSE"}

LastStage == QueryFrags + ResponseFrags

UpStage(m) == IF m.cmd \in Asks THEN m.fnum
              ELSE IF m.cmd \in Acks THEN QueryFrags + m.fnum ELSE LastStage

DownStage(m) == IF m.cmd \in Confirms THEN m.fnum
                ELSE IF m.cmd \in Replies THEN QueryFrags + m.fnum ELSE LastStage

(* Stage x of number s does not come after stage y of number t. *)
NotAfter(s, x, t, y) == s < t \/ (s = t /\ x <= y)

(* Where the server and the client have got to. *)
SStage == DownStage(srv.pl)
CStage == UpStage(cli.pl)

(* What the client may transmit in the course of n calls. *)
UpSound(m, n) ==
  /\ m.cmd \in {"CONNECT", "FRAGMENT", "QUERY", "FACK", "RACK", "DISCONNECT", "PING", "PACK"}
  /\ m.cmd = "CONNECT" => m.seqno = SeqnoStart
  /\ m.cmd \in Asks => m.seqno > SeqnoStart /\ m.nfrags = QueryFrags /\ m.body \in 1 .. n
  /\ m.cmd = "FRAGMENT" => m.fnum \in 1 .. QueryFrags - 1
  /\ m.cmd = "QUERY" => m.fnum = QueryFrags
  /\ m.cmd \in Acks => m.seqno > SeqnoStart
  /\ m.cmd = "FACK" => m.fnum \in 1 .. ResponseFrags - 1
  /\ m.cmd = "RACK" => m.fnum = ResponseFrags

(* What the server may transmit. *)
DownSound(m) ==
  /\ m.cmd \in {"CACK", "FRAGMENT", "RESPONSE", "FACK", "QACK", "DACK", "PING", "PACK"}
  /\ m.cmd = "CACK" => m.seqno = SeqnoStart
  /\ m.cmd \in Confirms \cup Replies => m.seqno > SeqnoStart
  /\ m.cmd = "FACK" => m.fnum \in 1 .. QueryFrags - 1
  /\ m.cmd = "QACK" => m.fnum = QueryFrags
  /\ m.cmd \in Replies => m.nfrags = ResponseFrags
  /\ m.cmd = "FRAGMENT" => m.fnum \in 1 .. ResponseFrags - 1
  /\ m.cmd = "RESPONSE" => m.fnum = ResponseFrags

UpShape == \A m \in Up : UpSound(m, app.call)
DownShape == \A m \in Down : DownSound(m)

(* A record's state fits what it last transmitted. *)
ServerShape ==
  HasServer =>
    /\ srv.seqno = srv.pl.seqno
    /\ \/ srv.pl.cmd = "CACK" /\ srv.state \in {"IDLE", "TIMEDOUT"}
       \/ srv.pl.cmd = "FACK" /\ srv.state \in {"FACK_SENT", "TIMEDOUT"} /\ srv.lastFrag = srv.pl.fnum
       \/ srv.pl.cmd = "QACK" /\ srv.state \in {"QACK_SENT", "TIMEDOUT"}
       \/ /\ srv.pl.cmd = "FRAGMENT" /\ srv.state \in {"FRAGMENT_SENT", "FACK_RECEIVED", "TIMEDOUT"}
          /\ srv.lastFrag = srv.pl.fnum
       \/ srv.pl.cmd = "RESPONSE" /\ srv.state \in {"RESPONSE_SENT", "IDLE", "TIMEDOUT"}

ClientShape ==
  Active =>
    /\ cli.seqno = cli.pl.seqno
    /\ \/ /\ cli.pl.cmd = "CONNECT" /\ cli.state \in {"CONNECT_SENT", "IDLE", "TIMEDOUT"}
          /\ app.pc \in {"connect", "ready"}
       \/ /\ cli.pl.cmd = "FRAGMENT" /\ cli.lastFrag = cli.pl.fnum
          /\ \/ /\ cli.state \in {"FRAGMENT_SENT", "FACK_RECEIVED", "TIMEDOUT"} /\ app.pc = "fragment"
                /\ app.fnum = cli.pl.fnum /\ cli.pl.body = app.call
             \/ cli.state = "TIMEDOUT" /\ app.pc = "ready"
       \/ /\ cli.pl.cmd = "QUERY" /\ cli.state \in {"QUERY_SENT", "AWAITING_RESPONSE", "TIMEDOUT"}
          /\ app.pc = "ready" \/ (app.pc = "query" /\ cli.pl.body = app.call)
       \/ /\ cli.pl.cmd = "FACK" /\ cli.state \in {"FACK_SENT", "TIMEDOUT"}
          /\ cli.lastFrag = cli.pl.fnum /\ app.pc \in {"query", "ready"}
       \/ cli.pl.cmd = "RACK" /\ cli.state \in {"IDLE", "TIMEDOUT"} /\ app.pc \in {"query", "ready"}

(* What is in flight, against what the server has received. *)
ServerBound ==
  HasServer =>
    /\ \A m \in Up : m.cmd \in Asks =>
          /\ m.seqno <= srv.seqno + 1
          /\ m.seqno = srv.seqno + 1 => m.fnum = 1 /\ SStage = LastStage
          /\ m.seqno = srv.seqno => m.fnum <= SStage + 1
    /\ \A m \in Up : m.cmd \in Acks => NotAfter(m.seqno, UpStage(m), srv.seqno, SStage)
    /\ \A m \in Down : m.cmd \in Confirms \cup Replies => NotAfter(m.seqno, DownStage(m), srv.seqno, SStage)

(* What is in flight, against what the client has received. *)
ClientBound ==
  Active =>
    /\ \A m \in Up : m.cmd \in Asks \cup Acks => NotAfter(m.seqno, UpStage(m), cli.seqno, CStage)
    /\ \A m \in Down : m.cmd \in Confirms \cup Replies =>
          /\ m.seqno <= cli.seqno
          /\ m.seqno = cli.seqno /\ m.cmd \in Replies => CStage >= QueryFrags /\ DownStage(m) <= CStage + 1
          /\ m.seqno = cli.seqno /\ m.cmd = "QACK" => cli.pl.cmd = "QUERY"

BothBound ==
  Active /\ HasServer =>
    /\ SeqnoStart <= srv.seqno /\ srv.seqno <= cli.seqno
    /\ cli.state = "FACK_RECEIVED" => srv.seqno = cli.seqno /\ cli.lastFrag <= SStage
    /\ srv.state = "FACK_RECEIVED" => NotAfter(srv.seqno, QueryFrags + srv.lastFrag, cli.seqno, CStage)

(* a is ahead of b in a queue. *)
Before(q, a, b) == \E i, j \in 1 .. Len(q) : i < j /\ q[i] = a /\ q[j] = b

(* No CONNECT behind a query, and no QACK behind a response to its query. *)
Fifo ==
  /\ \A a, b \in Elements(net[Server]) :
        Before(net[Server], a, b) /\ b.cmd = "CONNECT" => a.cmd \notin Asks
  /\ \A a, b \in Elements(net[Client]) :
        Before(net[Client], a, b) /\ a.cmd \in Replies /\ b.cmd = "QACK" => a.seqno < b.seqno
  /\ HasClient /\ cli.pl.cmd = "CONNECT" => \A m \in Up : m.cmd \notin Asks
  /\ HasServer /\ srv.pl.cmd = "QACK" => \A m \in Down : m.cmd \in Replies => m.seqno < srv.seqno

Connecting == app.pc = "start" \/ \E m \in Up : m.cmd = "CONNECT"

(* As long as a CONNECT may arrive, nothing has come of a call. *)
Fresh ==
  Connecting =>
    /\ executed = << >> /\ queue = << >> /\ worker.pc = "idle"
    /\ HasServer => srv.pl.cmd = "CACK"
    /\ \A m \in Down : m.cmd \notin Confirms \cup Replies
    /\ \A m \in Up : m.cmd \notin Acks /\ (m.cmd \in Asks => m.seqno = SeqnoStart + 1 /\ m.fnum = 1)
    /\ HasClient => cli.state \notin {"FACK_RECEIVED", "AWAITING_RESPONSE", "FACK_SENT"}

Numbers ==
  /\ app.pc # "seqno"
  /\ app.pc = "start" => ~HasClient /\ \A m \in Up : m.cmd \notin Asks
  /\ Active => SeqnoStart <= cli.seqno /\ cli.seqno <= SeqnoStart + app.call

(* A later number belongs to a later call. *)
BodyOrder == 
  \A m, n \in Up : m.cmd \in Asks /\ n.cmd \in Asks =>
     /\ m.seqno = n.seqno => m.body = n.body
     /\ m.seqno < n.seqno => m.body < n.body

(* Calls are accepted in the order they are made, each at most once. *)
LogOrder ==
  /\ \A n \in DOMAIN Log : Log[n].call \in 1 .. app.call
  /\ \A n, k \in DOMAIN Log : n < k => Log[n].call < Log[k].call

(* The first f of n fragments of the data of call k are in a buffer. *)
Partial(buf, k, f, n) == buf = [j \in 1 .. n |-> IF j <= f THEN <<k, j>> ELSE Junk]

(* The server's number is that of call k. *)
Receiving(k) ==
  /\ \A m \in Up : m.cmd \in Asks => /\ m.seqno = srv.seqno => m.body = k
                                     /\ m.seqno > srv.seqno => m.body > k
  /\ InCall /\ cli.seqno = srv.seqno => k = app.call

LastCall == Log[LogLength].call

(* The server's fragments are of one call, that is not yet in the log. *)
QueryData ==
  HasServer =>
    /\ \A m \in Up : m.cmd \in Asks /\ m.seqno > srv.seqno => \A n \in DOMAIN Log : Log[n].call < m.body
    /\ srv.pl.cmd = "FACK" => \E k \in 1 .. app.call : /\ Partial(srv.resp, k, srv.lastFrag, QueryFrags)
                                                       /\ Receiving(k)
                                                       /\ \A n \in DOMAIN Log : Log[n].call < k

(* The worker is where the server's record says it is. *)
WorkerData ==
  HasServer =>
    /\ srv.pl.cmd \in {"QACK", "FRAGMENT", "RESPONSE"} =>
         /\ LogLength > 0
         /\ InCall /\ cli.seqno = srv.seqno => LastCall = app.call
    /\ srv.pl.cmd \in {"CACK", "FACK", "RESPONSE"} => queue = << >> /\ worker.pc = "idle"
    /\ srv.pl.cmd = "QACK" /\ srv.state = "QACK_SENT" =>
         /\ worker.pc # "fragment" /\ Len(queue) <= 1
         /\ worker.pc = "work" => queue = << >> /\ worker.call = LastCall
    /\ srv.pl.cmd = "FRAGMENT" /\ srv.state # "TIMEDOUT" =>
         /\ worker.pc = "fragment" /\ worker.fnum = srv.lastFrag
         /\ queue = << >> /\ worker.call = LastCall

Done(k) == \E n \in 1 .. Len(executed) : executed[n].call = k

(* What the client has of the response, and what is on its way, is of the  *)
(* call in progress.                                                       *)
ResponseData ==
  InCall =>
    /\ \A m \in Up : m.cmd \in Asks /\ m.seqno = cli.seqno => m.body = app.call
    /\ \A m \in Down : m.cmd \in Replies /\ m.seqno = cli.seqno => m.body = app.call /\ Done(app.call)
    /\ cli.pl.cmd \in Acks => Done(app.call)
    /\ cli.pl.cmd = "FACK" => Partial(cli.resp, app.call, cli.lastFrag, ResponseFrags)
    /\ cli.pl.cmd = "RACK" => Partial(cli.resp, app.call, ResponseFrags, ResponseFrags)

Outcomes ==
  /\ app.pc \in {"start", "connect"} => app.call = 0 /\ app.result = NoResult
  /\ app.pc \in {"fragment", "query"} => app.call > 0 /\ app.result = NoResult
  /\ app.pc = "ready" => app.call = 0 \/ app.result # NoResult
  /\ OwnResponse

CallInv == /\ TypeOK /\ UpShape /\ DownShape /\ ServerShape /\ ClientShape
        /\ ServerBound /\ ClientBound /\ BothBound /\ Fifo /\ Fresh /\ Numbers
        /\ BodyOrder /\ LogOrder /\ QueryData /\ WorkerData /\ ResponseData /\ Outcomes

-----------------------------------------------------------------------------
(* Types.                                                                  *)

LEMMA ElementsTyped ==
  ASSUME NEW q \in Seq(Messages)
  PROVE  Elements(q) \subseteq Messages
  BY ElementOfSeq DEF Elements

LEMMA OrderTypes ==
  ASSUME TypeOK
  PROVE  /\ Up \subseteq Messages /\ Down \subseteq Messages
         /\ HasClient => cli \in Records /\ cli.pl \in Up
         /\ HasServer => srv \in Records /\ srv.pl \in Down
         /\ app.call \in Nat /\ app.call <= MaxCalls /\ app.fnum \in Nat
         /\ worker.call \in Nat /\ worker.fnum \in Nat
<1>1. net[Server] \in Seq(Messages) /\ net[Client] \in Seq(Messages)
  BY ProcFacts DEF TypeOK
<1>2. Elements(net[Server]) \subseteq Messages /\ Elements(net[Client]) \subseteq Messages
  BY <1>1, ElementsTyped
<1>3. HasClient => cli \in Records /\ cli.pl \in Messages
  BY KnownRecord, ProcFacts DEF HasClient, cli
<1>4. HasServer => srv \in Records /\ srv.pl \in Messages
  BY KnownRecord, ProcFacts DEF HasServer, srv
<1>5. /\ app.call \in Nat /\ app.call <= MaxCalls /\ app.fnum \in Nat
      /\ worker.call \in Nat /\ worker.fnum \in Nat
  BY SrpcAssumption DEF TypeOK
<1> QED
  BY <1>2, <1>3, <1>4, <1>5 DEF Up, Down

LEMMA StageFacts ==
  /\ QueryFrags \in Nat /\ ResponseFrags \in Nat /\ QueryFrags >= 1 /\ ResponseFrags >= 1
  /\ SeqnoStart \in Nat /\ LastStage = QueryFrags + ResponseFrags /\ LastStage \in Nat
  /\ \A m \in Messages : UpStage(m) \in Nat /\ DownStage(m) \in Nat
<1>1. /\ QueryFrags \in Nat /\ ResponseFrags \in Nat /\ QueryFrags >= 1 /\ ResponseFrags >= 1
      /\ SeqnoStart \in Nat /\ LastStage = QueryFrags + ResponseFrags /\ LastStage \in Nat
  BY SrpcAssumption DEF LastStage
<1> QED
  BY <1>1, MessageFields DEF UpStage, DownStage

-----------------------------------------------------------------------------
(* The order of datagrams.                                                 *)

(* A queue q2 that arises from q by losing its head or gaining x at its end. *)
Follows(q, q2, new) ==
  /\ Elements(q2) \subseteq Elements(q) \cup new
  /\ \A a, b \in Elements(q2) : Before(q2, a, b) => (a \in Elements(q) /\ b \in new) \/ 
        (a \in Elements(q) /\ b \in Elements(q) /\ Before(q, a, b))

LEMMA FollowsSame ==
  ASSUME NEW q \in Seq(Messages), NEW new
  PROVE  Follows(q, q, new)
  BY DEF Follows

LEMMA FollowsSent ==
  ASSUME NEW q \in Seq(Messages), NEW x \in Messages, NEW q2, q2 = q \/ q2 = Append(q, x)
  PROVE  Follows(q, q2, {x})
<1>1. CASE q2 = q
  BY <1>1, FollowsSame
<1>2. CASE q2 = Append(q, x)
  <2>1. /\ Len(q) \in Nat /\ Len(q2) = Len(q) + 1
        /\ \A n \in 1 .. Len(q) : q2[n] = q[n]
        /\ q2[Len(q) + 1] = x
    BY <1>2, AppendProperties
  <2>2. Elements(q2) \subseteq Elements(q) \cup {x}
    BY <2>1 DEF Elements
  <2>3. ASSUME NEW i \in 1 .. Len(q2), NEW j \in 1 .. Len(q2), i < j
        PROVE  \/ q2[i] \in Elements(q) /\ q2[j] = x
               \/ q2[i] \in Elements(q) /\ q2[j] \in Elements(q) /\ Before(q, q2[i], q2[j])
    <3>1. i \in 1 .. Len(q) /\ q2[i] = q[i] /\ q2[i] \in Elements(q)
      BY <2>1, <2>3 DEF Elements
    <3>2. CASE j \in 1 .. Len(q)
      <4>1. q2[j] = q[j] /\ q[j] \in Elements(q)
        BY <2>1, <3>2 DEF Elements
      <4> QED
        BY <2>3, <3>1, <3>2, <4>1 DEF Before
    <3>3. CASE j = Len(q) + 1
      BY <2>1, <3>1, <3>3
    <3> QED
      BY <2>1, <3>2, <3>3
  <2>4. ASSUME NEW a \in Elements(q2), NEW b \in Elements(q2), Before(q2, a, b)
        PROVE  (a \in Elements(q) /\ b = x) \/ (a \in Elements(q) /\ b \in Elements(q) /\ Before(q, a, b))
    <3>1. PICK i \in 1 .. Len(q2), j \in 1 .. Len(q2) : i < j /\ q2[i] = a /\ q2[j] = b
      BY <2>4 DEF Before
    <3> QED
      BY <2>3, <3>1
  <2> QED
    BY <2>2, <2>4 DEF Follows
<1> QED
  BY <1>1, <1>2

(* The datagram that arrives is ahead of all the others. *)
LEMMA FollowsTaken ==
  ASSUME NEW q \in Seq(Messages), q # << >>, NEW q2, q2 = RemoveAt(q, 1)
  PROVE  /\ Follows(q, q2, {}) /\ q[1] \in Elements(q)
         /\ \A b \in Elements(q2) : b \in Elements(q) /\ Before(q, q[1], b)
<1>1. Len(q) \in Nat /\ Len(q) >= 1
  BY EmptySeq
<1> DEFINE t == SubSeq(q, 2, Len(q))
<1>2. t \in Seq(Messages) /\ Len(t) = Len(q) - 1 /\ \A n \in 1 .. Len(q) - 1 : t[n] = q[n + 1]
  <2>1. \A n \in 2 .. Len(q) : q[n] \in Messages
    BY <1>1, ElementOfSeq
  <2>2. /\ t \in Seq(Messages)
        /\ Len(t) = IF 2 <= Len(q) THEN Len(q) - 2 + 1 ELSE 0
        /\ \A n \in 1 .. Len(q) - 2 + 1 : t[n] = q[2 + n - 1]
    BY <1>1, <2>1, SubSeqProperties
  <2> HIDE DEF t
  <2>3. Len(t) = Len(q) - 1
    <3>1. CASE 2 <= Len(q)
      <4>1. Len(t) = Len(q) - 2 + 1
        BY <2>2, <3>1
      <4> QED
        BY <1>1, <4>1
    <3>2. CASE ~(2 <= Len(q))
      <4>1. Len(t) = 0
        BY <2>2, <3>2
      <4> QED
        BY <1>1, <3>2, <4>1
    <3> QED
      BY <3>1, <3>2
  <2>4. \A n \in 1 .. Len(q) - 1 : n \in 1 .. Len(q) - 2 + 1 /\ 2 + n - 1 = n + 1
    BY <1>1
  <2> QED
    BY <2>2, <2>3, <2>4
<1> HIDE DEF t
<1>8. q2 = t
  <2>1. q2 = SubSeq(q, 1, 0) \o t
    BY <1>1 DEF RemoveAt, t
  <2>2. SubSeq(q, 1, 0) = << >>
    BY <1>1
  <2> QED
    BY <1>2, <2>1, <2>2
<1>3. \A n \in 1 .. Len(q2) : n + 1 \in 1 .. Len(q) /\ q2[n] = q[n + 1] /\ 1 < n + 1
  BY <1>1, <1>2, <1>8
<1>4. \A b \in Elements(q2) : b \in Elements(q) /\ Before(q, q[1], b)
  BY <1>1, <1>3 DEF Elements, Before
<1>5. ASSUME NEW i \in 1 .. Len(q2), NEW j \in 1 .. Len(q2), i < j
      PROVE  Before(q, q2[i], q2[j])
  <2>1. i + 1 \in 1 .. Len(q) /\ j + 1 \in 1 .. Len(q) /\ i + 1 < j + 1 /\ q2[i] = q[i + 1] /\ q2[j] = q[j + 1]
    BY <1>1, <1>3, <1>5
  <2> QED
    BY <2>1 DEF Before
<1>6. \A a, b \in Elements(q2) : Before(q2, a, b) => Before(q, a, b)
  BY <1>5 DEF Before
<1>7. q[1] \in Elements(q)
  BY <1>1 DEF Elements
<1> QED
  BY <1>4, <1>6, <1>7 DEF Follows

(* p transmits some of `new'. *)
Moves(p, new) ==
  Follows(net[p], net'[p], {}) /\ Follows(net[Other(p)], net'[Other(p)], new)

(* m has arrived at p. *)
Taken(p, m) ==
  /\ m \in Elements(net[p])
  /\ \A b \in Elements(net'[p]) : b \in Elements(net[p]) /\ Before(net[p], m, b)

(* At most one datagram is transmitted at a time. *)
Single(out) == out = << >> \/ \E x \in Messages : out = <<x>>

LEMMA FollowsMore ==
  ASSUME NEW q, NEW q2, NEW new, NEW more, Follows(q, q2, new), new \subseteq more
  PROVE  Follows(q, q2, more)
  BY DEF Follows

LEMMA SentFollows ==
  ASSUME NEW q \in Seq(Messages), NEW out, Single(out)
  PROVE  Follows(q, Sent(q, out), Elements(out))
<1>1. CASE out = << >>
  <2>1. q \o << >> = q
    OBVIOUS
  <2>2. Sent(q, out) = q
    BY <1>1, <2>1 DEF Sent
  <2> QED
    BY <2>2, FollowsSame
<1>2. ASSUME NEW x \in Messages, out = <<x>>
      PROVE  Follows(q, Sent(q, out), Elements(out))
  <2>1. q \o <<x>> = Append(q, x)
    OBVIOUS
  <2>2. Sent(q, out) = q \/ Sent(q, out) = Append(q, x)
    BY <1>2, <2>1 DEF Sent
  <2>3. Elements(out) = {x}
    BY <1>2, ElementsOfOne
  <2> QED
    BY <2>2, <2>3, FollowsSent
<1> QED
  BY <1>1, <1>2 DEF Single

LEMMA ArrivingFirst ==
  ASSUME TypeOK, Ordered = TRUE, NEW p \in Proc, NEW i \in Arriving(p)
  PROVE  i = 1 /\ net[p] \in Seq(Messages) /\ net[p] # << >>
  BY DEF Arriving, TypeOK

LEMMA HandledMoves ==
  ASSUME TypeOK, Ordered = TRUE, NEW p \in Proc, NEW i \in Arriving(p), NEW r, NEW out, Single(out),
         Handled(p, i, r, out)
  PROVE  /\ Moves(p, Elements(out)) /\ Taken(p, net[p][i])
         /\ rec'[p] = r /\ rec'[Other(p)] = rec[Other(p)]
<1>1. /\ net \in [Proc -> Seq(Messages)] /\ rec \in [Proc -> Records \cup {NoRecord}]
      /\ net[p] \in Seq(Messages) /\ net[Other(p)] \in Seq(Messages) /\ Other(p) \in Proc /\ Other(p) # p
  BY ProcFacts DEF TypeOK
<1>2. i = 1 /\ net[p] # << >>
  BY ArrivingFirst
<1>3. net'[p] = RemoveAt(net[p], 1) /\ net'[Other(p)] = Sent(net[Other(p)], out)
  BY <1>1, <1>2 DEF Handled
<1>4. Follows(net[p], net'[p], {}) /\ Taken(p, net[p][1])
  BY <1>1, <1>2, <1>3, FollowsTaken DEF Taken
<1>5. Follows(net[Other(p)], net'[Other(p)], Elements(out))
  BY <1>1, <1>3, SentFollows
<1>6. rec'[p] = r /\ rec'[Other(p)] = rec[Other(p)]
  BY <1>1 DEF Handled
<1> QED
  BY <1>2, <1>4, <1>5, <1>6 DEF Moves

LEMMA SendMoves ==
  ASSUME TypeOK, NEW p \in Proc, NEW out, Single(out), send_payload(p, out)
  PROVE  Moves(p, Elements(out))
<1>1. /\ net \in [Proc -> Seq(Messages)] /\ net[p] \in Seq(Messages)
      /\ net[Other(p)] \in Seq(Messages) /\ Other(p) \in Proc /\ Other(p) # p
  BY ProcFacts DEF TypeOK
<1>2. net'[p] = net[p] /\ net'[Other(p)] = Sent(net[Other(p)], out)
  BY <1>1 DEF send_payload
<1>3. Follows(net[p], net'[p], {})
  BY <1>1, <1>2, FollowsSame
<1>4. Follows(net[Other(p)], net'[Other(p)], Elements(out))
  BY <1>1, <1>2, SentFollows
<1> QED
  BY <1>3, <1>4 DEF Moves

LEMMA LoseMoves ==
  ASSUME TypeOK, Ordered = TRUE, NEW p \in Proc, lose(p)
  PROVE  Moves(Client, {})
<1>1. /\ net \in [Proc -> Seq(Messages)] /\ \A q \in Proc : net[q] \in Seq(Messages)
      /\ Client \in Proc /\ Server \in Proc /\ Other(Client) = Server
  BY ProcFacts DEF TypeOK
<1>2. net[p] # << >> /\ net' = [net EXCEPT ![p] = RemoveAt(@, 1)]
  BY ArrivingFirst DEF lose
<1>3. ASSUME NEW q \in Proc PROVE Follows(net[q], net'[q], {})
  <2>1. CASE q = p
    <3>1. net'[q] = RemoveAt(net[q], 1) /\ net[q] # << >> /\ net[q] \in Seq(Messages)
      BY <1>1, <1>2, <2>1
    <3> QED
      BY <3>1, FollowsTaken
  <2>2. CASE q # p
    <3>1. net'[q] = net[q] /\ net[q] \in Seq(Messages)
      BY <1>1, <1>2, <2>2
    <3> QED
      BY <3>1, FollowsSame
  <2> QED
    BY <2>1, <2>2
<1> QED
  BY <1>1, <1>3 DEF Moves

LEMMA SameMoves ==
  ASSUME TypeOK, UNCHANGED net, NEW p \in Proc, NEW new
  PROVE  Moves(p, new)
<1>1. net[p] \in Seq(Messages) /\ net[Other(p)] \in Seq(Messages) /\ net' = net
  BY ProcFacts DEF TypeOK
<1> QED
  BY <1>1, FollowsSame DEF Moves

(* Noise: datagrams that carry nothing of a call. *)
UpNoise == {m \in Messages : m.cmd \in {"DISCONNECT", "PING", "PACK"}}
DownNoise == {m \in Messages : m.cmd \in {"DACK", "PING", "PACK"}}

LEMMA UpGrows ==
  ASSUME NEW new, Elements(net'[Server]) \subseteq Elements(net[Server]) \cup new,
         HasClient' => cli'.pl \in Up \cup new
  PROVE  Up' \subseteq Up \cup new
  BY DEF Up

LEMMA DownGrows ==
  ASSUME NEW new, Elements(net'[Client]) \subseteq Elements(net[Client]) \cup new,
         HasServer' => srv'.pl \in Down \cup new
  PROVE  Down' \subseteq Down \cup new
  BY DEF Down

-----------------------------------------------------------------------------
(* Steps that change neither a number nor a payload nor a buffer.          *)

(* The server's record stays as it is, times out or goes. *)
ServerStays ==
  HasServer' =>
    /\ HasServer /\ srv'.seqno = srv.seqno /\ srv'.pl = srv.pl
    /\ srv'.resp = srv.resp /\ srv'.lastFrag = srv.lastFrag

ClientStays ==
  /\ HasClient' => HasClient /\ cli'.seqno = cli.seqno
  /\ HasClient' /\ cli'.pl.cmd = "CONNECT" => cli'.pl = cli.pl
  /\ Active' => Active /\ cli'.pl = cli.pl /\ cli'.lastFrag = cli.lastFrag
  /\ InCall' => InCall /\ app'.call = app.call /\ cli'.resp = cli.resp
  /\ app'.call >= app.call /\ app'.pc # "seqno" /\ (app'.pc = "start" => app.pc = "start")

(* The worker stays where it is, or gives up a response. *)
WorkerStays ==
  \/ worker' = worker
  \/ worker'.pc = "idle" /\ (HasServer /\ srv.pl.cmd = "FRAGMENT" => srv.state = "TIMEDOUT")

(* What is transmitted has been before, or is noise. *)
NetStays ==
  /\ Follows(net[Server], net'[Server], UpNoise \cup (IF HasClient THEN {cli.pl} ELSE {}))
  /\ Follows(net[Client], net'[Client], DownNoise \cup (IF HasServer THEN {srv.pl} ELSE {}))
  /\ Up' \subseteq Up \cup UpNoise /\ Down' \subseteq Down \cup DownNoise

Calm == ServerStays /\ ClientStays /\ WorkerStays /\ NetStays /\ UNCHANGED <<queue, executed>>

LEMMA NoiseSound ==
  /\ \A m \in UpNoise : m \in Messages /\ m.cmd \notin Asks \cup Acks \cup {"CONNECT"} /\ \A n : UpSound(m, n)
  /\ \A m \in DownNoise : m \in Messages /\ m.cmd \notin Confirms \cup Replies /\ DownSound(m)
  BY DEF UpNoise, DownNoise, UpSound, DownSound, Asks, Acks, Confirms, Replies

LEMMA UpSoundLater ==
  ASSUME NEW m, NEW a \in Nat, NEW b \in Nat, a <= b, UpSound(m, a)
  PROVE  UpSound(m, b)
  BY DEF UpSound

(* New datagrams leave the others as they were. *)
LEMMA UpShapeGrows ==
  ASSUME TypeOK, TypeOK', UpShape, app'.call >= app.call,
         \A m \in Up' : m \in Up \/ UpSound(m, app'.call)
  PROVE  UpShape'
<1>1. app.call \in Nat /\ app'.call \in Nat
  BY SrpcAssumption DEF TypeOK
<1>2. \A m \in Up : UpSound(m, app'.call)
  BY <1>1, UpSoundLater DEF UpShape
<1>3. \A m \in Up' : UpSound(m, app'.call)
  BY <1>2
<1> QED
  BY <1>3 DEF UpShape, UpSound

LEMMA DownShapeGrows ==
  ASSUME DownShape, \A m \in Down' : m \in Down \/ DownSound(m)
  PROVE  DownShape'
<1>1. \A m \in Down' : DownSound(m)
  BY DEF DownShape
<1> QED
  BY <1>1 DEF DownShape, DownSound

LEMMA CalmBounds ==
  ASSUME CallInv, Calm
  PROVE  ServerBound' /\ ClientBound'
<1> DEFINE X(m) == UpStage(m)
<1>1. \A m \in Up' : m \in Up \/ m.cmd \notin Asks \cup Acks
  BY NoiseSound DEF Calm, NetStays
<1>2. \A m \in Down' : m \in Down \/ m.cmd \notin Confirms \cup Replies
  BY NoiseSound DEF Calm, NetStays
<1>3. ServerBound'
  <2>1. HasServer' => SStage' = SStage
    BY DEF Calm, ServerStays, SStage, DownStage
  <2>2. ServerBound /\ ServerStays
    BY DEF CallInv, Calm
  <2>3. HasServer' => HasServer /\ srv'.seqno = srv.seqno
    BY <2>2 DEF ServerStays
  <2> SUFFICES ASSUME HasServer' PROVE ServerBound'
    BY DEF ServerBound
  <2>4. \A m \in Up' : m.cmd \in Asks =>
          /\ m.seqno <= srv'.seqno + 1
          /\ m.seqno = srv'.seqno + 1 => m.fnum = 1 /\ SStage' = LastStage
          /\ m.seqno = srv'.seqno => m.fnum <= SStage' + 1
    BY <1>1, <2>1, <2>2, <2>3 DEF ServerBound
  <2>5. \A m \in Up' : m.cmd \in Acks => NotAfter(m.seqno, UpStage(m), srv'.seqno, SStage')
    BY <1>1, <2>1, <2>2, <2>3 DEF ServerBound
  <2>6. \A m \in Down' : m.cmd \in Confirms \cup Replies => NotAfter(m.seqno, DownStage(m), srv'.seqno, SStage')
    BY <1>2, <2>1, <2>2, <2>3 DEF ServerBound
  <2> QED
    BY <2>4, <2>5, <2>6 DEF ServerBound, NotAfter, UpStage, DownStage
<1>4. ClientBound'
  <2>1. Active' => CStage' = CStage
    BY DEF Calm, ClientStays, CStage, UpStage
  <2>2. ClientBound /\ ClientStays
    BY DEF CallInv, Calm
  <2>3. Active' => Active /\ cli'.seqno = cli.seqno /\ cli'.pl = cli.pl
    BY <2>2 DEF ClientStays, Active
  <2> SUFFICES ASSUME Active' PROVE ClientBound'
    BY DEF ClientBound
  <2>4. \A m \in Up' : m.cmd \in Asks \cup Acks => NotAfter(m.seqno, UpStage(m), cli'.seqno, CStage')
    BY <1>1, <2>1, <2>2, <2>3 DEF ClientBound
  <2>5. \A m \in Down' : m.cmd \in Confirms \cup Replies =>
          /\ m.seqno <= cli'.seqno
          /\ m.seqno = cli'.seqno /\ m.cmd \in Replies => CStage' >= QueryFrags /\ DownStage(m) <= CStage' + 1
          /\ m.seqno = cli'.seqno /\ m.cmd = "QACK" => cli'.pl.cmd = "QUERY"
    BY <1>2, <2>1, <2>2, <2>3 DEF ClientBound
  <2> QED
    BY <2>4, <2>5 DEF ClientBound, NotAfter, UpStage, DownStage
<1> QED
  BY <1>3, <1>4

(* A queue to which only what was in flight, or noise, is added. *)
LEMMA CalmFifo ==
  ASSUME CallInv, Calm
  PROVE  Fifo'
<1>0. Fifo /\ NetStays /\ ClientStays /\ ServerStays /\ TypeOK
  BY DEF CallInv, Calm
<1>1. /\ \A m \in UpNoise : m.cmd \notin Asks /\ m.cmd # "CONNECT"
      /\ \A m \in DownNoise : m.cmd \notin Replies /\ m.cmd # "QACK"
  BY NoiseSound DEF Asks, Acks, Confirms, Replies
<1>2. /\ Elements(net[Server]) \subseteq Up /\ Elements(net[Client]) \subseteq Down
      /\ HasServer => srv.pl \in Down
  BY DEF Up, Down
<1>3. \A a, b \in Elements(net'[Server]) :
        Before(net'[Server], a, b) /\ b.cmd = "CONNECT" => a.cmd \notin Asks
  <2>1. \A a, b \in Elements(net'[Server]) : Before(net'[Server], a, b) =>
           \/ a \in Elements(net[Server]) /\ (b \in UpNoise \/ (HasClient /\ b = cli.pl))
           \/ a \in Elements(net[Server]) /\ b \in Elements(net[Server]) /\ Before(net[Server], a, b)
    BY <1>0 DEF NetStays, Follows
  <2>2. HasClient /\ cli.pl.cmd = "CONNECT" => \A a \in Elements(net[Server]) : a.cmd \notin Asks
    BY <1>0, <1>2 DEF Fifo
  <2>3. \A a, b \in Elements(net[Server]) :
           Before(net[Server], a, b) /\ b.cmd = "CONNECT" => a.cmd \notin Asks
    BY <1>0 DEF Fifo
  <2> QED
    BY <1>1, <2>1, <2>2, <2>3
<1>4. \A a, b \in Elements(net'[Client]) :
        Before(net'[Client], a, b) /\ a.cmd \in Replies /\ b.cmd = "QACK" => a.seqno < b.seqno
  <2>1. \A a, b \in Elements(net'[Client]) : Before(net'[Client], a, b) =>
           \/ a \in Elements(net[Client]) /\ (b \in DownNoise \/ (HasServer /\ b = srv.pl))
           \/ a \in Elements(net[Client]) /\ b \in Elements(net[Client]) /\ Before(net[Client], a, b)
    BY <1>0 DEF NetStays, Follows
  <2>2. HasServer /\ srv.pl.cmd = "QACK" =>
           \A a \in Elements(net[Client]) : a.cmd \in Replies => a.seqno < srv.pl.seqno
    BY <1>0, <1>2 DEF Fifo, CallInv, ServerShape
  <2>3. \A a, b \in Elements(net[Client]) :
           Before(net[Client], a, b) /\ a.cmd \in Replies /\ b.cmd = "QACK" => a.seqno < b.seqno
    BY <1>0 DEF Fifo
  <2> QED
    BY <1>1, <2>1, <2>2, <2>3
<1>5. HasClient' /\ cli'.pl.cmd = "CONNECT" => \A m \in Up' : m.cmd \notin Asks
  BY <1>0, <1>1 DEF Fifo, ClientStays, NetStays
<1>6. HasServer' /\ srv'.pl.cmd = "QACK" => \A m \in Down' : m.cmd \in Replies => m.seqno < srv'.seqno
  BY <1>0, <1>1 DEF Fifo, ServerStays, NetStays
<1> QED
  BY <1>3, <1>4, <1>5, <1>6 DEF Fifo, Before, Elements

LEMMA CalmOrder ==
  ASSUME CallInv, TypeOK', Calm
  PROVE  Numbers' /\ BodyOrder' /\ LogOrder'
<1>0. /\ Numbers /\ BodyOrder /\ LogOrder /\ NetStays /\ ClientStays /\ ServerStays /\ TypeOK
      /\ UNCHANGED <<queue, executed>>
  BY DEF CallInv, Calm
<1>1. app.call \in Nat /\ app'.call \in Nat /\ app'.call >= app.call /\ SeqnoStart \in Nat
      /\ (HasClient => cli.seqno \in Nat)
  BY <1>0, OrderTypes, StageFacts, RecordFields DEF ClientStays, TypeOK
<1>2. Log' = Log
  BY <1>0, LogSame
<1>6. \A m \in Up' : m.cmd \in Asks => m \in Up
  BY <1>0, NoiseSound DEF NetStays, Asks, Acks
<1>3. BodyOrder'
  BY <1>0, <1>6 DEF BodyOrder
<1>4. LogOrder'
  BY <1>0, <1>1, <1>2 DEF LogOrder
<1>5. Numbers'
  <2>1. /\ app'.pc # "seqno"
        /\ Active' => SeqnoStart <= cli'.seqno /\ cli'.seqno <= SeqnoStart + app'.call
    <3>1. Active' => Active /\ HasClient /\ cli'.seqno = cli.seqno
      BY <1>0 DEF ClientStays, Active
    <3> QED
      BY <1>0, <1>1, <3>1 DEF Numbers, ClientStays
  <2>2. app'.pc = "start" => ~HasClient' /\ \A m \in Up' : m.cmd \notin Asks
    BY <1>0, <1>6 DEF Numbers, ClientStays
  <2> QED
    BY <2>1, <2>2 DEF Numbers
<1> QED
  BY <1>3, <1>4, <1>5

LEMMA CalmData ==
  ASSUME CallInv, TypeOK', Calm
  PROVE  QueryData' /\ ResponseData'
<1>0. /\ QueryData /\ ResponseData /\ NetStays /\ ClientStays /\ ServerStays /\ TypeOK
      /\ UNCHANGED <<queue, executed>>
  BY DEF CallInv, Calm
<1>1. app.call \in Nat /\ app'.call \in Nat /\ app'.call >= app.call
  BY <1>0, OrderTypes DEF ClientStays, TypeOK
<1>2. Log' = Log
  BY <1>0, LogSame
<1>3. /\ \A m \in Up' : m.cmd \in Asks => m \in Up
      /\ \A m \in Down' : m.cmd \in Replies => m \in Down
  BY <1>0, NoiseSound DEF NetStays, Asks, Acks, Confirms, Replies
<1>4. QueryData'
  <2> SUFFICES ASSUME HasServer' PROVE QueryData'
    BY DEF QueryData
  <2>1. /\ HasServer /\ srv'.seqno = srv.seqno /\ srv'.pl = srv.pl
        /\ srv'.resp = srv.resp /\ srv'.lastFrag = srv.lastFrag
    BY <1>0 DEF ServerStays
  <2>2. \A m \in Up' : m.cmd \in Asks /\ m.seqno > srv'.seqno => \A n \in DOMAIN Log' : Log'[n].call < m.body
    BY <1>0, <1>2, <1>3, <2>1 DEF QueryData
  <2>3. \A k : Receiving(k) => Receiving(k)'
    <3>1. InCall' => InCall /\ app'.call = app.call /\ cli'.seqno = cli.seqno
      BY <1>0 DEF ClientStays, InCall
    <3> QED
      BY <1>3, <2>1, <3>1 DEF Receiving
  <2>4. srv'.pl.cmd = "FACK" =>
          \E k \in 1 .. app'.call : /\ Partial(srv'.resp, k, srv'.lastFrag, QueryFrags) /\ Receiving(k)'
                                    /\ \A n \in DOMAIN Log' : Log'[n].call < k
    <3> SUFFICES ASSUME srv'.pl.cmd = "FACK"
                 PROVE  \E k \in 1 .. app'.call : /\ Partial(srv'.resp, k, srv'.lastFrag, QueryFrags)
                                                  /\ Receiving(k)' /\ \A n \in DOMAIN Log' : Log'[n].call < k
      OBVIOUS
    <3>1. PICK k \in 1 .. app.call : /\ Partial(srv.resp, k, srv.lastFrag, QueryFrags) /\ Receiving(k)
                                     /\ \A n \in DOMAIN Log : Log[n].call < k
      BY <1>0, <2>1 DEF QueryData
    <3>2. k \in 1 .. app'.call
      BY <1>1
    <3>3. Receiving(k)'
      BY <2>3, <3>1
    <3> QED
      BY <1>2, <2>1, <3>1, <3>2, <3>3
  <2> QED
    BY <2>2, <2>4 DEF QueryData, Receiving, Partial
<1>5. ResponseData'
  <2> SUFFICES ASSUME InCall' PROVE ResponseData'
    BY DEF ResponseData
  <2>1. /\ InCall /\ app'.call = app.call /\ cli'.resp = cli.resp /\ cli'.seqno = cli.seqno
        /\ cli'.pl = cli.pl /\ cli'.lastFrag = cli.lastFrag
    BY <1>0 DEF ClientStays, InCall, Active
  <2>2. Done(app.call)' <=> Done(app.call)
    BY <1>0, <2>1 DEF Done
  <2> QED
    BY <1>0, <1>3, <2>1, <2>2 DEF ResponseData, Partial, Done
<1> QED
  BY <1>4, <1>5

(* A record that is waiting for something is not woken up out of turn. *)
ServerQuiet ==
  HasServer' => /\ srv'.state = "QACK_SENT" => srv.state = "QACK_SENT"
                /\ srv.pl.cmd = "FRAGMENT" /\ srv.state = "TIMEDOUT" => srv'.state = "TIMEDOUT"

LEMMA CalmWorker ==
  ASSUME CallInv, TypeOK', Calm, ServerQuiet
  PROVE  WorkerData'
<1>0. /\ WorkerData /\ ServerStays /\ ClientStays /\ WorkerStays /\ UNCHANGED <<queue, executed>>
  BY DEF CallInv, Calm
<1>1. Log' = Log /\ LogLength' = LogLength /\ LastCall' = LastCall
  <2>1. Log' = Log /\ LogLength' = LogLength
    BY <1>0, LogSame DEF LogLength
  <2> QED
    BY <2>1 DEF LastCall
<1> SUFFICES ASSUME HasServer' PROVE WorkerData'
  BY DEF WorkerData
<1>2. /\ HasServer /\ srv'.seqno = srv.seqno /\ srv'.pl = srv.pl /\ srv'.lastFrag = srv.lastFrag
  BY <1>0 DEF ServerStays
<1>3. InCall' => InCall /\ app'.call = app.call /\ cli'.seqno = cli.seqno
  BY <1>0 DEF ClientStays, InCall
<1>4. srv'.pl.cmd \in {"QACK", "FRAGMENT", "RESPONSE"} =>
         /\ LogLength' > 0
         /\ InCall' /\ cli'.seqno = srv'.seqno => LastCall' = app'.call
  BY <1>0, <1>1, <1>2, <1>3 DEF WorkerData
<1>5. srv'.pl.cmd \in {"CACK", "FACK", "RESPONSE"} => queue' = << >> /\ worker'.pc = "idle"
  BY <1>0, <1>2 DEF WorkerData, WorkerStays
<1>6. srv'.pl.cmd = "QACK" /\ srv'.state = "QACK_SENT" =>
         /\ worker'.pc # "fragment" /\ Len(queue') <= 1
         /\ worker'.pc = "work" => queue' = << >> /\ worker'.call = LastCall'
  BY <1>0, <1>1, <1>2 DEF WorkerData, WorkerStays, ServerQuiet
<1>7. srv'.pl.cmd = "FRAGMENT" /\ srv'.state # "TIMEDOUT" =>
         /\ worker'.pc = "fragment" /\ worker'.fnum = srv'.lastFrag
         /\ queue' = << >> /\ worker'.call = LastCall'
  BY <1>0, <1>1, <1>2 DEF WorkerData, WorkerStays, ServerQuiet
<1> QED
  BY <1>4, <1>5, <1>6, <1>7 DEF WorkerData

(* What a step may do to the states: a client that waits is not told of    *)
(* what has not happened.                                                  *)
ClientQuiet == HasClient' /\ cli'.state \in {"FACK_RECEIVED", "AWAITING_RESPONSE", "FACK_SENT"} =>
                  cli.state = cli'.state \/ ~Connecting'

LEMMA CalmFresh ==
  ASSUME CallInv, Calm, ClientQuiet
  PROVE  Fresh'
<1>0. /\ Fresh /\ ServerStays /\ ClientStays /\ WorkerStays /\ NetStays /\ UNCHANGED <<queue, executed>>
  BY DEF CallInv, Calm
<1>1. /\ \A m \in Up' : m \in Up \/ m.cmd \notin Asks \cup Acks \cup {"CONNECT"}
      /\ \A m \in Down' : m \in Down \/ m.cmd \notin Confirms \cup Replies
  BY <1>0, NoiseSound DEF NetStays
<1>2. Connecting' => Connecting
  BY <1>0, <1>1 DEF Connecting, ClientStays
<1> SUFFICES ASSUME Connecting' PROVE Fresh'
  BY DEF Fresh
<1>3. /\ executed = << >> /\ queue = << >> /\ worker.pc = "idle"
      /\ HasServer => srv.pl.cmd = "CACK"
      /\ \A m \in Down : m.cmd \notin Confirms \cup Replies
      /\ \A m \in Up : m.cmd \notin Acks /\ (m.cmd \in Asks => m.seqno = SeqnoStart + 1 /\ m.fnum = 1)
      /\ HasClient => cli.state \notin {"FACK_RECEIVED", "AWAITING_RESPONSE", "FACK_SENT"}
  BY <1>0, <1>2 DEF Fresh
<1>4. executed' = << >> /\ queue' = << >> /\ worker'.pc = "idle"
  BY <1>0, <1>3 DEF WorkerStays
<1>5. HasServer' => srv'.pl.cmd = "CACK"
  BY <1>0, <1>3 DEF ServerStays
<1>6. /\ \A m \in Down' : m.cmd \notin Confirms \cup Replies
      /\ \A m \in Up' : m.cmd \notin Acks /\ (m.cmd \in Asks => m.seqno = SeqnoStart + 1 /\ m.fnum = 1)
  BY <1>1, <1>3
<1>7. HasClient' => cli'.state \notin {"FACK_RECEIVED", "AWAITING_RESPONSE", "FACK_SENT"}
  BY <1>0, <1>3 DEF ClientQuiet, ClientStays
<1> QED
  BY <1>4, <1>5, <1>6, <1>7 DEF Fresh

(* The two acknowledged fragments, as BothBound has them. *)
FackBound ==
  Active' /\ HasServer' =>
    /\ cli'.state = "FACK_RECEIVED" => srv.seqno = cli.seqno /\ cli.lastFrag <= SStage
    /\ srv'.state = "FACK_RECEIVED" => NotAfter(srv.seqno, QueryFrags + srv.lastFrag, cli.seqno, CStage)

LEMMA CalmBoth ==
  ASSUME CallInv, Calm, FackBound
  PROVE  BothBound'
<1>0. BothBound /\ ServerStays /\ ClientStays
  BY DEF CallInv, Calm
<1> SUFFICES ASSUME Active', HasServer' PROVE BothBound'
  BY DEF BothBound
<1>1. /\ HasServer /\ srv'.seqno = srv.seqno /\ srv'.pl = srv.pl /\ srv'.lastFrag = srv.lastFrag
      /\ Active /\ cli'.seqno = cli.seqno /\ cli'.pl = cli.pl /\ cli'.lastFrag = cli.lastFrag
  BY <1>0 DEF ServerStays, ClientStays, Active
<1>2. SStage' = SStage /\ CStage' = CStage
  BY <1>1 DEF SStage, CStage, UpStage, DownStage
<1> QED
  BY <1>0, <1>1, <1>2 DEF BothBound, FackBound, NotAfter

(* A calm step keeps the invariant if it keeps the states in shape. *)
LEMMA CalmKeeps ==
  ASSUME CallInv, TypeOK', Calm, ServerQuiet, ClientQuiet, FackBound,
         ServerShape', ClientShape', Outcomes'
  PROVE  CallInv'
<1>1. UpShape' /\ DownShape'
  BY NoiseSound, UpShapeGrows, DownShapeGrows DEF CallInv, Calm, NetStays, ClientStays
<1> QED
  BY <1>1, CalmBounds, CalmFifo, CalmOrder, CalmData, CalmWorker, CalmFresh, CalmBoth DEF CallInv

LEMMA SameRecord ==
  /\ rec'[Client] = rec[Client] => cli' = cli /\ (HasClient' <=> HasClient)
  /\ rec'[Server] = rec[Server] => srv' = srv /\ (HasServer' <=> HasServer)
  BY DEF cli, srv, HasClient, HasServer, known

(* The server's reader or timer takes a calm step. *)
LEMMA ServerCalm ==
  ASSUME CallInv, TypeOK', UNCHANGED <<app, worker, queue, executed>>, rec'[Client] = rec[Client],
         NEW new, Moves(Server, new), \A x \in new : x \in DownNoise \/ (HasServer /\ x = srv.pl),
         ServerStays, ServerQuiet, ServerShape',
         HasServer' /\ srv'.state = "FACK_RECEIVED" /\ Active =>
            NotAfter(srv.seqno, QueryFrags + srv.lastFrag, cli.seqno, CStage)
  PROVE  CallInv'
<1>0. /\ TypeOK /\ cli' = cli /\ (HasClient' <=> HasClient) /\ (Active' <=> Active) /\ (InCall' <=> InCall)
      /\ app.call \in Nat /\ app' = app /\ Other(Server) = Client
  BY SameRecord, OrderTypes, ProcFacts DEF CallInv, Active, InCall
<1>1. NetStays
  <2>1. Follows(net[Server], net'[Server], {}) /\ Follows(net[Client], net'[Client], new)
    BY <1>0 DEF Moves
  <2>2. Follows(net[Server], net'[Server], UpNoise \cup (IF HasClient THEN {cli.pl} ELSE {}))
    BY <2>1, FollowsMore
  <2>3. Follows(net[Client], net'[Client], DownNoise \cup (IF HasServer THEN {srv.pl} ELSE {}))
    <3>1. new \subseteq DownNoise \cup (IF HasServer THEN {srv.pl} ELSE {})
      OBVIOUS
    <3> QED
      BY <2>1, <3>1, FollowsMore
  <2>4. Up' \subseteq Up \cup UpNoise
    <3>1. Elements(net'[Server]) \subseteq Elements(net[Server]) \cup UpNoise
      BY <2>1 DEF Follows
    <3>2. HasClient' => cli'.pl \in Up \cup UpNoise
      BY <1>0 DEF Up
    <3> QED
      BY <3>1, <3>2, UpGrows
  <2>5. Down' \subseteq Down \cup DownNoise
    <3>0. HasServer => srv.pl \in Down
      BY DEF Down
    <3>1. Elements(net'[Client]) \subseteq Elements(net[Client]) \cup (Down \cup DownNoise)
      BY <2>1, <3>0 DEF Follows
    <3>2. HasServer' => srv'.pl \in Down \cup (Down \cup DownNoise)
      BY <3>0 DEF ServerStays
    <3>3. Down' \subseteq Down \cup (Down \cup DownNoise)
      BY <3>1, <3>2, DownGrows
    <3> QED
      BY <3>3
  <2> QED
    BY <2>2, <2>3, <2>4, <2>5 DEF NetStays
<1>2. ClientStays
  <2>1. app.pc # "seqno" /\ app.call >= app.call
    BY <1>0 DEF CallInv, Numbers
  <2> QED
    BY <1>0, <2>1 DEF ClientStays
<1>3. Calm
  BY <1>1, <1>2 DEF Calm, WorkerStays
<1>4. ClientQuiet
  BY <1>0 DEF ClientQuiet
<1>5. FackBound
  <2>1. BothBound /\ (HasServer' => HasServer)
    BY DEF CallInv, ServerStays
  <2> QED
    BY <1>0, <2>1 DEF BothBound, FackBound
<1>6. ClientShape'
  <2>1. ClientShape
    BY DEF CallInv
  <2> QED
    BY <1>0, <2>1 DEF ClientShape
<1>7. Outcomes'
  <2>1. Outcomes
    BY DEF CallInv
  <2> QED
    BY <1>0, <2>1 DEF Outcomes, OwnResponse
<1> QED
  BY <1>3, <1>4, <1>5, <1>6, <1>7, CalmKeeps

(* The client's reader or timer, or its thread, takes a calm step. *)
LEMMA ClientCalm ==
  ASSUME CallInv, TypeOK', UNCHANGED <<worker, queue, executed>>, rec'[Server] = rec[Server],
         NEW new, Moves(Client, new), \A x \in new : x \in UpNoise \/ (HasClient /\ x = cli.pl),
         HasClient' => cli'.pl \in UpNoise \/ cli'.pl = cli.pl,
         ClientStays, ClientQuiet, ClientShape', Outcomes',
         HasServer /\ Active' /\ cli'.state = "FACK_RECEIVED" => srv.seqno = cli.seqno /\ cli.lastFrag <= SStage
  PROVE  CallInv'
<1>0. /\ TypeOK /\ srv' = srv /\ (HasServer' <=> HasServer) /\ Other(Client) = Server
      /\ (HasClient' => HasClient)
  BY SameRecord, ProcFacts DEF CallInv, ClientStays
<1>1. NetStays
  <2>1. Follows(net[Client], net'[Client], {}) /\ Follows(net[Server], net'[Server], new)
    BY <1>0 DEF Moves
  <2>2. Follows(net[Client], net'[Client], DownNoise \cup (IF HasServer THEN {srv.pl} ELSE {}))
    BY <2>1, FollowsMore
  <2>3. Follows(net[Server], net'[Server], UpNoise \cup (IF HasClient THEN {cli.pl} ELSE {}))
    <3>1. new \subseteq UpNoise \cup (IF HasClient THEN {cli.pl} ELSE {})
      OBVIOUS
    <3> QED
      BY <2>1, <3>1, FollowsMore
  <2>4. Down' \subseteq Down \cup DownNoise
    <3>1. Elements(net'[Client]) \subseteq Elements(net[Client]) \cup DownNoise
      BY <2>1 DEF Follows
    <3>2. HasServer' => srv'.pl \in Down \cup DownNoise
      BY <1>0 DEF Down
    <3> QED
      BY <3>1, <3>2, DownGrows
  <2>5. Up' \subseteq Up \cup UpNoise
    <3>0. HasClient => cli.pl \in Up
      BY DEF Up
    <3>1. Elements(net'[Server]) \subseteq Elements(net[Server]) \cup (Up \cup UpNoise)
      BY <2>1, <3>0 DEF Follows
    <3>2. HasClient' => cli'.pl \in Up \cup (Up \cup UpNoise)
      BY <1>0, <3>0
    <3>3. Up' \subseteq Up \cup (Up \cup UpNoise)
      BY <3>1, <3>2, UpGrows
    <3> QED
      BY <3>3
  <2> QED
    BY <2>2, <2>3, <2>4, <2>5 DEF NetStays
<1>2. ServerStays /\ ServerQuiet
  BY <1>0 DEF ServerStays, ServerQuiet
<1>3. Calm
  BY <1>1, <1>2 DEF Calm, WorkerStays
<1>5. FackBound
  <2>1. BothBound /\ (Active' => Active)
    BY DEF CallInv, ClientStays
  <2> QED
    BY <1>0, <2>1 DEF BothBound, FackBound
<1>6. ServerShape'
  <2>1. ServerShape
    BY DEF CallInv
  <2> QED
    BY <1>0, <2>1 DEF ServerShape
<1> QED
  BY <1>2, <1>3, <1>5, <1>6, CalmKeeps

(* The worker gives up, or nothing happens. *)
LEMMA WorkerCalm ==
  ASSUME CallInv, TypeOK', UNCHANGED <<rec, net, app, queue, executed>>, WorkerStays
  PROVE  CallInv'
<1>0. /\ TypeOK /\ srv' = srv /\ (HasServer' <=> HasServer) /\ cli' = cli /\ (HasClient' <=> HasClient)
      /\ (Active' <=> Active) /\ (InCall' <=> InCall) /\ Up' = Up /\ Down' = Down /\ app.call \in Nat
      /\ net[Client] \in Seq(Messages) /\ net[Server] \in Seq(Messages) /\ net' = net /\ app' = app
  <2>1. TypeOK /\ srv' = srv /\ (HasServer' <=> HasServer) /\ cli' = cli /\ (HasClient' <=> HasClient)
    BY SameRecord DEF CallInv
  <2> QED
    BY <2>1, OrderTypes, ProcFacts DEF Active, InCall, Up, Down, Elements, TypeOK
<1>1. NetStays
  BY <1>0, FollowsSame DEF NetStays
<1>2. ClientStays /\ ServerStays /\ ServerQuiet /\ ClientQuiet
  <2>1. app.pc # "seqno" /\ app.call >= app.call
    BY <1>0 DEF CallInv, Numbers
  <2> QED
    BY <1>0, <2>1 DEF ClientStays, ServerStays, ServerQuiet, ClientQuiet
<1>3. Calm
  BY <1>1, <1>2 DEF Calm
<1>4. FackBound
  <2>1. BothBound
    BY DEF CallInv
  <2> QED
    BY <1>0, <2>1 DEF BothBound, FackBound
<1>5. ServerShape'
  <2>1. ServerShape
    BY DEF CallInv
  <2> QED
    BY <1>0, <2>1 DEF ServerShape
<1>6. ClientShape'
  <2>1. ClientShape
    BY DEF CallInv
  <2> QED
    BY <1>0, <2>1 DEF ClientShape
<1>7. Outcomes'
  <2>1. Outcomes
    BY DEF CallInv
  <2> QED
    BY <1>0, <2>1 DEF Outcomes, OwnResponse
<1> QED
  BY <1>2, <1>3, <1>4, <1>5, <1>6, <1>7, CalmKeeps

LEMMA ClientGone ==
  ASSUME CallInv, ~HasClient', app' = app
  PROVE  ClientStays /\ ClientQuiet /\ ClientShape' /\ Outcomes' /\ ~Active'
<1>0. TypeOK /\ Numbers /\ Outcomes /\ app.call \in Nat /\ ~Active' /\ ~InCall'
  BY OrderTypes DEF CallInv, Active, InCall
<1>1. ClientStays
  BY <1>0 DEF ClientStays, Numbers
<1>2. ClientQuiet /\ ClientShape'
  BY <1>0 DEF ClientQuiet, ClientShape
<1>3. Outcomes'
  BY <1>0 DEF Outcomes, OwnResponse
<1> QED
  BY <1>0, <1>1, <1>2, <1>3

(* The client's record keeps everything but, perhaps, its state. *)
ClientSame ==
  /\ HasClient /\ cli'.seqno = cli.seqno /\ cli'.pl = cli.pl /\ cli'.resp = cli.resp
  /\ cli'.lastFrag = cli.lastFrag /\ app' = app

LEMMA ClientRests ==
  ASSUME CallInv, ClientSame, cli'.state \in {cli.state, "TIMEDOUT"}
  PROVE  /\ ClientStays /\ ClientQuiet /\ ClientShape' /\ Outcomes'
         /\ HasServer /\ Active' /\ cli'.state = "FACK_RECEIVED" => srv.seqno = cli.seqno /\ cli.lastFrag <= SStage
<1>0. /\ TypeOK /\ Numbers /\ Outcomes /\ BothBound /\ ClientShape /\ app.call \in Nat
      /\ (Active' => Active) /\ (InCall' => InCall)
  BY OrderTypes DEF CallInv, Active, InCall, ClientSame
<1>1. ClientStays
  BY <1>0 DEF ClientStays, Numbers, ClientSame
<1>2. ClientQuiet
  BY DEF ClientQuiet
<1>3. Outcomes'
  BY <1>0 DEF Outcomes, OwnResponse, ClientSame
<1>4. ClientShape'
  BY <1>0 DEF ClientShape, ClientSame
<1>5. HasServer /\ Active' /\ cli'.state = "FACK_RECEIVED" => srv.seqno = cli.seqno /\ cli.lastFrag <= SStage
  BY <1>0 DEF BothBound
<1> QED
  BY <1>1, <1>2, <1>3, <1>4, <1>5

LEMMA ServerRests ==
  ASSUME CallInv, ServerStays, HasServer' => srv'.state \in {srv.state, "TIMEDOUT"}
  PROVE  /\ ServerQuiet /\ ServerShape'
         /\ HasServer' /\ srv'.state = "FACK_RECEIVED" /\ Active =>
               NotAfter(srv.seqno, QueryFrags + srv.lastFrag, cli.seqno, CStage)
<1>0. ServerShape /\ BothBound
  BY DEF CallInv
<1>1. ServerQuiet
  BY DEF ServerQuiet
<1>2. ServerShape'
  BY <1>0 DEF ServerShape, ServerStays
<1> QED
  BY <1>0, <1>1, <1>2 DEF BothBound, ServerStays

LEMMA PingNoise ==
  ASSUME NEW n \in Nat
  PROVE  Control("PING", n) \in UpNoise \cap DownNoise /\ Control("PACK", n) \in UpNoise \cap DownNoise
         /\ Control("DISCONNECT", n) \in UpNoise /\ Control("DACK", n) \in DownNoise
  BY ControlTyped DEF UpNoise, DownNoise, Commands

LEMMA TickSingle ==
  ASSUME NEW cr \in Records
  PROVE  /\ Single(TickSends(cr))
         /\ \A x \in Elements(TickSends(cr)) : x = cr.pl \/ x = Control("PING", cr.seqno)
<1>1. cr.pl \in Messages /\ Control("PING", cr.seqno) \in Messages
  BY RecordFields, ControlTyped DEF Commands
<1>2. TickSends(cr) \in {<<Control("PING", cr.seqno)>>, <<cr.pl>>, << >>}
  BY DEF TickSends
<1>3. Single(TickSends(cr))
  BY <1>1, <1>2 DEF Single
<1>4. \A x \in Elements(TickSends(cr)) : x = cr.pl \/ x = Control("PING", cr.seqno)
  BY TickSendsFacts DEF Elements
<1> QED
  BY <1>3, <1>4

(* A tick transmits `new'; the record is gone, or only ticked. *)
LEMMA TimerMoves ==
  ASSUME TypeOK, NEW p \in Proc, timer(p)
  PROVE  \E new : /\ Moves(p, new) /\ rec'[Other(p)] = rec[Other(p)]
                  /\ known(p)' => known(p) /\ Ticked(rec'[p], rec[p])
                  /\ \A x \in new : known(p) /\ (x = rec[p].pl \/ x = Control("PING", rec[p].seqno))
<1>0. /\ known(p) /\ rec[p] \in Records /\ rec \in [Proc -> Records \cup {NoRecord}]
      /\ Other(p) \in Proc /\ Other(p) # p
  BY KnownRecord, ProcFacts DEF timer, TypeOK
<1>1. CASE rec' = [rec EXCEPT ![p] = NoRecord] /\ UNCHANGED net
  <2>1. ~known(p)' /\ rec'[Other(p)] = rec[Other(p)]
    BY <1>0, <1>1 DEF known
  <2>2. Moves(p, {})
    BY <1>1, SameMoves
  <2> QED
    BY <2>1, <2>2
<1>2. CASE rec' = [rec EXCEPT ![p] = after_tick(rec[p])] /\ send_payload(p, TickSends(rec[p]))
  <2>1. rec'[p] = after_tick(rec[p]) /\ rec'[Other(p)] = rec[Other(p)]
    BY <1>0, <1>2
  <2>2. Ticked(rec'[p], rec[p])
    BY <1>0, <2>1, TickTyped
  <2>3. Moves(p, Elements(TickSends(rec[p])))
    BY <1>0, <1>2, TickSingle, SendMoves
  <2> QED
    BY <1>0, <2>1, <2>2, <2>3, TickSingle
<1> QED
  BY <1>1, <1>2 DEF timer, TickSends

LEMMA TimerCalm ==
  ASSUME CallInv, NEW p \in Proc, timer(p)
  PROVE  CallInv'
<1>0. TypeOK /\ TypeOK' /\ UNCHANGED <<app, worker, queue, executed>>
  BY TimerTyped DEF CallInv, timer
<1>1. PICK new : /\ Moves(p, new) /\ rec'[Other(p)] = rec[Other(p)]
                 /\ known(p)' => known(p) /\ Ticked(rec'[p], rec[p])
                 /\ \A x \in new : known(p) /\ (x = rec[p].pl \/ x = Control("PING", rec[p].seqno))
  BY <1>0, TimerMoves
<1>2. CASE p = Client
  <2>1. /\ Moves(Client, new) /\ rec'[Server] = rec[Server]
        /\ HasClient' => HasClient /\ Ticked(cli', cli)
        /\ \A x \in new : HasClient /\ (x = cli.pl \/ x = Control("PING", cli.seqno))
    BY <1>1, <1>2, ProcFacts DEF HasClient, cli
  <2>2. HasClient => Control("PING", cli.seqno) \in UpNoise
    BY <1>0, OrderTypes, RecordFields, PingNoise
  <2>3. CASE ~HasClient'
    BY <1>0, <2>1, <2>2, <2>3, ClientGone, ClientCalm
  <2>4. CASE HasClient'
    <3>1. ClientSame /\ cli'.state \in {cli.state, "TIMEDOUT"}
      BY <1>0, <2>1, <2>4 DEF ClientSame, Ticked
    <3>2. cli'.pl = cli.pl
      BY <3>1 DEF ClientSame
    <3> QED
      BY <1>0, <2>1, <2>2, <3>1, <3>2, ClientRests, ClientCalm
  <2> QED
    BY <2>3, <2>4
<1>3. CASE p = Server
  <2>1. /\ Moves(Server, new) /\ rec'[Client] = rec[Client]
        /\ HasServer' => HasServer /\ Ticked(srv', srv)
        /\ \A x \in new : HasServer /\ (x = srv.pl \/ x = Control("PING", srv.seqno))
    BY <1>1, <1>3, ProcFacts DEF HasServer, srv
  <2>2. HasServer => Control("PING", srv.seqno) \in DownNoise
    BY <1>0, OrderTypes, RecordFields, PingNoise
  <2>3. ServerStays /\ (HasServer' => srv'.state \in {srv.state, "TIMEDOUT"})
    BY <2>1 DEF ServerStays, Ticked
  <2> QED
    BY <1>0, <2>1, <2>2, <2>3, ServerRests, ServerCalm
<1> QED
  BY <1>2, <1>3 DEF Proc

LEMMA LoseCalm ==
  ASSUME CallInv, Ordered = TRUE, NEW p \in Proc, lose(p)
  PROVE  CallInv'
<1>0. TypeOK /\ TypeOK' /\ UNCHANGED <<rec, app, worker, queue, executed>>
  BY LoseTyped DEF CallInv, lose
<1>1. Moves(Client, {})
  BY <1>0, LoseMoves
<1>2. Moves(Server, {}) /\ rec'[Client] = rec[Client]
  BY <1>0, <1>1, ProcFacts DEF Moves
<1>3. srv' = srv /\ (HasServer' <=> HasServer)
  BY <1>0, SameRecord
<1>4. ServerStays /\ (HasServer' => srv'.state \in {srv.state, "TIMEDOUT"})
  BY <1>3 DEF ServerStays
<1> QED
  BY <1>0, <1>2, <1>4, ServerRests, ServerCalm

-----------------------------------------------------------------------------
(* The server's reader thread.                                             *)

(* The server handles m: its record becomes r, and `out' is transmitted. *)
ServerHandles(m, r, out) ==
  /\ Moves(Server, Elements(out)) /\ Taken(Server, m) /\ m \in Up /\ m \in Messages
  /\ rec'[Client] = rec[Client] /\ srv' = r /\ (HasServer' <=> r # NoRecord)
  /\ UNCHANGED <<app, worker, executed>>

LEMMA ServerReceives ==
  ASSUME TypeOK, Ordered = TRUE, NEW i \in Arriving(Server), NEW r, NEW out, Single(out),
         Handled(Server, i, r, out), UNCHANGED <<app, worker, executed>>
  PROVE  ServerHandles(net[Server][i], r, out)
<1>1. /\ Moves(Server, Elements(out)) /\ Taken(Server, net[Server][i])
      /\ rec'[Server] = r /\ rec'[Client] = rec[Client]
  BY ProcFacts, HandledMoves
<1>2. net[Server][i] \in Up /\ net[Server][i] \in Messages
  BY <1>1, OrderTypes DEF Taken, Up
<1>3. srv' = r /\ (HasServer' <=> r # NoRecord)
  BY <1>1 DEF srv, HasServer, known
<1> QED
  BY <1>1, <1>2, <1>3 DEF ServerHandles

LEMMA EmptyOut ==
  Single(<< >>) /\ Elements(<< >>) = {} /\ \A x \in Messages : Single(<<x>>) /\ Elements(<<x>>) = {x}
  BY ElementsOfOne DEF Single, Elements

(* A datagram that the server ignores, or answers without a change. *)
LEMMA ServerIgnores ==
  ASSUME CallInv, TypeOK', UNCHANGED queue, NEW m, NEW out, ServerHandles(m, rec[Server], out),
         \A x \in Elements(out) : x \in DownNoise \/ (HasServer /\ x = srv.pl)
  PROVE  CallInv'
<1>1. srv' = srv /\ (HasServer' <=> HasServer)
  BY DEF ServerHandles, srv, HasServer, known
<1>2. ServerStays /\ (HasServer' => srv'.state \in {srv.state, "TIMEDOUT"})
  BY <1>1 DEF ServerStays
<1>3. Moves(Server, Elements(out)) /\ rec'[Client] = rec[Client] /\ UNCHANGED <<app, worker, executed>>
  BY DEF ServerHandles
<1> QED
  BY <1>2, <1>3, ServerRests, ServerCalm

(* A datagram on which the server only changes the state of its record. *)
LEMMA ServerSets ==
  ASSUME CallInv, HasServer, NEW st \in States, NEW m, NEW out,
         ServerHandles(m, crecord_setState(srv, st), out)
  PROVE  ServerStays /\ srv'.state = st
<1>1. srv \in Records
  BY OrderTypes DEF CallInv
<1> QED
  BY <1>1, SetStateTyped DEF ServerHandles, ServerStays

LEMMA ServerSetsSame ==
  ASSUME CallInv, TypeOK', UNCHANGED queue, HasServer, NEW st \in {srv.state, "TIMEDOUT"}, NEW m, NEW out,
         ServerHandles(m, crecord_setState(srv, st), out),
         \A x \in Elements(out) : x \in DownNoise \/ x = srv.pl
  PROVE  CallInv'
<1>1. st \in States
  BY OrderTypes, RecordFields, StateNames DEF CallInv
<1>2. ServerStays /\ srv'.state = st
  BY <1>1, ServerSets
<1>3. Moves(Server, Elements(out)) /\ rec'[Client] = rec[Client] /\ UNCHANGED <<app, worker, executed>>
  BY DEF ServerHandles
<1> QED
  BY <1>2, <1>3, ServerRests, ServerCalm

(* PING, PACK and DISCONNECT. *)
LEMMA ServerReadsNoise ==
  ASSUME CallInv, TypeOK', Ordered = TRUE, NEW i \in Arriving(Server), NEW m, m = net[Server][i],
         UNCHANGED <<app, worker, executed>>,
         PING(Server, i, m) \/ PACK(Server, i, m) \/ DISCONNECT(Server, i, m)
  PROVE  CallInv'
<1>0. TypeOK /\ queue' = queue
  BY DEF CallInv, PING, PACK, DISCONNECT
<1>1. m \in Messages /\ m.seqno \in Nat
  <2>1. net[Server] \in Seq(Messages) /\ Len(net[Server]) \in Nat /\ i \in 1 .. Len(net[Server])
    BY <1>0, ProcFacts, ArrivingFirst, EmptySeq
  <2> QED
    BY <2>1, ElementOfSeq, MessageFields
<1>2. /\ Control("PACK", m.seqno) \in Messages /\ Control("PACK", m.seqno) \in DownNoise
      /\ Control("DACK", m.seqno) \in Messages /\ Control("DACK", m.seqno) \in DownNoise
  BY <1>1, PingNoise DEF DownNoise
<1>3. CASE PING(Server, i, m)
  <2> DEFINE out == IF known(Server) THEN <<Control("PACK", m.seqno)>> ELSE << >>
  <2>1. Single(out) /\ \A x \in Elements(out) : x \in DownNoise
    BY <1>2, EmptyOut
  <2>2. Handled(Server, i, rec[Server], out)
    BY <1>3 DEF PING
  <2> HIDE DEF out
  <2>3. ServerHandles(m, rec[Server], out)
    BY <1>0, <2>1, <2>2, ServerReceives
  <2> QED
    BY <1>0, <2>1, <2>3, ServerIgnores
<1>4. CASE PACK(Server, i, m)
  <2>1. CASE HasServer
    <3>1. Handled(Server, i, crecord_setState(srv, srv.state), << >>)
      BY <1>4, <2>1 DEF PACK, HasServer, srv
    <3>2. ServerHandles(m, crecord_setState(srv, srv.state), << >>)
      BY <1>0, <3>1, EmptyOut, ServerReceives
    <3> QED
      BY <1>0, <2>1, <3>2, EmptyOut, ServerSetsSame
  <2>2. CASE ~HasServer
    <3>1. Handled(Server, i, rec[Server], << >>)
      BY <1>4, <2>2 DEF PACK, HasServer, known
    <3>2. ServerHandles(m, rec[Server], << >>)
      BY <1>0, <3>1, EmptyOut, ServerReceives
    <3> QED
      BY <1>0, <3>2, EmptyOut, ServerIgnores
  <2> QED
    BY <2>1, <2>2
<1>5. CASE DISCONNECT(Server, i, m)
  <2> DEFINE out == <<Control("DACK", m.seqno)>>
  <2>0. Single(out) /\ \A x \in Elements(out) : x \in DownNoise
    BY <1>2, EmptyOut
  <2>1. CASE HasServer
    <3>1. Handled(Server, i, crecord_setState(srv, "TIMEDOUT"), out)
      BY <1>5, <2>1 DEF DISCONNECT, HasServer, srv
    <3> HIDE DEF out
    <3>2. ServerHandles(m, crecord_setState(srv, "TIMEDOUT"), out)
      BY <1>0, <2>0, <3>1, ServerReceives
    <3> QED
      BY <1>0, <2>0, <2>1, <3>2, ServerSetsSame
  <2>2. CASE ~HasServer
    <3>1. Handled(Server, i, rec[Server], out)
      BY <1>5, <2>2 DEF DISCONNECT, HasServer, known
    <3> HIDE DEF out
    <3>2. ServerHandles(m, rec[Server], out)
      BY <1>0, <2>0, <3>1, ServerReceives
    <3> QED
      BY <1>0, <2>0, <3>2, ServerIgnores
  <2> QED
    BY <2>1, <2>2
<1> QED
  BY <1>3, <1>4, <1>5

(* RACK and FACK: the server's response, or a fragment of it, has arrived. *)
LEMMA ServerReadsAck ==
  ASSUME CallInv, TypeOK', Ordered = TRUE, NEW i \in Arriving(Server), NEW m, m = net[Server][i],
         UNCHANGED <<app, worker, executed>>,
         RACK(Server, i, m) \/ FACK(Server, i, m)
  PROVE  CallInv'
<1>0. /\ TypeOK /\ queue' = queue /\ ServerShape /\ ServerBound /\ ClientBound /\ UpShape /\ DownShape
  BY DEF CallInv, RACK, FACK, Acknowledged
<1>1. CASE Handled(Server, i, rec[Server], << >>)
  <2>2. ServerHandles(m, rec[Server], << >>)
    BY <1>0, <1>1, EmptyOut, ServerReceives
  <2> QED
    BY <1>0, <2>2, EmptyOut, ServerIgnores
<1>2. CASE /\ RACK(Server, i, m) /\ HasServer /\ m.seqno = srv.seqno
           /\ Handled(Server, i, crecord_setState(srv, "IDLE"), << >>)
  <2>1. ServerHandles(m, crecord_setState(srv, "IDLE"), << >>)
    BY <1>0, <1>2, EmptyOut, ServerReceives
  <2>2. ServerStays /\ srv'.state = "IDLE"
    BY <1>2, <2>1, StateNames, ServerSets
  <2>3. m \in Up /\ m \in Messages /\ m.cmd = "RACK" /\ srv.pl \in Down /\ srv.pl \in Messages
    BY <1>0, <1>2, <2>1, OrderTypes DEF ServerHandles, RACK
  <2>4. SStage >= LastStage
    <3>1. NotAfter(m.seqno, UpStage(m), srv.seqno, SStage) /\ UpStage(m) = LastStage
      BY <1>0, <1>2, <2>3 DEF ServerBound, Acks, Asks, UpStage, UpShape, UpSound, LastStage
    <3> QED
      BY <1>2, <2>3, <3>1, MessageFields, StageFacts DEF NotAfter, SStage
  <2>5. srv.pl.cmd \in {"CACK", "RESPONSE"}
    <3>1. DownSound(srv.pl)
      BY <1>0, <2>3 DEF DownShape
    <3>2. srv.pl.fnum \in Nat
      BY <2>3, MessageFields
    <3>3. srv.pl.cmd \notin {"FACK", "QACK", "FRAGMENT"}
      BY <2>4, <3>1, <3>2, StageFacts DEF SStage, DownStage, DownSound, Confirms, Replies
    <3> QED
      BY <1>0, <1>2, <3>3 DEF ServerShape
  <2>6. ServerShape' /\ ServerQuiet
    BY <1>0, <2>2, <2>5 DEF ServerShape, ServerStays, ServerQuiet
  <2>7. Moves(Server, {}) /\ rec'[Client] = rec[Client]
    BY <2>1, EmptyOut DEF ServerHandles
  <2> QED
    BY <1>0, <2>2, <2>6, <2>7, ServerCalm
<1>3. CASE /\ FACK(Server, i, m) /\ HasServer /\ m.seqno = srv.seqno /\ srv.state = "FRAGMENT_SENT"
           /\ m.fnum = srv.lastFrag /\ Handled(Server, i, crecord_setState(srv, "FACK_RECEIVED"), << >>)
  <2>1. ServerHandles(m, crecord_setState(srv, "FACK_RECEIVED"), << >>)
    BY <1>0, <1>3, EmptyOut, ServerReceives
  <2>2. ServerStays /\ srv'.state = "FACK_RECEIVED"
    BY <1>3, <2>1, StateNames, ServerSets
  <2>3. m \in Up /\ m.cmd = "FACK"
    BY <1>3, <2>1 DEF ServerHandles, FACK
  <2>4. Active => NotAfter(srv.seqno, QueryFrags + srv.lastFrag, cli.seqno, CStage)
    <3>1. UpStage(m) = QueryFrags + m.fnum
      BY <2>3 DEF UpStage, Asks, Acks
    <3>2. Active => NotAfter(m.seqno, UpStage(m), cli.seqno, CStage)
      BY <1>0, <2>3 DEF ClientBound, Acks
    <3> QED
      BY <1>3, <3>1, <3>2
  <2>5. ServerShape' /\ ServerQuiet
    BY <1>0, <1>3, <2>2 DEF ServerShape, ServerStays, ServerQuiet
  <2>6. Moves(Server, {}) /\ rec'[Client] = rec[Client]
    BY <2>1, EmptyOut DEF ServerHandles
  <2> QED
    BY <1>0, <2>2, <2>4, <2>5, <2>6, ServerCalm
<1> QED
  BY <1>1, <1>2, <1>3 DEF RACK, FACK, Acknowledged, HasServer, srv

(* The stages of the datagrams. *)
LEMMA UpStages ==
  ASSUME TypeOK, UpShape, NEW m \in Up
  PROVE  /\ m \in Messages /\ m.seqno \in Nat /\ m.fnum \in Nat /\ UpStage(m) \in Nat
         /\ m.cmd = "CONNECT" => UpStage(m) = LastStage /\ m.seqno = SeqnoStart
         /\ m.cmd = "FRAGMENT" => UpStage(m) = m.fnum /\ 1 <= m.fnum /\ m.fnum < QueryFrags
         /\ m.cmd = "QUERY" => UpStage(m) = m.fnum /\ m.fnum = QueryFrags
         /\ m.cmd = "FACK" => UpStage(m) = QueryFrags + m.fnum /\ 1 <= m.fnum /\ m.fnum < ResponseFrags
         /\ m.cmd = "RACK" => UpStage(m) = LastStage /\ m.fnum = ResponseFrags
         /\ m.cmd \in Asks \cup Acks => m.seqno > SeqnoStart
<1>1. m \in Messages /\ m.seqno \in Nat /\ m.fnum \in Nat /\ UpStage(m) \in Nat
  BY OrderTypes, MessageFields, StageFacts
<1>2. UpSound(m, app.call)
  BY DEF UpShape
<1> QED
  BY <1>1, <1>2, StageFacts DEF UpSound, UpStage, Asks, Acks

LEMMA DownStages ==
  ASSUME TypeOK, DownShape, NEW m \in Down
  PROVE  /\ m \in Messages /\ m.seqno \in Nat /\ m.fnum \in Nat /\ DownStage(m) \in Nat
         /\ m.cmd = "CACK" => DownStage(m) = LastStage /\ m.seqno = SeqnoStart
         /\ m.cmd = "FACK" => DownStage(m) = m.fnum /\ 1 <= m.fnum /\ m.fnum < QueryFrags
         /\ m.cmd = "QACK" => DownStage(m) = m.fnum /\ m.fnum = QueryFrags
         /\ m.cmd = "FRAGMENT" => DownStage(m) = QueryFrags + m.fnum /\ 1 <= m.fnum /\ m.fnum < ResponseFrags
         /\ m.cmd = "RESPONSE" => DownStage(m) = LastStage /\ m.fnum = ResponseFrags
         /\ m.cmd \in Confirms \cup Replies => m.seqno > SeqnoStart
<1>1. m \in Messages /\ m.seqno \in Nat /\ m.fnum \in Nat /\ DownStage(m) \in Nat
  BY OrderTypes, MessageFields, StageFacts
<1>2. DownSound(m)
  BY DEF DownShape
<1> QED
  BY <1>1, <1>2, StageFacts DEF DownSound, DownStage, Confirms, Replies

(* The stage of a record says what it last transmitted. *)
LEMMA ServerStages ==
  ASSUME CallInv, HasServer
  PROVE  /\ srv \in Records /\ srv.pl \in Down /\ srv.seqno = srv.pl.seqno /\ srv.seqno \in Nat /\ SStage \in Nat
         /\ srv.pl.cmd \in {"CACK", "FACK", "QACK", "FRAGMENT", "RESPONSE"}
         /\ srv.pl.cmd = "CACK" => SStage = LastStage /\ srv.seqno = SeqnoStart
         /\ srv.pl.cmd = "FACK" => SStage = srv.pl.fnum /\ 1 <= SStage /\ SStage < QueryFrags
         /\ srv.pl.cmd = "QACK" => SStage = QueryFrags
         /\ srv.pl.cmd = "FRAGMENT" => /\ SStage = QueryFrags + srv.pl.fnum
                                       /\ QueryFrags < SStage /\ SStage < LastStage
         /\ srv.pl.cmd = "RESPONSE" => SStage = LastStage
         /\ srv.pl.cmd # "CACK" => srv.seqno > SeqnoStart
<1>1. TypeOK /\ DownShape /\ ServerShape
  BY DEF CallInv
<1>2. srv \in Records /\ srv.pl \in Down /\ srv.seqno \in Nat
  BY <1>1, OrderTypes, RecordFields
<1>3. srv.seqno = srv.pl.seqno /\ srv.pl.cmd \in {"CACK", "FACK", "QACK", "FRAGMENT", "RESPONSE"}
  BY <1>1 DEF ServerShape
<1> QED
  BY <1>1, <1>2, <1>3, DownStages, StageFacts DEF SStage, Confirms, Replies

LEMMA ClientStages ==
  ASSUME CallInv, Active
  PROVE  /\ cli \in Records /\ cli.pl \in Up /\ cli.seqno = cli.pl.seqno /\ cli.seqno \in Nat /\ CStage \in Nat
         /\ cli.pl.cmd \in {"CONNECT", "FRAGMENT", "QUERY", "FACK", "RACK"}
         /\ cli.pl.cmd = "CONNECT" => CStage = LastStage /\ cli.seqno = SeqnoStart
         /\ cli.pl.cmd = "FRAGMENT" => CStage = cli.pl.fnum /\ 1 <= CStage /\ CStage < QueryFrags
         /\ cli.pl.cmd = "QUERY" => CStage = QueryFrags
         /\ cli.pl.cmd = "FACK" => /\ CStage = QueryFrags + cli.pl.fnum
                                   /\ QueryFrags < CStage /\ CStage < LastStage
         /\ cli.pl.cmd = "RACK" => CStage = LastStage
         /\ cli.pl.cmd # "CONNECT" => cli.seqno > SeqnoStart
<1>1. TypeOK /\ UpShape /\ ClientShape /\ HasClient
  BY DEF CallInv, Active
<1>2. cli \in Records /\ cli.pl \in Up /\ cli.seqno \in Nat
  BY <1>1, OrderTypes, RecordFields
<1>3. cli.seqno = cli.pl.seqno /\ cli.pl.cmd \in {"CONNECT", "FRAGMENT", "QUERY", "FACK", "RACK"}
  BY <1>1 DEF ClientShape
<1> QED
  BY <1>1, <1>2, <1>3, UpStages, StageFacts DEF CStage, Asks, Acks

(* The server transmits x, which its record retains. *)
ServerPuts(x) ==
  /\ x \in Messages /\ DownSound(x) /\ Moves(Server, {x}) /\ rec'[Client] = rec[Client] /\ app' = app
  /\ HasServer' => srv'.pl = x
  /\ x.cmd = "QACK" => \A a \in Down : a.cmd \in Replies => a.seqno < x.seqno
  /\ x.cmd = "QACK" /\ HasServer' => srv'.seqno = x.seqno

(* What is not about the server. *)
LEMMA ServerSide ==
  ASSUME CallInv, TypeOK', NEW x, ServerPuts(x)
  PROVE  /\ Up' \subseteq Up /\ Down' \subseteq Down \cup {x}
         /\ cli' = cli /\ (HasClient' <=> HasClient) /\ (Active' <=> Active) /\ (InCall' <=> InCall)
         /\ UpShape' /\ DownShape' /\ ClientShape' /\ Fifo' /\ Numbers' /\ BodyOrder' /\ Outcomes'
<1>0. /\ TypeOK /\ UpShape /\ DownShape /\ ClientShape /\ Fifo /\ Numbers /\ BodyOrder /\ Outcomes
      /\ app' = app /\ app.call \in Nat /\ Other(Server) = Client
  BY OrderTypes, ProcFacts DEF CallInv, ServerPuts
<1>1. cli' = cli /\ (HasClient' <=> HasClient) /\ (Active' <=> Active) /\ (InCall' <=> InCall)
  BY <1>0, SameRecord DEF ServerPuts, Active, InCall
<1>2. Follows(net[Server], net'[Server], {}) /\ Follows(net[Client], net'[Client], {x})
  BY <1>0 DEF Moves, ServerPuts
<1>3. Up' \subseteq Up
  <2>1. Elements(net'[Server]) \subseteq Elements(net[Server]) \cup {}
    BY <1>2 DEF Follows
  <2>2. HasClient' => cli'.pl \in Up \cup {}
    BY <1>1 DEF Up
  <2>3. Up' \subseteq Up \cup {}
    BY <2>1, <2>2, UpGrows
  <2> QED
    BY <2>3
<1>4. Down' \subseteq Down \cup {x}
  <2>1. Elements(net'[Client]) \subseteq Elements(net[Client]) \cup {x}
    BY <1>2 DEF Follows
  <2>2. HasServer' => srv'.pl \in Down \cup {x}
    BY DEF ServerPuts
  <2> QED
    BY <2>1, <2>2, DownGrows
<1>5. UpShape' /\ DownShape'
  <2>1. DownSound(x) /\ app'.call >= app.call
    BY <1>0 DEF ServerPuts
  <2> QED
    BY <1>0, <1>3, <1>4, <2>1, UpShapeGrows, DownShapeGrows
<1>6. ClientShape'
  BY <1>0, <1>1 DEF ClientShape
<1>7. Numbers' /\ BodyOrder'
  BY <1>0, <1>1, <1>3 DEF Numbers, BodyOrder
<1>8. Outcomes'
  BY <1>0 DEF Outcomes, OwnResponse
<1>9. Fifo'
  <2>1. \A a, b \in Elements(net'[Server]) :
          Before(net'[Server], a, b) /\ b.cmd = "CONNECT" => a.cmd \notin Asks
    BY <1>0, <1>2 DEF Fifo, Follows
  <2>2. \A a, b \in Elements(net'[Client]) :
          Before(net'[Client], a, b) /\ a.cmd \in Replies /\ b.cmd = "QACK" => a.seqno < b.seqno
    <3>1. Elements(net[Client]) \subseteq Down
      BY DEF Down
    <3> QED
      BY <1>0, <1>2, <3>1 DEF Fifo, Follows, ServerPuts
  <2>3. HasClient' /\ cli'.pl.cmd = "CONNECT" => \A m \in Up' : m.cmd \notin Asks
    BY <1>0, <1>1, <1>3 DEF Fifo
  <2>4. HasServer' /\ srv'.pl.cmd = "QACK" => \A m \in Down' : m.cmd \in Replies => m.seqno < srv'.seqno
    BY <1>4 DEF ServerPuts, Replies
  <2> QED
    BY <2>1, <2>2, <2>3, <2>4 DEF Fifo, Before, Elements
<1> QED
  BY <1>1, <1>3, <1>4, <1>5, <1>6, <1>7, <1>8, <1>9

LEMMA EmptyLog ==
  ASSUME executed = << >>, queue = << >>
  PROVE  LogLength = 0 /\ DOMAIN Log = {}
<1>1. Len(executed) = 0 /\ Len(queue) = 0
  OBVIOUS
<1>2. LogLength = 0 /\ DOMAIN Log = 1 .. 0
  BY <1>1 DEF LogLength, Log
<1> QED
  BY <1>2

(* A new connection. *)
LEMMA ServerCreates ==
  ASSUME CallInv, TypeOK', UNCHANGED <<worker, queue, executed>>, ~HasServer, NEW m \in Up, m.cmd = "CONNECT",
         NEW x, ServerPuts(x), x.cmd = "CACK", x.seqno = SeqnoStart,
         HasServer' => srv'.seqno = SeqnoStart /\ srv'.state = "IDLE"
  PROVE  CallInv'
<1>0. /\ TypeOK /\ ServerBound /\ ClientBound /\ BothBound /\ Fresh /\ Numbers /\ LogOrder
      /\ ResponseData /\ SeqnoStart \in Nat /\ app' = app
  BY StageFacts DEF CallInv, ServerPuts
<1>1. /\ Up' \subseteq Up /\ Down' \subseteq Down \cup {x}
      /\ cli' = cli /\ (HasClient' <=> HasClient) /\ (Active' <=> Active) /\ (InCall' <=> InCall)
      /\ UpShape' /\ DownShape' /\ ClientShape' /\ Fifo' /\ Numbers' /\ BodyOrder' /\ Outcomes'
  BY ServerSide
<1>2. /\ executed = << >> /\ queue = << >> /\ worker.pc = "idle"
      /\ \A n \in Down : n.cmd \notin Confirms \cup Replies
      /\ \A n \in Up : n.cmd \notin Acks /\ (n.cmd \in Asks => n.seqno = SeqnoStart + 1 /\ n.fnum = 1)
      /\ HasClient => cli.state \notin {"FACK_RECEIVED", "AWAITING_RESPONSE", "FACK_SENT"}
  BY <1>0 DEF Fresh, Connecting
<1>3. /\ \A n \in Down' : n.cmd \notin Confirms \cup Replies
      /\ \A n \in Up' : n.cmd \notin Acks /\ (n.cmd \in Asks => n.seqno = SeqnoStart + 1 /\ n.fnum = 1)
  BY <1>1, <1>2 DEF Confirms, Replies
<1>4. HasServer' => srv'.pl = x /\ SStage' = LastStage
  BY DEF ServerPuts, SStage, DownStage, Confirms, Replies
<1>5. ServerShape'
  BY <1>4 DEF ServerShape
<1>6. ServerBound'
  <2> SUFFICES ASSUME HasServer' PROVE ServerBound'
    BY DEF ServerBound
  <2>1. \A n \in Up' : n.cmd \in Asks =>
          /\ n.seqno <= srv'.seqno + 1
          /\ n.seqno = srv'.seqno + 1 => n.fnum = 1 /\ SStage' = LastStage
          /\ n.seqno = srv'.seqno => n.fnum <= SStage' + 1
    BY <1>0, <1>3, <1>4
  <2> QED
    BY <1>3, <2>1 DEF ServerBound
<1>7. ClientBound'
  <2>1. CStage' = CStage
    BY <1>1 DEF CStage, UpStage
  <2> QED
    BY <1>0, <1>1, <1>3, <2>1 DEF ClientBound, UpStage, DownStage, NotAfter
<1>8. BothBound'
  BY <1>0, <1>1, <1>2 DEF BothBound, Numbers, Active
<1>9. Fresh'
  BY <1>1, <1>2, <1>3, <1>4 DEF Fresh
<1>10. LogOrder' /\ QueryData' /\ WorkerData'
  <2>1. Log' = Log /\ DOMAIN Log = {}
    BY <1>2, LogSame, EmptyLog
  <2>2. LogOrder' /\ QueryData'
    BY <1>0, <1>4, <2>1 DEF LogOrder, QueryData
  <2>3. WorkerData'
    BY <1>2, <1>4 DEF WorkerData
  <2> QED
    BY <2>2, <2>3
<1>11. ResponseData'
  <2>1. Done(app.call)' <=> Done(app.call)
    BY <1>0 DEF Done
  <2> QED
    BY <1>0, <1>1, <1>3, <2>1 DEF ResponseData, Partial, Done
<1> QED
  BY <1>1, <1>5, <1>6, <1>7, <1>8, <1>9, <1>10, <1>11 DEF CallInv

(* The next datagram of a query, and the only one the server accepts. *)
NextAsk(m) ==
  /\ HasServer /\ m \in Up /\ m.cmd \in Asks
  /\ \/ m.seqno = srv.seqno + 1 /\ m.fnum = 1 /\ srv.pl.cmd \in {"CACK", "RESPONSE"}
     \/ m.seqno = srv.seqno /\ m.fnum = SStage + 1 /\ srv.pl.cmd = "FACK"

(* The server answers it with x. *)
AsksBy(m, x) ==
  /\ NextAsk(m) /\ Taken(Server, m) /\ ServerPuts(x) /\ x.seqno = m.seqno /\ x.fnum = m.fnum
  /\ HasServer' => srv'.seqno = m.seqno
  /\ \/ m.cmd = "FRAGMENT" /\ x.cmd = "FACK"
     \/ m.cmd = "QUERY" /\ x.cmd = "QACK"

LEMMA NextAskFacts ==
  ASSUME CallInv, NEW m, NextAsk(m)
  PROVE  /\ m \in Messages /\ m.seqno \in Nat /\ m.fnum \in Nat /\ m.seqno >= srv.seqno /\ m.fnum <= QueryFrags
         /\ srv.seqno \in Nat /\ SStage \in Nat
         /\ \A n \in Up : n.cmd \in Asks => n.seqno <= m.seqno /\ (n.seqno = m.seqno => n.fnum <= m.fnum)
         /\ \A n \in Up : n.cmd \in Acks => n.seqno < m.seqno
         /\ \A n \in Down : n.cmd \in Confirms \cup Replies => NotAfter(n.seqno, DownStage(n), m.seqno, m.fnum)
         /\ \A n \in Down : n.cmd \in Replies => n.seqno < m.seqno
<1>0. TypeOK /\ UpShape /\ DownShape /\ ServerBound /\ HasServer /\ m \in Up
  BY DEF CallInv, NextAsk
<1>1. m \in Messages /\ m.seqno \in Nat /\ m.fnum \in Nat /\ m.seqno >= srv.seqno /\ m.fnum <= QueryFrags
  BY <1>0, UpStages, ServerStages, StageFacts DEF NextAsk, Asks
<1>2. srv.seqno \in Nat /\ SStage \in Nat /\ LastStage > QueryFrags
  BY <1>0, ServerStages, StageFacts
<1>3. \A n \in Up : n.seqno \in Nat /\ n.fnum \in Nat /\ UpStage(n) \in Nat
  BY <1>0, UpStages
<1>4. \A n \in Down : n.seqno \in Nat /\ n.fnum \in Nat /\ DownStage(n) \in Nat
  BY <1>0, DownStages
<1>5. CASE m.seqno = srv.seqno + 1 /\ m.fnum = 1
  <2>1. \A n \in Up : n.cmd \in Asks => n.seqno <= m.seqno /\ (n.seqno = m.seqno => n.fnum <= m.fnum)
    BY <1>0, <1>2, <1>3, <1>5 DEF ServerBound
  <2>2. \A n \in Up : n.cmd \in Acks => n.seqno < m.seqno
    BY <1>0, <1>2, <1>3, <1>5 DEF ServerBound, NotAfter
  <2>3. \A n \in Down : n.cmd \in Confirms \cup Replies => n.seqno < m.seqno
    BY <1>0, <1>2, <1>4, <1>5 DEF ServerBound, NotAfter
  <2> QED
    BY <1>1, <1>2, <2>1, <2>2, <2>3 DEF NotAfter
<1>6. CASE m.seqno = srv.seqno /\ m.fnum = SStage + 1 /\ srv.pl.cmd = "FACK"
  <2>0. SStage < QueryFrags /\ SStage # LastStage /\ 1 <= SStage
    BY <1>0, <1>2, <1>6, ServerStages, StageFacts
  <2>1. \A n \in Up : n.cmd \in Asks => n.seqno <= m.seqno /\ (n.seqno = m.seqno => n.fnum <= m.fnum)
    BY <1>0, <1>2, <1>3, <1>6, <2>0 DEF ServerBound
  <2>2. \A n \in Up : n.cmd \in Acks => n.seqno < m.seqno
    <3>1. \A n \in Up : n.cmd \in Acks => UpStage(n) >= QueryFrags
      BY <1>0, UpStages, StageFacts DEF Acks
    <3> QED
      BY <1>0, <1>2, <1>3, <1>6, <2>0, <3>1, StageFacts DEF ServerBound, NotAfter
  <2>3. \A n \in Down : n.cmd \in Confirms \cup Replies => NotAfter(n.seqno, DownStage(n), m.seqno, m.fnum)
    BY <1>0, <1>2, <1>4, <1>6 DEF ServerBound, NotAfter
  <2>4. \A n \in Down : n.cmd \in Replies => n.seqno < m.seqno
    <3>1. \A n \in Down : n.cmd \in Replies => DownStage(n) >= QueryFrags
      BY <1>0, DownStages, StageFacts DEF Replies
    <3> QED
      BY <1>0, <1>2, <1>4, <1>6, <2>0, <3>1, StageFacts DEF ServerBound, NotAfter
  <2> QED
    BY <1>1, <1>2, <2>1, <2>2, <2>3, <2>4
<1> QED
  BY <1>5, <1>6 DEF NextAsk

LEMMA AskBounds ==
  ASSUME CallInv, TypeOK', NEW m, NEW x, AsksBy(m, x), HasServer' => srv'.state # "FACK_RECEIVED"
  PROVE  ServerBound' /\ ClientBound' /\ BothBound' /\ Fresh'
<1>0. /\ TypeOK /\ UpShape /\ DownShape /\ ServerBound /\ ClientBound /\ BothBound /\ Fifo /\ Numbers
      /\ ServerPuts(x) /\ NextAsk(m) /\ HasServer /\ m \in Up /\ m.cmd \in Asks /\ Taken(Server, m)
      /\ x.seqno = m.seqno /\ x.fnum = m.fnum /\ app' = app
      /\ (HasServer' => srv'.seqno = m.seqno)
  BY DEF CallInv, AsksBy, NextAsk, ServerPuts
<1>1. /\ Up' \subseteq Up /\ Down' \subseteq Down \cup {x}
      /\ cli' = cli /\ (HasClient' <=> HasClient) /\ (Active' <=> Active)
  BY <1>0, ServerSide
<1>2. /\ m \in Messages /\ m.seqno \in Nat /\ m.fnum \in Nat /\ m.seqno >= srv.seqno /\ m.fnum <= QueryFrags
      /\ srv.seqno \in Nat /\ SStage \in Nat
      /\ \A n \in Up : n.cmd \in Asks => n.seqno <= m.seqno /\ (n.seqno = m.seqno => n.fnum <= m.fnum)
      /\ \A n \in Up : n.cmd \in Acks => n.seqno < m.seqno
      /\ \A n \in Down : n.cmd \in Confirms \cup Replies => NotAfter(n.seqno, DownStage(n), m.seqno, m.fnum)
      /\ \A n \in Down : n.cmd \in Replies => n.seqno < m.seqno
  BY <1>0, NextAskFacts
<1>3. x.cmd \in Confirms /\ DownStage(x) = m.fnum /\ x.cmd \notin Replies
      /\ (x.cmd = "QACK" => m.cmd = "QUERY")
  BY <1>0 DEF AsksBy, DownStage, Confirms, Replies
<1>4. HasServer' => srv'.pl = x /\ SStage' = m.fnum
  BY <1>0, <1>3 DEF ServerPuts, SStage, DownStage, Confirms, Replies
<1>5. ServerBound'
  <2> SUFFICES ASSUME HasServer' PROVE ServerBound'
    BY DEF ServerBound
  <2>1. \A n \in Up' : n.cmd \in Asks =>
          /\ n.seqno <= srv'.seqno + 1
          /\ n.seqno = srv'.seqno + 1 => n.fnum = 1 /\ SStage' = LastStage
          /\ n.seqno = srv'.seqno => n.fnum <= SStage' + 1
    <3>1. \A n \in Up : n.seqno \in Nat /\ n.fnum \in Nat
      BY <1>0, UpStages
    <3> QED
      BY <1>0, <1>1, <1>2, <1>4, <3>1
  <2>2. \A n \in Up' : n.cmd \in Acks => NotAfter(n.seqno, UpStage(n), srv'.seqno, SStage')
    BY <1>0, <1>1, <1>2 DEF NotAfter
  <2>3. \A n \in Down' : n.cmd \in Confirms \cup Replies => NotAfter(n.seqno, DownStage(n), srv'.seqno, SStage')
    <3>1. NotAfter(x.seqno, DownStage(x), srv'.seqno, SStage')
      BY <1>0, <1>2, <1>3, <1>4 DEF NotAfter
    <3> QED
      BY <1>0, <1>1, <1>2, <1>4, <3>1
  <2> QED
    BY <2>1, <2>2, <2>3 DEF ServerBound, NotAfter, UpStage, DownStage
<1>6. Active => m.seqno <= cli.seqno /\ (m.seqno = cli.seqno => m.fnum <= CStage)
  <2>1. Active => NotAfter(m.seqno, UpStage(m), cli.seqno, CStage) /\ UpStage(m) = m.fnum
    BY <1>0 DEF ClientBound, UpStage
  <2> QED
    BY <1>2, <2>1, ClientStages DEF NotAfter
<1>7. Active /\ x.cmd = "QACK" /\ x.seqno = cli.seqno => cli.pl.cmd = "QUERY"
  <2> SUFFICES ASSUME Active, x.cmd = "QACK", x.seqno = cli.seqno PROVE cli.pl.cmd = "QUERY"
    OBVIOUS
  <2>1. m.fnum = QueryFrags /\ m.seqno > SeqnoStart
    BY <1>0, <1>3, UpStages DEF Asks
  <2>2. CStage >= QueryFrags
    BY <1>0, <1>6, <2>1
  <2>3. cli.pl.cmd \notin Acks
    <3>1. cli.pl \in Up /\ cli.pl.seqno = m.seqno
      BY <1>0, ClientStages
    <3> QED
      BY <1>2, <3>1
  <2> QED
    BY <1>0, <1>2, <2>1, <2>2, <2>3, ClientStages, StageFacts DEF Acks
<1>8. ClientBound'
  <2> SUFFICES ASSUME Active' PROVE ClientBound'
    BY DEF ClientBound
  <2>1. CStage' = CStage /\ Active
    BY <1>1 DEF CStage, UpStage
  <2>2. \A n \in Up' : n.cmd \in Asks \cup Acks => NotAfter(n.seqno, UpStage(n), cli'.seqno, CStage')
    BY <1>0, <1>1, <2>1 DEF ClientBound
  <2>3. \A n \in Down' : n.cmd \in Confirms \cup Replies =>
          /\ n.seqno <= cli'.seqno
          /\ n.seqno = cli'.seqno /\ n.cmd \in Replies => CStage' >= QueryFrags /\ DownStage(n) <= CStage' + 1
          /\ n.seqno = cli'.seqno /\ n.cmd = "QACK" => cli'.pl.cmd = "QUERY"
    BY <1>0, <1>1, <1>3, <1>6, <1>7, <2>1 DEF ClientBound
  <2> QED
    BY <2>2, <2>3 DEF ClientBound, NotAfter, UpStage, DownStage
<1>9. BothBound'
  <2> SUFFICES ASSUME Active', HasServer' PROVE BothBound'
    BY DEF BothBound
  <2>1. Active /\ cli.seqno \in Nat /\ SeqnoStart \in Nat /\ cli.lastFrag \in Nat
    BY <1>1, ClientStages, StageFacts, RecordFields
  <2>2. /\ SeqnoStart <= srv.seqno /\ srv.seqno <= cli.seqno
        /\ cli.state = "FACK_RECEIVED" => srv.seqno = cli.seqno /\ cli.lastFrag <= SStage
    BY <1>0, <2>1 DEF BothBound
  <2>3. SeqnoStart <= m.seqno
    BY <1>2, <2>1, <2>2
  <2>4. cli.state = "FACK_RECEIVED" => m.seqno = cli.seqno /\ cli.lastFrag <= m.fnum
    BY <1>0, <1>2, <1>6, <2>1, <2>2 DEF NextAsk
  <2> QED
    BY <1>0, <1>1, <1>4, <1>6, <2>1, <2>3, <2>4 DEF BothBound
<1>10. ~Connecting'
  <2>1. app'.pc # "start"
    BY <1>0 DEF Numbers
  <2>2. ASSUME NEW n \in Up' PROVE n.cmd # "CONNECT"
    <3>1. CASE n \in Elements(net'[Server])
      BY <1>0, <3>1 DEF Taken, Fifo
    <3>2. CASE HasClient' /\ n = cli'.pl
      BY <1>0, <1>1, <3>2 DEF Fifo
    <3> QED
      BY <3>1, <3>2 DEF Up
  <2> QED
    BY <2>1, <2>2 DEF Connecting
<1>11. Fresh'
  BY <1>10 DEF Fresh
<1> QED
  BY <1>5, <1>8, <1>9, <1>11

-----------------------------------------------------------------------------
(* Buffers.                                                                *)

LEMMA CopiedPartial ==
  ASSUME NEW m \in Messages, m.fnum = 1
  PROVE  Partial(Copied(m), m.body, 1, m.nfrags)
<1>0. m.nfrags \in Nat
  BY MessageFields
<1>1. \A j \in 1 .. m.nfrags : (IF j = 1 THEN <<m.body, m.fnum>> ELSE Junk) = (IF j <= 1 THEN <<m.body, j>> ELSE Junk)
  <2> HIDE DEF Junk
  <2> QED
    BY <1>0
<1> QED
  BY <1>1, Zenon DEF Copied, Partial

LEMMA FilledPartial ==
  ASSUME NEW m \in Messages, NEW n \in Nat, NEW f \in Nat, NEW buf, Partial(buf, m.body, f, n),
         m.fnum = f + 1, m.fnum <= n
  PROVE  Partial(Filled(buf, m), m.body, m.fnum, n)
<1> DEFINE k == m.body
           b(j) == IF j <= f THEN <<k, j>> ELSE Junk
           c(j) == IF j <= m.fnum THEN <<k, j>> ELSE Junk
<1>1. buf = [j \in 1 .. n |-> b(j)] /\ m.fnum \in 1 .. n
  BY DEF Partial
<1>2. Filled(buf, m) = [buf EXCEPT ![m.fnum] = <<k, m.fnum>>]
  BY DEF Filled
<1> HIDE DEF Junk
<1>3. \A j \in 1 .. n : (IF j = m.fnum THEN <<k, m.fnum>> ELSE b(j)) = c(j)
  OBVIOUS
<1> HIDE DEF b, c, k
<1>4. Filled(buf, m) = [j \in 1 .. n |-> IF j = m.fnum THEN <<k, m.fnum>> ELSE b(j)]
  BY <1>1, <1>2
<1>5. Filled(buf, m) = [j \in 1 .. n |-> c(j)]
  BY <1>3, <1>4
<1> QED
  BY <1>5 DEF Partial, c, k

LEMMA WholeCall ==
  ASSUME NEW k \in 1 .. MaxCalls, NEW n \in Nat, n >= 1, NEW buf, Partial(buf, k, n, n)
  PROVE  CallOf(buf, n) = k /\ buf # NULL
<1>0. MaxCalls \in Nat /\ k \in Nat
  BY SrpcAssumption
<1>1. buf = [j \in 1 .. n |-> <<k, j>>]
  <2>1. \A j \in 1 .. n : (IF j <= n THEN <<k, j>> ELSE Junk) = <<k, j>>
    OBVIOUS
  <2> QED
    BY <2>1 DEF Partial
<1>2. Complete(buf, k, n)
  BY <1>1 DEF Complete
<1>3. \A y \in 1 .. MaxCalls : Complete(buf, y, n) => y = k
  <2> SUFFICES ASSUME NEW y \in 1 .. MaxCalls, Complete(buf, y, n) PROVE y = k
    OBVIOUS
  <2>1. 1 \in 1 .. n
    OBVIOUS
  <2>2. buf[1] = <<y, 1>> /\ buf[1] = <<k, 1>>
    BY <1>1, <2>1 DEF Complete
  <2> QED
    BY <2>2
<1>4. CallOf(buf, n) = k
  BY <1>2, <1>3 DEF CallOf
<1>5. buf # NULL
  <2>1. DOMAIN buf = 1 .. n /\ 1 \in 1 .. n
    BY <1>1
  <2>2. DOMAIN << >> = {}
    OBVIOUS
  <2> QED
    BY <2>1, <2>2 DEF NULL
<1> QED
  BY <1>4, <1>5

(* The buffer with the fragments of the query up to m. *)
QueryBuffer(m) == IF m.seqno = srv.seqno + 1 THEN Copied(m) ELSE Filled(srv.resp, m)

LEMMA AskCall ==
  ASSUME CallInv, NEW m, NextAsk(m)
  PROVE  /\ Partial(QueryBuffer(m), m.body, m.fnum, QueryFrags) /\ m.body \in 1 .. app.call
         /\ \A n \in DOMAIN Log : Log[n].call < m.body
         /\ InCall /\ cli.seqno = m.seqno => m.body = app.call
         /\ \A n \in Up : n.cmd \in Asks /\ n.seqno = m.seqno => n.body = m.body
         /\ queue = << >> /\ worker.pc = "idle"
<1>0. /\ TypeOK /\ UpShape /\ QueryData /\ WorkerData /\ ResponseData /\ BodyOrder /\ ServerShape
      /\ HasServer /\ m \in Up /\ m.cmd \in Asks
  BY DEF CallInv, NextAsk
<1>1. /\ m \in Messages /\ m.fnum \in Nat /\ m.fnum <= QueryFrags /\ m.seqno \in Nat /\ srv.seqno \in Nat
      /\ SStage \in Nat /\ QueryFrags \in Nat
  BY NextAskFacts, StageFacts
<1>2. m.body \in 1 .. app.call /\ m.nfrags = QueryFrags
  BY <1>0 DEF UpShape, UpSound
<1>3. InCall /\ cli.seqno = m.seqno => m.body = app.call
  BY <1>0 DEF ResponseData
<1>4. \A n \in Up : n.cmd \in Asks /\ n.seqno = m.seqno => n.body = m.body
  BY <1>0 DEF BodyOrder
<1>5. queue = << >> /\ worker.pc = "idle"
  BY <1>0 DEF WorkerData, NextAsk
<1>6. CASE m.seqno = srv.seqno + 1 /\ m.fnum = 1
  <2>1. Partial(QueryBuffer(m), m.body, m.fnum, QueryFrags)
    BY <1>1, <1>2, <1>6, CopiedPartial DEF QueryBuffer
  <2>2. m.seqno > srv.seqno
    BY <1>1, <1>6
  <2>3. \A n \in DOMAIN Log : Log[n].call < m.body
    BY <1>0, <2>2 DEF QueryData
  <2> QED
    BY <1>2, <1>3, <1>4, <1>5, <2>1, <2>3
<1>7. CASE m.seqno = srv.seqno /\ m.fnum = SStage + 1 /\ srv.pl.cmd = "FACK"
  <2>1. PICK k \in 1 .. app.call : /\ Partial(srv.resp, k, srv.lastFrag, QueryFrags) /\ Receiving(k)
                                   /\ \A n \in DOMAIN Log : Log[n].call < k
    BY <1>0, <1>7 DEF QueryData
  <2>2. k = m.body
    BY <1>0, <1>7, <2>1 DEF Receiving
  <2>3. srv.lastFrag = SStage
    BY <1>0, <1>7, ServerStages DEF ServerShape
  <2>4. QueryBuffer(m) = Filled(srv.resp, m)
    BY <1>1, <1>7 DEF QueryBuffer
  <2>5. Partial(QueryBuffer(m), m.body, m.fnum, QueryFrags)
    BY <1>1, <1>7, <2>1, <2>2, <2>3, <2>4, FilledPartial
  <2> QED
    BY <1>2, <1>3, <1>4, <1>5, <2>1, <2>2, <2>5
<1> QED
  BY <1>6, <1>7 DEF NextAsk

(* The server acknowledges a fragment of a query. *)
LEMMA FragmentAccepted ==
  ASSUME CallInv, TypeOK', UNCHANGED <<worker, executed, queue>>, NEW m, NEW x, AsksBy(m, x), m.cmd = "FRAGMENT",
         HasServer' => srv'.state = "FACK_SENT" /\ srv'.lastFrag = m.fnum /\ srv'.resp = QueryBuffer(m)
  PROVE  CallInv'
<1>0. /\ TypeOK /\ ServerPuts(x) /\ NextAsk(m) /\ x.cmd = "FACK" /\ x.seqno = m.seqno /\ x.fnum = m.fnum
      /\ LogOrder /\ ResponseData /\ app' = app /\ (HasServer' => srv'.seqno = m.seqno /\ srv'.pl = x)
  BY DEF CallInv, AsksBy, ServerPuts
<1>1. /\ Up' \subseteq Up /\ Down' \subseteq Down \cup {x} /\ cli' = cli /\ (InCall' <=> InCall)
      /\ UpShape' /\ DownShape' /\ ClientShape' /\ Fifo' /\ Numbers' /\ BodyOrder' /\ Outcomes'
  BY <1>0, ServerSide
<1>2. ServerBound' /\ ClientBound' /\ BothBound' /\ Fresh'
  BY AskBounds
<1>3. /\ Partial(QueryBuffer(m), m.body, m.fnum, QueryFrags) /\ m.body \in 1 .. app.call
      /\ \A n \in DOMAIN Log : Log[n].call < m.body
      /\ InCall /\ cli.seqno = m.seqno => m.body = app.call
      /\ \A n \in Up : n.cmd \in Asks /\ n.seqno = m.seqno => n.body = m.body
      /\ queue = << >> /\ worker.pc = "idle"
  BY <1>0, AskCall
<1>4. Log' = Log
  BY LogSame
<1>5. ServerShape'
  BY <1>0 DEF ServerShape
<1>6. LogOrder'
  BY <1>0, <1>4 DEF LogOrder
<1>7. QueryData'
  <2> SUFFICES ASSUME HasServer' PROVE QueryData'
    BY DEF QueryData
  <2>1. \A n \in Up' : n.cmd \in Asks => ~(n.seqno > srv'.seqno)
    <3>1. \A n \in Up : n.cmd \in Asks => n.seqno \in Nat /\ n.seqno <= m.seqno
      BY <1>0, NextAskFacts, UpStages DEF CallInv
    <3>2. m.seqno \in Nat
      BY <1>0, NextAskFacts
    <3> QED
      BY <1>0, <1>1, <3>1, <3>2
  <2>2. Receiving(m.body)'
    <3>1. \A n \in Up' : n.cmd \in Asks => /\ n.seqno = srv'.seqno => n.body = m.body
                                           /\ n.seqno > srv'.seqno => n.body > m.body
      BY <1>0, <1>1, <1>3, <2>1
    <3>2. InCall' /\ cli'.seqno = srv'.seqno => m.body = app'.call
      BY <1>0, <1>1, <1>3
    <3> QED
      BY <3>1, <3>2 DEF Receiving
  <2>3. Partial(srv'.resp, m.body, srv'.lastFrag, QueryFrags)
    BY <1>3
  <2> QED
    BY <1>0, <1>3, <1>4, <2>1, <2>2, <2>3 DEF QueryData, Receiving, Partial
<1>8. WorkerData'
  BY <1>0, <1>3 DEF WorkerData
<1>9. ResponseData'
  <2>1. Done(app.call)' <=> Done(app.call)
    BY <1>0 DEF Done
  <2> QED
    BY <1>0, <1>1, <2>1 DEF ResponseData, Partial, Done, Replies
<1> QED
  BY <1>1, <1>2, <1>5, <1>6, <1>7, <1>8, <1>9 DEF CallInv

(* The server accepts a query. *)
LEMMA QueryAccepted ==
  ASSUME CallInv, TypeOK', UNCHANGED <<worker, executed>>, NEW m, NEW x, AsksBy(m, x), m.cmd = "QUERY",
         NEW id \in Nat, queue' = Append(queue, [ep |-> id, data |-> QueryBuffer(m)]),
         QueryBuffer(m) \in Buffers,
         HasServer' => srv'.state = "QACK_SENT"
  PROVE  CallInv'
<1>0. /\ TypeOK /\ ServerPuts(x) /\ NextAsk(m) /\ x.cmd = "QACK" /\ x.seqno = m.seqno /\ x.fnum = m.fnum
      /\ LogOrder /\ ResponseData /\ app' = app /\ (HasServer' => srv'.seqno = m.seqno /\ srv'.pl = x)
  BY DEF CallInv, AsksBy, ServerPuts
<1>1. /\ Up' \subseteq Up /\ Down' \subseteq Down \cup {x} /\ cli' = cli /\ (InCall' <=> InCall)
      /\ UpShape' /\ DownShape' /\ ClientShape' /\ Fifo' /\ Numbers' /\ BodyOrder' /\ Outcomes'
  BY <1>0, ServerSide
<1>2. ServerBound' /\ ClientBound' /\ BothBound' /\ Fresh'
  BY AskBounds
<1>3. /\ Partial(QueryBuffer(m), m.body, m.fnum, QueryFrags) /\ m.body \in 1 .. app.call
      /\ \A n \in DOMAIN Log : Log[n].call < m.body
      /\ InCall /\ cli.seqno = m.seqno => m.body = app.call
      /\ \A n \in Up : n.cmd \in Asks /\ n.seqno = m.seqno => n.body = m.body
      /\ queue = << >> /\ worker.pc = "idle"
  BY <1>0, AskCall
<1> DEFINE e == [ep |-> id, data |-> QueryBuffer(m)]
<1>4. /\ DOMAIN Log' = 1 .. LogLength + 1 /\ (\A n \in DOMAIN Log : Log'[n] = Log[n])
      /\ Log'[LogLength + 1] = Accepted(e)
  <2>1. e \in [ep : Nat, data : Buffers] /\ queue' = Append(queue, e)
    OBVIOUS
  <2> HIDE DEF e
  <2> QED
    BY <1>0, <2>1, LogAppends
<1>5. Accepted(e).call = m.body
  <2>1. m.fnum = QueryFrags /\ m \in Up
    BY <1>0, UpStages DEF NextAsk, CallInv
  <2>2. m.body \in 1 .. MaxCalls
    BY <1>0, <1>3, OrderTypes, SrpcAssumption
  <2>3. CallOf(QueryBuffer(m), QueryFrags) = m.body
    BY <1>3, <2>1, <2>2, StageFacts, WholeCall
  <2> QED
    BY <2>3 DEF Accepted
<1> HIDE DEF e
<1>6. LogLength \in Nat /\ DOMAIN Log = 1 .. LogLength /\ LogLength' = LogLength + 1
      /\ Len(queue') = 1 /\ LastCall' = m.body
  <2>1. LogLength \in Nat /\ DOMAIN Log = 1 .. LogLength
    BY <1>0, LogFacts
  <2>2. LogLength' \in Nat /\ DOMAIN Log' = 1 .. LogLength'
    <3>1. executed' \in Seq([ep : Nat, call : 0 .. MaxCalls]) /\ queue' \in Seq([ep : Nat, data : Buffers])
      BY DEF TypeOK
    <3>2. LogLength' \in Nat
      BY <3>1 DEF LogLength
    <3> QED
      BY <3>2 DEF Log, LogLength
  <2>3. LogLength' = LogLength + 1
    BY <1>4, <2>1, <2>2
  <2>4. Len(queue') = 1
    BY <1>3
  <2>5. LastCall' = m.body
    BY <1>4, <1>5, <2>3 DEF LastCall
  <2> QED
    BY <2>1, <2>3, <2>4, <2>5
<1>7. ServerShape'
  BY <1>0 DEF ServerShape
<1>8. LogOrder'
  <2>1. m.body \in Nat /\ app.call \in Nat
    BY <1>0, <1>3, OrderTypes
  <2>2. \A n \in 1 .. LogLength : Log'[n].call = Log[n].call /\ Log[n].call \in 1 .. app.call /\ Log[n].call < m.body
    BY <1>0, <1>3, <1>4, <1>6 DEF LogOrder
  <2>3. Log'[LogLength + 1].call = m.body
    BY <1>4, <1>5
  <2>4. \A n \in 1 .. LogLength + 1 : n \in 1 .. LogLength \/ n = LogLength + 1
    BY <1>6
  <2>5. \A n \in DOMAIN Log' : Log'[n].call \in 1 .. app'.call
    BY <1>0, <1>3, <1>4, <2>2, <2>3, <2>4
  <2>6. ASSUME NEW n \in DOMAIN Log', NEW k \in DOMAIN Log', n < k PROVE Log'[n].call < Log'[k].call
    <3>1. n \in 1 .. LogLength
      BY <1>4, <1>6, <2>6
    <3>2. CASE k \in 1 .. LogLength
      <4>1. Log[n].call < Log[k].call
        BY <1>0, <1>6, <2>6, <3>1, <3>2 DEF LogOrder
      <4> QED
        BY <2>2, <3>1, <3>2, <4>1
    <3>3. CASE k = LogLength + 1
      BY <2>2, <2>3, <3>1, <3>3
    <3> QED
      BY <1>4, <2>4, <3>2, <3>3
  <2> QED
    BY <2>5, <2>6 DEF LogOrder
<1>9. QueryData'
  <2>1. HasServer' => \A n \in Up' : n.cmd \in Asks => ~(n.seqno > srv'.seqno)
    <3>1. \A n \in Up : n.cmd \in Asks => n.seqno \in Nat /\ n.seqno <= m.seqno
      BY <1>0, NextAskFacts, UpStages DEF CallInv
    <3>2. m.seqno \in Nat
      BY <1>0, NextAskFacts
    <3> QED
      BY <1>0, <1>1, <3>1, <3>2
  <2> QED
    BY <1>0, <2>1 DEF QueryData
<1>10. WorkerData'
  <2>1. LogLength' > 0
    BY <1>6
  <2> QED
    BY <1>0, <1>1, <1>3, <1>6, <2>1 DEF WorkerData
<1>11. ResponseData'
  <2>1. Done(app.call)' <=> Done(app.call)
    BY <1>0 DEF Done
  <2> QED
    BY <1>0, <1>1, <2>1 DEF ResponseData, Partial, Done, Replies
<1> QED
  BY <1>1, <1>2, <1>7, <1>8, <1>9, <1>10, <1>11 DEF CallInv

LEMMA AskStarts ==
  ASSUME CallInv, NEW m \in Up, m.cmd \in Asks, StartsQuery(Server, m)
  PROVE  NextAsk(m) /\ QueryBuffer(m) = Copied(m)
<1>0. TypeOK /\ UpShape /\ ServerShape /\ ServerBound
  BY DEF CallInv
<1>1. HasServer /\ srv.state \in {"IDLE", "RESPONSE_SENT"} /\ m.seqno - srv.seqno = 1
  BY DEF StartsQuery, HasServer, srv
<1>2. m.seqno \in Nat /\ srv.seqno \in Nat
  BY <1>0, <1>1, UpStages, ServerStages
<1>3. m.seqno = srv.seqno + 1
  BY <1>1, <1>2
<1>4. m.fnum = 1
  BY <1>0, <1>1, <1>3 DEF ServerBound
<1>5. srv.pl.cmd \in {"CACK", "RESPONSE"}
  BY <1>0, <1>1 DEF ServerShape
<1> QED
  BY <1>1, <1>3, <1>4, <1>5 DEF NextAsk, QueryBuffer

LEMMA AskContinues ==
  ASSUME CallInv, NEW m \in Up, m.cmd \in Asks, HasServer, srv.state = "FACK_SENT", m.seqno = srv.seqno,
         m.fnum - srv.lastFrag = 1
  PROVE  NextAsk(m) /\ QueryBuffer(m) = Filled(srv.resp, m)
<1>0. TypeOK /\ UpShape /\ ServerShape
  BY DEF CallInv
<1>1. srv.pl.cmd = "FACK" /\ srv.lastFrag = srv.pl.fnum
  BY <1>0 DEF ServerShape
<1>2. m.seqno \in Nat /\ m.fnum \in Nat /\ SStage \in Nat /\ SStage = srv.pl.fnum
  BY <1>0, <1>1, UpStages, ServerStages
<1>3. m.fnum = SStage + 1 /\ m.seqno # srv.seqno + 1
  BY <1>1, <1>2
<1> QED
  BY <1>1, <1>3 DEF NextAsk, QueryBuffer

LEMMA AskAnswered ==
  ASSUME CallInv, NEW m, NextAsk(m), NEW c, (m.cmd = "FRAGMENT" /\ c = "FACK") \/ (m.cmd = "QUERY" /\ c = "QACK"),
         NEW x, x = Message(c, m.seqno, m.fnum, m.nfrags, 0),
         NEW r \in Records, r.pl = x, r.seqno = m.seqno, ServerHandles(m, r, <<x>>)
  PROVE  AsksBy(m, x)
<1>0. TypeOK /\ UpShape /\ m \in Up /\ m \in Messages
  BY NextAskFacts DEF CallInv, NextAsk
<1>1. x \in Messages /\ x.cmd = c /\ x.seqno = m.seqno /\ x.fnum = m.fnum
  <2>1. c \in Commands
    BY DEF Commands
  <2> QED
    BY <1>0, <2>1, AnswerTyped
<1>2. DownSound(x)
  <2>1. /\ m.seqno > SeqnoStart /\ m.fnum \in Nat
        /\ m.cmd = "FRAGMENT" => 1 <= m.fnum /\ m.fnum < QueryFrags
        /\ m.cmd = "QUERY" => m.fnum = QueryFrags
    BY <1>0, UpStages DEF NextAsk
  <2>2. m.cmd = "FRAGMENT" => m.fnum \in 1 .. QueryFrags - 1
    BY <2>1, StageFacts
  <2> QED
    BY <1>1, <2>1, <2>2 DEF DownSound, Confirms, Replies
<1>3. Moves(Server, {x})
  BY <1>1, EmptyOut DEF ServerHandles
<1>4. \A a \in Down : a.cmd \in Replies => a.seqno < x.seqno
  BY <1>1, NextAskFacts
<1>5. rec'[Client] = rec[Client] /\ app' = app /\ srv' = r
  BY DEF ServerHandles
<1>6. ServerPuts(x)
  BY <1>1, <1>2, <1>3, <1>4, <1>5 DEF ServerPuts
<1> QED
  BY <1>1, <1>5, <1>6 DEF AsksBy, ServerHandles

(* CONNECT at the server. *)
LEMMA ServerReadsConnect ==
  ASSUME CallInv, TypeOK', Ordered = TRUE, NEW i \in Arriving(Server), NEW m, m = net[Server][i],
         UNCHANGED <<app, worker, executed>>, CONNECT(Server, i, m)
  PROVE  CallInv'
<1>0. TypeOK /\ UpShape /\ queue' = queue /\ m.cmd = "CONNECT" /\ created \in Nat /\ created + 1 \in Nat
  BY DEF CallInv, CONNECT, TypeOK
<1> DEFINE new == AcceptedConnection(m.seqno, created + 1)
<1>2. CASE ~HasServer /\ Handled(Server, i, new, <<new.pl>>)
  <2> DEFINE x == Control("CACK", m.seqno)
  <2>1. m \in Messages /\ m.seqno \in Nat
    <3>1. net[Server] \in Seq(Messages) /\ Len(net[Server]) \in Nat /\ i \in 1 .. Len(net[Server])
      BY <1>0, ProcFacts, ArrivingFirst, EmptySeq
    <3> QED
      BY <3>1, ElementOfSeq, MessageFields
  <2>2. x \in Messages /\ x.cmd = "CACK" /\ x.seqno = m.seqno
    BY <2>1, ControlTyped DEF Commands
  <2> HIDE DEF x
  <2>3. new = crecord_setState(crecord_setPayload(crecord_create(m.seqno, created + 1), x), "IDLE")
    BY DEF AcceptedConnection, x
  <2> HIDE DEF new
  <2>4. new \in Records /\ new.seqno = m.seqno /\ new.pl = x /\ new.state = "IDLE"
    <3>1. created + 1 \in Nat /\ "IDLE" \in States
      BY <1>0, StateNames
    <3> QED
      BY <2>1, <2>2, <2>3, <3>1, CreatedTyped
  <2>5. ServerHandles(m, new, <<x>>)
    BY <1>0, <1>2, <2>2, <2>4, EmptyOut, ServerReceives
  <2>6. m \in Up /\ m.seqno = SeqnoStart
    BY <1>0, <2>5, UpStages DEF ServerHandles
  <2>7. DownSound(x)
    BY <2>2, <2>6 DEF DownSound, Confirms, Replies
  <2>8. ServerPuts(x)
    BY <2>2, <2>4, <2>5, <2>7, EmptyOut DEF ServerPuts, ServerHandles
  <2>9. srv' = new
    BY <2>5 DEF ServerHandles
  <2> QED
    BY <1>0, <1>2, <2>2, <2>4, <2>6, <2>8, <2>9, ServerCreates
<1>3. CASE /\ HasServer /\ srv.state = "IDLE"
           /\ Handled(Server, i, crecord_setState(srv, "IDLE"), <<srv.pl>>)
  <2>1. srv.pl \in Messages
    BY <1>0, <1>3, OrderTypes, RecordFields
  <2>2. ServerHandles(m, crecord_setState(srv, "IDLE"), <<srv.pl>>)
    BY <1>0, <1>3, <2>1, EmptyOut, ServerReceives
  <2> QED
    BY <1>0, <1>3, <2>1, <2>2, EmptyOut, ServerSetsSame
<1>4. CASE Handled(Server, i, rec[Server], << >>)
  <2>2. ServerHandles(m, rec[Server], << >>)
    BY <1>0, <1>4, EmptyOut, ServerReceives
  <2> QED
    BY <1>0, <2>2, EmptyOut, ServerIgnores
<1> HIDE DEF new
<1> QED
  BY <1>2, <1>3, <1>4 DEF CONNECT, new, HasServer, srv

(* The server ignores m, or answers it once more. *)
LEMMA ServerRepeats ==
  ASSUME CallInv, TypeOK', Ordered = TRUE, NEW i \in Arriving(Server), NEW m, m = net[Server][i],
         UNCHANGED <<app, worker, executed, queue>>,
         \/ Handled(Server, i, rec[Server], << >>)
         \/ HasServer /\ Handled(Server, i, crecord_setState(srv, srv.state), <<srv.pl>>)
  PROVE  CallInv'
<1>0. TypeOK /\ queue' = queue
  BY DEF CallInv
<1>1. CASE Handled(Server, i, rec[Server], << >>)
  <2>2. ServerHandles(m, rec[Server], << >>)
    BY <1>0, <1>1, EmptyOut, ServerReceives
  <2> QED
    BY <1>0, <2>2, EmptyOut, ServerIgnores
<1>2. CASE HasServer /\ Handled(Server, i, crecord_setState(srv, srv.state), <<srv.pl>>)
  <2>1. srv.pl \in Messages
    BY <1>0, <1>2, OrderTypes, RecordFields
  <2>2. ServerHandles(m, crecord_setState(srv, srv.state), <<srv.pl>>)
    BY <1>0, <1>2, <2>1, EmptyOut, ServerReceives
  <2> QED
    BY <1>0, <1>2, <2>1, <2>2, EmptyOut, ServerSetsSame
<1> QED
  BY <1>1, <1>2

(* FRAGMENT at the server. *)
LEMMA ServerReadsFragment ==
  ASSUME CallInv, TypeOK', Ordered = TRUE, NEW i \in Arriving(Server), NEW m, m = net[Server][i],
         UNCHANGED <<app, worker, executed>>, FRAGMENT(Server, i, m)
  PROVE  CallInv'
<1>0. /\ TypeOK /\ UpShape /\ ServerShape /\ queue' = queue /\ m.cmd = "FRAGMENT" /\ m.cmd \in Asks
      /\ (HasServer => srv \in Records /\ srv.resp \in Buffers)
  BY OrderTypes, RecordFields DEF CallInv, FRAGMENT, Asks
<1>1. m \in Messages /\ m.seqno \in Nat /\ m.fnum \in Nat /\ m \in Up
  <2>1. net[Server] \in Seq(Messages) /\ Len(net[Server]) \in Nat /\ i \in 1 .. Len(net[Server])
    BY <1>0, ProcFacts, ArrivingFirst, EmptySeq
  <2> QED
    BY <2>1, ElementOfSeq, MessageFields DEF Up, Elements
<1> DEFINE fack == Message("FACK", m.seqno, m.fnum, m.nfrags, 0)
           accepted(r) == crecord_setState(crecord_setPayload([r EXCEPT !.lastFrag = m.fnum], fack), "FACK_SENT")
<1>2. fack \in Messages
  BY <1>1, AnswerTyped DEF Commands
<1> HIDE DEF fack
<1>3. ASSUME NEW r \in Records, r.seqno = m.seqno, NextAsk(m), r.resp = QueryBuffer(m),
             Handled(Server, i, accepted(r), <<fack>>)
      PROVE  CallInv'
  <2> DEFINE q == [r EXCEPT !.lastFrag = m.fnum]
             z == crecord_setState(crecord_setPayload(q, fack), "FACK_SENT")
  <2>1. q \in Records /\ q.seqno = m.seqno /\ q.resp = QueryBuffer(m) /\ q.lastFrag = m.fnum
    BY <1>1, <1>3 DEF Records
  <2> HIDE DEF q
  <2>2. z \in Records /\ z.seqno = m.seqno /\ z.pl = fack /\ z.state = "FACK_SENT" /\ z.resp = QueryBuffer(m)
        /\ z.lastFrag = m.fnum
    BY <1>2, <2>1, StateNames, PreparedTyped
  <2>3. Handled(Server, i, z, <<fack>>)
    BY <1>3 DEF q
  <2> HIDE DEF z
  <2>4. ServerHandles(m, z, <<fack>>)
    BY <1>0, <1>2, <2>3, EmptyOut, ServerReceives
  <2>5. fack = Message("FACK", m.seqno, m.fnum, m.nfrags, 0)
    BY DEF fack
  <2>6. AsksBy(m, fack)
    BY <1>0, <1>3, <2>2, <2>4, <2>5, AskAnswered
  <2>7. srv' = z
    BY <2>4 DEF ServerHandles
  <2> QED
    BY <1>0, <2>2, <2>6, <2>7, FragmentAccepted
<1>4. CASE /\ StartsQuery(Server, m)
           /\ Handled(Server, i, accepted([srv EXCEPT !.seqno = m.seqno, !.resp = Copied(m)]), <<fack>>)
  <2> DEFINE r == [srv EXCEPT !.seqno = m.seqno, !.resp = Copied(m)]
  <2>1. HasServer /\ NextAsk(m) /\ QueryBuffer(m) = Copied(m)
    BY <1>0, <1>1, <1>4, AskStarts DEF NextAsk
  <2>2. r \in Records /\ r.seqno = m.seqno /\ r.resp = QueryBuffer(m)
    BY <1>0, <1>1, <2>1, CopiedTyped DEF Records
  <2>3. Handled(Server, i, accepted(r), <<fack>>)
    BY <1>4
  <2> HIDE DEF r, accepted
  <2> QED
    BY <1>3, <2>1, <2>2, <2>3
<1>5. CASE /\ HasServer /\ srv.state = "FACK_SENT" /\ m.seqno = srv.seqno /\ m.fnum - srv.lastFrag = 1
           /\ Handled(Server, i, accepted([srv EXCEPT !.resp = Filled(@, m)]), <<fack>>)
  <2> DEFINE r == [srv EXCEPT !.resp = Filled(@, m)]
  <2>1. NextAsk(m) /\ QueryBuffer(m) = Filled(srv.resp, m)
    BY <1>0, <1>1, <1>5, AskContinues
  <2>2. r \in Records /\ r.seqno = m.seqno /\ r.resp = QueryBuffer(m)
    <3>1. Filled(srv.resp, m) \in Buffers
      BY <1>0, <1>1, <1>5, FilledTyped
    <3> QED
      BY <1>0, <1>5, <2>1, <3>1 DEF Records
  <2>3. Handled(Server, i, accepted(r), <<fack>>)
    BY <1>5
  <2> HIDE DEF r, accepted
  <2> QED
    BY <1>3, <2>1, <2>2, <2>3
<1>6. CASE \/ Handled(Server, i, rec[Server], << >>)
           \/ HasServer /\ Handled(Server, i, crecord_setState(srv, srv.state), <<srv.pl>>)
  BY <1>0, <1>6, ServerRepeats
<1>7. HasServer => srv.state \notin {"QUERY_SENT", "AWAITING_RESPONSE"}
  BY <1>0 DEF ServerShape
<1> HIDE DEF accepted
<1> QED
  BY <1>4, <1>5, <1>6, <1>7 DEF FRAGMENT, fack, accepted, HasServer, srv

(* QUERY at the server. *)
LEMMA ServerReadsQuery ==
  ASSUME CallInv, TypeOK', Ordered = TRUE, NEW i \in Arriving(Server), NEW m, m = net[Server][i],
         UNCHANGED <<app, worker, executed>>, QUERY(Server, i, m)
  PROVE  CallInv'
<1>0. /\ TypeOK /\ UpShape /\ m.cmd = "QUERY" /\ m.cmd \in Asks
      /\ (HasServer => srv \in Records /\ srv.resp \in Buffers /\ srv.id \in Nat)
  BY OrderTypes, RecordFields DEF CallInv, QUERY, Asks
<1>1. m \in Messages /\ m.seqno \in Nat /\ m.fnum \in Nat /\ m \in Up
  <2>1. net[Server] \in Seq(Messages) /\ Len(net[Server]) \in Nat /\ i \in 1 .. Len(net[Server])
    BY <1>0, ProcFacts, ArrivingFirst, EmptySeq
  <2> QED
    BY <2>1, ElementOfSeq, MessageFields DEF Up, Elements
<1> DEFINE qack == Message("QACK", m.seqno, m.fnum, m.nfrags, 0)
           accepted(r) == crecord_setState(crecord_setPayload(r, qack), "QACK_SENT")
<1>2. qack \in Messages
  BY <1>1, AnswerTyped DEF Commands
<1> HIDE DEF qack
<1>3. ASSUME NEW r \in Records, r.seqno = m.seqno, NextAsk(m), QueryBuffer(m) \in Buffers, NEW id \in Nat,
             queue' = Append(queue, [ep |-> id, data |-> QueryBuffer(m)]),
             Handled(Server, i, accepted(r), <<qack>>)
      PROVE  CallInv'
  <2>2. accepted(r) \in Records /\ accepted(r).seqno = m.seqno /\ accepted(r).pl = qack
        /\ accepted(r).state = "QACK_SENT"
    BY <1>2, <1>3, StateNames, PreparedTyped
  <2> HIDE DEF accepted
  <2>4. ServerHandles(m, accepted(r), <<qack>>)
    BY <1>0, <1>2, <1>3, EmptyOut, ServerReceives
  <2>5. qack = Message("QACK", m.seqno, m.fnum, m.nfrags, 0)
    BY DEF qack
  <2>6. AsksBy(m, qack)
    BY <1>0, <1>3, <2>2, <2>4, <2>5, AskAnswered
  <2>7. srv' = accepted(r)
    BY <2>4 DEF ServerHandles
  <2> QED
    BY <1>0, <1>3, <2>2, <2>6, <2>7, QueryAccepted
<1>4. CASE /\ StartsQuery(Server, m)
           /\ Handled(Server, i, accepted([srv EXCEPT !.seqno = m.seqno]), <<qack>>)
           /\ queue' = Append(queue, [ep |-> srv.id, data |-> Copied(m)])
  <2> DEFINE r == [srv EXCEPT !.seqno = m.seqno]
  <2>1. HasServer /\ NextAsk(m) /\ QueryBuffer(m) = Copied(m) /\ Copied(m) \in Buffers
    BY <1>0, <1>1, <1>4, AskStarts, CopiedTyped DEF NextAsk
  <2>2. r \in Records /\ r.seqno = m.seqno
    BY <1>0, <1>1, <2>1 DEF Records
  <2>3. Handled(Server, i, accepted(r), <<qack>>)
    BY <1>4
  <2> HIDE DEF r, accepted
  <2> QED
    BY <1>0, <1>3, <1>4, <2>1, <2>2, <2>3
<1>5. CASE /\ EndsFragments(Server, m)
           /\ Handled(Server, i, accepted([srv EXCEPT !.resp = NULL]), <<qack>>)
           /\ queue' = Append(queue, [ep |-> srv.id, data |-> Filled(srv.resp, m)])
  <2> DEFINE r == [srv EXCEPT !.resp = NULL]
  <2>0. HasServer /\ srv.state = "FACK_SENT" /\ m.seqno = srv.seqno /\ m.fnum - srv.lastFrag = 1
    BY <1>5 DEF EndsFragments, HasServer, srv
  <2>1. NextAsk(m) /\ QueryBuffer(m) = Filled(srv.resp, m) /\ Filled(srv.resp, m) \in Buffers
    BY <1>0, <1>1, <2>0, AskContinues, FilledTyped
  <2>2. r \in Records /\ r.seqno = m.seqno
    <3>1. NULL \in Buffers
      BY DEF NULL, Buffers
    <3> QED
      BY <1>0, <2>0, <3>1 DEF Records
  <2>3. Handled(Server, i, accepted(r), <<qack>>)
    BY <1>5
  <2> HIDE DEF r, accepted
  <2> QED
    BY <1>0, <1>3, <1>5, <2>0, <2>1, <2>2, <2>3
<1>6. CASE /\ UNCHANGED queue
           /\ \/ Handled(Server, i, rec[Server], << >>)
              \/ HasServer /\ Handled(Server, i, crecord_setState(srv, srv.state), <<srv.pl>>)
  BY <1>6, ServerRepeats
<1> HIDE DEF accepted
<1> QED
  BY <1>4, <1>5, <1>6 DEF QUERY, qack, accepted, HasServer, srv

LEMMA ServerReadsInOrder ==
  ASSUME CallInv, Ordered = TRUE, reader(Server)
  PROVE  CallInv'
<1>0. TypeOK /\ TypeOK' /\ UNCHANGED <<app, worker, executed>>
  BY ProcFacts, ReaderTyped DEF CallInv, reader
<1>1. PICK i \in Arriving(Server) :
          LET m == net[Server][i] IN
          \/ CONNECT(Server, i, m) \/ CACK(Server, i, m)
          \/ QUERY(Server, i, m) \/ QACK(Server, i, m)
          \/ RESPONSE(Server, i, m) \/ RACK(Server, i, m)
          \/ DISCONNECT(Server, i, m) \/ DACK(Server, i, m)
          \/ FRAGMENT(Server, i, m) \/ FACK(Server, i, m)
          \/ PING(Server, i, m) \/ PACK(Server, i, m)
          \/ SEQNO(Server, i, m) \/ SACK(Server, i, m)
  BY DEF reader
<1> DEFINE m == net[Server][i]
<1>2. m \in Up
  <2>1. net[Server] \in Seq(Messages) /\ Len(net[Server]) \in Nat /\ i \in 1 .. Len(net[Server])
    BY <1>0, ProcFacts, ArrivingFirst, EmptySeq
  <2> QED
    BY <2>1 DEF Up, Elements
<1>3. m.cmd \in {"CONNECT", "FRAGMENT", "QUERY", "FACK", "RACK", "DISCONNECT", "PING", "PACK"}
  BY <1>2 DEF CallInv, UpShape, UpSound
<1>4. /\ ~CACK(Server, i, m) /\ ~QACK(Server, i, m) /\ ~RESPONSE(Server, i, m) /\ ~DACK(Server, i, m)
      /\ ~SEQNO(Server, i, m) /\ ~SACK(Server, i, m)
  BY <1>3 DEF CACK, QACK, RESPONSE, DACK, SEQNO, SACK
<1>5. m = net[Server][i]
  OBVIOUS
<1> HIDE DEF m
<1> QED
  BY <1>0, <1>1, <1>4, <1>5, ServerReadsConnect, ServerReadsFragment, ServerReadsQuery, ServerReadsAck,
     ServerReadsNoise

-----------------------------------------------------------------------------
(* The client's reader thread.                                             *)

(* The client handles m: its record becomes r, and `out' is transmitted. *)
ClientHandles(m, r, out) ==
  /\ Moves(Client, Elements(out)) /\ Taken(Client, m) /\ m \in Down /\ m \in Messages
  /\ rec'[Server] = rec[Server] /\ cli' = r /\ (HasClient' <=> r # NoRecord)
  /\ UNCHANGED <<app, worker, executed>>

LEMMA ClientReceives ==
  ASSUME TypeOK, Ordered = TRUE, NEW i \in Arriving(Client), NEW r, NEW out, Single(out),
         Handled(Client, i, r, out), UNCHANGED <<app, worker, executed>>
  PROVE  ClientHandles(net[Client][i], r, out)
<1>1. /\ Moves(Client, Elements(out)) /\ Taken(Client, net[Client][i])
      /\ rec'[Client] = r /\ rec'[Server] = rec[Server]
  BY ProcFacts, HandledMoves
<1>2. net[Client][i] \in Down /\ net[Client][i] \in Messages
  BY <1>1, OrderTypes DEF Taken, Down
<1>3. cli' = r /\ (HasClient' <=> r # NoRecord)
  BY <1>1 DEF cli, HasClient, known
<1> QED
  BY <1>1, <1>2, <1>3 DEF ClientHandles

(* A datagram that the client ignores, or answers without a change. *)
LEMMA ClientIgnores ==
  ASSUME CallInv, TypeOK', UNCHANGED queue, NEW m, NEW out, ClientHandles(m, rec[Client], out),
         \A x \in Elements(out) : x \in UpNoise \/ (HasClient /\ x = cli.pl)
  PROVE  CallInv'
<1>1. cli' = cli /\ (HasClient' <=> HasClient) /\ app' = app
  BY DEF ClientHandles, cli, HasClient, known
<1>3. Moves(Client, Elements(out)) /\ rec'[Server] = rec[Server] /\ UNCHANGED <<worker, executed>>
  BY DEF ClientHandles
<1>4. CASE ~HasClient
  BY <1>1, <1>3, <1>4, ClientGone, ClientCalm
<1>5. CASE HasClient
  <2>1. ClientSame /\ cli'.state \in {cli.state, "TIMEDOUT"} /\ cli'.pl = cli.pl
    BY <1>1, <1>5 DEF ClientSame
  <2> QED
    BY <1>3, <2>1, ClientRests, ClientCalm
<1> QED
  BY <1>4, <1>5

(* A datagram on which the client only changes the state of its record. *)
LEMMA ClientSets ==
  ASSUME CallInv, HasClient, NEW st \in States, NEW m, NEW out,
         ClientHandles(m, crecord_setState(cli, st), out)
  PROVE  ClientSame /\ cli'.state = st
<1>1. cli \in Records
  BY OrderTypes DEF CallInv
<1> QED
  BY <1>1, SetStateTyped DEF ClientHandles, ClientSame

LEMMA ClientSetsSame ==
  ASSUME CallInv, TypeOK', UNCHANGED queue, HasClient, NEW st \in {cli.state, "TIMEDOUT"}, NEW m, NEW out,
         ClientHandles(m, crecord_setState(cli, st), out),
         \A x \in Elements(out) : x \in UpNoise \/ x = cli.pl
  PROVE  CallInv'
<1>1. st \in States
  BY OrderTypes, RecordFields, StateNames DEF CallInv
<1>2. ClientSame /\ cli'.state = st /\ cli'.pl = cli.pl
  BY <1>1, ClientSets DEF ClientSame
<1>3. Moves(Client, Elements(out)) /\ rec'[Server] = rec[Server] /\ UNCHANGED <<worker, executed>>
  BY DEF ClientHandles
<1> QED
  BY <1>2, <1>3, ClientRests, ClientCalm

(* A datagram that tells the client's thread something. *)
LEMMA ClientTold ==
  ASSUME CallInv, TypeOK', UNCHANGED queue, HasClient, NEW st \in States, NEW m,
         ClientHandles(m, crecord_setState(cli, st), << >>), ClientShape',
         st \in {"FACK_RECEIVED", "AWAITING_RESPONSE", "FACK_SENT"} => m.cmd \in Confirms \cup Replies,
         HasServer /\ Active /\ st = "FACK_RECEIVED" => srv.seqno = cli.seqno /\ cli.lastFrag <= SStage
  PROVE  CallInv'
<1>0. TypeOK /\ Numbers /\ Outcomes /\ Fresh /\ app.call \in Nat
  BY OrderTypes DEF CallInv
<1>1. ClientSame /\ cli'.state = st
  BY ClientSets
<1>2. /\ cli'.pl = cli.pl /\ app' = app /\ cli'.seqno = cli.seqno /\ cli'.resp = cli.resp
      /\ cli'.lastFrag = cli.lastFrag
  BY <1>1 DEF ClientSame
<1>3. (Active' => Active) /\ (InCall' => InCall)
  BY <1>2 DEF Active, InCall
<1>4. Moves(Client, {}) /\ rec'[Server] = rec[Server] /\ UNCHANGED <<worker, executed>> /\ m \in Down
  BY EmptyOut DEF ClientHandles
<1>5. ClientStays
  BY <1>0, <1>2, <1>3 DEF ClientStays, Numbers
<1>6. Outcomes'
  BY <1>0, <1>2 DEF Outcomes, OwnResponse
<1>7. Connecting' => Connecting
  <2>1. Elements(net'[Server]) \subseteq Elements(net[Server]) \cup {}
    BY <1>4, ProcFacts DEF Moves, Follows
  <2>2. HasClient' => cli'.pl \in Up \cup {}
    BY <1>2 DEF Up
  <2>3. Up' \subseteq Up \cup {}
    BY <2>1, <2>2, UpGrows
  <2> QED
    BY <1>2, <2>3 DEF Connecting
<1>8. ClientQuiet
  BY <1>0, <1>1, <1>4, <1>7 DEF ClientQuiet, Fresh
<1>9. HasServer /\ Active' /\ cli'.state = "FACK_RECEIVED" => srv.seqno = cli.seqno /\ cli.lastFrag <= SStage
  BY <1>1, <1>3
<1> QED
  BY <1>2, <1>4, <1>5, <1>6, <1>8, <1>9, ClientCalm

(* PING and PACK. *)
LEMMA ClientReadsNoise ==
  ASSUME CallInv, TypeOK', Ordered = TRUE, NEW i \in Arriving(Client), NEW m, m = net[Client][i],
         UNCHANGED <<app, worker, executed>>,
         PING(Client, i, m) \/ PACK(Client, i, m)
  PROVE  CallInv'
<1>0. TypeOK /\ queue' = queue
  BY DEF CallInv, PING, PACK
<1>1. m \in Messages /\ m.seqno \in Nat
  <2>1. net[Client] \in Seq(Messages) /\ Len(net[Client]) \in Nat /\ i \in 1 .. Len(net[Client])
    BY <1>0, ProcFacts, ArrivingFirst, EmptySeq
  <2> QED
    BY <2>1, ElementOfSeq, MessageFields
<1>2. Control("PACK", m.seqno) \in Messages /\ Control("PACK", m.seqno) \in UpNoise
  BY <1>1, PingNoise DEF UpNoise
<1>3. CASE PING(Client, i, m)
  <2> DEFINE out == IF known(Client) THEN <<Control("PACK", m.seqno)>> ELSE << >>
  <2>1. Single(out) /\ \A x \in Elements(out) : x \in UpNoise
    BY <1>2, EmptyOut
  <2>2. Handled(Client, i, rec[Client], out)
    BY <1>3 DEF PING
  <2> HIDE DEF out
  <2>3. ClientHandles(m, rec[Client], out)
    BY <1>0, <2>1, <2>2, ClientReceives
  <2> QED
    BY <1>0, <2>1, <2>3, ClientIgnores
<1>4. CASE PACK(Client, i, m)
  <2>1. CASE HasClient
    <3>1. Handled(Client, i, crecord_setState(cli, cli.state), << >>)
      BY <1>4, <2>1 DEF PACK, HasClient, cli
    <3>2. ClientHandles(m, crecord_setState(cli, cli.state), << >>)
      BY <1>0, <3>1, EmptyOut, ClientReceives
    <3> QED
      BY <1>0, <2>1, <3>2, EmptyOut, ClientSetsSame
  <2>2. CASE ~HasClient
    <3>1. Handled(Client, i, rec[Client], << >>)
      BY <1>4, <2>2 DEF PACK, HasClient, known
    <3>2. ClientHandles(m, rec[Client], << >>)
      BY <1>0, <3>1, EmptyOut, ClientReceives
    <3> QED
      BY <1>0, <3>2, EmptyOut, ClientIgnores
  <2> QED
    BY <2>1, <2>2
<1> QED
  BY <1>3, <1>4

(* The client ignores m, or answers it once more. *)
LEMMA ClientRepeats ==
  ASSUME CallInv, TypeOK', Ordered = TRUE, NEW i \in Arriving(Client), NEW m, m = net[Client][i],
         UNCHANGED <<app, worker, executed, queue>>,
         \/ Handled(Client, i, rec[Client], << >>)
         \/ HasClient /\ Handled(Client, i, crecord_setState(cli, cli.state), <<cli.pl>>)
  PROVE  CallInv'
<1>0. TypeOK /\ queue' = queue
  BY DEF CallInv
<1>1. CASE Handled(Client, i, rec[Client], << >>)
  <2>2. ClientHandles(m, rec[Client], << >>)
    BY <1>0, <1>1, EmptyOut, ClientReceives
  <2> QED
    BY <1>0, <2>2, EmptyOut, ClientIgnores
<1>2. CASE HasClient /\ Handled(Client, i, crecord_setState(cli, cli.state), <<cli.pl>>)
  <2>1. cli.pl \in Messages
    BY <1>0, <1>2, OrderTypes, RecordFields
  <2>2. ClientHandles(m, crecord_setState(cli, cli.state), <<cli.pl>>)
    BY <1>0, <1>2, <2>1, EmptyOut, ClientReceives
  <2> QED
    BY <1>0, <1>2, <2>1, <2>2, EmptyOut, ClientSetsSame
<1> QED
  BY <1>1, <1>2

(* CACK, QACK, FACK and DACK. *)
LEMMA ClientReadsAck ==
  ASSUME CallInv, TypeOK', Ordered = TRUE, NEW i \in Arriving(Client), NEW m, m = net[Client][i],
         UNCHANGED <<app, worker, executed>>,
         CACK(Client, i, m) \/ QACK(Client, i, m) \/ FACK(Client, i, m) \/ DACK(Client, i, m)
  PROVE  CallInv'
<1>0. /\ TypeOK /\ queue' = queue /\ ClientShape /\ ServerBound /\ ClientBound /\ BothBound /\ DownShape
  BY DEF CallInv, CACK, QACK, FACK, DACK, Acknowledged
<1>1. CASE Handled(Client, i, rec[Client], << >>)
  BY <1>0, <1>1, ClientRepeats
<1>2. CASE /\ CACK(Client, i, m) /\ HasClient /\ m.seqno = cli.seqno
           /\ Handled(Client, i, crecord_setState(cli, "IDLE"), << >>)
  <2>1. ClientHandles(m, crecord_setState(cli, "IDLE"), << >>)
    BY <1>0, <1>2, EmptyOut, ClientReceives
  <2>2. ClientSame /\ cli'.state = "IDLE"
    BY <1>2, <2>1, StateNames, ClientSets
  <2>3. Active => cli.pl.cmd = "CONNECT"
    <3>1. m \in Down /\ m.cmd = "CACK"
      BY <1>2, <2>1 DEF ClientHandles, CACK
    <3>2. m.seqno = SeqnoStart
      BY <1>0, <3>1, DownStages
    <3> QED
      BY <1>2, <3>2, ClientStages, StageFacts
  <2>4. ClientShape'
    <3>1. Active' => Active
      BY <2>2 DEF Active, ClientSame
    <3> QED
      BY <1>0, <2>2, <2>3, <3>1 DEF ClientShape, ClientSame
  <2> QED
    BY <1>0, <1>2, <2>1, <2>4, StateNames, ClientTold
<1>3. CASE /\ QACK(Client, i, m) /\ HasClient /\ m.seqno = cli.seqno
           /\ Handled(Client, i, crecord_setState(cli, "AWAITING_RESPONSE"), << >>)
  <2>1. ClientHandles(m, crecord_setState(cli, "AWAITING_RESPONSE"), << >>)
    BY <1>0, <1>3, EmptyOut, ClientReceives
  <2>2. ClientSame /\ cli'.state = "AWAITING_RESPONSE"
    BY <1>3, <2>1, StateNames, ClientSets
  <2>3. m \in Down /\ m.cmd = "QACK" /\ m.cmd \in Confirms
    BY <1>3, <2>1 DEF ClientHandles, QACK, Confirms
  <2>4. Active => cli.pl.cmd = "QUERY"
    BY <1>0, <1>3, <2>3 DEF ClientBound
  <2>5. ClientShape'
    <3>1. Active' => Active
      BY <2>2 DEF Active, ClientSame
    <3> QED
      BY <1>0, <2>2, <2>4, <3>1 DEF ClientShape, ClientSame
  <2> QED
    BY <1>0, <1>3, <2>1, <2>3, <2>5, StateNames, ClientTold
<1>4. CASE /\ FACK(Client, i, m) /\ HasClient /\ m.seqno = cli.seqno /\ cli.state = "FRAGMENT_SENT"
           /\ m.fnum = cli.lastFrag /\ Handled(Client, i, crecord_setState(cli, "FACK_RECEIVED"), << >>)
  <2>1. ClientHandles(m, crecord_setState(cli, "FACK_RECEIVED"), << >>)
    BY <1>0, <1>4, EmptyOut, ClientReceives
  <2>2. ClientSame /\ cli'.state = "FACK_RECEIVED"
    BY <1>4, <2>1, StateNames, ClientSets
  <2>3. m \in Down /\ m.cmd = "FACK" /\ m.cmd \in Confirms
    BY <1>4, <2>1 DEF ClientHandles, FACK, Confirms
  <2>4. HasServer /\ Active => srv.seqno = cli.seqno /\ cli.lastFrag <= SStage
    <3> SUFFICES ASSUME HasServer, Active PROVE srv.seqno = cli.seqno /\ cli.lastFrag <= SStage
      OBVIOUS
    <3>1. NotAfter(m.seqno, DownStage(m), srv.seqno, SStage) /\ DownStage(m) = m.fnum
      BY <1>0, <2>3, DownStages DEF ServerBound
    <3>2. srv.seqno <= cli.seqno
      BY <1>0 DEF BothBound
    <3>3. srv.seqno \in Nat /\ cli.seqno \in Nat
      BY ServerStages, ClientStages
    <3> QED
      BY <1>4, <3>1, <3>2, <3>3 DEF NotAfter
  <2>5. ClientShape'
    <3>1. Active' => Active
      BY <2>2 DEF Active, ClientSame
    <3> QED
      BY <1>0, <1>4, <2>2, <3>1 DEF ClientShape, ClientSame
  <2> QED
    BY <1>0, <1>4, <2>1, <2>3, <2>4, <2>5, StateNames, ClientTold
<1>5. CASE /\ DACK(Client, i, m) /\ HasClient
           /\ Handled(Client, i, crecord_setState(cli, "TIMEDOUT"), << >>)
  <2>1. ClientHandles(m, crecord_setState(cli, "TIMEDOUT"), << >>)
    BY <1>0, <1>5, EmptyOut, ClientReceives
  <2> QED
    BY <1>0, <1>5, <2>1, EmptyOut, ClientSetsSame
<1> QED
  BY <1>1, <1>2, <1>3, <1>4, <1>5 DEF CACK, QACK, FACK, DACK, Acknowledged, HasClient, cli

(* The client transmits x, which its record retains. *)
ClientPuts(x) ==
  /\ x \in Messages /\ UpSound(x, app'.call) /\ Moves(Client, {x}) /\ rec'[Server] = rec[Server]
  /\ app'.call >= app.call /\ UNCHANGED <<worker, queue, executed>>
  /\ HasClient' => cli'.pl = x
  /\ x.cmd = "CONNECT" => \A a \in Up : a.cmd \notin Asks

(* What is not about the client. *)
LEMMA ClientSide ==
  ASSUME CallInv, TypeOK', NEW x, ClientPuts(x)
  PROVE  /\ Up' \subseteq Up \cup {x} /\ Down' \subseteq Down
         /\ srv' = srv /\ (HasServer' <=> HasServer) /\ SStage' = SStage
         /\ Log' = Log /\ LogLength' = LogLength /\ LastCall' = LastCall
         /\ UpShape' /\ DownShape' /\ ServerShape' /\ Fifo' /\ LogOrder'
<1>0. /\ TypeOK /\ UpShape /\ DownShape /\ ServerShape /\ Fifo /\ LogOrder
      /\ Other(Client) = Server /\ app.call \in Nat /\ app'.call \in Nat /\ app'.call >= app.call
  BY OrderTypes, ProcFacts DEF CallInv, ClientPuts, TypeOK
<1>1. srv' = srv /\ (HasServer' <=> HasServer)
  BY SameRecord DEF ClientPuts
<1>2. Follows(net[Client], net'[Client], {}) /\ Follows(net[Server], net'[Server], {x})
  BY <1>0 DEF Moves, ClientPuts
<1>3. Down' \subseteq Down
  <2>1. Elements(net'[Client]) \subseteq Elements(net[Client]) \cup {}
    BY <1>2 DEF Follows
  <2>2. HasServer' => srv'.pl \in Down \cup {}
    BY <1>1 DEF Down
  <2>3. Down' \subseteq Down \cup {}
    BY <2>1, <2>2, DownGrows
  <2> QED
    BY <2>3
<1>4. Up' \subseteq Up \cup {x}
  <2>1. Elements(net'[Server]) \subseteq Elements(net[Server]) \cup {x}
    BY <1>2 DEF Follows
  <2>2. HasClient' => cli'.pl \in Up \cup {x}
    BY DEF ClientPuts
  <2> QED
    BY <2>1, <2>2, UpGrows
<1>5. UpShape' /\ DownShape'
  <2>1. UpSound(x, app'.call)
    BY DEF ClientPuts
  <2> QED
    BY <1>0, <1>3, <1>4, <2>1, UpShapeGrows, DownShapeGrows
<1>6. ServerShape'
  BY <1>0, <1>1 DEF ServerShape
<1>7. SStage' = SStage
  BY <1>1 DEF SStage, DownStage
<1>8. Log' = Log /\ LogLength' = LogLength /\ LastCall' = LastCall
  <2>1. Log' = Log /\ LogLength' = LogLength
    BY LogSame DEF ClientPuts, LogLength
  <2> QED
    BY <2>1 DEF LastCall
<1>9. LogOrder'
  BY <1>0, <1>8 DEF LogOrder
<1>10. Fifo'
  <2>1. \A a, b \in Elements(net'[Server]) :
          Before(net'[Server], a, b) /\ b.cmd = "CONNECT" => a.cmd \notin Asks
    <3>1. Elements(net[Server]) \subseteq Up
      BY DEF Up
    <3> QED
      BY <1>0, <1>2, <3>1 DEF Fifo, Follows, ClientPuts
  <2>2. \A a, b \in Elements(net'[Client]) :
          Before(net'[Client], a, b) /\ a.cmd \in Replies /\ b.cmd = "QACK" => a.seqno < b.seqno
    BY <1>0, <1>2 DEF Fifo, Follows
  <2>3. HasClient' /\ cli'.pl.cmd = "CONNECT" => \A m \in Up' : m.cmd \notin Asks
    BY <1>4 DEF ClientPuts, Asks
  <2>4. HasServer' /\ srv'.pl.cmd = "QACK" => \A m \in Down' : m.cmd \in Replies => m.seqno < srv'.seqno
    BY <1>0, <1>1, <1>3 DEF Fifo
  <2> QED
    BY <2>1, <2>2, <2>3, <2>4 DEF Fifo, Before, Elements
<1> QED
  BY <1>1, <1>3, <1>4, <1>5, <1>6, <1>7, <1>8, <1>9, <1>10

(* The next datagram of a response, and the only one the client accepts. *)
NextReply(m) ==
  /\ HasClient /\ m \in Down /\ m.cmd \in Replies
  /\ Active => /\ m.seqno = cli.seqno
               /\ \/ cli.pl.cmd = "QUERY" /\ m.fnum = 1
                  \/ cli.pl.cmd = "FACK" /\ m.fnum = cli.pl.fnum + 1

(* The client answers it with x. *)
TakesReply(m, x) ==
  /\ NextReply(m) /\ Taken(Client, m) /\ ClientPuts(x) /\ x.seqno = m.seqno /\ x.fnum = m.fnum
  /\ app' = app /\ (Active' => cli'.seqno = cli.seqno)
  /\ \/ m.cmd = "FRAGMENT" /\ x.cmd = "FACK" /\ (Active' => cli'.state = "FACK_SENT")
     \/ m.cmd = "RESPONSE" /\ x.cmd = "RACK" /\ (Active' => cli'.state = "IDLE")
  /\ Active' => cli'.lastFrag = m.fnum \/ x.cmd = "RACK"

LEMMA ReplyBounds ==
  ASSUME CallInv, TypeOK', NEW m, NEW x, TakesReply(m, x)
  PROVE  ClientShape' /\ ServerBound' /\ ClientBound' /\ BothBound' /\ Fresh'
<1>0. /\ TypeOK /\ UpShape /\ DownShape /\ ServerShape /\ ClientShape /\ ServerBound /\ ClientBound /\ BothBound
      /\ Fifo /\ Fresh /\ ClientPuts(x) /\ NextReply(m) /\ HasClient /\ m \in Down /\ m.cmd \in Replies
      /\ Taken(Client, m) /\ x.seqno = m.seqno /\ x.fnum = m.fnum /\ app' = app
      /\ (Active' => cli'.seqno = cli.seqno) /\ (HasClient' => cli'.pl = x)
  BY DEF CallInv, TakesReply, NextReply, ClientPuts
<1>1. /\ Up' \subseteq Up \cup {x} /\ Down' \subseteq Down /\ srv' = srv /\ (HasServer' <=> HasServer)
      /\ SStage' = SStage
  BY <1>0, ClientSide
<1>2. /\ m.seqno \in Nat /\ m.fnum \in Nat /\ DownStage(m) = QueryFrags + m.fnum
      /\ DownStage(m) \in Nat /\ QueryFrags \in Nat
  BY <1>0, DownStages, StageFacts DEF Replies
<1>3. x.cmd \in Acks /\ x.cmd \notin Asks /\ UpStage(x) = QueryFrags + m.fnum
  BY <1>0 DEF TakesReply, UpStage, Acks, Asks
<1>4. Active' => Active /\ cli'.seqno = cli.seqno /\ cli'.pl = x
  BY <1>0 DEF Active
<1>5. Active' => CStage \in Nat /\ CStage' = CStage + 1 /\ CStage' = QueryFrags + m.fnum /\ CStage >= QueryFrags
                 /\ m.seqno = cli.seqno
  <2> SUFFICES ASSUME Active' 
               PROVE  CStage \in Nat /\ CStage' = CStage + 1 /\ CStage' = QueryFrags + m.fnum /\ CStage >= QueryFrags
                      /\ m.seqno = cli.seqno
    OBVIOUS
  <2>1. Active /\ CStage' = QueryFrags + m.fnum
    BY <1>3, <1>4 DEF CStage, UpStage, Acks, Asks
  <2>2. /\ m.seqno = cli.seqno
        /\ \/ cli.pl.cmd = "QUERY" /\ m.fnum = 1
           \/ cli.pl.cmd = "FACK" /\ m.fnum = cli.pl.fnum + 1
    BY <1>0, <2>1 DEF NextReply
  <2>3. CStage \in Nat /\ cli.pl.fnum \in Nat
    BY <1>0, <2>1, ClientStages, UpStages
  <2>4. QueryFrags + m.fnum = CStage + 1 /\ CStage >= QueryFrags
    BY <1>2, <2>1, <2>2, <2>3, ClientStages
  <2> QED
    BY <2>1, <2>2, <2>3, <2>4
<1>6. ClientShape'
  <2> SUFFICES ASSUME Active' PROVE ClientShape'
    BY DEF ClientShape
  <2>1. Active /\ cli'.pl = x /\ cli'.seqno = cli.seqno /\ x.seqno = cli.seqno
    BY <1>0, <1>4, <1>5
  <2>2. app.pc \in {"query", "ready"}
    BY <1>0, <2>1 DEF ClientShape, NextReply
  <2>3. \/ x.cmd = "FACK" /\ cli'.state = "FACK_SENT" /\ cli'.lastFrag = x.fnum
        \/ x.cmd = "RACK" /\ cli'.state = "IDLE"
    BY <1>0 DEF TakesReply
  <2> QED
    BY <1>0, <2>1, <2>2, <2>3 DEF ClientShape
<1>7. ServerBound'
  <2> SUFFICES ASSUME HasServer' PROVE ServerBound'
    BY DEF ServerBound
  <2>0. HasServer /\ srv' = srv /\ SStage' = SStage
    BY <1>1
  <2>1. \A n \in Up' : n.cmd \in Asks =>
          /\ n.seqno <= srv'.seqno + 1
          /\ n.seqno = srv'.seqno + 1 => n.fnum = 1 /\ SStage' = LastStage
          /\ n.seqno = srv'.seqno => n.fnum <= SStage' + 1
    BY <1>0, <1>1, <1>3, <2>0 DEF ServerBound
  <2>2. \A n \in Up' : n.cmd \in Acks => NotAfter(n.seqno, UpStage(n), srv'.seqno, SStage')
    <3>1. NotAfter(m.seqno, DownStage(m), srv.seqno, SStage)
      BY <1>0, <2>0 DEF ServerBound
    <3>2. NotAfter(x.seqno, UpStage(x), srv'.seqno, SStage')
      BY <1>0, <1>2, <1>3, <2>0, <3>1
    <3> QED
      BY <1>0, <1>1, <2>0, <3>2 DEF ServerBound
  <2>3. \A n \in Down' : n.cmd \in Confirms \cup Replies => NotAfter(n.seqno, DownStage(n), srv'.seqno, SStage')
    BY <1>0, <1>1, <2>0 DEF ServerBound
  <2> QED
    BY <2>1, <2>2, <2>3 DEF ServerBound, NotAfter, UpStage, DownStage
<1>8. \A b \in Down' : b.cmd = "QACK" => m.seqno < b.seqno
  <2> SUFFICES ASSUME NEW b \in Down', b.cmd = "QACK" PROVE m.seqno < b.seqno
    OBVIOUS
  <2>1. CASE b \in Elements(net'[Client])
    BY <1>0, <2>1 DEF Taken, Fifo
  <2>2. CASE HasServer' /\ b = srv'.pl
    <3>1. HasServer /\ b = srv.pl /\ srv.seqno = srv.pl.seqno
      BY <1>0, <1>1, <2>2 DEF ServerShape
    <3> QED
      BY <1>0, <3>1 DEF Fifo
  <2> QED
    BY <2>1, <2>2 DEF Down
<1>9. ClientBound'
  <2> SUFFICES ASSUME Active' PROVE ClientBound'
    BY DEF ClientBound
  <2>1. /\ Active /\ CStage \in Nat /\ CStage' = CStage + 1 /\ CStage' = QueryFrags + m.fnum
        /\ CStage >= QueryFrags /\ m.seqno = cli.seqno /\ cli'.seqno = cli.seqno /\ cli.seqno \in Nat
    BY <1>4, <1>5, ClientStages
  <2>2. \A n \in Up' : n.cmd \in Asks \cup Acks => NotAfter(n.seqno, UpStage(n), cli'.seqno, CStage')
    <3>1. NotAfter(x.seqno, UpStage(x), cli'.seqno, CStage')
      BY <1>0, <1>2, <1>3, <2>1 DEF NotAfter
    <3>2. \A n \in Up : n.cmd \in Asks \cup Acks => NotAfter(n.seqno, UpStage(n), cli'.seqno, CStage')
      <4>1. \A n \in Up : n.seqno \in Nat /\ UpStage(n) \in Nat
        BY <1>0, UpStages
      <4> QED
        BY <1>0, <2>1, <4>1 DEF ClientBound, NotAfter
    <3> QED
      BY <1>1, <3>1, <3>2
  <2>3. \A n \in Down' : n.cmd \in Confirms \cup Replies =>
          /\ n.seqno <= cli'.seqno
          /\ n.seqno = cli'.seqno /\ n.cmd \in Replies => CStage' >= QueryFrags /\ DownStage(n) <= CStage' + 1
          /\ n.seqno = cli'.seqno /\ n.cmd = "QACK" => cli'.pl.cmd = "QUERY"
    <3>1. \A n \in Down : n.seqno \in Nat /\ DownStage(n) \in Nat
      BY <1>0, DownStages
    <3>2. \A n \in Down' : n.cmd = "QACK" => n.seqno # cli'.seqno
      BY <1>1, <1>2, <1>8, <2>1, <3>1
    <3> QED
      BY <1>0, <1>1, <1>2, <2>1, <3>1, <3>2 DEF ClientBound
  <2> QED
    BY <2>2, <2>3 DEF ClientBound, NotAfter, UpStage, DownStage
<1>10. BothBound'
  <2> SUFFICES ASSUME Active', HasServer' PROVE BothBound'
    BY DEF BothBound
  <2>1. /\ Active /\ HasServer /\ CStage \in Nat /\ CStage' = CStage + 1 /\ cli'.seqno = cli.seqno
        /\ srv' = srv /\ SStage' = SStage /\ cli.seqno \in Nat /\ srv.seqno \in Nat /\ srv.lastFrag \in Nat
    BY <1>1, <1>4, <1>5, ClientStages, ServerStages, RecordFields
  <2>2. /\ SeqnoStart <= srv.seqno /\ srv.seqno <= cli.seqno
        /\ srv.state = "FACK_RECEIVED" => NotAfter(srv.seqno, QueryFrags + srv.lastFrag, cli.seqno, CStage)
    BY <1>0, <2>1 DEF BothBound
  <2>3. cli'.state # "FACK_RECEIVED"
    BY DEF TakesReply
  <2>4. srv.state = "FACK_RECEIVED" => NotAfter(srv.seqno, QueryFrags + srv.lastFrag, cli.seqno, CStage + 1)
    BY <1>2, <2>1, <2>2 DEF NotAfter
  <2> QED
    BY <2>1, <2>2, <2>3, <2>4 DEF BothBound, NotAfter
<1>11. Fresh'
  <2>1. Connecting' => Connecting
    <3>1. x.cmd # "CONNECT"
      BY <1>3 DEF Acks
    <3> QED
      BY <1>0, <1>1, <3>1 DEF Connecting
  <2>2. ~Connecting
    BY <1>0 DEF Fresh
  <2> QED
    BY <2>1, <2>2 DEF Fresh
<1> QED
  BY <1>6, <1>7, <1>9, <1>10, <1>11

(* The buffer with the fragments of the response up to m. *)
ReplyBuffer(m) == IF cli.pl.cmd = "QUERY" THEN Copied(m) ELSE Filled(cli.resp, m)

LEMMA ReplyData ==
  ASSUME CallInv, NEW m, NextReply(m), InCall
  PROVE  Partial(ReplyBuffer(m), app.call, m.fnum, ResponseFrags) /\ Done(app.call)
<1>0. /\ TypeOK /\ DownShape /\ ClientShape /\ ResponseData /\ Active /\ m \in Down /\ m.cmd \in Replies
      /\ m.seqno = cli.seqno
  BY DEF CallInv, NextReply, InCall, Active
<1>1. m \in Messages /\ m.fnum \in Nat /\ m.fnum <= ResponseFrags /\ m.nfrags = ResponseFrags /\ ResponseFrags \in Nat
  <2>1. DownSound(m)
    BY <1>0 DEF DownShape
  <2> QED
    BY <1>0, <2>1, DownStages, StageFacts DEF DownSound, Replies
<1>2. m.body = app.call /\ Done(app.call)
  BY <1>0 DEF ResponseData
<1>3. CASE cli.pl.cmd = "QUERY" /\ m.fnum = 1
  BY <1>1, <1>2, <1>3, CopiedPartial DEF ReplyBuffer
<1>4. CASE cli.pl.cmd = "FACK" /\ m.fnum = cli.pl.fnum + 1
  <2>1. Partial(cli.resp, m.body, cli.lastFrag, ResponseFrags) /\ cli.lastFrag = cli.pl.fnum
    BY <1>0, <1>2, <1>4 DEF ResponseData, ClientShape
  <2>2. cli.lastFrag \in Nat
    BY <1>0, ClientStages, RecordFields
  <2>3. Partial(Filled(cli.resp, m), m.body, m.fnum, ResponseFrags)
    BY <1>1, <1>4, <2>1, <2>2, FilledPartial
  <2> QED
    BY <1>2, <1>4, <2>3 DEF ReplyBuffer
<1> QED
  BY <1>0, <1>3, <1>4 DEF NextReply

(* The client acknowledges a fragment of a response, or a response. *)
LEMMA ReplyTaken ==
  ASSUME CallInv, TypeOK', NEW m, NEW x, TakesReply(m, x), InCall' => cli'.resp = ReplyBuffer(m)
  PROVE  CallInv'
<1>0. /\ TypeOK /\ ClientPuts(x) /\ NextReply(m) /\ x.seqno = m.seqno /\ x.fnum = m.fnum /\ app' = app
      /\ Numbers /\ BodyOrder /\ QueryData /\ WorkerData /\ ResponseData /\ Outcomes
      /\ UNCHANGED <<worker, queue, executed>> /\ HasClient
      /\ (Active' => cli'.seqno = cli.seqno) /\ (HasClient' => cli'.pl = x)
  BY DEF CallInv, TakesReply, ClientPuts, NextReply
<1>1. /\ Up' \subseteq Up \cup {x} /\ Down' \subseteq Down /\ srv' = srv /\ (HasServer' <=> HasServer)
      /\ Log' = Log /\ LogLength' = LogLength /\ LastCall' = LastCall
      /\ UpShape' /\ DownShape' /\ ServerShape' /\ Fifo' /\ LogOrder'
  BY <1>0, ClientSide
<1>2. ClientShape' /\ ServerBound' /\ ClientBound' /\ BothBound' /\ Fresh'
  BY ReplyBounds
<1>3. \A n \in Up' : n.cmd \in Asks => n \in Up
  <2>1. x.cmd \notin Asks
    BY DEF TakesReply, Asks
  <2> QED
    BY <1>1, <2>1
<1>4. (Active' => Active) /\ (InCall' => InCall /\ cli'.seqno = cli.seqno)
  BY <1>0 DEF Active, InCall
<1>5. Numbers'
  BY <1>0, <1>3, <1>4 DEF Numbers
<1>6. BodyOrder'
  BY <1>0, <1>3 DEF BodyOrder
<1>7. QueryData'
  <2> SUFFICES ASSUME HasServer' PROVE QueryData'
    BY DEF QueryData
  <2>1. \A k : Receiving(k) => Receiving(k)'
    BY <1>0, <1>1, <1>3, <1>4 DEF Receiving
  <2>2. \A n \in Up' : n.cmd \in Asks /\ n.seqno > srv'.seqno => \A j \in DOMAIN Log' : Log'[j].call < n.body
    BY <1>0, <1>1, <1>3 DEF QueryData
  <2>3. srv'.pl.cmd = "FACK" => \E k \in 1 .. app'.call : /\ Partial(srv'.resp, k, srv'.lastFrag, QueryFrags)
                                                          /\ Receiving(k)'
                                                          /\ \A n \in DOMAIN Log' : Log'[n].call < k
    BY <1>0, <1>1, <2>1 DEF QueryData
  <2> QED
    BY <2>2, <2>3 DEF QueryData, Receiving, Partial
<1>8. WorkerData'
  BY <1>0, <1>1, <1>4 DEF WorkerData
<1>9. ResponseData'
  <2> SUFFICES ASSUME InCall' PROVE ResponseData'
    BY DEF ResponseData
  <2>1. Partial(cli'.resp, app.call, m.fnum, ResponseFrags) /\ Done(app.call)
    BY <1>0, <1>4, ReplyData
  <2>2. Done(app.call)'
    BY <1>0, <2>1 DEF Done
  <2>3. \A n \in Up' : n.cmd \in Asks /\ n.seqno = cli'.seqno => n.body = app'.call
    BY <1>0, <1>3, <1>4 DEF ResponseData
  <2>4. \A n \in Down' : n.cmd \in Replies /\ n.seqno = cli'.seqno => n.body = app'.call
    BY <1>0, <1>1, <1>4 DEF ResponseData
  <2>5. /\ cli'.pl.cmd = "FACK" => Partial(cli'.resp, app'.call, cli'.lastFrag, ResponseFrags)
        /\ cli'.pl.cmd = "RACK" => Partial(cli'.resp, app'.call, ResponseFrags, ResponseFrags)
    <3>1. HasClient' /\ Active' /\ cli'.pl = x
      BY <1>0 DEF InCall, Active
    <3>2. x.cmd = "FACK" => cli'.lastFrag = m.fnum
      BY <3>1 DEF TakesReply
    <3>3. x.cmd = "RACK" => m.fnum = ResponseFrags
      <4>1. x.cmd = "RACK" => x.fnum = ResponseFrags
        BY <1>0 DEF ClientPuts, UpSound
      <4> QED
        BY <1>0, <4>1
    <3> QED
      BY <1>0, <2>1, <3>1, <3>2, <3>3
  <2> QED
    BY <1>0, <2>2, <2>3, <2>4, <2>5 DEF ResponseData, Partial, Done
<1>10. Outcomes'
  BY <1>0 DEF Outcomes, OwnResponse
<1> QED
  BY <1>1, <1>2, <1>5, <1>6, <1>7, <1>8, <1>9, <1>10 DEF CallInv

(* What the client answers, if it accepts m. *)
LEMMA ReplyAnswered ==
  ASSUME CallInv, NEW m, NextReply(m), UNCHANGED queue,
         NEW c, (m.cmd = "FRAGMENT" /\ c = "FACK") \/ (m.cmd = "RESPONSE" /\ c = "RACK"),
         NEW x, x = Message(c, m.seqno, m.fnum, m.nfrags, 0),
         NEW r \in Records, r.pl = x, Active => r.seqno = cli.seqno, ClientHandles(m, r, <<x>>),
         (c = "FACK" /\ r.state = "FACK_SENT" /\ r.lastFrag = m.fnum) \/ (c = "RACK" /\ r.state = "IDLE")
  PROVE  TakesReply(m, x)
<1>0. TypeOK /\ DownShape /\ m \in Down /\ m \in Messages /\ m.cmd \in Replies /\ app' = app /\ app.call \in Nat
      /\ HasClient
  BY OrderTypes DEF CallInv, NextReply, ClientHandles
<1>1. x \in Messages /\ x.cmd = c /\ x.seqno = m.seqno /\ x.fnum = m.fnum
  <2>1. c \in Commands
    BY DEF Commands
  <2> QED
    BY <1>0, <2>1, AnswerTyped
<1>2. UpSound(x, app'.call)
  <2>1. DownSound(m)
    BY <1>0 DEF DownShape
  <2> QED
    BY <1>0, <1>1, <2>1 DEF UpSound, DownSound, Asks, Acks, Replies
<1>3. Moves(Client, {x})
  BY <1>1, EmptyOut DEF ClientHandles
<1>4. rec'[Server] = rec[Server] /\ cli' = r /\ UNCHANGED <<worker, queue, executed>> /\ Taken(Client, m)
  BY DEF ClientHandles
<1>5. ClientPuts(x)
  BY <1>0, <1>1, <1>2, <1>3, <1>4 DEF ClientPuts
<1>6. Active' => Active
  BY <1>0 DEF Active
<1> QED
  BY <1>0, <1>1, <1>4, <1>5, <1>6 DEF TakesReply

LEMMA ReplyStarts ==
  ASSUME CallInv, NEW m \in Down, m.cmd \in Replies, HasClient, m.seqno = cli.seqno,
         cli.state \in {"QUERY_SENT", "AWAITING_RESPONSE"}
  PROVE  NextReply(m) /\ (InCall => ReplyBuffer(m) = Copied(m))
<1>0. TypeOK /\ DownShape /\ ClientShape /\ ClientBound
  BY DEF CallInv
<1>1. Active => cli.pl.cmd = "QUERY"
  BY <1>0 DEF ClientShape
<1>2. Active => m.fnum = 1
  <2> SUFFICES ASSUME Active PROVE m.fnum = 1
    OBVIOUS
  <2>1. DownStage(m) <= CStage + 1
    BY <1>0 DEF ClientBound
  <2>2. CStage = QueryFrags /\ DownStage(m) = QueryFrags + m.fnum /\ m.fnum >= 1 /\ m.fnum \in Nat
    BY <1>0, <1>1, ClientStages, DownStages, StageFacts DEF Replies
  <2> QED
    BY <2>1, <2>2, StageFacts
<1>3. InCall => Active
  BY DEF InCall, Active
<1> QED
  BY <1>1, <1>2, <1>3 DEF NextReply, ReplyBuffer

LEMMA ReplyContinues ==
  ASSUME CallInv, NEW m \in Down, m.cmd \in Replies, HasClient, m.seqno = cli.seqno,
         cli.state = "FACK_SENT", m.fnum - cli.lastFrag = 1
  PROVE  NextReply(m) /\ (InCall => ReplyBuffer(m) = Filled(cli.resp, m))
<1>0. TypeOK /\ DownShape /\ ClientShape
  BY DEF CallInv
<1>1. Active => cli.pl.cmd = "FACK" /\ cli.lastFrag = cli.pl.fnum
  BY <1>0 DEF ClientShape
<1>2. m.fnum \in Nat /\ cli.lastFrag \in Nat
  BY <1>0, DownStages, OrderTypes, RecordFields
<1>3. m.fnum = cli.lastFrag + 1
  BY <1>2
<1>4. InCall => Active
  BY DEF InCall, Active
<1> QED
  BY <1>1, <1>3, <1>4 DEF NextReply, ReplyBuffer

(* A client that is disconnecting takes anything for the next query. *)
LEMMA NoQueryHere ==
  ASSUME CallInv, NEW m \in Down, m.cmd \in Replies, StartsQuery(Client, m)
  PROVE  HasClient /\ ~Active /\ ~InCall /\ NextReply(m)
<1>0. TypeOK /\ DownShape /\ ClientBound
  BY DEF CallInv
<1>1. HasClient /\ m.seqno - cli.seqno = 1
  BY DEF StartsQuery, HasClient, cli
<1>2. m.seqno \in Nat /\ cli.seqno \in Nat
  BY <1>0, <1>1, DownStages, OrderTypes, RecordFields
<1>3. ~Active
  BY <1>0, <1>1, <1>2 DEF ClientBound
<1> QED
  BY <1>1, <1>3 DEF NextReply, InCall, Active

(* FRAGMENT at the client. *)
LEMMA ClientReadsFragment ==
  ASSUME CallInv, TypeOK', Ordered = TRUE, NEW i \in Arriving(Client), NEW m, m = net[Client][i],
         UNCHANGED <<app, worker, executed>>, FRAGMENT(Client, i, m)
  PROVE  CallInv'
<1>0. /\ TypeOK /\ queue' = queue /\ m.cmd = "FRAGMENT" /\ m.cmd \in Replies /\ app' = app
      /\ (HasClient => cli \in Records /\ cli.resp \in Buffers)
  BY OrderTypes, RecordFields DEF CallInv, FRAGMENT, Replies
<1>1. m \in Messages /\ m.seqno \in Nat /\ m.fnum \in Nat /\ m \in Down
  <2>1. net[Client] \in Seq(Messages) /\ Len(net[Client]) \in Nat /\ i \in 1 .. Len(net[Client])
    BY <1>0, ProcFacts, ArrivingFirst, EmptySeq
  <2> QED
    BY <2>1, ElementOfSeq, MessageFields DEF Down, Elements
<1> DEFINE fack == Message("FACK", m.seqno, m.fnum, m.nfrags, 0)
           accepted(r) == crecord_setState(crecord_setPayload([r EXCEPT !.lastFrag = m.fnum], fack), "FACK_SENT")
<1>2. fack \in Messages
  BY <1>1, AnswerTyped DEF Commands
<1> HIDE DEF fack
<1>3. ASSUME NEW r \in Records, NextReply(m), Active => r.seqno = cli.seqno, InCall => r.resp = ReplyBuffer(m),
             Handled(Client, i, accepted(r), <<fack>>)
      PROVE  CallInv'
  <2> DEFINE q == [r EXCEPT !.lastFrag = m.fnum]
             z == crecord_setState(crecord_setPayload(q, fack), "FACK_SENT")
  <2>1. q \in Records /\ q.seqno = r.seqno /\ q.resp = r.resp /\ q.lastFrag = m.fnum
    BY <1>1, <1>3 DEF Records
  <2> HIDE DEF q
  <2>2. z \in Records /\ z.seqno = r.seqno /\ z.pl = fack /\ z.state = "FACK_SENT" /\ z.resp = r.resp
        /\ z.lastFrag = m.fnum
    BY <1>2, <2>1, StateNames, PreparedTyped
  <2>3. Handled(Client, i, z, <<fack>>)
    BY <1>3 DEF q
  <2> HIDE DEF z
  <2>4. ClientHandles(m, z, <<fack>>)
    BY <1>0, <1>2, <2>3, EmptyOut, ClientReceives
  <2>5. fack = Message("FACK", m.seqno, m.fnum, m.nfrags, 0)
    BY DEF fack
  <2>6. TakesReply(m, fack)
    BY <1>0, <1>3, <2>2, <2>4, <2>5, ReplyAnswered
  <2>7. InCall' => cli'.resp = ReplyBuffer(m)
    <3>1. cli' = z /\ (InCall' => InCall)
      BY <1>0, <1>3, <2>4 DEF ClientHandles, InCall, NextReply
    <3> QED
      BY <1>3, <2>2, <3>1
  <2> QED
    BY <2>6, <2>7, ReplyTaken
<1>4. ASSUME HasClient, NextReply(m), Active => m.seqno = cli.seqno, InCall => ReplyBuffer(m) = Copied(m),
             Handled(Client, i, accepted([cli EXCEPT !.seqno = m.seqno, !.resp = Copied(m)]), <<fack>>)
      PROVE  CallInv'
  <2> DEFINE r == [cli EXCEPT !.seqno = m.seqno, !.resp = Copied(m)]
  <2>2. r \in Records /\ r.seqno = m.seqno /\ r.resp = Copied(m)
    BY <1>0, <1>1, <1>4, CopiedTyped DEF Records
  <2>3. Handled(Client, i, accepted(r), <<fack>>)
    BY <1>4
  <2> HIDE DEF r, accepted
  <2> QED
    BY <1>3, <1>4, <2>2, <2>3
<1>5. CASE /\ StartsQuery(Client, m)
           /\ Handled(Client, i, accepted([cli EXCEPT !.seqno = m.seqno, !.resp = Copied(m)]), <<fack>>)
  <2>1. HasClient /\ ~Active /\ ~InCall /\ NextReply(m)
    BY <1>0, <1>1, <1>5, NoQueryHere
  <2> HIDE DEF accepted
  <2> QED
    BY <1>4, <1>5, <2>1
<1>6. CASE /\ HasClient /\ cli.state \in {"QUERY_SENT", "AWAITING_RESPONSE"} /\ m.seqno = cli.seqno
           /\ Handled(Client, i, accepted([cli EXCEPT !.seqno = m.seqno, !.resp = Copied(m)]), <<fack>>)
  <2>1. NextReply(m) /\ (InCall => ReplyBuffer(m) = Copied(m))
    BY <1>0, <1>1, <1>6, ReplyStarts
  <2> HIDE DEF accepted
  <2> QED
    BY <1>4, <1>6, <2>1
<1>7. CASE /\ HasClient /\ cli.state = "FACK_SENT" /\ m.seqno = cli.seqno /\ m.fnum - cli.lastFrag = 1
           /\ Handled(Client, i, accepted([cli EXCEPT !.resp = Filled(@, m)]), <<fack>>)
  <2> DEFINE r == [cli EXCEPT !.resp = Filled(@, m)]
  <2>1. NextReply(m) /\ (InCall => ReplyBuffer(m) = Filled(cli.resp, m))
    BY <1>0, <1>1, <1>7, ReplyContinues
  <2>2. r \in Records /\ r.seqno = cli.seqno /\ r.resp = Filled(cli.resp, m)
    <3>1. Filled(cli.resp, m) \in Buffers
      BY <1>0, <1>1, <1>7, FilledTyped
    <3> QED
      BY <1>0, <1>7, <3>1 DEF Records
  <2>3. Handled(Client, i, accepted(r), <<fack>>)
    BY <1>7
  <2> HIDE DEF r, accepted
  <2> QED
    BY <1>3, <2>1, <2>2, <2>3
<1>8. CASE \/ Handled(Client, i, rec[Client], << >>)
           \/ HasClient /\ Handled(Client, i, crecord_setState(cli, cli.state), <<cli.pl>>)
  BY <1>0, <1>8, ClientRepeats
<1> HIDE DEF accepted
<1> QED
  BY <1>5, <1>6, <1>7, <1>8 DEF FRAGMENT, fack, accepted, HasClient, cli

(* RESPONSE at the client. *)
LEMMA ClientReadsResponse ==
  ASSUME CallInv, TypeOK', Ordered = TRUE, NEW i \in Arriving(Client), NEW m, m = net[Client][i],
         UNCHANGED <<app, worker, executed>>, RESPONSE(Client, i, m)
  PROVE  CallInv'
<1>0. /\ TypeOK /\ queue' = queue /\ m.cmd = "RESPONSE" /\ m.cmd \in Replies /\ app' = app
      /\ (HasClient => cli \in Records /\ cli.resp \in Buffers)
  BY OrderTypes, RecordFields DEF CallInv, RESPONSE, Replies
<1>1. m \in Messages /\ m.seqno \in Nat /\ m.fnum \in Nat /\ m \in Down
  <2>1. net[Client] \in Seq(Messages) /\ Len(net[Client]) \in Nat /\ i \in 1 .. Len(net[Client])
    BY <1>0, ProcFacts, ArrivingFirst, EmptySeq
  <2> QED
    BY <2>1, ElementOfSeq, MessageFields DEF Down, Elements
<1> DEFINE rack == Message("RACK", m.seqno, m.fnum, m.nfrags, 0)
           accepted(r) == crecord_setState(crecord_setPayload(r, rack), "IDLE")
<1>2. rack \in Messages
  BY <1>1, AnswerTyped DEF Commands
<1> HIDE DEF rack
<1>3. ASSUME NEW r \in Records, NextReply(m), r.seqno = cli.seqno, InCall => r.resp = ReplyBuffer(m),
             Handled(Client, i, accepted(r), <<rack>>)
      PROVE  CallInv'
  <2>2. accepted(r) \in Records /\ accepted(r).seqno = r.seqno /\ accepted(r).pl = rack
        /\ accepted(r).state = "IDLE" /\ accepted(r).resp = r.resp
    BY <1>2, <1>3, StateNames, PreparedTyped
  <2> HIDE DEF accepted
  <2>4. ClientHandles(m, accepted(r), <<rack>>)
    BY <1>0, <1>2, <1>3, EmptyOut, ClientReceives
  <2>5. rack = Message("RACK", m.seqno, m.fnum, m.nfrags, 0)
    BY DEF rack
  <2>6. TakesReply(m, rack)
    BY <1>0, <1>3, <2>2, <2>4, <2>5, ReplyAnswered
  <2>7. InCall' => cli'.resp = ReplyBuffer(m)
    <3>1. cli' = accepted(r) /\ (InCall' => InCall)
      BY <1>0, <1>3, <2>4 DEF ClientHandles, InCall, NextReply
    <3> QED
      BY <1>3, <2>2, <3>1
  <2> QED
    BY <2>6, <2>7, ReplyTaken
<1>4. CASE /\ HasClient /\ cli.state \in {"QUERY_SENT", "AWAITING_RESPONSE"} /\ m.seqno = cli.seqno
           /\ Handled(Client, i, accepted([cli EXCEPT !.resp = Copied(m)]), <<rack>>)
  <2> DEFINE r == [cli EXCEPT !.resp = Copied(m)]
  <2>1. NextReply(m) /\ (InCall => ReplyBuffer(m) = Copied(m))
    BY <1>0, <1>1, <1>4, ReplyStarts
  <2>2. r \in Records /\ r.seqno = cli.seqno /\ r.resp = Copied(m)
    BY <1>0, <1>1, <1>4, CopiedTyped DEF Records
  <2>3. Handled(Client, i, accepted(r), <<rack>>)
    BY <1>4
  <2> HIDE DEF r, accepted
  <2> QED
    BY <1>3, <2>1, <2>2, <2>3
<1>5. CASE /\ EndsFragments(Client, m)
           /\ Handled(Client, i, accepted([cli EXCEPT !.resp = Filled(@, m), !.lastFrag = m.fnum]), <<rack>>)
  <2> DEFINE r == [cli EXCEPT !.resp = Filled(@, m), !.lastFrag = m.fnum]
  <2>0. HasClient /\ cli.state = "FACK_SENT" /\ m.seqno = cli.seqno /\ m.fnum - cli.lastFrag = 1
    BY <1>5 DEF EndsFragments, HasClient, cli
  <2>1. NextReply(m) /\ (InCall => ReplyBuffer(m) = Filled(cli.resp, m))
    BY <1>0, <1>1, <2>0, ReplyContinues
  <2>2. r \in Records /\ r.seqno = cli.seqno /\ r.resp = Filled(cli.resp, m)
    <3>1. Filled(cli.resp, m) \in Buffers
      BY <1>0, <1>1, <2>0, FilledTyped
    <3> QED
      BY <1>0, <1>1, <2>0, <3>1 DEF Records
  <2>3. Handled(Client, i, accepted(r), <<rack>>)
    BY <1>5
  <2> HIDE DEF r, accepted
  <2> QED
    BY <1>3, <2>1, <2>2, <2>3
<1>6. CASE Handled(Client, i, rec[Client], << >>)
  BY <1>0, <1>6, ClientRepeats
<1> HIDE DEF accepted
<1> QED
  BY <1>4, <1>5, <1>6 DEF RESPONSE, rack, accepted, HasClient, cli

LEMMA ClientReadsInOrder ==
  ASSUME CallInv, Ordered = TRUE, reader(Client)
  PROVE  CallInv'
<1>0. TypeOK /\ TypeOK' /\ UNCHANGED <<app, worker, executed>>
  BY ProcFacts, ReaderTyped DEF CallInv, reader
<1>1. PICK i \in Arriving(Client) :
          LET m == net[Client][i] IN
          \/ CONNECT(Client, i, m) \/ CACK(Client, i, m)
          \/ QUERY(Client, i, m) \/ QACK(Client, i, m)
          \/ RESPONSE(Client, i, m) \/ RACK(Client, i, m)
          \/ DISCONNECT(Client, i, m) \/ DACK(Client, i, m)
          \/ FRAGMENT(Client, i, m) \/ FACK(Client, i, m)
          \/ PING(Client, i, m) \/ PACK(Client, i, m)
          \/ SEQNO(Client, i, m) \/ SACK(Client, i, m)
  BY DEF reader
<1> DEFINE m == net[Client][i]
<1>2. m \in Down
  <2>1. net[Client] \in Seq(Messages) /\ Len(net[Client]) \in Nat /\ i \in 1 .. Len(net[Client])
    BY <1>0, ProcFacts, ArrivingFirst, EmptySeq
  <2> QED
    BY <2>1 DEF Down, Elements
<1>3. m.cmd \in {"CACK", "FRAGMENT", "RESPONSE", "FACK", "QACK", "DACK", "PING", "PACK"}
  BY <1>2 DEF CallInv, DownShape, DownSound
<1>4. /\ ~CONNECT(Client, i, m) /\ ~QUERY(Client, i, m) /\ ~RACK(Client, i, m) /\ ~DISCONNECT(Client, i, m)
      /\ ~SEQNO(Client, i, m) /\ ~SACK(Client, i, m)
  BY <1>3 DEF CONNECT, QUERY, RACK, DISCONNECT, SEQNO, SACK
<1>5. m = net[Client][i]
  OBVIOUS
<1> HIDE DEF m
<1> QED
  BY <1>0, <1>1, <1>4, <1>5, ClientReadsFragment, ClientReadsResponse, ClientReadsAck, ClientReadsNoise

-----------------------------------------------------------------------------
(* The client's thread.                                                    *)

(* rpc_connect makes its record. *)
LEMMA ConnectSent ==
  ASSUME CallInv, TypeOK', app.pc = "start", app' = [app EXCEPT !.pc = "connect"],
         NEW x, ClientPuts(x), x.cmd = "CONNECT", x.seqno = SeqnoStart,
         HasClient' => cli'.seqno = SeqnoStart /\ cli'.state = "CONNECT_SENT"
  PROVE  CallInv'
<1>0. /\ TypeOK /\ DownShape /\ ServerShape /\ ServerBound /\ Fresh /\ Numbers /\ QueryData /\ WorkerData
      /\ Outcomes /\ UNCHANGED <<worker, queue, executed>> /\ SeqnoStart \in Nat
      /\ (HasClient' => cli'.pl = x)
  BY StageFacts DEF CallInv, ClientPuts
<1>1. /\ Up' \subseteq Up \cup {x} /\ Down' \subseteq Down /\ srv' = srv /\ (HasServer' <=> HasServer)
      /\ Log' = Log /\ LogLength' = LogLength /\ LastCall' = LastCall
      /\ UpShape' /\ DownShape' /\ ServerShape' /\ Fifo' /\ LogOrder'
  BY ClientSide
<1>2. /\ app'.pc = "connect" /\ app'.call = app.call /\ app'.result = app.result /\ app.call = 0
      /\ app.result = NoResult
  BY <1>0 DEF Outcomes, TypeOK
<1>3. /\ executed = << >> /\ queue = << >> /\ worker.pc = "idle"
      /\ HasServer => srv.pl.cmd = "CACK"
      /\ \A m \in Down : m.cmd \notin Confirms \cup Replies
      /\ \A m \in Up : m.cmd \notin Acks
      /\ \A m \in Up : m.cmd \notin Asks
  BY <1>0 DEF Fresh, Connecting, Numbers
<1>4. \A m \in Up' : m.cmd \notin Asks \cup Acks
  BY <1>1, <1>3 DEF Asks, Acks
<1>5. \A m \in Down' : m.cmd \notin Confirms \cup Replies
  BY <1>1, <1>3
<1>6. ~InCall'
  BY <1>2 DEF InCall
<1>7. ClientShape'
  BY <1>0, <1>2 DEF ClientShape, Active
<1>8. ServerBound' /\ ClientBound'
  BY <1>4, <1>5 DEF ServerBound, ClientBound
<1>9. BothBound'
  <2>1. HasServer => srv.seqno = SeqnoStart /\ srv.state # "FACK_RECEIVED"
    BY <1>0, <1>3, ServerStages DEF ServerShape
  <2> QED
    BY <1>0, <1>1, <2>1 DEF BothBound, Active
<1>10. Fresh'
  BY <1>0, <1>1, <1>3, <1>4, <1>5 DEF Fresh
<1>11. Numbers'
  BY <1>0, <1>2 DEF Numbers, Active
<1>12. BodyOrder'
  BY <1>4 DEF BodyOrder
<1>13. QueryData'
  BY <1>1, <1>3, <1>4 DEF QueryData
<1>14. WorkerData'
  BY <1>0, <1>1, <1>3 DEF WorkerData
<1>15. ResponseData'
  BY <1>6 DEF ResponseData
<1>16. Outcomes'
  BY <1>0, <1>2 DEF Outcomes, OwnResponse
<1> QED
  BY <1>1, <1>7, <1>8, <1>9, <1>10, <1>11, <1>12, <1>13, <1>14, <1>15, <1>16 DEF CallInv

(* Between two calls the server is where the client is. *)
LEMMA IdleTogether ==
  ASSUME CallInv, Active, HasServer, cli.pl.cmd \in {"CONNECT", "RACK"}
  PROVE  srv.seqno = cli.seqno /\ SStage = LastStage
<1>0. TypeOK /\ UpShape /\ ServerBound /\ BothBound /\ Fresh /\ cli.pl \in Up
  BY ClientStages DEF CallInv
<1>1. CASE cli.pl.cmd = "CONNECT"
  <2>1. srv.pl.cmd = "CACK"
    BY <1>0, <1>1 DEF Fresh, Connecting
  <2> QED
    BY <1>1, <2>1, ServerStages, ClientStages
<1>2. CASE cli.pl.cmd = "RACK"
  <2>1. NotAfter(cli.seqno, LastStage, srv.seqno, SStage)
    BY <1>0, <1>2, ClientStages, UpStages DEF ServerBound, Acks
  <2>2. srv.seqno <= cli.seqno
    BY <1>0 DEF BothBound
  <2>3. srv.seqno \in Nat /\ cli.seqno \in Nat /\ SStage \in Nat /\ SStage <= LastStage
    BY ServerStages, ClientStages, StageFacts
  <2> QED
    BY <2>1, <2>2, <2>3, StageFacts DEF NotAfter
<1> QED
  BY <1>1, <1>2

(* The next datagram of a query: number s, fragment f of call k. *)
NextQuery(s, k, f) ==
  /\ Active
  /\ \/ s = cli.seqno + 1 /\ f = 1 /\ k = app.call + 1 /\ app.pc = "ready" /\ cli.pl.cmd \in {"CONNECT", "RACK"}
     \/ /\ s = cli.seqno /\ f = cli.pl.fnum + 1 /\ k = app.call /\ app.pc = "fragment"
        /\ cli.pl.cmd = "FRAGMENT" /\ cli.state = "FACK_RECEIVED"

(* rpc_call transmits it. *)
SendsQuery(x, s, k, f) ==
  /\ NextQuery(s, k, f) /\ ClientPuts(x) /\ x.seqno = s /\ x.fnum = f /\ x.body = k
  /\ app'.call = k /\ app'.fnum = f /\ app'.result = NoResult
  /\ Active' => cli'.seqno = s
  /\ \/ /\ x.cmd = "FRAGMENT" /\ app'.pc = "fragment"
        /\ HasClient' => cli'.lastFrag = f /\ cli'.state = "FRAGMENT_SENT"
     \/ x.cmd = "QUERY" /\ app'.pc = "query" /\ (HasClient' => cli'.state = "QUERY_SENT")

LEMMA NextQueryFacts ==
  ASSUME CallInv, NEW s, NEW k, NEW f, NextQuery(s, k, f)
  PROVE  /\ s \in Nat /\ f \in Nat /\ k \in Nat /\ s > SeqnoStart /\ f >= 1 /\ f <= QueryFrags /\ k >= 1
         /\ cli.seqno \in Nat /\ CStage \in Nat /\ s >= cli.seqno
         /\ k >= app.call /\ SeqnoStart <= s /\ s <= SeqnoStart + k
         /\ s = cli.seqno => f = CStage + 1 /\ CStage < QueryFrags /\ k = app.call
         /\ s # cli.seqno => s = cli.seqno + 1 /\ k = app.call + 1 /\ f = 1
<1>0. TypeOK /\ UpShape /\ Numbers /\ Active /\ app.call \in Nat /\ SeqnoStart \in Nat /\ QueryFrags \in Nat
      /\ QueryFrags >= 1 /\ Outcomes
  BY OrderTypes, StageFacts DEF CallInv, NextQuery
<1>1. cli.seqno \in Nat /\ CStage \in Nat /\ SeqnoStart <= cli.seqno /\ cli.seqno <= SeqnoStart + app.call
  BY <1>0, ClientStages DEF Numbers
<1>2. CASE s = cli.seqno + 1 /\ f = 1 /\ k = app.call + 1
  BY <1>0, <1>1, <1>2
<1>3. CASE /\ s = cli.seqno /\ f = cli.pl.fnum + 1 /\ k = app.call /\ app.pc = "fragment"
           /\ cli.pl.cmd = "FRAGMENT"
  <2>1. CStage = cli.pl.fnum /\ 1 <= CStage /\ CStage < QueryFrags /\ cli.seqno > SeqnoStart
    BY <1>0, <1>3, ClientStages
  <2>2. app.call > 0
    BY <1>0, <1>3 DEF Outcomes
  <2> QED
    BY <1>0, <1>1, <1>3, <2>1, <2>2
<1> QED
  BY <1>2, <1>3 DEF NextQuery

LEMMA QueryBounds ==
  ASSUME CallInv, TypeOK', NEW x, NEW s, NEW k, NEW f, SendsQuery(x, s, k, f)
  PROVE  ClientShape' /\ ServerBound' /\ ClientBound' /\ BothBound' /\ Fresh'
<1>0. /\ TypeOK /\ UpShape /\ DownShape /\ ServerShape /\ ServerBound /\ ClientBound /\ BothBound /\ Fresh
      /\ ClientPuts(x) /\ NextQuery(s, k, f) /\ Active /\ x.seqno = s /\ x.fnum = f /\ x.body = k
      /\ UNCHANGED <<worker, queue, executed>> /\ app'.call = k /\ app'.fnum = f
      /\ (Active' => cli'.seqno = s) /\ (HasClient' => cli'.pl = x)
  BY DEF CallInv, SendsQuery, NextQuery, ClientPuts
<1>1. /\ Up' \subseteq Up \cup {x} /\ Down' \subseteq Down /\ srv' = srv /\ (HasServer' <=> HasServer)
      /\ SStage' = SStage
  BY <1>0, ClientSide
<1>2. /\ s \in Nat /\ f \in Nat /\ s > SeqnoStart /\ f >= 1 /\ f <= QueryFrags
      /\ cli.seqno \in Nat /\ CStage \in Nat /\ s >= cli.seqno /\ QueryFrags \in Nat
      /\ s = cli.seqno => f = CStage + 1 /\ CStage < QueryFrags
      /\ s # cli.seqno => s = cli.seqno + 1 /\ f = 1
  BY <1>0, NextQueryFacts, StageFacts
<1>3. x.cmd \in Asks /\ x.cmd \notin Acks /\ x.cmd # "CONNECT" /\ UpStage(x) = f
  BY <1>0 DEF SendsQuery, UpStage, Acks, Asks
<1>4. Active' => cli'.seqno = s /\ cli'.pl = x /\ CStage' = f
  BY <1>0, <1>3 DEF Active, CStage, UpStage, Acks, Asks
<1>5. ClientShape'
  <2> SUFFICES ASSUME Active' PROVE ClientShape'
    BY DEF ClientShape
  <2>1. HasClient' /\ cli'.pl = x /\ cli'.seqno = x.seqno
    BY <1>0, <1>4 DEF Active
  <2>2. \/ /\ x.cmd = "FRAGMENT" /\ app'.pc = "fragment"
           /\ cli'.lastFrag = f /\ cli'.state = "FRAGMENT_SENT"
        \/ x.cmd = "QUERY" /\ app'.pc = "query" /\ cli'.state = "QUERY_SENT"
    BY <2>1 DEF SendsQuery
  <2> QED
    BY <1>0, <2>1, <2>2 DEF ClientShape
<1>6. HasServer => /\ s <= srv.seqno + 1 /\ s >= srv.seqno
                   /\ s = srv.seqno + 1 => f = 1 /\ SStage = LastStage
                   /\ s = srv.seqno => f <= SStage + 1 /\ s = cli.seqno
                   /\ srv.seqno \in Nat
  <2> SUFFICES ASSUME HasServer
               PROVE  /\ s <= srv.seqno + 1 /\ s >= srv.seqno
                      /\ s = srv.seqno + 1 => f = 1 /\ SStage = LastStage
                      /\ s = srv.seqno => f <= SStage + 1 /\ s = cli.seqno
                      /\ srv.seqno \in Nat
    OBVIOUS
  <2>0. srv.seqno \in Nat /\ SStage \in Nat
    BY ServerStages
  <2>1. CASE s = cli.seqno + 1 /\ f = 1 /\ cli.pl.cmd \in {"CONNECT", "RACK"}
    <3>1. srv.seqno = cli.seqno /\ SStage = LastStage
      BY <1>0, <2>1, IdleTogether
    <3> QED
      BY <1>2, <2>0, <2>1, <3>1
  <2>2. CASE s = cli.seqno /\ f = cli.pl.fnum + 1 /\ cli.pl.cmd = "FRAGMENT" /\ cli.state = "FACK_RECEIVED"
    <3>1. srv.seqno = cli.seqno /\ cli.lastFrag <= SStage
      BY <1>0, <2>2 DEF BothBound
    <3>2. cli.lastFrag = cli.pl.fnum /\ cli.lastFrag \in Nat
      <4>1. ClientShape /\ cli \in Records
        BY <1>0, ClientStages DEF CallInv
      <4> QED
        BY <1>0, <2>2, <4>1, RecordFields DEF ClientShape
    <3> QED
      BY <1>2, <2>0, <2>2, <3>1, <3>2
  <2> QED
    BY <1>0, <2>1, <2>2 DEF NextQuery
<1>7. ServerBound'
  <2> SUFFICES ASSUME HasServer' PROVE ServerBound'
    BY DEF ServerBound
  <2>0. HasServer /\ srv' = srv /\ SStage' = SStage
    BY <1>1
  <2>1. \A n \in Up' : n.cmd \in Asks =>
          /\ n.seqno <= srv'.seqno + 1
          /\ n.seqno = srv'.seqno + 1 => n.fnum = 1 /\ SStage' = LastStage
          /\ n.seqno = srv'.seqno => n.fnum <= SStage' + 1
    BY <1>0, <1>1, <1>6, <2>0 DEF ServerBound
  <2>2. \A n \in Up' : n.cmd \in Acks => NotAfter(n.seqno, UpStage(n), srv'.seqno, SStage')
    BY <1>0, <1>1, <1>3, <2>0 DEF ServerBound
  <2>3. \A n \in Down' : n.cmd \in Confirms \cup Replies => NotAfter(n.seqno, DownStage(n), srv'.seqno, SStage')
    BY <1>0, <1>1, <2>0 DEF ServerBound
  <2> QED
    BY <2>1, <2>2, <2>3 DEF ServerBound, NotAfter, UpStage, DownStage
<1>8. \A n \in Down : n.cmd \in Confirms \cup Replies =>
         /\ n.seqno \in Nat /\ n.seqno <= cli.seqno
         /\ n.seqno = s => n.cmd \notin Replies /\ n.cmd # "QACK"
  <2>1. \A n \in Down : n.seqno \in Nat
    BY <1>0, DownStages
  <2>2. \A n \in Down : n.cmd \in Confirms \cup Replies =>
          /\ n.seqno <= cli.seqno
          /\ n.seqno = cli.seqno /\ n.cmd \in Replies => CStage >= QueryFrags
          /\ n.seqno = cli.seqno /\ n.cmd = "QACK" => cli.pl.cmd = "QUERY"
    BY <1>0 DEF ClientBound
  <2>3. s = cli.seqno => ~(CStage >= QueryFrags) /\ cli.pl.cmd # "QUERY"
    <3>1. s = cli.seqno => ~(CStage >= QueryFrags)
      BY <1>2
    <3>2. cli.pl.cmd = "QUERY" => CStage = QueryFrags
      BY <1>0, ClientStages
    <3> QED
      BY <1>2, <3>1, <3>2
  <2> QED
    BY <1>2, <2>1, <2>2, <2>3
<1>9. ClientBound'
  <2> SUFFICES ASSUME Active' PROVE ClientBound'
    BY DEF ClientBound
  <2>2. \A n \in Up' : n.cmd \in Asks \cup Acks => NotAfter(n.seqno, UpStage(n), cli'.seqno, CStage')
    <3>1. NotAfter(x.seqno, UpStage(x), cli'.seqno, CStage')
      BY <1>0, <1>2, <1>3, <1>4 DEF NotAfter
    <3>2. \A n \in Up : n.cmd \in Asks \cup Acks => NotAfter(n.seqno, UpStage(n), cli'.seqno, CStage')
      <4>1. \A n \in Up : n.seqno \in Nat /\ UpStage(n) \in Nat
        BY <1>0, UpStages
      <4>2. \A n \in Up : n.cmd \in Asks \cup Acks => NotAfter(n.seqno, UpStage(n), cli.seqno, CStage)
        BY <1>0 DEF ClientBound
      <4> QED
        BY <1>2, <1>4, <4>1, <4>2 DEF NotAfter
    <3> QED
      BY <1>1, <3>1, <3>2
  <2>3. \A n \in Down' : n.cmd \in Confirms \cup Replies =>
          /\ n.seqno <= cli'.seqno
          /\ n.seqno = cli'.seqno /\ n.cmd \in Replies => CStage' >= QueryFrags /\ DownStage(n) <= CStage' + 1
          /\ n.seqno = cli'.seqno /\ n.cmd = "QACK" => cli'.pl.cmd = "QUERY"
    BY <1>1, <1>2, <1>4, <1>8
  <2> QED
    BY <2>2, <2>3 DEF ClientBound, NotAfter, UpStage, DownStage
<1>10. BothBound'
  <2> SUFFICES ASSUME Active', HasServer' PROVE BothBound'
    BY DEF BothBound
  <2>1. /\ HasServer /\ srv' = srv /\ SStage' = SStage /\ cli'.seqno = s /\ CStage' = f
        /\ srv.seqno \in Nat /\ srv.lastFrag \in Nat
    BY <1>1, <1>4, ServerStages, RecordFields
  <2>2. /\ SeqnoStart <= srv.seqno
        /\ srv.state = "FACK_RECEIVED" => NotAfter(srv.seqno, QueryFrags + srv.lastFrag, cli.seqno, CStage)
    BY <1>0, <2>1 DEF BothBound
  <2>3. cli'.state # "FACK_RECEIVED"
    BY DEF SendsQuery, Active
  <2>4. srv.state = "FACK_RECEIVED" => NotAfter(srv.seqno, QueryFrags + srv.lastFrag, s, f)
    BY <1>2, <1>6, <2>1, <2>2 DEF NotAfter
  <2>5. srv.seqno <= s
    BY <1>2, <1>6, <2>1
  <2> QED
    BY <2>1, <2>2, <2>3, <2>4, <2>5 DEF BothBound, NotAfter
<1>11. Fresh'
  <2> SUFFICES ASSUME Connecting' PROVE Fresh'
    BY DEF Fresh
  <2>0. app'.pc \in {"fragment", "query"}
    BY DEF SendsQuery
  <2>1. Connecting
    BY <1>1, <1>3, <2>0 DEF Connecting
  <2>2. /\ executed = << >> /\ queue = << >> /\ worker.pc = "idle"
        /\ HasServer => srv.pl.cmd = "CACK"
        /\ \A m \in Down : m.cmd \notin Confirms \cup Replies
        /\ \A m \in Up : m.cmd \notin Acks /\ (m.cmd \in Asks => m.seqno = SeqnoStart + 1 /\ m.fnum = 1)
        /\ cli.state \notin {"FACK_RECEIVED", "AWAITING_RESPONSE", "FACK_SENT"}
    BY <1>0, <2>1 DEF Fresh, Active
  <2>3. s = SeqnoStart + 1 /\ f = 1
    <3>1. cli.pl \in Up /\ (cli.pl.cmd = "CONNECT" => cli.seqno = SeqnoStart)
      BY <1>0, ClientStages
    <3>2. cli.pl.cmd # "RACK"
      BY <2>2, <3>1 DEF Acks
    <3> QED
      BY <1>0, <2>2, <3>1, <3>2 DEF NextQuery
  <2>4. \A m \in Up' : m.cmd \notin Acks /\ (m.cmd \in Asks => m.seqno = SeqnoStart + 1 /\ m.fnum = 1)
    BY <1>0, <1>1, <1>3, <2>2, <2>3
  <2>5. HasClient' => cli'.state \notin {"FACK_RECEIVED", "AWAITING_RESPONSE", "FACK_SENT"}
    BY DEF SendsQuery
  <2> QED
    BY <1>0, <1>1, <2>2, <2>4, <2>5 DEF Fresh
<1> QED
  BY <1>5, <1>7, <1>9, <1>10, <1>11

LEMMA QuerySent ==
  ASSUME CallInv, TypeOK', NEW x, NEW s, NEW k, NEW f, SendsQuery(x, s, k, f)
  PROVE  CallInv'
<1>0. /\ TypeOK /\ UpShape /\ DownShape /\ ClientShape /\ ClientBound /\ BothBound /\ Numbers /\ BodyOrder
      /\ LogOrder /\ QueryData /\ WorkerData /\ ResponseData /\ Outcomes
      /\ ClientPuts(x) /\ NextQuery(s, k, f) /\ Active /\ x.seqno = s /\ x.fnum = f /\ x.body = k
      /\ UNCHANGED <<worker, queue, executed>> /\ app'.call = k /\ app'.fnum = f /\ app'.result = NoResult
      /\ (Active' => cli'.seqno = s) /\ (HasClient' => cli'.pl = x) /\ app.call \in Nat
  BY OrderTypes DEF CallInv, SendsQuery, NextQuery, ClientPuts
<1>1. /\ Up' \subseteq Up \cup {x} /\ Down' \subseteq Down /\ srv' = srv /\ (HasServer' <=> HasServer)
      /\ Log' = Log /\ LogLength' = LogLength /\ LastCall' = LastCall
      /\ UpShape' /\ DownShape' /\ ServerShape' /\ Fifo' /\ LogOrder'
  BY <1>0, ClientSide
<1>2. ClientShape' /\ ServerBound' /\ ClientBound' /\ BothBound' /\ Fresh'
  BY QueryBounds
<1>3. /\ s \in Nat /\ f \in Nat /\ k \in Nat /\ k >= 1 /\ cli.seqno \in Nat /\ CStage \in Nat /\ s >= cli.seqno
      /\ k >= app.call /\ SeqnoStart <= s /\ s <= SeqnoStart + k
      /\ s = cli.seqno => f = CStage + 1 /\ CStage < QueryFrags /\ k = app.call
      /\ s # cli.seqno => s = cli.seqno + 1 /\ k = app.call + 1
  BY <1>0, NextQueryFacts
<1>4. app'.pc \in {"fragment", "query"} /\ x.cmd \in Asks
  BY DEF SendsQuery, Asks
<1>5. s = cli.seqno => InCall /\ cli.pl.body = app.call /\ cli.pl.cmd \in Asks /\ cli.pl \in Up
                       /\ cli.pl.seqno = cli.seqno
  <2>1. s = cli.seqno => app.pc = "fragment" /\ cli.pl.cmd = "FRAGMENT" /\ cli.state = "FACK_RECEIVED"
    BY <1>0, <1>3 DEF NextQuery
  <2>2. HasClient
    BY <1>0 DEF Active
  <2>3. s = cli.seqno => cli.pl.body = app.call
    BY <1>0, <2>1 DEF ClientShape
  <2> QED
    BY <1>0, <2>1, <2>2, <2>3, ClientStages DEF InCall, Asks
<1>6. \A n \in Up : n.cmd \in Asks => /\ n.seqno \in Nat /\ n.body \in Nat /\ n.body <= app.call /\ n.seqno <= s
                                      /\ n.seqno < s => n.body < k
                                      /\ n.seqno = s => n.body = k
  <2> SUFFICES ASSUME NEW n \in Up, n.cmd \in Asks
               PROVE  /\ n.seqno \in Nat /\ n.body \in Nat /\ n.body <= app.call /\ n.seqno <= s
                      /\ n.seqno < s => n.body < k
                      /\ n.seqno = s => n.body = k
    OBVIOUS
  <2>1. n.seqno \in Nat /\ UpStage(n) \in Nat
    BY <1>0, UpStages
  <2>2. n.body \in 1 .. app.call
    BY <1>0 DEF UpShape, UpSound
  <2>3. n.seqno <= cli.seqno
    BY <1>0, <1>3, <2>1 DEF ClientBound, NotAfter
  <2>4. CASE s # cli.seqno
    BY <1>0, <1>3, <2>1, <2>2, <2>3, <2>4
  <2>5. CASE s = cli.seqno
    <3>1. n.seqno = s => n.body = k
      BY <1>0, <1>3, <1>5, <2>5 DEF ResponseData
    <3>2. n.seqno < s => n.body < k
      BY <1>0, <1>3, <1>5, <2>5 DEF BodyOrder
    <3> QED
      BY <1>0, <2>1, <2>2, <2>3, <2>5, <3>1, <3>2
  <2> QED
    BY <2>4, <2>5
<1>7. Numbers'
  BY <1>0, <1>3, <1>4 DEF Numbers
<1>8. BodyOrder'
  BY <1>0, <1>1, <1>3, <1>6 DEF BodyOrder
<1>9. InCall' => cli'.seqno = s
  BY <1>0 DEF InCall, Active
<1>10. QueryData'
  <2> SUFFICES ASSUME HasServer' PROVE QueryData'
    BY DEF QueryData
  <2>0. HasServer /\ srv' = srv /\ srv.seqno \in Nat /\ srv.seqno <= cli.seqno
    BY <1>0, <1>1, ServerStages DEF BothBound
  <2>1. s # cli.seqno => srv.seqno = cli.seqno /\ srv.pl.cmd # "FACK"
    <3>1. s # cli.seqno => cli.pl.cmd \in {"CONNECT", "RACK"}
      BY <1>0 DEF NextQuery
    <3>2. s # cli.seqno => srv.seqno = cli.seqno /\ SStage = LastStage
      BY <1>0, <2>0, <3>1, IdleTogether
    <3>3. srv.pl.cmd = "FACK" => SStage # LastStage
      BY <2>0, ServerStages, StageFacts
    <3> QED
      BY <3>2, <3>3
  <2>2. s = cli.seqno => srv.seqno = s
    <3>1. s = cli.seqno => cli.state = "FACK_RECEIVED"
      BY <1>0, <1>3 DEF NextQuery
    <3> QED
      BY <1>0, <2>0, <3>1 DEF BothBound
  <2>3. \A n \in Up' : n.cmd \in Asks /\ n.seqno > srv'.seqno => \A j \in DOMAIN Log' : Log'[j].call < n.body
    <3>1. s > srv.seqno => \A j \in DOMAIN Log : Log[j].call < k
      <4>1. s > srv.seqno => k = app.call + 1
        BY <1>3, <2>0, <2>2
      <4>2. \A j \in DOMAIN Log : Log[j].call \in 1 .. app.call
        BY <1>0 DEF LogOrder
      <4> QED
        BY <1>0, <4>1, <4>2
    <3> QED
      BY <1>0, <1>1, <2>0, <3>1 DEF QueryData
  <2>4. ASSUME srv'.pl.cmd = "FACK"
        PROVE  \E j \in 1 .. app'.call : /\ Partial(srv'.resp, j, srv'.lastFrag, QueryFrags)
                                         /\ Receiving(j)'
                                         /\ \A n \in DOMAIN Log' : Log'[n].call < j
    <3>1. PICK j \in 1 .. app.call : /\ Partial(srv.resp, j, srv.lastFrag, QueryFrags) /\ Receiving(j)
                                     /\ \A n \in DOMAIN Log : Log[n].call < j
      BY <1>0, <2>0, <2>4 DEF QueryData
    <3>2. s = cli.seqno /\ srv.seqno = s /\ k = app.call
      BY <1>3, <2>0, <2>1, <2>2, <2>4
    <3>3. j = app.call
      BY <1>5, <3>1, <3>2 DEF Receiving
    <3>4. \A n \in Up' : n.cmd \in Asks => /\ n.seqno = srv'.seqno => n.body = j
                                           /\ n.seqno > srv'.seqno => n.body > j
      BY <1>0, <1>1, <1>3, <1>6, <2>0, <3>2, <3>3
    <3>5. Receiving(j)'
      BY <1>0, <3>2, <3>3, <3>4 DEF Receiving
    <3>6. j \in 1 .. app'.call
      BY <1>0, <3>1, <3>2
    <3> QED
      BY <1>1, <2>0, <3>1, <3>5, <3>6
  <2> QED
    BY <2>3, <2>4 DEF QueryData, Receiving, Partial
<1>11. WorkerData'
  <2> SUFFICES ASSUME HasServer' PROVE WorkerData'
    BY DEF WorkerData
  <2>0. HasServer /\ srv' = srv /\ srv.seqno \in Nat /\ srv.seqno <= cli.seqno
    BY <1>0, <1>1, ServerStages DEF BothBound
  <2>1. InCall' /\ cli'.seqno = srv'.seqno => s = cli.seqno /\ InCall /\ cli.seqno = srv.seqno /\ app'.call = app.call
    BY <1>0, <1>3, <1>5, <1>9, <2>0
  <2> QED
    BY <1>0, <1>1, <2>0, <2>1 DEF WorkerData
<1>12. ResponseData'
  <2> SUFFICES ASSUME InCall' PROVE ResponseData'
    BY DEF ResponseData
  <2>1. cli'.seqno = s /\ cli'.pl = x
    BY <1>0, <1>9 DEF InCall
  <2>2. \A n \in Up' : n.cmd \in Asks /\ n.seqno = cli'.seqno => n.body = app'.call
    BY <1>0, <1>1, <1>6, <2>1
  <2>3. \A n \in Down' : n.cmd \in Replies => n.seqno # cli'.seqno
    <3>1. \A n \in Down : n.cmd \in Replies =>
             /\ n.seqno \in Nat /\ n.seqno <= cli.seqno /\ (n.seqno = cli.seqno => CStage >= QueryFrags)
      <4>1. \A n \in Down : n.seqno \in Nat
        BY <1>0, DownStages
      <4> QED
        BY <1>0, <4>1 DEF ClientBound
    <3> QED
      BY <1>1, <1>3, <2>1, <3>1, StageFacts
  <2>4. x.cmd \notin Acks
    BY DEF SendsQuery, Acks
  <2> QED
    BY <2>1, <2>2, <2>3, <2>4 DEF ResponseData, Acks
<1>13. Outcomes'
  BY <1>0, <1>3, <1>4 DEF Outcomes, OwnResponse
<1> QED
  BY <1>1, <1>2, <1>7, <1>8, <1>10, <1>11, <1>12, <1>13 DEF CallInv

LEMMA ClientTransmits ==
  ASSUME TypeOK, NEW cr, NEW x \in Messages, NEW st, ClientSends(cr, x, st)
  PROVE  /\ Moves(Client, {x}) /\ rec'[Server] = rec[Server]
         /\ cli' = crecord_setState(crecord_setPayload(cr, x), st)
<1>1. Moves(Client, {x})
  BY ProcFacts, EmptyOut, SendMoves DEF ClientSends
<1>2. rec'[Server] = rec[Server] /\ rec'[Client] = crecord_setState(crecord_setPayload(cr, x), st)
  BY ProcFacts DEF ClientSends, TypeOK
<1> QED
  BY <1>1, <1>2 DEF cli

LEMMA ConnectInOrder ==
  ASSUME CallInv, rpc_connect
  PROVE  CallInv'
<1>0. /\ TypeOK /\ TypeOK' /\ app.pc = "start" /\ app' = [app EXCEPT !.pc = "connect"] /\ SeqnoStart \in Nat
      /\ UNCHANGED <<worker, queue, executed>> /\ Numbers /\ app'.call = app.call /\ app.call \in Nat
  BY ConnectTyped, StageFacts, OrderTypes DEF CallInv, rpc_connect, Untouched, TypeOK
<1> DEFINE x == Control("CONNECT", SeqnoStart)
<1>1. x \in Messages /\ x.cmd = "CONNECT" /\ x.seqno = SeqnoStart
  BY <1>0, ControlTyped DEF Commands
<1>2. ClientSends(crecord_create(SeqnoStart, 0), x, "CONNECT_SENT")
  BY DEF rpc_connect
<1> HIDE DEF x
<1>3. /\ Moves(Client, {x}) /\ rec'[Server] = rec[Server]
      /\ cli' = crecord_setState(crecord_setPayload(crecord_create(SeqnoStart, 0), x), "CONNECT_SENT")
  BY <1>0, <1>1, <1>2, ClientTransmits
<1>4. cli'.pl = x /\ cli'.seqno = SeqnoStart /\ cli'.state = "CONNECT_SENT"
  <2>1. 0 \in Nat /\ "CONNECT_SENT" \in States
    BY StateNames
  <2> QED
    BY <1>0, <1>1, <1>3, <2>1, CreatedTyped
<1>5. UpSound(x, app'.call)
  BY <1>1 DEF UpSound, Asks, Acks
<1>6. ClientPuts(x)
  BY <1>0, <1>1, <1>3, <1>4, <1>5 DEF ClientPuts, Numbers
<1> QED
  BY <1>0, <1>1, <1>4, <1>6, ConnectSent

(* rpc_call transmits fragment f of call k under the number s. *)
LEMMA SendQueryInOrder ==
  ASSUME CallInv, TypeOK', NEW cr \in Records, NEW k, NEW f, NextQuery(cr.seqno, k, f), SendQuery(cr, k, f),
         UNCHANGED <<worker, queue, executed>>
  PROVE  CallInv'
<1>0. TypeOK /\ app.call \in Nat /\ MaxCalls \in Nat
  BY OrderTypes, SrpcAssumption DEF CallInv
<1> DEFINE s == cr.seqno
<1>1. /\ s \in Nat /\ f \in Nat /\ k \in Nat /\ s > SeqnoStart /\ f >= 1 /\ f <= QueryFrags /\ k >= 1
      /\ k >= app.call /\ QueryFrags \in Nat
  BY NextQueryFacts, StageFacts
<1>2. k \in 0 .. MaxCalls
  <2>1. app'.call = k /\ app'.call \in 0 .. MaxCalls
    BY DEF SendQuery, TypeOK
  <2> QED
    BY <2>1
<1>3. ASSUME NEW c \in {"FRAGMENT", "QUERY"}, NEW x, x = Message(c, s, f, QueryFrags, k),
             NEW r \in Records, r.seqno = s, NEW st \in States, ClientSends(r, x, st),
             app'.call = k, app'.fnum = f, app'.result = NoResult,
             \/ c = "FRAGMENT" /\ app'.pc = "fragment" /\ f < QueryFrags /\ r.lastFrag = f /\ st = "FRAGMENT_SENT"
             \/ c = "QUERY" /\ app'.pc = "query" /\ f = QueryFrags /\ st = "QUERY_SENT"
      PROVE  CallInv'
  <2>1. x \in Messages /\ x.cmd = c /\ x.seqno = s /\ x.fnum = f /\ x.nfrags = QueryFrags /\ x.body = k
    <3>1. c \in Commands
      BY DEF Commands
    <3> HIDE DEF s
    <3> QED
      BY <1>1, <1>2, <1>3, <3>1, MessageTyped
  <2>2. /\ Moves(Client, {x}) /\ rec'[Server] = rec[Server]
        /\ cli' = crecord_setState(crecord_setPayload(r, x), st)
    BY <1>0, <1>3, <2>1, ClientTransmits
  <2>3. cli'.seqno = s /\ cli'.pl = x /\ cli'.state = st /\ cli'.lastFrag = r.lastFrag
    BY <1>3, <2>1, <2>2, PreparedTyped
  <2> HIDE DEF s
  <2>4. UpSound(x, app'.call)
    <3>1. f < QueryFrags => f \in 1 .. QueryFrags - 1
      BY <1>1
    <3>2. k \in 1 .. k
      BY <1>1
    <3> QED
      BY <1>1, <1>3, <2>1, <3>1, <3>2 DEF UpSound, Asks, Acks
  <2>5. ClientPuts(x)
    BY <1>0, <1>1, <1>3, <2>1, <2>2, <2>3, <2>4 DEF ClientPuts
  <2>6. SendsQuery(x, s, k, f)
    BY <1>3, <2>1, <2>3, <2>5 DEF SendsQuery, s
  <2> QED
    BY <2>6, QuerySent
<1>4. CASE f < QueryFrags
  <2> DEFINE r == [cr EXCEPT !.lastFrag = f]
             x == Message("FRAGMENT", cr.seqno, f, QueryFrags, k)
  <2>1. r \in Records /\ r.seqno = s /\ r.lastFrag = f
    BY <1>1 DEF Records
  <2>2. ClientSends(r, x, "FRAGMENT_SENT") /\ app' = [pc |-> "fragment", call |-> k, fnum |-> f, result |-> NoResult]
    BY <1>4 DEF SendQuery
  <2>3. x = Message("FRAGMENT", s, f, QueryFrags, k)
    OBVIOUS
  <2> HIDE DEF r, x, s
  <2> QED
    BY <1>3, <1>4, <2>1, <2>2, <2>3, StateNames
<1>5. CASE ~(f < QueryFrags)
  <2> DEFINE x == Message("QUERY", cr.seqno, f, QueryFrags, k)
  <2>1. f = QueryFrags
    BY <1>1, <1>5
  <2>2. ClientSends(cr, x, "QUERY_SENT") /\ app' = [pc |-> "query", call |-> k, fnum |-> f, result |-> NoResult]
    BY <1>5 DEF SendQuery
  <2>3. x = Message("QUERY", s, f, QueryFrags, k) /\ cr.seqno = s
    OBVIOUS
  <2> HIDE DEF x, s
  <2> QED
    BY <1>3, <2>1, <2>2, <2>3, StateNames
<1> QED
  BY <1>4, <1>5

(* The client's thread leaves its record, its state and the network alone. *)
LEMMA ClientWaits ==
  ASSUME CallInv, TypeOK', UNCHANGED <<rec, net, worker, queue, executed>>,
         app'.call >= app.call, app'.pc \notin {"seqno", "start", "fragment", "query"},
         Active' => Active, ClientShape', Outcomes'
  PROVE  CallInv'
<1>0. /\ TypeOK /\ cli' = cli /\ (HasClient' <=> HasClient) /\ rec'[Server] = rec[Server] /\ BothBound
  BY SameRecord DEF CallInv
<1>1. Moves(Client, {})
  BY <1>0, ProcFacts, SameMoves
<1>2. ~InCall'
  BY DEF InCall
<1>3. ClientStays
  BY <1>0, <1>2 DEF ClientStays
<1>4. ClientQuiet
  BY <1>0 DEF ClientQuiet
<1>5. HasServer /\ Active' /\ cli'.state = "FACK_RECEIVED" => srv.seqno = cli.seqno /\ cli.lastFrag <= SStage
  BY <1>0 DEF BothBound
<1> QED
  BY <1>0, <1>1, <1>3, <1>4, <1>5, ClientCalm

LEMMA ConnectReturnsInOrder ==
  ASSUME CallInv, TypeOK', rpc_connect_returns
  PROVE  CallInv'
<1>0. /\ TypeOK /\ ClientShape /\ Outcomes /\ HasClient /\ app.pc = "connect" /\ app.call \in Nat
      /\ UNCHANGED <<net, worker, queue, executed>>
  BY OrderTypes DEF CallInv, rpc_connect_returns, Untouched, HasClient
<1>1. Active /\ app.call = 0 /\ app.result = NoResult
  BY <1>0 DEF Active, Outcomes
<1>2. CASE cli.state = "IDLE" /\ app' = [app EXCEPT !.pc = "ready"] /\ UNCHANGED rec
  <2>1. cli' = cli /\ (HasClient' <=> HasClient)
    BY <1>2, SameRecord
  <2>2. app'.pc = "ready" /\ app'.call = app.call /\ app'.result = app.result
    BY <1>0, <1>2 DEF TypeOK
  <2>3. ClientShape'
    BY <1>0, <1>1, <2>1, <2>2 DEF ClientShape, Active
  <2>4. Outcomes'
    BY <1>0, <1>1, <2>2 DEF Outcomes, OwnResponse
  <2> QED
    BY <1>0, <1>1, <1>2, <2>2, <2>3, <2>4, ClientWaits
<1>3. CASE app' = [app EXCEPT !.pc = "over"] /\ rec' = [rec EXCEPT ![Client] = NoRecord]
  <2>1. rec'[Client] = NoRecord /\ rec'[Server] = rec[Server]
    BY <1>0, <1>3, ProcFacts DEF TypeOK
  <2>2. ~HasClient' /\ ~Active' /\ ~InCall'
    BY <2>1 DEF HasClient, known, Active, InCall
  <2>3. app'.pc = "over" /\ app'.call = app.call /\ app'.result = app.result
    BY <1>0, <1>3 DEF TypeOK
  <2>4. ClientStays /\ ClientQuiet
    BY <1>0, <2>2, <2>3 DEF ClientStays, ClientQuiet
  <2>5. ClientShape'
    BY <2>2 DEF ClientShape
  <2>6. Outcomes'
    BY <1>0, <1>1, <2>3 DEF Outcomes, OwnResponse
  <2>7. Moves(Client, {})
    BY <1>0, ProcFacts, SameMoves
  <2> QED
    BY <1>0, <2>1, <2>2, <2>4, <2>5, <2>6, <2>7, ClientCalm
<1> QED
  BY <1>2, <1>3 DEF rpc_connect_returns, cState, cli

(* rpc_call. *)
LEMMA CallInOrder ==
  ASSUME CallInv, TypeOK', InOrder, rpc_call
  PROVE  CallInv'
<1>0. /\ TypeOK /\ ClientShape /\ Outcomes /\ Numbers /\ app.pc = "ready" /\ app.call \in Nat /\ app.call < MaxCalls
      /\ UNCHANGED <<worker, queue, executed>> /\ MaxCalls \in Nat /\ SeqnoStart \in Nat /\ SEQNO_LIMIT \in Nat
  BY OrderTypes, SrpcAssumption DEF CallInv, rpc_call, Untouched
<1>1. CASE app' = [app EXCEPT !.call = app.call + 1, !.result = Fail] /\ UNCHANGED <<rec, net>>
  <2>1. cli' = cli /\ (HasClient' <=> HasClient)
    BY <1>1, SameRecord
  <2>2. app'.pc = "ready" /\ app'.call = app.call + 1 /\ app'.result = Fail
    BY <1>0, <1>1 DEF TypeOK
  <2>3. ClientShape' /\ (Active' => Active)
    BY <1>0, <2>1, <2>2 DEF ClientShape, Active
  <2>4. Outcomes'
    BY <2>2, ResultAssumption DEF Outcomes, OwnResponse
  <2>5. app'.call >= app.call
    BY <1>0, <2>2
  <2> QED
    BY <1>0, <1>1, <2>2, <2>3, <2>4, <2>5, ClientWaits
<1>2. ASSUME HasClient, cli.state = "IDLE"
      PROVE  /\ Active /\ cli.pl.cmd \in {"CONNECT", "RACK"} /\ cli \in Records
             /\ cli.seqno < SEQNO_LIMIT
  <2>1. Active
    BY <1>0, <1>2 DEF Active
  <2>2. cli.pl.cmd \in {"CONNECT", "RACK"}
    BY <1>0, <1>2, <2>1 DEF ClientShape
  <2>3. cli.seqno \in Nat /\ cli.seqno <= SeqnoStart + app.call /\ cli \in Records
    BY <1>0, <2>1, ClientStages DEF Numbers
  <2>4. SeqnoStart + MaxCalls <= SEQNO_LIMIT
    BY DEF InOrder
  <2> QED
    BY <1>0, <2>1, <2>2, <2>3, <2>4
<1>3. CASE HasClient /\ cli.state = "IDLE" /\ cli.seqno >= SEQNO_LIMIT
  <2>1. cli.seqno < SEQNO_LIMIT /\ cli.seqno \in Nat
    BY <1>2, <1>3, RecordFields
  <2> QED
    BY <1>0, <1>3, <2>1
<1>4. CASE HasClient /\ cli.state = "IDLE" /\ SendQuery(NextNumber(cli), app.call + 1, 1)
  <2>1. /\ Active /\ cli.pl.cmd \in {"CONNECT", "RACK"} /\ cli \in Records
    BY <1>2, <1>4
  <2>2. NextNumber(cli) \in Records /\ NextNumber(cli).seqno = cli.seqno + 1
    BY <2>1, NextNumberTyped
  <2>3. NextQuery(NextNumber(cli).seqno, app.call + 1, 1)
    BY <1>0, <2>1, <2>2 DEF NextQuery
  <2> QED
    BY <1>0, <1>4, <2>2, <2>3, SendQueryInOrder
<1> QED
  BY <1>1, <1>3, <1>4 DEF rpc_call, cli, HasClient

(* A wait of rpc_call ends with TIMEDOUT. *)
LEMMA CallFailsInOrder ==
  ASSUME CallInv, TypeOK', HasClient, app.pc = "fragment", CallFails, Untouched
  PROVE  CallInv'
<1>0. /\ TypeOK /\ ClientShape /\ cli.state = "TIMEDOUT" /\ app.call \in Nat /\ UNCHANGED <<rec, net, worker, queue, executed>>
      /\ app' = [app EXCEPT !.pc = "ready", !.result = Fail]
  BY OrderTypes DEF CallInv, CallFails, Untouched, cState, cli
<1>1. cli' = cli /\ (HasClient' <=> HasClient)
  BY <1>0, SameRecord
<1>2. app'.pc = "ready" /\ app'.call = app.call /\ app'.result = Fail
  BY <1>0 DEF TypeOK
<1>3. ClientShape' /\ Active
  BY <1>0, <1>1, <1>2 DEF ClientShape, Active
<1>4. Outcomes'
  BY <1>2, ResultAssumption DEF Outcomes, OwnResponse
<1>5. app'.call >= app.call
  BY <1>0, <1>2
<1> QED
  BY <1>0, <1>2, <1>3, <1>4, <1>5, ClientWaits

LEMMA CallFragmentInOrder ==
  ASSUME CallInv, TypeOK', rpc_call_fragment
  PROVE  CallInv'
<1>0. TypeOK /\ ClientShape /\ HasClient /\ app.pc = "fragment" /\ Untouched /\ UNCHANGED <<worker, queue, executed>>
  BY DEF CallInv, rpc_call_fragment, HasClient, Untouched
<1>1. CASE cli.state = "FACK_RECEIVED" /\ SendQuery(cli, app.call, app.fnum + 1)
  <2>1. Active
    BY <1>0 DEF Active
  <2>2. cli.pl.cmd = "FRAGMENT" /\ app.fnum = cli.pl.fnum /\ cli \in Records
    BY <1>0, <1>1, <2>1, ClientStages DEF ClientShape
  <2>3. NextQuery(cli.seqno, app.call, app.fnum + 1)
    BY <1>0, <1>1, <2>1, <2>2 DEF NextQuery
  <2> QED
    BY <1>0, <1>1, <2>2, <2>3, SendQueryInOrder
<1>2. CASE CallFails
  BY <1>0, <1>2, CallFailsInOrder
<1> QED
  BY <1>1, <1>2 DEF rpc_call_fragment, cState, cli

(* rpc_call returns. *)
LEMMA CallReturnsInOrder ==
  ASSUME CallInv, TypeOK', rpc_call_returns
  PROVE  /\ CallInv' /\ app'.call = app.call
         /\ app'.result = Fail \/ (app'.result = app.call /\ Done(app.call))
<1>0. /\ TypeOK /\ ClientShape /\ ResponseData /\ Outcomes /\ HasClient /\ app.pc = "query"
      /\ UNCHANGED <<net, worker, queue, executed>> /\ app.call \in Nat /\ app.call <= MaxCalls
      /\ rec' = [rec EXCEPT ![Client].resp = NULL] /\ cli.state \in {"IDLE", "TIMEDOUT"} /\ BothBound
  BY OrderTypes DEF CallInv, rpc_call_returns, Untouched, HasClient, cState, cli
<1>1. Active /\ InCall /\ app.call > 0 /\ app.call \in 1 .. MaxCalls
  BY <1>0, SrpcAssumption DEF Active, InCall, Outcomes
<1>2. /\ cli'.seqno = cli.seqno /\ cli'.pl = cli.pl /\ cli'.state = cli.state /\ cli'.lastFrag = cli.lastFrag
      /\ rec'[Server] = rec[Server]
  <2>1. rec'[Client] = [rec[Client] EXCEPT !.resp = NULL] /\ rec'[Server] = rec[Server]
    BY <1>0, ProcFacts DEF TypeOK
  <2>2. cli \in Records
    BY <1>1, ClientStages
  <2> QED
    BY <2>1, <2>2 DEF cli, Records
<1>3. cli.state = "IDLE" => /\ cli.pl.cmd = "RACK" /\ Done(app.call) /\ cli.resp # NULL
                            /\ CallOf(cli.resp, ResponseFrags) = app.call
  <2> SUFFICES ASSUME cli.state = "IDLE"
               PROVE  /\ cli.pl.cmd = "RACK" /\ Done(app.call) /\ cli.resp # NULL
                      /\ CallOf(cli.resp, ResponseFrags) = app.call
    OBVIOUS
  <2>1. cli.pl.cmd = "RACK"
    BY <1>0, <1>1 DEF ClientShape
  <2>2. Done(app.call) /\ Partial(cli.resp, app.call, ResponseFrags, ResponseFrags)
    BY <1>0, <1>1, <2>1 DEF ResponseData, Acks
  <2> QED
    BY <1>1, <2>1, <2>2, WholeCall, StageFacts
<1>4. PICK fits \in BOOLEAN :
          app' = [app EXCEPT !.pc = IF cli.state = "IDLE" /\ cli.resp = NULL
                                    THEN "over" ELSE "ready",
                             !.result = IF cli.state = "TIMEDOUT" THEN Fail
                                        ELSE IF cli.resp = NULL THEN Crash
                                        ELSE IF fits THEN CallOf(cli.resp, ResponseFrags)
                                        ELSE Fail]
  BY DEF rpc_call_returns, cState, cli
<1>5. /\ app'.pc = "ready" /\ app'.call = app.call
      /\ app'.result = Fail \/ (app'.result = app.call /\ Done(app.call))
  BY <1>0, <1>3, <1>4 DEF TypeOK
<1>6. ClientShape'
  BY <1>0, <1>1, <1>2, <1>5 DEF ClientShape, Active
<1>7. Outcomes'
  <2>1. app'.result # NoResult
    BY <1>1, <1>5, ResultAssumption
  <2> QED
    BY <1>5, <2>1 DEF Outcomes, OwnResponse
<1>8. ClientStays /\ ClientQuiet
  BY <1>0, <1>1, <1>2, <1>5 DEF ClientStays, ClientQuiet, InCall
<1>9. Moves(Client, {})
  BY <1>0, ProcFacts, SameMoves
<1>10. cli'.state # "FACK_RECEIVED"
  BY <1>0, <1>2
<1> QED
  BY <1>0, <1>2, <1>5, <1>6, <1>7, <1>8, <1>9, <1>10, ClientCalm

(* A thread that has no use of its record any more. *)
LEMMA ClientLeaves ==
  ASSUME CallInv, TypeOK', UNCHANGED <<rec, net, worker, queue, executed>>, app'.call = app.call,
         app'.pc \in {"ready", "over"}, ~HasClient \/ app'.pc = "over",
         app'.result = app.result \/ app'.result = Fail,
         app'.pc = "ready" => app'.result = Fail
  PROVE  CallInv'
<1>0. TypeOK /\ Outcomes /\ app.call \in Nat
  BY OrderTypes DEF CallInv
<1>1. ~Active'
  <2>1. HasClient' <=> HasClient
    BY SameRecord
  <2> QED
    BY <2>1 DEF Active
<1>2. ClientShape'
  BY <1>1 DEF ClientShape
<1>3. Outcomes'
  BY <1>0, ResultAssumption DEF Outcomes, OwnResponse
<1>4. app'.call >= app.call
  BY <1>0
<1> QED
  BY <1>1, <1>2, <1>3, <1>4, ClientWaits

LEMMA DisconnectInOrder ==
  ASSUME CallInv, TypeOK', rpc_disconnect
  PROVE  CallInv'
<1>0. /\ TypeOK /\ Outcomes /\ app.pc = "ready" /\ app.call \in Nat /\ UNCHANGED <<worker, queue, executed>>
  BY OrderTypes DEF CallInv, rpc_disconnect, Untouched
<1>1. CASE /\ HasClient /\ ClientSends(cli, Control("DISCONNECT", cli.seqno), "DISCONNECT_SENT")
           /\ app' = [app EXCEPT !.pc = "disconnect"]
  <2> DEFINE x == Control("DISCONNECT", cli.seqno)
  <2>1. cli \in Records /\ cli.seqno \in Nat
    BY <1>0, <1>1, OrderTypes, RecordFields
  <2>2. x \in UpNoise /\ x \in Messages /\ x.cmd = "DISCONNECT"
    BY <2>1, PingNoise, ControlTyped DEF Commands
  <2> HIDE DEF x
  <2>3. /\ Moves(Client, {x}) /\ rec'[Server] = rec[Server]
        /\ cli' = crecord_setState(crecord_setPayload(cli, x), "DISCONNECT_SENT")
    BY <1>0, <1>1, <2>2, ClientTransmits DEF x
  <2>4. cli'.seqno = cli.seqno /\ cli'.pl = x /\ cli'.state = "DISCONNECT_SENT"
    <3>1. "DISCONNECT_SENT" \in States
      BY StateNames
    <3> QED
      BY <2>1, <2>2, <2>3, <3>1, PreparedTyped
  <2>5. app'.pc = "disconnect" /\ app'.call = app.call /\ app'.result = app.result
    BY <1>0, <1>1 DEF TypeOK
  <2>6. ~Active' /\ ~InCall'
    BY <2>5 DEF Active, InCall
  <2>7. ClientShape'
    BY <2>6 DEF ClientShape
  <2>8. Outcomes'
    BY <1>0, <2>5 DEF Outcomes, OwnResponse
  <2>9. ClientStays /\ ClientQuiet
    BY <1>0, <1>1, <2>2, <2>4, <2>5, <2>6 DEF ClientStays, ClientQuiet
  <2> QED
    BY <1>0, <2>2, <2>3, <2>4, <2>6, <2>7, <2>8, <2>9, ClientCalm
<1>2. CASE app' = [app EXCEPT !.pc = "over"] /\ UNCHANGED <<rec, net>>
  <2>1. app'.pc = "over" /\ app'.call = app.call /\ app'.result = app.result
    BY <1>0, <1>2 DEF TypeOK
  <2> QED
    BY <1>0, <1>2, <2>1, ClientLeaves
<1> QED
  BY <1>1, <1>2 DEF rpc_disconnect, cli, HasClient

(* The client's thread. *)
LEMMA ClientInOrder ==
  ASSUME CallInv, InOrder, ClientStep
  PROVE  CallInv'
<1>0. TypeOK /\ TypeOK' /\ Numbers
  BY ClientTyped DEF CallInv
<1>1. CASE rpc_connect
  BY <1>1, ConnectInOrder
<1>2. CASE rpc_connect_returns
  BY <1>0, <1>2, ConnectReturnsInOrder
<1>3. CASE rpc_call
  BY <1>0, <1>3, CallInOrder
<1>4. CASE rpc_call_seqno
  BY <1>0, <1>4 DEF Numbers, rpc_call_seqno
<1>5. CASE rpc_call_fragment
  BY <1>0, <1>5, CallFragmentInOrder
<1>6. CASE rpc_call_returns
  BY <1>0, <1>6, CallReturnsInOrder
<1>7. CASE rpc_disconnect
  BY <1>0, <1>7, DisconnectInOrder
<1>8. CASE rpc_disconnect_returns
  <2>1. /\ UNCHANGED <<rec, net, worker, queue, executed>>
        /\ app'.pc = "over" /\ app'.call = app.call /\ app'.result = app.result
    BY <1>0, <1>8 DEF TypeOK, rpc_disconnect_returns, Untouched
  <2> QED
    BY <1>0, <2>1, ClientLeaves
<1>9. CASE client_reads_freed
  <2>1. /\ UNCHANGED <<rec, net, worker, queue, executed>> /\ ~HasClient
        /\ app' = [app EXCEPT !.pc = IF @ \in {"connect", "disconnect"} THEN "over" ELSE "ready",
                          !.result = IF app.pc \in {"connect", "disconnect"} THEN @ ELSE Fail]
    BY <1>9 DEF client_reads_freed, Untouched, HasClient
  <2>2. /\ app'.call = app.call /\ app'.pc \in {"ready", "over"}
        /\ app'.result = app.result \/ app'.result = Fail
        /\ app'.pc = "ready" => app'.result = Fail
    BY <1>0, <2>1 DEF TypeOK
  <2> QED
    BY <1>0, <2>1, <2>2, ClientLeaves
<1> QED
  BY <1>1, <1>2, <1>3, <1>4, <1>5, <1>6, <1>7, <1>8, <1>9 DEF ClientStep

-----------------------------------------------------------------------------
(* The worker.                                                             *)

LEMMA ExecutedLogged ==
  ASSUME TypeOK, NEW n \in 1 .. Len(executed)
  PROVE  n \in DOMAIN Log /\ Log[n] = executed[n]
<1>1. Len(executed) \in Nat /\ Len(queue) \in Nat
  BY LogFacts
<1>2. n \in 1 .. Len(executed) + Len(queue) /\ n <= Len(executed)
  BY <1>1
<1> QED
  BY <1>2 DEF Log

(* The oldest query becomes the newest execution. *)
LEMMA QueryLogged ==
  ASSUME TypeOK, TypeOK', rpc_query
  PROVE  /\ Log' = Log /\ LogLength' = LogLength /\ LastCall' = LastCall
         /\ Len(executed') = Len(executed) + 1 /\ Len(queue') = Len(queue) - 1 /\ Len(queue) >= 1
         /\ \A n \in 1 .. Len(executed) : executed'[n] = executed[n]
         /\ executed'[Len(executed) + 1] = Log[Len(executed) + 1]
         /\ Len(executed) + 1 \in DOMAIN Log
         /\ worker'.pc = "work" /\ worker'.call = executed'[Len(executed) + 1].call
         /\ executed' = Append(executed, executed'[Len(executed) + 1])
<1> DEFINE E == [ep : Nat, call : 0 .. MaxCalls]
           q == Head(queue)
           e == [ep |-> q.ep, call |-> CallOf(q.data, QueryFrags)]
<1>1. /\ executed \in Seq(E) /\ queue \in Seq([ep : Nat, data : Buffers]) /\ queue # << >>
      /\ executed' \in Seq(E) /\ queue' = Tail(queue)
      /\ worker' = [pc |-> "work", ep |-> q.ep, call |-> CallOf(q.data, QueryFrags), fnum |-> 0]
      /\ executed' = Append(executed, e)
  BY DEF TypeOK, rpc_query
<1>2. Len(queue) \in Nat /\ Len(queue) >= 1 /\ Len(queue') = Len(queue) - 1
  BY <1>1, EmptySeq, HeadTailProperties
<1>3. e \in E
  <2>1. q \in [ep : Nat, data : Buffers]
    BY <1>1, HeadTailProperties
  <2> QED
    BY <2>1, CallOfTyped
<1>7. worker'.pc = "work" /\ worker'.call = e.call
  BY <1>1
<1> HIDE DEF e, q
<1>4. /\ Len(executed) \in Nat /\ Len(executed') = Len(executed) + 1 /\ executed'[Len(executed) + 1] = e
      /\ \A n \in 1 .. Len(executed) : executed'[n] = executed[n]
  BY <1>1, <1>3, AppendProperties
<1>5. Log' = Log /\ LogLength' = LogLength /\ LastCall' = LastCall
  <2>1. Log' = Log
    BY LogMoves
  <2>2. LogLength' = LogLength
    BY <1>2, <1>4 DEF LogLength
  <2> QED
    BY <2>1, <2>2 DEF LastCall
<1>6. /\ executed'[Len(executed) + 1] = Log[Len(executed) + 1] /\ Len(executed) + 1 \in DOMAIN Log
  <2>1. Len(executed) + 1 \in 1 .. Len(executed')
    BY <1>4
  <2>2. \A n \in 1 .. Len(executed') : n \in DOMAIN Log' /\ Log'[n] = executed'[n]
    <3>1. Len(executed') \in Nat /\ Len(queue') \in Nat
      BY <1>2, <1>4
    <3>2. \A n \in 1 .. Len(executed') : n \in 1 .. Len(executed') + Len(queue') /\ n <= Len(executed')
      BY <3>1
    <3> QED
      BY <3>2 DEF Log
  <2> QED
    BY <1>5, <2>1, <2>2
<1> QED
  BY <1>1, <1>2, <1>4, <1>5, <1>6, <1>7

(* What does not concern the worker. *)
LEMMA FlightSame ==
  ASSUME CallInv, UNCHANGED <<rec, net, app>>
  PROVE  /\ Up' = Up /\ Down' = Down /\ cli' = cli /\ srv' = srv /\ (HasServer' <=> HasServer)
         /\ (Active' <=> Active) /\ (InCall' <=> InCall) /\ app' = app
         /\ UpShape' /\ DownShape' /\ ServerShape' /\ ClientShape' /\ ServerBound' /\ ClientBound' /\ BothBound'
         /\ Fifo' /\ Numbers' /\ BodyOrder' /\ Outcomes'
<1>1. /\ cli' = cli /\ srv' = srv /\ (HasServer' <=> HasServer) /\ (HasClient' <=> HasClient)
      /\ app' = app /\ net' = net
  BY SameRecord
<1>2. /\ Up' = Up /\ Down' = Down /\ (Active' <=> Active) /\ (InCall' <=> InCall)
      /\ SStage' = SStage /\ CStage' = CStage
  BY <1>1 DEF Up, Down, Active, InCall, Elements, SStage, CStage, UpStage, DownStage
<1>3. UpShape' /\ DownShape'
  BY <1>1, <1>2 DEF CallInv, UpShape, DownShape, UpSound, DownSound
<1>4. ServerShape' /\ ClientShape'
  BY <1>1, <1>2 DEF CallInv, ServerShape, ClientShape
<1>5. ServerBound' /\ ClientBound' /\ BothBound'
  BY <1>1, <1>2 DEF CallInv, ServerBound, ClientBound, BothBound, NotAfter, UpStage, DownStage
<1>6. Fifo'
  BY <1>1, <1>2 DEF CallInv, Fifo, Before, Elements
<1>7. Numbers' /\ BodyOrder' /\ Outcomes'
  BY <1>1, <1>2 DEF CallInv, Numbers, BodyOrder, Outcomes, OwnResponse
<1> QED
  BY <1>1, <1>2, <1>3, <1>4, <1>5, <1>6, <1>7

LEMMA QueryInOrder ==
  ASSUME CallInv, rpc_query
  PROVE  CallInv'
<1>0. /\ TypeOK /\ TypeOK' /\ Fresh /\ LogOrder /\ QueryData /\ WorkerData /\ ResponseData
      /\ UNCHANGED <<rec, net, app>> /\ worker.pc = "idle" /\ queue # << >>
  BY WorkerTyped DEF CallInv, rpc_query, WorkerStep
<1>1. /\ Up' = Up /\ Down' = Down /\ cli' = cli /\ srv' = srv /\ (HasServer' <=> HasServer)
      /\ (Active' <=> Active) /\ (InCall' <=> InCall) /\ app' = app
      /\ UpShape' /\ DownShape' /\ ServerShape' /\ ClientShape' /\ ServerBound' /\ ClientBound' /\ BothBound'
      /\ Fifo' /\ Numbers' /\ BodyOrder' /\ Outcomes'
  BY <1>0, FlightSame
<1>2. /\ Log' = Log /\ LogLength' = LogLength /\ LastCall' = LastCall
      /\ Len(executed') = Len(executed) + 1 /\ Len(queue') = Len(queue) - 1 /\ Len(queue) >= 1
      /\ \A n \in 1 .. Len(executed) : executed'[n] = executed[n]
      /\ executed'[Len(executed) + 1] = Log[Len(executed) + 1]
      /\ worker'.pc = "work" /\ worker'.call = executed'[Len(executed) + 1].call
      /\ Len(executed) \in Nat /\ Len(queue) \in Nat
  BY <1>0, QueryLogged, LogFacts
<1>3. Fresh'
  <2>1. ~Connecting
    BY <1>0 DEF Fresh
  <2> QED
    BY <1>1, <2>1 DEF Fresh, Connecting
<1>4. LogOrder'
  BY <1>0, <1>1, <1>2 DEF LogOrder
<1>5. QueryData'
  <2>1. \A k : Receiving(k) => Receiving(k)'
    BY <1>1 DEF Receiving
  <2>2. HasServer' => /\ \A m \in Up' : m.cmd \in Asks /\ m.seqno > srv'.seqno => \A n \in DOMAIN Log' : Log'[n].call < m.body
                      /\ srv'.pl.cmd = "FACK" =>
                           \E k \in 1 .. app'.call : /\ Partial(srv'.resp, k, srv'.lastFrag, QueryFrags)
                                                     /\ Receiving(k)' /\ \A n \in DOMAIN Log' : Log'[n].call < k
    BY <1>0, <1>1, <1>2, <2>1 DEF QueryData
  <2> QED
    BY <2>2 DEF QueryData, Receiving, Partial
<1>6. WorkerData'
  <2> SUFFICES ASSUME HasServer' PROVE WorkerData'
    BY DEF WorkerData
  <2>1. HasServer /\ srv.pl.cmd \notin {"CACK", "FACK", "RESPONSE"}
        /\ (srv.pl.cmd = "FRAGMENT" => srv.state = "TIMEDOUT")
    BY <1>0, <1>1 DEF WorkerData
  <2>2. ASSUME srv.pl.cmd = "QACK", srv.state = "QACK_SENT"
        PROVE  queue' = << >> /\ worker'.call = LastCall'
    <3>1. Len(queue) = 1 /\ Len(queue') = 0
      BY <1>0, <1>2, <2>1, <2>2 DEF WorkerData
    <3>2. queue' = << >>
      <4>1. queue' \in Seq([ep : Nat, data : Buffers])
        BY <1>0 DEF TypeOK
      <4> QED
        BY <3>1, <4>1, EmptySeq
    <3>3. LogLength = Len(executed) + 1
      BY <3>1 DEF LogLength
    <3> QED
      BY <1>2, <3>2, <3>3 DEF LastCall
  <2>3. srv'.pl.cmd \in {"QACK", "FRAGMENT", "RESPONSE"} =>
         /\ LogLength' > 0
         /\ InCall' /\ cli'.seqno = srv'.seqno => LastCall' = app'.call
    BY <1>0, <1>1, <1>2, <2>1 DEF WorkerData
  <2>4. srv'.pl.cmd = "QACK" /\ srv'.state = "QACK_SENT" =>
         /\ worker'.pc # "fragment" /\ Len(queue') <= 1
         /\ worker'.pc = "work" => queue' = << >> /\ worker'.call = LastCall'
    <3>1. srv.pl.cmd = "QACK" /\ srv.state = "QACK_SENT" => Len(queue') <= 1
      BY <1>0, <1>2, <2>1 DEF WorkerData
    <3> QED
      BY <1>1, <1>2, <2>2, <3>1
  <2> QED
    BY <1>1, <2>1, <2>3, <2>4 DEF WorkerData
<1>7. ResponseData'
  <2>1. Done(app.call) => Done(app.call)'
    BY <1>1, <1>2 DEF Done
  <2> QED
    BY <1>0, <1>1, <2>1 DEF ResponseData, Partial, Done
<1> QED
  BY <1>0, <1>1, <1>3, <1>4, <1>5, <1>6, <1>7 DEF CallInv

(* Fragment f is the next of a response. *)
NextResponse(f) ==
  /\ HasServer
  /\ \/ f = 1 /\ srv.pl.cmd = "QACK" /\ srv.state = "QACK_SENT" /\ worker.pc = "work"
     \/ f = srv.pl.fnum + 1 /\ srv.pl.cmd = "FRAGMENT" /\ srv.state = "FACK_RECEIVED"

(* rpc_response transmits it. *)
SendsResponse(x, f) ==
  /\ NextResponse(f) /\ ServerPuts(x) /\ x.seqno = srv.seqno /\ x.fnum = f /\ x.body = worker.call
  /\ UNCHANGED <<queue, executed>>
  /\ HasServer' => srv'.seqno = srv.seqno
  /\ \/ /\ x.cmd = "FRAGMENT" /\ worker'.pc = "fragment" /\ worker'.fnum = f /\ worker'.call = worker.call
        /\ HasServer' => srv'.lastFrag = f /\ srv'.state = "FRAGMENT_SENT"
     \/ x.cmd = "RESPONSE" /\ worker'.pc = "idle" /\ (HasServer' => srv'.state = "RESPONSE_SENT")

LEMMA NextResponseFacts ==
  ASSUME CallInv, NEW f, NextResponse(f)
  PROVE  /\ f \in Nat /\ f >= 1 /\ f <= ResponseFrags /\ SStage + 1 = QueryFrags + f /\ SStage < LastStage
         /\ SStage \in Nat /\ srv.seqno \in Nat /\ srv.seqno > SeqnoStart
         /\ queue = << >> /\ worker.call = LastCall /\ LogLength > 0 /\ Done(LastCall)
         /\ InCall /\ cli.seqno = srv.seqno => LastCall = app.call
         /\ srv.pl.cmd # "CACK"
         /\ Active => /\ srv.seqno <= cli.seqno
                      /\ cli.seqno = srv.seqno => CStage >= QueryFrags /\ QueryFrags + f <= CStage + 1
<1>0. /\ TypeOK /\ DownShape /\ ServerShape /\ ClientBound /\ BothBound /\ WorkerData /\ HasServer
      /\ QueryFrags \in Nat /\ ResponseFrags \in Nat /\ ResponseFrags >= 1 /\ LastStage = QueryFrags + ResponseFrags
  BY StageFacts DEF CallInv, NextResponse
<1>1. /\ srv \in Records /\ SStage \in Nat /\ srv.seqno \in Nat /\ srv.pl \in Down /\ srv.pl.seqno = srv.seqno
      /\ srv.lastFrag \in Nat /\ srv.pl.fnum \in Nat
  BY <1>0, ServerStages, RecordFields, DownStages
<1>2. srv.pl.cmd \in {"QACK", "FRAGMENT"}
  BY DEF NextResponse
<1>3. srv.seqno > SeqnoStart
  BY <1>0, <1>1, <1>2, DownStages DEF Confirms, Replies
<1>4. queue = << >> /\ worker.call = LastCall /\ LogLength > 0
      /\ (InCall /\ cli.seqno = srv.seqno => LastCall = app.call)
  BY <1>0, <1>2 DEF NextResponse, WorkerData
<1>5. Done(LastCall)
  <2>1. LogLength = Len(executed) /\ Len(executed) \in Nat
    BY <1>0, <1>4, LogFacts DEF LogLength
  <2>2. Len(executed) \in 1 .. Len(executed)
    BY <1>4, <2>1
  <2>3. Log[Len(executed)] = executed[Len(executed)]
    BY <1>0, <2>2, ExecutedLogged
  <2> QED
    BY <2>1, <2>2, <2>3 DEF Done, LastCall
<1>6. Active => srv.seqno <= cli.seqno /\ cli.seqno \in Nat /\ CStage \in Nat
  BY <1>0, ClientStages DEF BothBound
<1>7. CASE f = 1 /\ srv.pl.cmd = "QACK"
  <2>1. SStage = QueryFrags
    BY <1>0, <1>7, ServerStages
  <2>2. Active /\ cli.seqno = srv.seqno => CStage = QueryFrags
    <3>1. Active /\ cli.seqno = srv.seqno => cli.pl.cmd = "QUERY"
      BY <1>0, <1>1, <1>7 DEF ClientBound, Confirms
    <3> QED
      BY <3>1, ClientStages
  <2> QED
    BY <1>0, <1>1, <1>3, <1>4, <1>5, <1>6, <1>7, <2>1, <2>2
<1>8. CASE f = srv.pl.fnum + 1 /\ srv.pl.cmd = "FRAGMENT" /\ srv.state = "FACK_RECEIVED"
  <2>1. SStage = QueryFrags + srv.pl.fnum /\ QueryFrags < SStage /\ SStage < LastStage /\ srv.lastFrag = srv.pl.fnum
    BY <1>0, <1>8, ServerStages DEF ServerShape
  <2>2. Active => NotAfter(srv.seqno, QueryFrags + srv.lastFrag, cli.seqno, CStage)
    BY <1>0, <1>8 DEF BothBound
  <2>3. Active /\ cli.seqno = srv.seqno => QueryFrags + srv.pl.fnum <= CStage
    BY <1>1, <1>6, <2>1, <2>2 DEF NotAfter
  <2> QED
    BY <1>0, <1>1, <1>3, <1>4, <1>5, <1>6, <1>8, <2>1, <2>3
<1> QED
  BY <1>7, <1>8 DEF NextResponse

LEMMA ResponseBounds ==
  ASSUME CallInv, TypeOK', NEW x, NEW f, SendsResponse(x, f)
  PROVE  ServerShape' /\ ServerBound' /\ ClientBound' /\ BothBound' /\ Fresh'
<1>0. /\ TypeOK /\ UpShape /\ DownShape /\ ServerBound /\ ClientBound /\ BothBound /\ Fresh
      /\ ServerPuts(x) /\ NextResponse(f) /\ HasServer /\ x.seqno = srv.seqno /\ x.fnum = f /\ app' = app
      /\ (HasServer' => srv'.seqno = srv.seqno /\ srv'.pl = x)
  BY DEF CallInv, SendsResponse, NextResponse, ServerPuts
<1>1. /\ Up' \subseteq Up /\ Down' \subseteq Down \cup {x}
      /\ cli' = cli /\ (HasClient' <=> HasClient) /\ (Active' <=> Active)
  BY <1>0, ServerSide
<1>2. /\ f \in Nat /\ f >= 1 /\ f <= ResponseFrags /\ SStage + 1 = QueryFrags + f /\ SStage < LastStage
      /\ SStage \in Nat /\ srv.seqno \in Nat /\ srv.pl.cmd # "CACK" /\ QueryFrags \in Nat
      /\ Active => /\ srv.seqno <= cli.seqno
                   /\ cli.seqno = srv.seqno => CStage >= QueryFrags /\ QueryFrags + f <= CStage + 1
  BY <1>0, NextResponseFacts, StageFacts
<1>3. x.cmd \in Replies /\ x.cmd \notin Confirms /\ x.cmd # "QACK" /\ DownStage(x) = QueryFrags + f
  BY <1>0 DEF SendsResponse, DownStage, Replies, Confirms
<1>4. HasServer' => SStage' = SStage + 1 /\ SStage' = QueryFrags + f
  <2>1. HasServer' => SStage' = DownStage(x)
    BY <1>0 DEF SStage, DownStage
  <2> QED
    BY <1>2, <1>3, <2>1
<1>5. ServerShape'
  <2> SUFFICES ASSUME HasServer' PROVE ServerShape'
    BY DEF ServerShape
  <2>1. \/ x.cmd = "FRAGMENT" /\ srv'.lastFrag = f /\ srv'.state = "FRAGMENT_SENT"
        \/ x.cmd = "RESPONSE" /\ srv'.state = "RESPONSE_SENT"
    BY DEF SendsResponse
  <2> QED
    BY <1>0, <2>1 DEF ServerShape
<1>6. ServerBound'
  <2> SUFFICES ASSUME HasServer' PROVE ServerBound'
    BY DEF ServerBound
  <2>0. srv'.seqno = srv.seqno /\ SStage' = SStage + 1 /\ SStage' \in Nat
    BY <1>0, <1>2, <1>4
  <2>1. \A n \in Up' : n.cmd \in Asks =>
          /\ n.seqno <= srv'.seqno + 1
          /\ n.seqno = srv'.seqno + 1 => n.fnum = 1 /\ SStage' = LastStage
          /\ n.seqno = srv'.seqno => n.fnum <= SStage' + 1
    <3>1. \A n \in Up : n.cmd \in Asks =>
            /\ n.seqno <= srv.seqno + 1 /\ n.fnum \in Nat
            /\ n.seqno = srv.seqno + 1 => n.fnum = 1 /\ SStage = LastStage
            /\ n.seqno = srv.seqno => n.fnum <= SStage + 1
      BY <1>0, UpStages DEF ServerBound
    <3>2. SStage # LastStage
      BY <1>2, StageFacts
    <3> QED
      BY <1>1, <1>2, <2>0, <3>1, <3>2
  <2>2. \A n \in Up' : n.cmd \in Acks => NotAfter(n.seqno, UpStage(n), srv'.seqno, SStage')
    <3>1. \A n \in Up : n.cmd \in Acks => NotAfter(n.seqno, UpStage(n), srv.seqno, SStage) /\ UpStage(n) \in Nat
      BY <1>0, UpStages DEF ServerBound
    <3> QED
      BY <1>1, <1>2, <2>0, <3>1 DEF NotAfter
  <2>3. \A n \in Down' : n.cmd \in Confirms \cup Replies => NotAfter(n.seqno, DownStage(n), srv'.seqno, SStage')
    <3>1. \A n \in Down : n.cmd \in Confirms \cup Replies =>
             NotAfter(n.seqno, DownStage(n), srv.seqno, SStage) /\ DownStage(n) \in Nat
      BY <1>0, DownStages DEF ServerBound
    <3>2. NotAfter(x.seqno, DownStage(x), srv'.seqno, SStage')
      BY <1>0, <1>2, <1>3, <1>4, <2>0 DEF NotAfter
    <3>3. \A n \in Down : n.cmd \in Confirms \cup Replies => NotAfter(n.seqno, DownStage(n), srv'.seqno, SStage')
      BY <1>2, <2>0, <3>1 DEF NotAfter
    <3> QED
      BY <1>1, <3>2, <3>3
  <2> QED
    BY <2>1, <2>2, <2>3 DEF ServerBound, NotAfter, UpStage, DownStage
<1>7. ClientBound'
  <2> SUFFICES ASSUME Active' PROVE ClientBound'
    BY DEF ClientBound
  <2>1. Active /\ cli' = cli /\ CStage' = CStage
    BY <1>1 DEF CStage, UpStage
  <2>2. \A n \in Up' : n.cmd \in Asks \cup Acks => NotAfter(n.seqno, UpStage(n), cli'.seqno, CStage')
    BY <1>0, <1>1, <2>1 DEF ClientBound
  <2>3. \A n \in Down' : n.cmd \in Confirms \cup Replies =>
          /\ n.seqno <= cli'.seqno
          /\ n.seqno = cli'.seqno /\ n.cmd \in Replies => CStage' >= QueryFrags /\ DownStage(n) <= CStage' + 1
          /\ n.seqno = cli'.seqno /\ n.cmd = "QACK" => cli'.pl.cmd = "QUERY"
    BY <1>0, <1>1, <1>2, <1>3, <2>1 DEF ClientBound
  <2> QED
    BY <2>2, <2>3 DEF ClientBound, NotAfter, UpStage, DownStage
<1>8. BothBound'
  <2> SUFFICES ASSUME Active', HasServer' PROVE BothBound'
    BY DEF BothBound
  <2>1. /\ Active /\ cli' = cli /\ CStage' = CStage /\ srv'.seqno = srv.seqno /\ SStage' = SStage + 1
        /\ cli.lastFrag \in Nat
    BY <1>0, <1>1, <1>4, ClientStages, RecordFields DEF CStage, UpStage
  <2>2. /\ SeqnoStart <= srv.seqno /\ srv.seqno <= cli.seqno
        /\ cli.state = "FACK_RECEIVED" => srv.seqno = cli.seqno /\ cli.lastFrag <= SStage
    BY <1>0, <2>1 DEF BothBound
  <2>3. srv'.state # "FACK_RECEIVED"
    BY DEF SendsResponse
  <2>4. cli.state = "FACK_RECEIVED" => cli.lastFrag <= SStage'
    BY <1>2, <2>1, <2>2
  <2> QED
    BY <2>1, <2>2, <2>3, <2>4 DEF BothBound
<1>9. Fresh'
  <2>1. ~Connecting
    BY <1>0, <1>2 DEF Fresh
  <2>2. ~Connecting'
    BY <1>0, <1>1, <2>1 DEF Connecting
  <2> QED
    BY <2>2 DEF Fresh
<1> QED
  BY <1>5, <1>6, <1>7, <1>8, <1>9

LEMMA ResponseSent ==
  ASSUME CallInv, TypeOK', NEW x, NEW f, SendsResponse(x, f)
  PROVE  CallInv'
<1>0. /\ TypeOK /\ LogOrder /\ QueryData /\ WorkerData /\ ResponseData
      /\ ServerPuts(x) /\ NextResponse(f) /\ HasServer /\ x.seqno = srv.seqno /\ x.fnum = f /\ app' = app
      /\ x.body = worker.call
      /\ (HasServer' => srv'.seqno = srv.seqno /\ srv'.pl = x) /\ UNCHANGED <<queue, executed>>
  BY DEF CallInv, SendsResponse, NextResponse, ServerPuts
<1>1. /\ Up' \subseteq Up /\ Down' \subseteq Down \cup {x}
      /\ cli' = cli /\ (HasClient' <=> HasClient) /\ (Active' <=> Active) /\ (InCall' <=> InCall)
      /\ UpShape' /\ DownShape' /\ ClientShape' /\ Fifo' /\ Numbers' /\ BodyOrder' /\ Outcomes'
  BY <1>0, ServerSide
<1>2. ServerShape' /\ ServerBound' /\ ClientBound' /\ BothBound' /\ Fresh'
  BY ResponseBounds
<1>3. /\ queue = << >> /\ worker.call = LastCall /\ LogLength > 0 /\ Done(LastCall)
      /\ InCall /\ cli.seqno = srv.seqno => LastCall = app.call
  BY <1>0, NextResponseFacts
<1>4. Log' = Log /\ LogLength' = LogLength /\ LastCall' = LastCall
  <2>1. Log' = Log /\ LogLength' = LogLength
    BY <1>0, LogSame DEF LogLength
  <2> QED
    BY <2>1 DEF LastCall
<1>5. x.cmd \in {"FRAGMENT", "RESPONSE"}
  BY DEF SendsResponse
<1>6. LogOrder'
  BY <1>0, <1>4 DEF LogOrder
<1>7. QueryData'
  BY <1>0, <1>1, <1>4, <1>5 DEF QueryData
<1>8. WorkerData'
  <2> SUFFICES ASSUME HasServer' PROVE WorkerData'
    BY DEF WorkerData
  <2>1. \/ /\ x.cmd = "FRAGMENT" /\ worker'.pc = "fragment" /\ worker'.fnum = f /\ worker'.call = worker.call
           /\ srv'.lastFrag = f
        \/ x.cmd = "RESPONSE" /\ worker'.pc = "idle"
    BY DEF SendsResponse
  <2> QED
    BY <1>0, <1>1, <1>3, <1>4, <2>1 DEF WorkerData
<1>9. ResponseData'
  <2>1. Done(app.call)' <=> Done(app.call)
    BY <1>0 DEF Done
  <2>2. InCall /\ x.seqno = cli.seqno => x.body = app.call /\ Done(app.call)
    BY <1>0, <1>3
  <2> QED
    BY <1>0, <1>1, <2>1, <2>2 DEF ResponseData, Partial, Done
<1> QED
  BY <1>1, <1>2, <1>6, <1>7, <1>8, <1>9 DEF CallInv

LEMMA SendResponseInOrder ==
  ASSUME CallInv, TypeOK', NEW f, NextResponse(f), SendResponse(srv, worker.call, f),
         UNCHANGED <<queue, app, executed>>
  PROVE  CallInv'
<1>0. /\ TypeOK /\ HasServer /\ srv \in Records /\ worker.call \in 0 .. MaxCalls /\ srv.seqno \in Nat
  BY OrderTypes, RecordFields DEF CallInv, NextResponse, TypeOK
<1>1. /\ f \in Nat /\ f >= 1 /\ f <= ResponseFrags /\ srv.seqno > SeqnoStart /\ ResponseFrags \in Nat
  BY NextResponseFacts, StageFacts
<1>2. ASSUME NEW c \in {"FRAGMENT", "RESPONSE"}, NEW x, x = Message(c, srv.seqno, f, ResponseFrags, worker.call),
             NEW r \in Records, r.seqno = srv.seqno, NEW st \in States,
             rec' = [rec EXCEPT ![Server] = crecord_setState(crecord_setPayload(r, x), st)],
             send_payload(Server, <<x>>),
             \/ /\ c = "FRAGMENT" /\ f < ResponseFrags /\ r.lastFrag = f /\ st = "FRAGMENT_SENT"
                /\ worker'.pc = "fragment" /\ worker'.fnum = f /\ worker'.call = worker.call
             \/ c = "RESPONSE" /\ f = ResponseFrags /\ st = "RESPONSE_SENT" /\ worker'.pc = "idle"
      PROVE  CallInv'
  <2>1. x \in Messages /\ x.cmd = c /\ x.seqno = srv.seqno /\ x.fnum = f /\ x.nfrags = ResponseFrags
        /\ x.body = worker.call
    <3>1. c \in Commands
      BY DEF Commands
    <3> QED
      BY <1>0, <1>1, <1>2, <3>1, MessageTyped
  <2>2. Moves(Server, {x})
    BY <1>0, <1>2, <2>1, ProcFacts, EmptyOut, SendMoves
  <2>3. rec'[Client] = rec[Client] /\ srv' = crecord_setState(crecord_setPayload(r, x), st)
    BY <1>0, <1>2, ProcFacts DEF TypeOK, srv
  <2>4. srv'.seqno = srv.seqno /\ srv'.pl = x /\ srv'.state = st /\ srv'.lastFrag = r.lastFrag
    BY <1>2, <2>1, <2>3, PreparedTyped
  <2>5. DownSound(x)
    <3>1. f < ResponseFrags => f \in 1 .. ResponseFrags - 1
      BY <1>1
    <3> QED
      BY <1>1, <1>2, <2>1, <3>1 DEF DownSound, Confirms, Replies
  <2>6. ServerPuts(x)
    BY <1>2, <2>1, <2>2, <2>3, <2>4, <2>5 DEF ServerPuts
  <2>7. SendsResponse(x, f)
    BY <1>2, <2>1, <2>4, <2>6 DEF SendsResponse
  <2> QED
    BY <2>7, ResponseSent
<1>3. CASE f < ResponseFrags
  <2> DEFINE r == [srv EXCEPT !.lastFrag = f]
             x == Message("FRAGMENT", srv.seqno, f, ResponseFrags, worker.call)
  <2>1. r \in Records /\ r.seqno = srv.seqno /\ r.lastFrag = f
    BY <1>0, <1>1 DEF Records
  <2>2. /\ rec' = [rec EXCEPT ![Server] = crecord_setState(crecord_setPayload(r, x), "FRAGMENT_SENT")]
        /\ send_payload(Server, <<x>>)
        /\ worker' = [worker EXCEPT !.pc = "fragment", !.fnum = f]
    BY <1>3 DEF SendResponse
  <2>3. worker'.pc = "fragment" /\ worker'.fnum = f /\ worker'.call = worker.call
    BY <1>0, <2>2 DEF TypeOK
  <2>4. x = Message("FRAGMENT", srv.seqno, f, ResponseFrags, worker.call)
    OBVIOUS
  <2> HIDE DEF r, x
  <2> QED
    BY <1>2, <1>3, <2>1, <2>2, <2>3, <2>4, StateNames
<1>4. CASE ~(f < ResponseFrags)
  <2> DEFINE x == Message("RESPONSE", srv.seqno, f, ResponseFrags, worker.call)
  <2>1. f = ResponseFrags
    BY <1>1, <1>4
  <2>2. /\ rec' = [rec EXCEPT ![Server] = crecord_setState(crecord_setPayload(srv, x), "RESPONSE_SENT")]
        /\ send_payload(Server, <<x>>)
        /\ worker' = [worker EXCEPT !.pc = "idle", !.fnum = f]
    BY <1>4 DEF SendResponse
  <2>3. worker'.pc = "idle"
    BY <1>0, <2>2 DEF TypeOK
  <2>4. x = Message("RESPONSE", srv.seqno, f, ResponseFrags, worker.call)
    OBVIOUS
  <2> HIDE DEF x
  <2> QED
    BY <1>0, <1>2, <2>1, <2>2, <2>3, <2>4, StateNames
<1> QED
  BY <1>3, <1>4

(* The worker's thread. *)
LEMMA WorkerInOrder ==
  ASSUME CallInv, WorkerStep
  PROVE  CallInv'
<1>0. TypeOK /\ TypeOK' /\ ServerShape /\ WorkerData
  BY WorkerTyped DEF CallInv
<1>1. CASE rpc_query
  BY <1>1, QueryInOrder
<1>2. CASE rpc_response
  <2>0. worker.pc = "work" /\ UNCHANGED <<queue, app, executed>>
    BY <1>2 DEF rpc_response
  <2>1. CASE HasServer /\ srv.state = "QACK_SENT" /\ SendResponse(srv, worker.call, 1)
    <3>1. NextResponse(1)
      BY <1>0, <2>0, <2>1 DEF NextResponse, ServerShape
    <3> QED
      BY <1>0, <2>0, <2>1, <3>1, SendResponseInOrder
  <2>2. CASE worker' = [worker EXCEPT !.pc = "idle"] /\ UNCHANGED <<rec, net>>
    <3>1. worker'.pc = "idle"
      BY <1>0, <2>2 DEF TypeOK
    <3>2. HasServer /\ srv.pl.cmd = "FRAGMENT" => srv.state = "TIMEDOUT"
      BY <1>0, <2>0 DEF WorkerData
    <3> QED
      BY <1>0, <2>0, <2>2, <3>1, <3>2, WorkerCalm DEF WorkerStays
  <2> QED
    BY <1>2, <2>1, <2>2 DEF rpc_response, srv, HasServer
<1>3. CASE rpc_response_fragment
  <2>0. worker.pc = "fragment" /\ HasServer /\ UNCHANGED <<queue, app, executed>>
    BY <1>3 DEF rpc_response_fragment, HasServer
  <2>1. CASE srv.state = "FACK_RECEIVED" /\ SendResponse(srv, worker.call, worker.fnum + 1)
    <3>1. srv.pl.cmd = "FRAGMENT" /\ srv.lastFrag = srv.pl.fnum
      BY <1>0, <2>0, <2>1 DEF ServerShape
    <3>2. worker.fnum = srv.lastFrag
      BY <1>0, <2>0, <2>1, <3>1 DEF WorkerData
    <3>3. NextResponse(worker.fnum + 1)
      BY <2>0, <2>1, <3>1, <3>2 DEF NextResponse
    <3> QED
      BY <1>0, <2>0, <2>1, <3>3, SendResponseInOrder
  <2>2. CASE srv.state = "TIMEDOUT" /\ worker' = [worker EXCEPT !.pc = "idle"] /\ UNCHANGED <<rec, net>>
    <3>1. worker'.pc = "idle"
      BY <1>0, <2>2 DEF TypeOK
    <3> QED
      BY <1>0, <2>0, <2>2, <3>1, WorkerCalm DEF WorkerStays
  <2> QED
    BY <1>3, <2>1, <2>2 DEF rpc_response_fragment, srv
<1>4. CASE worker_reads_freed
  <2>1. UNCHANGED <<rec, net, app, queue, executed>> /\ ~HasServer /\ worker' = [worker EXCEPT !.pc = "idle"]
    BY <1>4 DEF worker_reads_freed, HasServer
  <2>2. worker'.pc = "idle"
    BY <1>0, <2>1 DEF TypeOK
  <2> QED
    BY <1>0, <2>1, <2>2, WorkerCalm DEF WorkerStays
<1> QED
  BY <1>1, <1>2, <1>3, <1>4 DEF WorkerStep

LEMMA InitInOrder ==
  Init => CallInv
<1> SUFFICES ASSUME Init PROVE CallInv
  OBVIOUS
<1>1. /\ rec = [p \in Proc |-> NoRecord] /\ net = [p \in Proc |-> << >>] /\ queue = << >>
      /\ app = [pc |-> "start", call |-> 0, fnum |-> 0, result |-> NoResult]
      /\ worker = [pc |-> "idle", ep |-> 0, call |-> 0, fnum |-> 0] /\ executed = << >> /\ TypeOK
  BY InitTyped DEF Init
<1>2. ~HasClient /\ ~HasServer /\ ~Active /\ ~InCall
  BY <1>1, ProcFacts DEF HasClient, HasServer, known, Active, InCall
<1>3. net[Server] = << >> /\ net[Client] = << >> /\ Up = {} /\ Down = {}
  <2>1. net[Server] = << >> /\ net[Client] = << >>
    BY <1>1, ProcFacts
  <2>2. Elements(<< >>) = {}
    BY EmptyOut
  <2> QED
    BY <1>2, <2>1, <2>2 DEF Up, Down
<1>4. app.pc = "start" /\ app.call = 0 /\ app.result = NoResult /\ worker.pc = "idle"
  BY <1>1
<1>5. UpShape /\ DownShape /\ ServerShape /\ ClientShape /\ ServerBound /\ ClientBound /\ BothBound
  BY <1>2, <1>3 DEF UpShape, DownShape, ServerShape, ClientShape, ServerBound, ClientBound, BothBound
<1>6. Fifo
  <2>1. Elements(net[Server]) = {} /\ Elements(net[Client]) = {}
    BY <1>3, EmptyOut
  <2> QED
    BY <1>2, <2>1 DEF Fifo
<1>7. Fresh /\ Numbers /\ BodyOrder
  BY <1>1, <1>2, <1>3, <1>4 DEF Fresh, Numbers, BodyOrder
<1>8. LogOrder
  BY <1>1, EmptyLog DEF LogOrder
<1>9. QueryData /\ WorkerData /\ ResponseData
  BY <1>2 DEF QueryData, WorkerData, ResponseData
<1>10. Outcomes
  BY <1>4 DEF Outcomes, OwnResponse
<1> QED
  BY <1>1, <1>5, <1>6, <1>7, <1>8, <1>9, <1>10 DEF CallInv

LEMMA NextInOrder ==
  ASSUME InOrder, CallInv, [Next]_vars
  PROVE  CallInv'
<1>0. TypeOK /\ TypeOK' /\ Ordered = TRUE
  BY NextTyped DEF CallInv, InOrder
<1>1. CASE ClientStep
  BY <1>1, ClientInOrder
<1>2. CASE WorkerStep
  BY <1>2, WorkerInOrder
<1>3. CASE rpc_offer
  BY <1>0, <1>3, WorkerCalm DEF rpc_offer, WorkerStays
<1>4. ASSUME NEW p \in Proc, reader(p) PROVE CallInv'
  <2>1. p = Client \/ p = Server
    BY DEF Proc
  <2> QED
    BY <1>0, <1>4, <2>1, ClientReadsInOrder, ServerReadsInOrder
<1>5. ASSUME NEW p \in Proc, lose(p) PROVE CallInv'
  BY <1>0, <1>5, LoseCalm
<1>6. ASSUME NEW p \in Proc, timer(p) PROVE CallInv'
  BY <1>6, TimerCalm
<1>7. CASE UNCHANGED vars
  BY <1>0, <1>7, WorkerCalm DEF vars, WorkerStays
<1> QED
  BY <1>1, <1>2, <1>3, <1>4, <1>5, <1>6, <1>7 DEF Next

LEMMA InStepHolds ==
  ASSUME CallInv
  PROVE  InStep
<1> SUFFICES ASSUME HasClient, HasServer PROVE InStep
  BY DEF InStep, HasClient, HasServer
<1>0. TypeOK /\ UpShape /\ ServerShape /\ ClientShape /\ ServerBound /\ BothBound
  BY DEF CallInv
<1>1. ASSUME app.pc = "ready", cli.state = "IDLE"
      PROVE  srv.seqno = cli.seqno /\ srv.state \in {"IDLE", "RESPONSE_SENT", "TIMEDOUT"}
  <2>1. Active /\ cli.pl.cmd \in {"CONNECT", "RACK"}
    BY <1>0, <1>1 DEF Active, ClientShape
  <2>2. srv.seqno = cli.seqno /\ SStage = LastStage
    BY <2>1, IdleTogether
  <2>3. srv.pl.cmd \in {"CACK", "RESPONSE"}
    BY <2>2, ServerStages, StageFacts
  <2> QED
    BY <1>0, <2>2, <2>3 DEF ServerShape
<1>2. ASSUME app.pc \in {"fragment", "query"}
      PROVE  cli.seqno - srv.seqno \in {0, 1}
  <2>1. Active /\ cli.pl.cmd \in Asks \cup Acks
    BY <1>0, <1>2 DEF Active, ClientShape, Asks, Acks
  <2>2. /\ cli.pl \in Up /\ cli.pl.seqno = cli.seqno /\ cli.seqno \in Nat /\ srv.seqno \in Nat
        /\ srv.seqno <= cli.seqno
    BY <1>0, <2>1, ClientStages, ServerStages DEF BothBound
  <2>3. cli.seqno <= srv.seqno + 1
    <3>1. CASE cli.pl.cmd \in Asks
      BY <1>0, <2>2, <3>1 DEF ServerBound
    <3>2. CASE cli.pl.cmd \in Acks
      BY <1>0, <2>2, <3>2 DEF ServerBound, NotAfter
    <3> QED
      BY <2>1, <3>1, <3>2
  <2> QED
    BY <2>2, <2>3
<1> QED
  BY <1>1, <1>2 DEF InStep, cli, srv, cState

(***************************************************************************)
(* The handlers, the ticks and the threads of src/srpc.c keep the two      *)
(* sides of a connection within one datagram of each other: no number,     *)
(* fragment, buffer or log entry is out of place, for any interleaving of  *)
(* them, any losses and any retransmissions, on a network that keeps       *)
(* datagrams in order and with numbers that rpc_call need not reset.       *)
(***************************************************************************)
THEOREM CallInvariant == InOrder => (Spec => []CallInv)
<1> SUFFICES ASSUME InOrder PROVE Spec => []CallInv
  OBVIOUS
<1>1. Init => CallInv
  BY InitInOrder
<1>2. CallInv /\ [Next]_vars => CallInv'
  BY NextInOrder
<1> QED
  BY <1>1, <1>2, PTL DEF Spec

(***************************************************************************)
(* Both sides count the calls alike.  Whenever rpc_call finds the client's *)
(* record idle, the server's record has the same number and is ready for   *)
(* the next query; and while a query is on its way, the server is at its   *)
(* number or the one before.  So no query of rpc_call is ignored by        *)
(* StartsQuery's test of the number in the QUERY and FRAGMENT handlers.    *)
(***************************************************************************)
THEOREM InStepCorrect == InOrder => (Spec => []InStep)
<1> SUFFICES ASSUME InOrder PROVE Spec => []InStep
  OBVIOUS
<1>1. Spec => []CallInv
  BY CallInvariant
<1>2. CallInv => InStep
  BY InStepHolds
<1> QED
  BY <1>1, <1>2, PTL

(***************************************************************************)
(* A call that rpc_call reports successful has the whole response to that  *)
(* very call, all of its fragments included, although buffers are reused   *)
(* from call to call and fragments, FACKs and responses are transmitted    *)
(* again.                                                                  *)
(***************************************************************************)
THEOREM OwnResponseCorrect == InOrder => (Spec => []OwnResponse)
<1> SUFFICES ASSUME InOrder PROVE Spec => []OwnResponse
  OBVIOUS
<1>1. Spec => []CallInv
  BY CallInvariant
<1>2. CallInv => OwnResponse
  BY DEF CallInv, Outcomes
<1> QED
  BY <1>1, <1>2, PTL

-----------------------------------------------------------------------------
(* The steps as the promise sees them.                                     *)

Made(s) == [i \in 1 .. Len(s) |-> s[i].call]

LEMMA MadeAppends ==
  ASSUME NEW E, NEW s \in Seq(E), NEW e \in E
  PROVE  Made(Append(s, e)) = Append(Made(s), e.call)
<1> DEFINE n == Len(s)
           t == Append(s, e)
           a == Made(s)
           b == Append(a, e.call)
<1>1. n \in Nat /\ Len(t) = n + 1 /\ t[n + 1] = e /\ \A i \in 1 .. n : t[i] = s[i]
  BY AppendProperties
<1>2. a = [i \in 1 .. n |-> s[i].call]
  BY DEF Made
<1>3. /\ b = [i \in 1 .. n + 1 |-> IF i \in 1 .. n THEN a[i] ELSE e.call]
  <2>1. Len(a) = n /\ a \in Seq({s[i].call : i \in 1 .. n} \cup {e.call})
    BY <1>1, <1>2
  <2> HIDE DEF a, n
  <2>2. b \in Seq({s[i].call : i \in 1 .. n} \cup {e.call}) /\ Len(b) = n + 1 /\ b[n + 1] = e.call
        /\ \A i \in 1 .. n : b[i] = a[i]
    BY <1>1, <2>1, AppendProperties
  <2>3. DOMAIN b = 1 .. n + 1 /\ b = [i \in DOMAIN b |-> b[i]]
    BY <1>1, <2>2
  <2> HIDE DEF b
  <2> QED
    BY <1>1, <2>2, <2>3
<1>4. Made(t) = [i \in 1 .. n + 1 |-> t[i].call]
  BY <1>1 DEF Made
<1> HIDE DEF n, t, a, b
<1>5. \A i \in 1 .. n + 1 : t[i].call = (IF i \in 1 .. n THEN a[i] ELSE e.call)
  BY <1>1, <1>2
<1> QED
  BY <1>3, <1>4, <1>5 DEF t, a, b

CallStep == [Calls!RCNext]_(Calls!callVars)

(* Nothing the promise is about. *)
LEMMA PromiseSame ==
  ASSUME app'.call = app.call, app'.result = app.result, UNCHANGED executed
  PROVE  CallStep
  BY DEF CallStep, Calls!callVars

LEMMA PromiseGivesUp ==
  ASSUME CallInv, app.pc \in {"fragment", "query"}, app'.call = app.call, app'.result = Fail, UNCHANGED executed
  PROVE  CallStep
<1>1. app.call > 0 /\ app.result = NoResult
  BY DEF CallInv, Outcomes
<1>2. Calls!GiveUp
  BY <1>1 DEF Calls!GiveUp
<1> QED
  BY <1>2 DEF CallStep, Calls!RCNext

LEMMA ClientPromise ==
  ASSUME CallInv, InOrder, ClientStep
  PROVE  CallStep
<1>0. TypeOK /\ TypeOK' /\ Numbers /\ Outcomes /\ UNCHANGED executed /\ app.call \in Nat /\ MaxCalls \in Nat
  <2>1. UNCHANGED executed
    BY DEF ClientStep, rpc_connect, rpc_connect_returns, rpc_call, rpc_call_seqno, rpc_call_fragment,
           rpc_call_returns, rpc_disconnect, rpc_disconnect_returns, client_reads_freed, Untouched
  <2> QED
    BY <2>1, ClientTyped, OrderTypes, SrpcAssumption DEF CallInv
<1>1. CASE rpc_connect \/ rpc_connect_returns \/ rpc_disconnect \/ rpc_disconnect_returns
  <2>1. \E pc : app' = [app EXCEPT !.pc = pc]
    BY <1>1 DEF rpc_connect, rpc_connect_returns, rpc_disconnect, rpc_disconnect_returns
  <2>2. app'.call = app.call /\ app'.result = app.result
    BY <1>0, <2>1 DEF TypeOK
  <2> QED
    BY <1>0, <2>2, PromiseSame
<1>2. CASE rpc_call
  <2>1. app.pc = "ready" /\ app.call < MaxCalls /\ (app.result # NoResult \/ app.call = 0)
    BY <1>0, <1>2 DEF rpc_call, Outcomes
  <2>2. CASE app' = [app EXCEPT !.call = app.call + 1, !.result = Fail]
    <3>1. app'.call = app.call + 1 /\ app'.result = Fail
      BY <1>0, <2>2 DEF TypeOK
    <3>2. Calls!Refuse
      BY <1>0, <2>1, <3>1 DEF Calls!Refuse
    <3> QED
      BY <3>2 DEF CallStep, Calls!RCNext
  <2>3. CASE app'.call = app.call + 1 /\ app'.result = NoResult
    <3>1. Calls!Begin
      BY <1>0, <2>1, <2>3 DEF Calls!Begin
    <3> QED
      BY <3>1 DEF CallStep, Calls!RCNext
  <2>4. \/ app' = [app EXCEPT !.call = app.call + 1, !.result = Fail]
        \/ app'.call = app.call + 1 /\ app'.result = NoResult
    BY <1>2 DEF rpc_call, SendQuery
  <2> QED
    BY <2>2, <2>3, <2>4
<1>3. CASE rpc_call_seqno
  BY <1>0, <1>3 DEF Numbers, rpc_call_seqno
<1>4. CASE rpc_call_fragment
  <2>1. app.pc = "fragment" /\ app.result = NoResult
    BY <1>0, <1>4 DEF rpc_call_fragment, Outcomes
  <2>2. CASE CallFails
    <3>1. app'.call = app.call /\ app'.result = Fail
      BY <1>0, <2>2 DEF CallFails, TypeOK
    <3> QED
      BY <1>0, <2>1, <3>1, PromiseGivesUp
  <2>3. CASE app'.call = app.call /\ app'.result = NoResult
    BY <1>0, <2>1, <2>3, PromiseSame
  <2>4. CallFails \/ (app'.call = app.call /\ app'.result = NoResult)
    BY <1>4 DEF rpc_call_fragment, SendQuery
  <2> QED
    BY <2>2, <2>3, <2>4
<1>5. CASE rpc_call_returns
  <2>0. app.pc = "query"
    BY <1>5 DEF rpc_call_returns
  <2>1. /\ app'.call = app.call
        /\ app'.result = Fail \/ (app'.result = app.call /\ Done(app.call))
    BY <1>0, <1>5, CallReturnsInOrder
  <2>2. CASE app'.result = Fail
    BY <1>0, <2>0, <2>1, <2>2, PromiseGivesUp
  <2>3. CASE app'.result = app.call /\ Done(app.call)
    <3>1. app.call > 0 /\ app.result = NoResult
      BY <1>0, <2>0 DEF Outcomes
    <3>2. app.call \in Calls!Executed
      <4>1. PICK n \in 1 .. Len(executed) : executed[n].call = app.call
        BY <2>3 DEF Done
      <4>2. Len(Made(executed)) = Len(executed) /\ Made(executed)[n] = app.call
        <5>1. Len(executed) \in Nat
          BY <1>0, LogFacts
        <5> QED
          BY <4>1, <5>1 DEF Made
      <4> QED
        BY <4>1, <4>2 DEF Calls!Executed, Made
    <3>3. Calls!Succeed
      BY <1>0, <2>1, <2>3, <3>1, <3>2 DEF Calls!Succeed
    <3> QED
      BY <3>3 DEF CallStep, Calls!RCNext
  <2> QED
    BY <2>1, <2>2, <2>3
<1>6. CASE client_reads_freed
  <2>1. /\ app.pc \in {"connect", "seqno", "fragment", "query", "disconnect"}
        /\ app' = [app EXCEPT !.pc = IF @ \in {"connect", "disconnect"} THEN "over" ELSE "ready",
                          !.result = IF app.pc \in {"connect", "disconnect"} THEN @ ELSE Fail]
    BY <1>6 DEF client_reads_freed, appWaits
  <2>2. CASE app.pc \in {"connect", "disconnect"}
    <3>1. app'.call = app.call /\ app'.result = app.result
      BY <1>0, <2>1, <2>2 DEF TypeOK
    <3> QED
      BY <1>0, <3>1, PromiseSame
  <2>3. CASE app.pc \in {"fragment", "query"}
    <3>1. app'.call = app.call /\ app'.result = Fail
      BY <1>0, <2>1, <2>3 DEF TypeOK
    <3> QED
      BY <1>0, <2>3, <3>1, PromiseGivesUp
  <2> QED
    BY <1>0, <2>1, <2>2, <2>3 DEF Numbers
<1> QED
  BY <1>1, <1>2, <1>3, <1>4, <1>5, <1>6 DEF ClientStep

(* rpc_query hands the worker a call that no earlier one was. *)
LEMMA QueryPromise ==
  ASSUME CallInv, rpc_query
  PROVE  CallStep
<1>0. TypeOK /\ TypeOK' /\ LogOrder /\ UNCHANGED app /\ executed \in Seq([ep : Nat, call : 0 .. MaxCalls])
      /\ executed' \in Seq([ep : Nat, call : 0 .. MaxCalls])
  BY WorkerTyped DEF CallInv, rpc_query, WorkerStep, TypeOK
<1> DEFINE n == Len(executed) + 1
           e == executed'[n]
<1>1. /\ executed' = Append(executed, e) /\ e = Log[n] /\ n \in DOMAIN Log /\ Len(executed) \in Nat
      /\ Len(executed') = n
  BY <1>0, QueryLogged, LogFacts
<1>2. e.call \in 1 .. app.call
  BY <1>0, <1>1 DEF LogOrder
<1>3. e \in [ep : Nat, call : 0 .. MaxCalls]
  <2>1. n \in 1 .. Len(executed')
    BY <1>1
  <2> HIDE DEF n
  <2> QED
    BY <1>0, <2>1, ElementOfSeq
<1>4. \A i \in 1 .. Len(executed) : executed[i].call # e.call
  <2> SUFFICES ASSUME NEW i \in 1 .. Len(executed) PROVE executed[i].call # e.call
    OBVIOUS
  <2>1. i \in DOMAIN Log /\ Log[i] = executed[i]
    BY <1>0, ExecutedLogged
  <2>2. i < n
    BY <1>1
  <2>3. Log[i].call < Log[n].call /\ Log[i].call \in 1 .. app.call
    BY <1>0, <1>1, <2>1, <2>2 DEF LogOrder
  <2>4. app.call \in Nat
    BY <1>0, OrderTypes
  <2> QED
    BY <1>1, <1>2, <2>1, <2>3, <2>4
<1> HIDE DEF e, n
<1>5. Made(executed') = Append(Made(executed), e.call)
  BY <1>0, <1>1, <1>3, MadeAppends
<1>6. e.call \notin Calls!Executed
  <2>1. Len(Made(executed)) = Len(executed) /\ \A i \in 1 .. Len(executed) : Made(executed)[i] = executed[i].call
    BY <1>1 DEF Made
  <2>2. \A i \in 1 .. Len(Made(executed)) : Made(executed)[i] # e.call
    BY <1>4, <2>1
  <2> QED
    BY <2>2 DEF Calls!Executed, Made
<1>7. Calls!Execute
  BY <1>0, <1>2, <1>5, <1>6 DEF Calls!Execute, Made
<1> QED
  BY <1>7 DEF CallStep, Calls!RCNext

LEMMA NextPromise ==
  ASSUME InOrder, CallInv, [Next]_vars
  PROVE  CallStep
<1>1. CASE ClientStep
  BY <1>1, ClientPromise
<1>2. CASE rpc_query
  BY <1>2, QueryPromise
<1>3. CASE /\ \/ rpc_response \/ rpc_response_fragment \/ worker_reads_freed \/ rpc_offer
              \/ UNCHANGED vars \/ \E p \in Proc : reader(p) \/ lose(p) \/ timer(p)
  <2>1. UNCHANGED <<app, executed>>
    BY <1>3 DEF rpc_response, rpc_response_fragment, worker_reads_freed, rpc_offer, vars, reader, lose, timer
  <2> QED
    BY <2>1, PromiseSame
<1> QED
  BY <1>1, <1>2, <1>3 DEF Next, WorkerStep

(***************************************************************************)
(* The RPC engine implements RemoteCall: rpc_query never hands the worker  *)
(* a call twice, whichever record accepted it, rpc_call succeeds only with *)
(* a call that was executed, and a call that has failed does not succeed.  *)
(***************************************************************************)
THEOREM PromiseCorrect == InOrder => (Spec => KeepsCallPromise)
<1> SUFFICES ASSUME InOrder PROVE Spec => KeepsCallPromise
  OBVIOUS
<1>1. Init => Calls!RCInit
  <2> SUFFICES ASSUME Init PROVE Calls!RCInit
    OBVIOUS
  <2>1. app.call = 0 /\ app.result = NoResult /\ executed = << >>
    BY DEF Init
  <2>2. [i \in 1 .. Len(executed) |-> executed[i].call] = << >>
    BY <2>1
  <2> QED
    BY <2>1, <2>2 DEF Calls!RCInit
<1>2. CallInv /\ [Next]_vars => [Calls!RCNext]_(Calls!callVars)
  BY NextPromise DEF CallStep
<1>3. Spec => []CallInv
  BY CallInvariant
<1> QED
  BY <1>1, <1>2, <1>3, PTL DEF Spec, KeepsCallPromise, Calls!RCSpec
=============================================================================
