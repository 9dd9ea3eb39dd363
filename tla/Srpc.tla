-------------------------------- MODULE Srpc --------------------------------
(***************************************************************************)
(* The simple RPC system of src/srpc.c: one connection between a client    *)
(* process and a server process.  Both processes run the same code: a      *)
(* reader thread that handles one datagram at a time, a timer thread that  *)
(* ticks every 20 ms, and threads in the API calls.  All of it runs under  *)
(* the connection table's mutex, so a handler, a tick and the stretch of   *)
(* an API call between two waits are each one action.                      *)
(* crecord_waitForState gives the mutex up: the waiter continues in a step *)
(* of its own, some time after the state it waits for was set, and other   *)
(* handlers and ticks may come first.                                      *)
(*                                                                         *)
(* The network is UDP: it loses datagrams, retransmissions duplicate them, *)
(* and unless Ordered it also lets them overtake each other.               *)
(*                                                                         *)
(* Data is abstracted to who sent it: fragment f of the data of call k is  *)
(* the pair <<k, f>>.  A buffer is the sequence of the fragments it holds. *)
(***************************************************************************)
EXTENDS CRecord, Integers, Sequences, SequencesExt, FiniteSets

CONSTANTS
    SeqnoStart,        \* the sequence number the client passes to rpc_connect
    SEQNO_LIMIT,       \* from here on rpc_call first resets the numbers
    QueryFrags,        \* fragments of a query: (qlen - 1) / FR_SIZE + 1
    ResponseFrags,     \* fragments of a response
    MaxCalls,          \* bound: calls the client makes
    Capacity,          \* bound: datagrams in flight in one direction
    Ordered,           \* does the network keep datagrams in order?
    PromptWakeup,      \* does a woken thread run before the next tick?
    NoRecord,          \* no connection record
    NoResult,          \* the client has no result (yet)
    Fail,              \* rpc_call returned 0
    Crash              \* rpc_call read through a null pointer

ASSUME SrpcAssumption ==
    /\ SeqnoStart \in Nat /\ SEQNO_LIMIT \in Nat
    /\ QueryFrags \in 1 .. 255 /\ ResponseFrags \in 1 .. 255
    /\ MaxCalls \in Nat /\ Capacity \in Nat \ {0}
    /\ Ordered \in BOOLEAN /\ PromptWakeup \in BOOLEAN

(* What rpc_call gives back is no data. *)
ASSUME ResultAssumption ==
    /\ NoResult # Fail
    /\ NoResult \notin 0 .. MaxCalls /\ Fail \notin 0 .. MaxCalls

SEQNO_START == 0

Client == "client"
Server == "server"
Proc == {Client, Server}
Other(p) == IF p = Client THEN Server ELSE Client

NULL == << >>                  \* cr->resp when it is the null pointer
Junk == <<0, 0>>               \* memory nobody wrote

VARIABLES
    rec,        \* rec[p]: p's connection record for this connection
    net,        \* net[p]: datagrams on their way to p
    offered,    \* has the server's rpc_offer been called?
    created,    \* records the server has created, to tell them apart
    queue,      \* the service's list of queries (a FIFO: see TSList)
    app,        \* the client's thread: where it is and what it last got
    worker,     \* the server's worker thread
    executed    \* history: the calls handed to the worker

vars == <<rec, net, offered, created, queue, app, worker, executed>>

-----------------------------------------------------------------------------
(* Datagrams.  `body' is the call whose data is carried, 0 for none. *)

Message(cmd, seqno, fnum, nfrags, body) ==
    [cmd |-> cmd, seqno |-> seqno, fnum |-> fnum, nfrags |-> nfrags, body |-> body]

Control(cmd, seqno) == Message(cmd, seqno, 1, 1, 0)

(* send_payload: a datagram that finds no room is lost, like any other. *)
Sent(q, out) == IF Len(q) + Len(out) > Capacity THEN q ELSE q \o out

send_payload(p, out) == net' = [net EXCEPT ![Other(p)] = Sent(@, out)]

(* Datagrams that may be the next to arrive at p. *)
Arriving(p) == IF Ordered THEN 1 .. (IF net[p] = << >> THEN 0 ELSE 1)
                          ELSE 1 .. Len(net[p])

(* The datagram at i has been handled: p's record is r and `out' goes out. *)
Handled(p, i, r, out) ==
    /\ rec' = [rec EXCEPT ![p] = r]
    /\ net' = [net EXCEPT ![p] = RemoveAt(@, i), ![Other(p)] = Sent(@, out)]

(* The buffer a datagram is copied into whole, of the length of its data. *)
Copied(m) == [j \in 1 .. m.nfrags |-> IF j = 1 THEN <<m.body, m.fnum>> ELSE Junk]

MutFilledOffByOne(buf, m) == [buf EXCEPT ![m.fnum - 1] = <<m.body, m.fnum>>]

(* memcpy of a datagram's data to its place in a buffer. *)
Filled(buf, m) == [buf EXCEPT ![m.fnum] = <<m.body, m.fnum>>]

Complete(buf, k, n) == buf = [j \in 1 .. n |-> <<k, j>>]

(* The call a buffer is the data of, 0 if it is not the data of one. *)
CallOf(buf, n) == IF \E k \in 1 .. MaxCalls : Complete(buf, k, n)
                  THEN CHOOSE k \in 1 .. MaxCalls : Complete(buf, k, n) ELSE 0

crecord_create(seqno, id) ==
    [id |-> id, seqno |-> seqno, state |-> "NEW", pl |-> NULL, resp |-> NULL,
     lastFrag |-> 0, nattempts |-> 0, ticks |-> 0, ticksLeft |-> 0,
     ticksTilPing |-> TICKS_BETWEEN_PINGS, pingsTilPurge |-> PINGS_BEFORE_PURGE]

Init == /\ rec = [p \in Proc |-> NoRecord]
        /\ net = [p \in Proc |-> << >>]
        /\ offered = FALSE
        /\ created = 0
        /\ queue = << >>
        /\ app = [pc |-> "start", call |-> 0, fnum |-> 0, result |-> NoResult]
        /\ worker = [pc |-> "idle", ep |-> 0, call |-> 0, fnum |-> 0]
        /\ executed = << >>

(***************************************************************************)
(* The reader thread: one action per command.  `i' is the place of the     *)
(* datagram m in net[p].                                                   *)
(***************************************************************************)
known(p) == rec[p] # NoRecord

MutAcceptedWithoutPayload(seqno, id) == crecord_setState(crecord_create(seqno, id), "IDLE")

(* The record of a connection the CONNECT handler accepts. *)
AcceptedConnection(seqno, id) ==
    crecord_setState(crecord_setPayload(crecord_create(seqno, id), Control("CACK", seqno)),
                     "IDLE")

CONNECT(p, i, m) ==
    /\ m.cmd = "CONNECT"
    /\ LET new == AcceptedConnection(m.seqno, created + 1)
       IN \/ /\ offered /\ ~known(p)
             /\ Handled(p, i, new, <<new.pl>>)
             /\ created' = created + 1
          \/ /\ offered /\ known(p) /\ rec[p].state = "IDLE"
             /\ Handled(p, i, crecord_setState(rec[p], "IDLE"), <<rec[p].pl>>)
             /\ UNCHANGED created
          \/ /\ ~offered \/ (known(p) /\ rec[p].state # "IDLE")
             /\ Handled(p, i, rec[p], << >>)
             /\ UNCHANGED created
    /\ UNCHANGED queue

(* CACK, QACK and RACK look at the sequence number, not at the state. *)
Acknowledged(p, i, m, st) ==
    /\ Handled(p, i, IF known(p) /\ m.seqno = rec[p].seqno
                     THEN crecord_setState(rec[p], st) ELSE rec[p], << >>)
    /\ UNCHANGED <<created, queue>>

CACK(p, i, m) == m.cmd = "CACK" /\ Acknowledged(p, i, m, "IDLE")

QACK(p, i, m) == m.cmd = "QACK" /\ Acknowledged(p, i, m, "AWAITING_RESPONSE")

RACK(p, i, m) == m.cmd = "RACK" /\ Acknowledged(p, i, m, "IDLE")

MutStartsQueryAgain(p, m) ==
    /\ known(p)
    /\ rec[p].state \in {"IDLE", "RESPONSE_SENT"}
    /\ m.seqno - rec[p].seqno \in {0, 1}

(* A datagram with which the query after the last one begins. *)
StartsQuery(p, m) ==
    /\ known(p)
    /\ rec[p].state \in {"IDLE", "RESPONSE_SENT"}
    /\ m.seqno - rec[p].seqno = 1

(* The last of the fragments of which p has acknowledged the others. *)
EndsFragments(p, m) ==
    /\ known(p) /\ m.seqno = rec[p].seqno /\ rec[p].state = "FACK_SENT"
    /\ m.fnum - rec[p].lastFrag = 1 /\ m.fnum = m.nfrags

(* The next query, or the last fragment of one that came in fragments. *)
QUERY(p, i, m) ==
    /\ m.cmd = "QUERY"
    /\ LET cr == rec[p]
           whole == StartsQuery(p, m)
           last == EndsFragments(p, m)
           old == known(p) /\ m.seqno = cr.seqno
                           /\ cr.state \in {"QACK_SENT", "RESPONSE_SENT"}
           qack == Message("QACK", m.seqno, m.fnum, m.nfrags, 0)
           accepted(r) == crecord_setState(crecord_setPayload(r, qack), "QACK_SENT")
       IN \/ /\ whole
             /\ Handled(p, i, accepted([cr EXCEPT !.seqno = m.seqno]), <<qack>>)
             /\ queue' = Append(queue, [ep |-> cr.id, data |-> Copied(m)])
          \/ /\ last
             /\ Handled(p, i, accepted([cr EXCEPT !.resp = NULL]), <<qack>>)
             /\ queue' = Append(queue, [ep |-> cr.id, data |-> Filled(cr.resp, m)])
          \/ /\ old
             /\ Handled(p, i, crecord_setState(cr, cr.state), <<cr.pl>>)
             /\ UNCHANGED queue
          \/ /\ ~(whole \/ last \/ old)
             /\ Handled(p, i, cr, << >>)
             /\ UNCHANGED queue
    /\ UNCHANGED created

RESPONSE(p, i, m) ==
    /\ m.cmd = "RESPONSE"
    /\ LET cr == rec[p]
           whole == known(p) /\ m.seqno = cr.seqno
                             /\ cr.state \in {"QUERY_SENT", "AWAITING_RESPONSE"}
           last == EndsFragments(p, m)
           rack == Message("RACK", m.seqno, m.fnum, m.nfrags, 0)
           accepted(r) == crecord_setState(crecord_setPayload(r, rack), "IDLE")
       IN \/ whole /\ Handled(p, i, accepted([cr EXCEPT !.resp = Copied(m)]), <<rack>>)
          \/ last /\ Handled(p, i, accepted([cr EXCEPT !.resp = Filled(@, m),
                                                       !.lastFrag = m.fnum]), <<rack>>)
          \/ ~(whole \/ last) /\ Handled(p, i, cr, << >>)
    /\ UNCHANGED <<created, queue>>

DISCONNECT(p, i, m) ==
    /\ m.cmd = "DISCONNECT"
    /\ Handled(p, i, IF known(p) THEN crecord_setState(rec[p], "TIMEDOUT") ELSE NoRecord,
               <<Control("DACK", m.seqno)>>)
    /\ UNCHANGED <<created, queue>>

DACK(p, i, m) == m.cmd = "DACK" /\ Acknowledged(p, i, m, "TIMEDOUT")

(* A fragment that is not the last: of a query, or of a response. *)
FRAGMENT(p, i, m) ==
    /\ m.cmd = "FRAGMENT"
    /\ LET cr == rec[p]
           isQ == StartsQuery(p, m) /\ m.fnum = 1
           isR == known(p) /\ cr.state \in {"QUERY_SENT", "AWAITING_RESPONSE"}
                           /\ m.seqno = cr.seqno /\ m.fnum = 1
           more == known(p) /\ cr.state = "FACK_SENT" /\ m.seqno = cr.seqno
                            /\ m.fnum - cr.lastFrag = 1
           old == known(p) /\ cr.state = "FACK_SENT" /\ m.seqno = cr.seqno
                           /\ m.fnum = cr.lastFrag
           fack == Message("FACK", m.seqno, m.fnum, m.nfrags, 0)
           accepted(r) == crecord_setState(crecord_setPayload([r EXCEPT !.lastFrag = m.fnum],
                                                              fack), "FACK_SENT")
       IN \/ /\ isQ \/ isR
             /\ Handled(p, i, accepted([cr EXCEPT !.seqno = m.seqno, !.resp = Copied(m)]), <<fack>>)
          \/ more /\ Handled(p, i, accepted([cr EXCEPT !.resp = Filled(@, m)]), <<fack>>)
          \/ old /\ Handled(p, i, crecord_setState(cr, cr.state), <<cr.pl>>)
          \/ ~(isQ \/ isR \/ more \/ old) /\ Handled(p, i, cr, << >>)
    /\ UNCHANGED <<created, queue>>

FACK(p, i, m) ==
    /\ m.cmd = "FACK"
    /\ Handled(p, i, IF /\ known(p) /\ m.seqno = rec[p].seqno
                        /\ rec[p].state = "FRAGMENT_SENT" /\ m.fnum = rec[p].lastFrag
                     THEN crecord_setState(rec[p], "FACK_RECEIVED") ELSE rec[p], << >>)
    /\ UNCHANGED <<created, queue>>

MutPingAlwaysAnswered(p, i, m) ==
    /\ m.cmd = "PING"
    /\ Handled(p, i, rec[p], <<Control("PACK", m.seqno)>>)
    /\ UNCHANGED <<created, queue>>

PING(p, i, m) ==
    /\ m.cmd = "PING"
    /\ Handled(p, i, rec[p], IF known(p) THEN <<Control("PACK", m.seqno)>> ELSE << >>)
    /\ UNCHANGED <<created, queue>>

PACK(p, i, m) ==
    /\ m.cmd = "PACK"
    /\ Handled(p, i, IF known(p) THEN crecord_setState(rec[p], rec[p].state) ELSE NoRecord,
               << >>)
    /\ UNCHANGED <<created, queue>>

MutSeqnoNotAdopted(p, i, m) ==
    /\ m.cmd = "SEQNO"
    /\ LET sack == Control("SACK", m.seqno)
       IN IF known(p) /\ rec[p].state \in {"IDLE", "RESPONSE_SENT"}
          THEN Handled(p, i, crecord_setState(crecord_setPayload(rec[p], sack), "IDLE"), <<sack>>)
          ELSE Handled(p, i, rec[p], << >>)
    /\ UNCHANGED <<created, queue>>

SEQNO(p, i, m) ==
    /\ m.cmd = "SEQNO"
    /\ LET sack == Control("SACK", m.seqno)
       IN IF known(p) /\ rec[p].state \in {"IDLE", "RESPONSE_SENT"}
          THEN Handled(p, i,
                       crecord_setState([crecord_setPayload(rec[p], sack)
                                            EXCEPT !.seqno = m.seqno], "IDLE"), <<sack>>)
          ELSE Handled(p, i, rec[p], << >>)
    /\ UNCHANGED <<created, queue>>

SACK(p, i, m) ==
    /\ m.cmd = "SACK"
    /\ Handled(p, i, IF known(p) /\ rec[p].state = "SEQNO_SENT"
                     THEN crecord_setState(rec[p], "IDLE") ELSE rec[p], << >>)
    /\ UNCHANGED <<created, queue>>

reader(p) ==
    /\ \E i \in Arriving(p) :
          LET m == net[p][i] IN
          \/ CONNECT(p, i, m) \/ CACK(p, i, m)
          \/ QUERY(p, i, m) \/ QACK(p, i, m)
          \/ RESPONSE(p, i, m) \/ RACK(p, i, m)
          \/ DISCONNECT(p, i, m) \/ DACK(p, i, m)
          \/ FRAGMENT(p, i, m) \/ FACK(p, i, m)
          \/ PING(p, i, m) \/ PACK(p, i, m)
          \/ SEQNO(p, i, m) \/ SACK(p, i, m)
    /\ UNCHANGED <<offered, app, worker, executed>>

(* The network loses a datagram. *)
lose(p) ==
    /\ \E i \in Arriving(p) : net' = [net EXCEPT ![p] = RemoveAt(@, i)]
    /\ UNCHANGED <<rec, offered, created, queue, app, worker, executed>>

(***************************************************************************)
(* The timer thread: one tick for the record of p.  A record that is       *)
(* TIMEDOUT is destroyed, with its endpoint, even if a thread that waits   *)
(* for TIMEDOUT has not run yet; PromptWakeup rules that out.              *)
(***************************************************************************)
appWaits == app.pc \in {"connect", "seqno", "fragment", "query", "disconnect"}

waited(p) == IF p = Client THEN appWaits ELSE worker.pc = "fragment"

timer(p) ==
    /\ known(p)
    /\ LET cr == rec[p]
           onList == scan_list(cr)
       IN \/ /\ onList = "purge"
             /\ PromptWakeup => ~waited(p)
             /\ rec' = [rec EXCEPT ![p] = NoRecord]
             /\ UNCHANGED net
          \/ /\ onList # "purge"
             /\ rec' = [rec EXCEPT ![p] = after_tick(cr)]
             /\ send_payload(p, CASE onList = "ping" -> <<Control("PING", cr.seqno)>>
                                  [] onList = "retry" -> <<cr.pl>>
                                  [] OTHER -> << >>)
    /\ UNCHANGED <<offered, created, queue, app, worker, executed>>
(***************************************************************************)
(* The client's thread.  rpc_connect, then calls one after the other, then *)
(* rpc_disconnect.  One client thread uses the connection: the record has  *)
(* room for the response of one call only.                                 *)
(***************************************************************************)
cState == rec[Client].state

Untouched == UNCHANGED <<offered, created, queue, worker, executed>>

(* Payload, datagram and state of something the client transmits. *)
ClientSends(cr, m, st) ==
    /\ rec' = [rec EXCEPT ![Client] = crecord_setState(crecord_setPayload(cr, m), st)]
    /\ send_payload(Client, <<m>>)

rpc_connect ==
    /\ app.pc = "start"
    /\ ClientSends(crecord_create(SeqnoStart, 0), Control("CONNECT", SeqnoStart), "CONNECT_SENT")
    /\ app' = [app EXCEPT !.pc = "connect"]
    /\ Untouched

MutConnectWaitsForIdle ==
    /\ app.pc = "connect"
    /\ known(Client)
    /\ cState = "IDLE"
    /\ app' = [app EXCEPT !.pc = "ready"]
    /\ UNCHANGED <<rec, net>>
    /\ Untouched

(* On TIMEDOUT it takes the record off the table and returns NULL. *)
rpc_connect_returns ==
    /\ app.pc = "connect"
    /\ known(Client)
    /\ \/ /\ cState = "IDLE"
          /\ app' = [app EXCEPT !.pc = "ready"]
          /\ UNCHANGED rec
       \/ /\ cState = "TIMEDOUT"
          /\ app' = [app EXCEPT !.pc = "over"]
          /\ rec' = [rec EXCEPT ![Client] = NoRecord]
    /\ UNCHANGED net
    /\ Untouched

(* Fragment fnum of the query of call k: the last one travels as QUERY. *)
SendQuery(cr, k, fnum) ==
    IF fnum < QueryFrags
    THEN /\ ClientSends([cr EXCEPT !.lastFrag = fnum],
                        Message("FRAGMENT", cr.seqno, fnum, QueryFrags, k), "FRAGMENT_SENT")
         /\ app' = [pc |-> "fragment", call |-> k, fnum |-> fnum, result |-> NoResult]
    ELSE /\ ClientSends(cr, Message("QUERY", cr.seqno, fnum, QueryFrags, k), "QUERY_SENT")
         /\ app' = [pc |-> "query", call |-> k, fnum |-> fnum, result |-> NoResult]

NextNumber(cr) == [cr EXCEPT !.seqno = @ + 1]

rpc_call ==
    /\ app.pc = "ready"
    /\ app.call < MaxCalls
    /\ LET cr == rec[Client]
           idle == known(Client) /\ cr.state = "IDLE"
           k == app.call + 1
       IN \/ /\ ~idle
             /\ app' = [app EXCEPT !.call = k, !.result = Fail]
             /\ UNCHANGED <<rec, net>>
          \/ /\ idle /\ cr.seqno >= SEQNO_LIMIT
             /\ ClientSends([cr EXCEPT !.seqno = SEQNO_START],
                            Control("SEQNO", SEQNO_START), "SEQNO_SENT")
             /\ app' = [pc |-> "seqno", call |-> k, fnum |-> 0, result |-> NoResult]
          \/ /\ idle /\ cr.seqno < SEQNO_LIMIT
             /\ SendQuery(NextNumber(cr), k, 1)
    /\ Untouched

(* Any wait of rpc_call may end with TIMEDOUT instead. *)
CallFails ==
    /\ cState = "TIMEDOUT"
    /\ app' = [app EXCEPT !.pc = "ready", !.result = Fail]
    /\ UNCHANGED <<rec, net>>

(* rpc_call after its wait for the SACK. *)
rpc_call_seqno ==
    /\ app.pc = "seqno" /\ known(Client)
    /\ \/ cState = "IDLE" /\ SendQuery(NextNumber(rec[Client]), app.call, 1)
       \/ CallFails
    /\ Untouched

(* rpc_call after its wait for the FACK of a fragment. *)
rpc_call_fragment ==
    /\ app.pc = "fragment" /\ known(Client)
    /\ \/ cState = "FACK_RECEIVED" /\ SendQuery(rec[Client], app.call, app.fnum + 1)
       \/ CallFails
    /\ Untouched

(* rpc_call after its wait for the response; the caller's buffer may be   *)
(* too small for it.                                                      *)
rpc_call_returns ==
    /\ app.pc = "query" /\ known(Client)
    /\ cState \in {"IDLE", "TIMEDOUT"}
    /\ \E fits \in BOOLEAN :
          app' = [app EXCEPT !.pc = IF cState = "IDLE" /\ rec[Client].resp = NULL
                                    THEN "over" ELSE "ready",
                             !.result = IF cState = "TIMEDOUT" THEN Fail
                                        ELSE IF rec[Client].resp = NULL THEN Crash
                                        ELSE IF fits THEN CallOf(rec[Client].resp, ResponseFrags)
                                        ELSE Fail]
    /\ rec' = [rec EXCEPT ![Client].resp = NULL]
    /\ UNCHANGED net
    /\ Untouched

rpc_disconnect ==
    /\ app.pc = "ready"
    /\ LET cr == rec[Client]
       IN \/ /\ known(Client)
             /\ ClientSends(cr, Control("DISCONNECT", cr.seqno), "DISCONNECT_SENT")
             /\ app' = [app EXCEPT !.pc = "disconnect"]
          \/ /\ ~known(Client)
             /\ app' = [app EXCEPT !.pc = "over"]
             /\ UNCHANGED <<rec, net>>
    /\ Untouched

rpc_disconnect_returns ==
    /\ app.pc = "disconnect" /\ known(Client)
    /\ cState = "TIMEDOUT"
    /\ app' = [app EXCEPT !.pc = "over"]
    /\ UNCHANGED <<rec, net>>
    /\ Untouched

(* A waiter whose record was destroyed under it reads freed memory: if it *)
(* still holds TIMEDOUT the call fails, otherwise the thread is lost.     *)
client_reads_freed ==
    /\ appWaits /\ ~known(Client)
    /\ app' = [app EXCEPT !.pc = IF @ \in {"connect", "disconnect"} THEN "over" ELSE "ready",
                          !.result = IF app.pc \in {"connect", "disconnect"} THEN @ ELSE Fail]
    /\ UNCHANGED <<rec, net>>
    /\ Untouched

(***************************************************************************)
(* The server's application: it offers the service and runs one worker.    *)
(***************************************************************************)
rpc_offer ==
    /\ ~offered
    /\ offered' = TRUE
    /\ UNCHANGED <<rec, net, created, queue, app, worker, executed>>

(* A buffer that is too small for the query (n = 0 is returned then) makes *)
(* no difference: the query is consumed and its sender known all the same. *)
rpc_query ==
    /\ worker.pc = "idle" /\ queue # << >>
    /\ LET q == Head(queue)
           k == CallOf(q.data, QueryFrags)
       IN /\ worker' = [pc |-> "work", ep |-> q.ep, call |-> k, fnum |-> 0]
          /\ executed' = Append(executed, [ep |-> q.ep, call |-> k])
    /\ queue' = Tail(queue)
    /\ UNCHANGED <<rec, net, offered, created, app>>

(* Fragment fnum of the response to call k: the last travels as RESPONSE. *)
SendResponse(cr, k, fnum) ==
    LET more == fnum < ResponseFrags
        m == Message(IF more THEN "FRAGMENT" ELSE "RESPONSE",
                     cr.seqno, fnum, ResponseFrags, k)
        r == IF more THEN [cr EXCEPT !.lastFrag = fnum] ELSE cr
    IN /\ rec' = [rec EXCEPT ![Server] =
                    crecord_setState(crecord_setPayload(r, m),
                                     IF more THEN "FRAGMENT_SENT" ELSE "RESPONSE_SENT")]
       /\ send_payload(Server, <<m>>)
       /\ worker' = [worker EXCEPT !.pc = IF more THEN "fragment" ELSE "idle", !.fnum = fnum]

(* Looking a record up through an endpoint whose record was destroyed     *)
(* reads freed memory, which may or may not still hold the address.       *)
rpc_response ==
    /\ worker.pc = "work"
    /\ LET live == known(Server) /\ rec[Server].id = worker.ep
           ready == known(Server) /\ rec[Server].state = "QACK_SENT"
       IN \/ ready /\ SendResponse(rec[Server], worker.call, 1)
          \/ /\ ~ready \/ ~live
             /\ worker' = [worker EXCEPT !.pc = "idle"]
             /\ UNCHANGED <<rec, net>>
    /\ UNCHANGED <<offered, created, queue, app, executed>>

MutResponseWaitsForFack ==
    /\ worker.pc = "fragment" /\ known(Server)
    /\ rec[Server].state = "FACK_RECEIVED"
    /\ SendResponse(rec[Server], worker.call, worker.fnum + 1)
    /\ UNCHANGED <<offered, created, queue, app, executed>>

(* rpc_response after its wait for the FACK of a fragment. *)
rpc_response_fragment ==
    /\ worker.pc = "fragment" /\ known(Server)
    /\ \/ /\ rec[Server].state = "FACK_RECEIVED"
          /\ SendResponse(rec[Server], worker.call, worker.fnum + 1)
       \/ /\ rec[Server].state = "TIMEDOUT"
          /\ worker' = [worker EXCEPT !.pc = "idle"]
          /\ UNCHANGED <<rec, net>>
    /\ UNCHANGED <<offered, created, queue, app, executed>>

worker_reads_freed ==
    /\ worker.pc = "fragment" /\ ~known(Server)
    /\ worker' = [worker EXCEPT !.pc = "idle"]
    /\ UNCHANGED <<rec, net, offered, created, queue, app, executed>>

-----------------------------------------------------------------------------
ClientStep == \/ rpc_connect \/ rpc_connect_returns
              \/ rpc_call \/ rpc_call_seqno \/ rpc_call_fragment \/ rpc_call_returns
              \/ rpc_disconnect \/ rpc_disconnect_returns
              \/ client_reads_freed

WorkerStep == rpc_query \/ rpc_response \/ rpc_response_fragment \/ worker_reads_freed

Next == \/ ClientStep \/ WorkerStep \/ rpc_offer
        \/ \E p \in Proc : reader(p) \/ lose(p) \/ timer(p)

(***************************************************************************)
(* Threads that can run do run: both readers and timers, the worker, and a *)
(* client thread whose wait is over.  Nothing makes the client make a call *)
(* and nothing makes the network deliver rather than lose.                 *)
(***************************************************************************)
ClientResumes == \/ rpc_connect_returns \/ rpc_call_seqno \/ rpc_call_fragment
                 \/ rpc_call_returns \/ rpc_disconnect_returns

Fairness == /\ \A p \in Proc : WF_vars(reader(p) \/ lose(p)) /\ WF_vars(timer(p))
            /\ WF_vars(ClientResumes)
            /\ WF_vars(WorkerStep)

Spec == Init /\ [][Next]_vars

FairSpec == Spec /\ Fairness

-----------------------------------------------------------------------------
Commands == {"CONNECT", "CACK", "QUERY", "QACK", "RESPONSE", "RACK", "DISCONNECT",
             "DACK", "FRAGMENT", "FACK", "PING", "PACK", "SEQNO", "SACK"}

Messages == [cmd : Commands, seqno : Nat, fnum : Nat, nfrags : Nat, body : 0 .. MaxCalls]

Buffers == Seq((0 .. MaxCalls) \X Nat)

Records == [id : Nat, seqno : Nat, state : States, pl : Messages, resp : Buffers,
            lastFrag : Nat, nattempts : Nat, ticks : Nat, ticksLeft : Nat,
            ticksTilPing : Nat, pingsTilPurge : Nat]

(* Every part of the state has its type. *)
TypeOK ==
    /\ rec \in [Proc -> Records \cup {NoRecord}]
    /\ net \in [Proc -> Seq(Messages)]
    /\ offered \in BOOLEAN
    /\ created \in Nat
    /\ queue \in Seq([ep : Nat, data : Buffers])
    /\ app \in [pc : {"start", "connect", "ready", "seqno", "fragment", "query",
                      "disconnect", "over"},
                call : 0 .. MaxCalls, fnum : Nat,
                result : (0 .. MaxCalls) \cup {NoResult, Fail, Crash}]
    /\ worker \in [pc : {"idle", "work", "fragment"}, ep : Nat,
                   call : 0 .. MaxCalls, fnum : Nat]
    /\ executed \in Seq([ep : Nat, call : 0 .. MaxCalls])

(* The promise of srpc.h, with the results the client has been given. *)
Calls == INSTANCE RemoteCall
           WITH made <- app.call, outcome <- app.result,
                executed <- [i \in 1 .. Len(executed) |-> executed[i].call]

(***************************************************************************)
(* Calls are executed at most once, and a successful call returns the      *)
(* complete response to that call: lost and duplicated queries, fragments, *)
(* acknowledgements and responses, retransmission and time-outs never      *)
(* show.                                                                   *)
(***************************************************************************)
KeepsCallPromise == Calls!RCSpec

(***************************************************************************)
(* Both sides count the calls alike.  When the client believes the         *)
(* connection idle and the server still has its record, the server is      *)
(* ready for the next sequence number; while a query is on its way, the    *)
(* server is at its number or the one before.  Otherwise this query, or    *)
(* every later one, would be ignored until it times out.                   *)
(***************************************************************************)
InStep ==
    (known(Client) /\ known(Server) /\ cState # "TIMEDOUT") =>
        /\ app.pc = "ready" /\ cState = "IDLE" =>
              /\ rec[Server].seqno = rec[Client].seqno
              /\ rec[Server].state \in {"IDLE", "RESPONSE_SENT", "TIMEDOUT"}
        /\ app.pc \in {"fragment", "query"} =>
              rec[Client].seqno - rec[Server].seqno \in {0, 1}

(***************************************************************************)
(* "upon successful return", what rpc_call hands back is the whole         *)
(* response to that call.  The network must keep order for this: a QACK    *)
(* that the first fragment of the response has overtaken sends the record  *)
(* from FACK_SENT back to AWAITING_RESPONSE, where the last fragment is    *)
(* taken for a whole response.                                             *)
(***************************************************************************)
OwnResponse == app.result \notin {NoResult, Fail} => app.result = app.call

(***************************************************************************)
(* No connection record of the server executes a call twice, or executes   *)
(* one that was not received whole, in whatever order datagrams arrive.    *)
(***************************************************************************)
OncePerRecord ==
    /\ \A i \in 1 .. Len(executed) : executed[i].call # 0
    /\ \A i, j \in 1 .. Len(executed) : executed[i] = executed[j] => i = j

(* A thread waiting for a state of its record still has the record. *)
WaiterHasRecord == /\ appWaits => known(Client)
                   /\ worker.pc = "fragment" => known(Server)

(***************************************************************************)
(* Every rpc_call returns: with a response, or because a retransmission or *)
(* the pings go unanswered.  The waits in it are all for states that some  *)
(* handler or the timer must bring about.                                  *)
(***************************************************************************)
CallReturns == app.pc \in {"seqno", "fragment", "query"}
                  ~> app.pc \notin {"seqno", "fragment", "query"}

(* Every rpc_connect returns, whether the service is offered or not. *)
ConnectReturns == app.pc = "connect" ~> app.pc # "connect"

(* Every rpc_disconnect returns: "DACK has been received or timed out". *)
DisconnectReturns == app.pc = "disconnect" ~> app.pc # "disconnect"

(* rpc_response returns, whatever becomes of the client. *)
ResponseReturns == worker.pc \in {"work", "fragment"} ~> worker.pc = "idle"

-----------------------------------------------------------------------------
(* What srpc.h lets a worker expect and the code does not guarantee.       *)

(***************************************************************************)
(* The sender information rpc_query returned stays valid until the worker  *)
(* has responded.                                                          *)
(***************************************************************************)
SenderStaysValid == worker.pc = "work" => known(Server) /\ rec[Server].id = worker.ep
=============================================================================
