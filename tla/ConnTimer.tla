----------------------------- MODULE ConnTimer -----------------------------
(***************************************************************************)
(* The timer thread of src/srpc.c over the connection table: how long a    *)
(* record waits, how often it retransmits and pings, and when it is given  *)
(* up.  The message handlers and the API calls appear only through what    *)
(* they do to the timing of a record: which of crecord_setPayload and      *)
(* crecord_setState they call, and to which state they move.  They may do  *)
(* so from any state, which is more than srpc.c allows (module Srpc has    *)
(* the exact guards).                                                      *)
(*                                                                         *)
(* `since' holds history: for each record the ticks counted in retrying    *)
(* states and the retransmissions made since its payload was set, and the  *)
(* ticks counted in quiet states since its state was set.                  *)
(***************************************************************************)
EXTENDS CRecord

CONSTANTS Slot,      \* records the table may hold
          Payload,   \* messages
          None       \* an empty slot

Records == [state : States, pl : Payload,
            nattempts : 0 .. USHRT - 1, ticks : 0 .. USHRT - 1,
            ticksLeft : 0 .. USHRT - 1,
            ticksTilPing : 0 .. USHRT - 1, pingsTilPurge : 0 .. USHRT - 1]

ASSUME NoneAssumption == None \notin Records

VARIABLES table,     \* the connection table
          since      \* history, see above

vars == <<table, since>>

History == [elapsed : Nat, resends : Nat, quiet : Nat]

inTable == {s \in Slot : table[s] # None}

Init == /\ table = [s \in Slot |-> None]
        /\ since = [s \in Slot |-> [elapsed |-> 0, resends |-> 0, quiet |-> 0]]

(* A record with a fresh payload, moved to state st. *)
Fresh(pl, st) ==
    [state |-> st, pl |-> pl, nattempts |-> ATTEMPTS, ticks |-> TICKS,
     ticksLeft |-> TICKS, ticksTilPing |-> TICKS_BETWEEN_PINGS,
     pingsTilPurge |-> PINGS_BEFORE_PURGE]

Restarted == [elapsed |-> 0, resends |-> 0, quiet |-> 0]

(* rpc_connect and the CONNECT handler: crecord_create, crecord_setPayload, *)
(* crecord_setState, ctable_insert.                                         *)
Insert(s, pl, st) ==
    /\ table[s] = None
    /\ table' = [table EXCEPT ![s] = Fresh(pl, st)]
    /\ since' = [since EXCEPT ![s] = Restarted]

(* A call or a handler that sends something new: setPayload, setState. *)
Transmit(s, pl, st) ==
    /\ table[s] # None
    /\ table' = [table EXCEPT ![s] = crecord_setState(crecord_setPayload(@, pl), st)]
    /\ since' = [since EXCEPT ![s] = Restarted]

(* A handler that only moves on: an ack, or DISCONNECT. *)
Move(s, st) ==
    /\ table[s] # None
    /\ table' = [table EXCEPT ![s] = crecord_setState(@, st)]
    /\ since' = [since EXCEPT ![s].quiet = 0]

(* PACK, and a duplicate that is answered from the payload kept. *)
Refresh(s) ==
    /\ table[s] # None
    /\ table' = [table EXCEPT ![s] = crecord_setState(@, table[s].state)]
    /\ since' = [since EXCEPT ![s].quiet = 0]

(* rpc_connect after a time-out: ctable_remove. *)
Abandon(s) ==
    /\ table[s] # None
    /\ table[s].state = "TIMEDOUT"
    /\ table' = [table EXCEPT ![s] = None]
    /\ UNCHANGED since

(* The history of a record after a tick. *)
Ticked(cr, h) ==
    CASE cr.state = "TIMEDOUT" -> h
      [] cr.state \in Retrying ->
            [h EXCEPT !.elapsed = @ + 1,
                      !.resends = IF scan_list(cr) = "retry" THEN @ + 1 ELSE @]
      [] OTHER -> [h EXCEPT !.quiet = @ + 1]

MutTimerGivesUpEarly ==
    /\ table' = [s \in Slot |->
                    IF s \notin inTable \/ scan_list(table[s]) = "purge" THEN None
                    ELSE IF scan_list(table[s]) = "retry" /\ table[s].nattempts = 2
                         THEN crecord_setState(scan_record(table[s]), "TIMEDOUT")
                         ELSE after_tick(table[s])]
    /\ since' = [s \in Slot |-> IF s \in inTable THEN Ticked(table[s], since[s]) ELSE since[s]]

MutTimerNeverPurges ==
    /\ table' = [s \in Slot |-> IF s \in inTable THEN after_tick(table[s]) ELSE None]
    /\ since' = [s \in Slot |-> IF s \in inTable THEN Ticked(table[s], since[s]) ELSE since[s]]

(* One iteration of timer(): scan, purge, time out, ping, retransmit. *)
timer ==
    /\ table' = [s \in Slot |->
                    IF s \notin inTable \/ scan_list(table[s]) = "purge"
                    THEN None ELSE after_tick(table[s])]
    /\ since' = [s \in Slot |-> IF s \in inTable THEN Ticked(table[s], since[s]) ELSE since[s]]

Next == \/ \E s \in Slot :
              \/ \E pl \in Payload :
                    \/ \E st \in {"CONNECT_SENT", "IDLE"} : Insert(s, pl, st)
                    \/ \E st \in Retrying \cup {"IDLE", "QACK_SENT", "FACK_SENT"} :
                          Transmit(s, pl, st)
              \/ \E st \in {"IDLE", "AWAITING_RESPONSE", "FACK_RECEIVED", "TIMEDOUT"} :
                    Move(s, st)
              \/ Refresh(s)
              \/ Abandon(s)
        \/ timer

(* The timer thread never stops. *)
Spec == Init /\ [][Next]_vars /\ WF_vars(timer)

-----------------------------------------------------------------------------
(* Every record in the table has its type: all counters fit 16 bits. *)
TypeOK == /\ table \in [Slot -> Records \cup {None}]
          /\ since \in [Slot -> History]

(* A retrying record is where the ticks of its history put it. *)
RetryOK(cr, h) ==
    cr.state \in Retrying =>
        /\ cr.nattempts \in 1 .. ATTEMPTS
        /\ cr.ticks = Backoff[cr.nattempts]
        /\ cr.ticksLeft \in 1 .. cr.ticks
        /\ h.resends = ATTEMPTS - cr.nattempts
        /\ h.elapsed + cr.ticksLeft + TICKS = 2 * cr.ticks

(* So is a quiet one. *)
PingOK(cr, h) ==
    cr.state \in Quiet =>
        /\ cr.ticksTilPing \in 1 .. TICKS_BETWEEN_PINGS
        /\ cr.pingsTilPurge \in 1 .. PINGS_BEFORE_PURGE
        /\ h.quiet + cr.ticksTilPing
              = ((PINGS_BEFORE_PURGE - cr.pingsTilPurge) + 1) * TICKS_BETWEEN_PINGS

(***************************************************************************)
(* The schedule of retransmissions.  While a record retries, its counters  *)
(* have not wrapped, the interval is TICKS doubled once per attempt used   *)
(* up, one message went out per attempt used up, and the ticks that have   *)
(* passed are exactly those of the intervals behind it - whatever pings    *)
(* or duplicate messages did to the record in between.                     *)
(***************************************************************************)
RetrySchedule == \A s \in inTable : RetryOK(table[s], since[s])

(***************************************************************************)
(* The schedule of pings while a record is quiet: the counters have not    *)
(* wrapped, and any state change starts the count again.                   *)
(***************************************************************************)
PingSchedule == \A s \in inTable : PingOK(table[s], since[s])

(***************************************************************************)
(* The timer gives a record up exactly at its deadline: a retrying record  *)
(* after ATTEMPTS transmissions and TICKS * (2^ATTEMPTS - 1) ticks, a      *)
(* quiet one after PINGS_BEFORE_PURGE periods without any state change.    *)
(***************************************************************************)
GivesUpAtDeadline ==
    [][timer => \A s \in inTable :
          (table[s].state # "TIMEDOUT" /\ table'[s].state = "TIMEDOUT") =>
             IF table[s].state \in Retrying
             THEN /\ since'[s].resends = ATTEMPTS - 1
                  /\ since'[s].elapsed + TICKS = 2 * Backoff[1]
             ELSE since'[s].quiet = PINGS_BEFORE_PURGE * TICKS_BETWEEN_PINGS]_vars

(***************************************************************************)
(* When handlers and calls stop touching the table, the timer empties it:  *)
(* every record reaches its deadline and the tick after purges it.         *)
(***************************************************************************)
SilentTableEmpties == <>[][timer]_vars => <>[](inTable = {})

-----------------------------------------------------------------------------
(* What a comment says and the code does not do.                            *)

(* ctable.h's comment on ctable_scan names the states it retransmits in. *)
DocumentedRetrying == {"CONNECT_SENT", "QUERY_SENT", "RESPONSE_SENT",
                       "DISCONNECT_SENT", "FRAGMENT_SENT"}

(* What that comment says: every other state is pinged, not retransmitted. *)
RetriesOnlyAsDocumented ==
    [][timer => \A s \in inTable :
          since'[s].resends > since[s].resends => table[s].state \in DocumentedRetrying]_vars
=============================================================================
