------------------------------ MODULE CRecord ------------------------------
(***************************************************************************)
(* Connection records: the states of src/crecord.h, the operations of      *)
(* src/crecord.c as functions from record to record, and what one timer    *)
(* tick does to a record (ctable_scan of src/ctable.c, followed by the     *)
(* loops of timer() in src/srpc.c).  A record is any TLA+ record with the  *)
(* fields these operators name; the modules that use them add their own.   *)
(***************************************************************************)
EXTENDS Naturals

CONSTANTS ATTEMPTS,              \* transmissions before a record times out
          TICKS,                 \* ticks before the first retransmission
          TICKS_BETWEEN_PINGS,   \* ticks without a state change before a ping
          PINGS_BEFORE_PURGE,    \* such periods before a record times out
          USHRT                  \* the counters are unsigned shorts: 65536

(* Doubling the first interval once per attempt used up. *)
Backoff == [n \in 1 .. ATTEMPTS |-> TICKS * 2 ^ (ATTEMPTS - n)]

ASSUME CounterAssumption ==
    /\ USHRT \in Nat
    /\ ATTEMPTS \in 1 .. USHRT - 1
    /\ TICKS \in 1 .. USHRT - 1
    /\ TICKS_BETWEEN_PINGS \in 1 .. USHRT - 1
    /\ PINGS_BEFORE_PURGE \in 1 .. USHRT - 1

(* The doubled intervals fit an unsigned short; the rest is arithmetic.  *)
ASSUME BackoffAssumption ==
    /\ \A n \in 1 .. ATTEMPTS : Backoff[n] \in 1 .. USHRT - 1
    /\ Backoff[ATTEMPTS] = TICKS
    /\ \A n \in 1 .. ATTEMPTS : n > 1 => Backoff[n - 1] = 2 * Backoff[n]

(* The states in which ctable_scan counts down to a retransmission. *)
Retrying == {"CONNECT_SENT", "QUERY_SENT", "RESPONSE_SENT",
             "DISCONNECT_SENT", "FRAGMENT_SENT", "SEQNO_SENT"}

(* The states in which it counts down to a ping. *)
Quiet == {"IDLE", "QACK_SENT", "AWAITING_RESPONSE", "FACK_RECEIVED", "FACK_SENT"}

States == Retrying \cup Quiet \cup {"TIMEDOUT"}

(* --x, and x * 2, on an unsigned short *)
Dec(x) == IF x = 0 THEN USHRT - 1 ELSE x - 1
Twice(x) == IF 2 * x < USHRT THEN 2 * x ELSE 2 * x - USHRT

MutSetStateKeepsPings(cr, st) == [cr EXCEPT !.state = st]

(* The broadcast of stateChanged is the enabling of the waiters' steps. *)
crecord_setState(cr, st) ==
    [cr EXCEPT !.state = st,
               !.ticksTilPing = TICKS_BETWEEN_PINGS,
               !.pingsTilPurge = PINGS_BEFORE_PURGE]

MutSetPayloadKeepsTicks(cr, pl) ==
    [cr EXCEPT !.pl = pl, !.nattempts = ATTEMPTS, !.ticksLeft = cr.ticks]

(* Every caller passes ATTEMPTS and TICKS. *)
crecord_setPayload(cr, pl) ==
    [cr EXCEPT !.pl = pl, !.nattempts = ATTEMPTS, !.ticks = TICKS, !.ticksLeft = TICKS]

(***************************************************************************)
(* One tick of a record: the list ctable_scan threads it onto ("none" if   *)
(* on no list), and the record with its counters moved on.                 *)
(***************************************************************************)
scan_list(cr) ==
    CASE cr.state = "TIMEDOUT" -> "purge"
      [] cr.state \in Retrying ->
            IF Dec(cr.ticksLeft) # 0 THEN "none"
            ELSE IF Dec(cr.nattempts) = 0 THEN "timed" ELSE "retry"
      [] OTHER ->
            IF Dec(cr.ticksTilPing) # 0 THEN "none"
            ELSE IF Dec(cr.pingsTilPurge) = 0 THEN "timed" ELSE "ping"

scan_record(cr) ==
    CASE cr.state = "TIMEDOUT" -> cr
      [] cr.state \in Retrying /\ scan_list(cr) = "none" ->
            [cr EXCEPT !.ticksLeft = Dec(cr.ticksLeft)]
      [] cr.state \in Retrying /\ scan_list(cr) = "timed" ->
            [cr EXCEPT !.ticksLeft = 0, !.nattempts = 0]
      [] cr.state \in Retrying /\ scan_list(cr) = "retry" ->
            [cr EXCEPT !.nattempts = Dec(cr.nattempts),
                       !.ticks = Twice(cr.ticks),
                       !.ticksLeft = Twice(cr.ticks)]
      [] cr.state \in Quiet /\ scan_list(cr) = "none" ->
            [cr EXCEPT !.ticksTilPing = Dec(cr.ticksTilPing)]
      [] cr.state \in Quiet /\ scan_list(cr) = "timed" ->
            [cr EXCEPT !.ticksTilPing = 0, !.pingsTilPurge = 0]
      [] OTHER ->
            [cr EXCEPT !.ticksTilPing = TICKS_BETWEEN_PINGS,
                       !.pingsTilPurge = Dec(cr.pingsTilPurge)]

(* A record that is not purged, after the tick's "timed" loop. *)
after_tick(cr) ==
    IF scan_list(cr) = "timed" THEN crecord_setState(scan_record(cr), "TIMEDOUT")
                               ELSE scan_record(cr)
=============================================================================
