-------------------------- MODULE ConnTimerProofs --------------------------
(***************************************************************************)
(* ConnTimer for any table, any constants whose doubled intervals fit an   *)
(* unsigned short, and any sequence of handlers and ticks: the counters    *)
(* never wrap, the schedules of retransmissions and pings are exact, and   *)
(* the timer gives up exactly at the deadline.                             *)
(***************************************************************************)
EXTENDS ConnTimer, TLAPS

(* What the schedules say of one record. *)
RecordOK(cr, h) == cr \in Records /\ h \in History /\ RetryOK(cr, h) /\ PingOK(cr, h)

IInv == TypeOK /\ RetrySchedule /\ PingSchedule

(* Decrementing a counter that has not reached zero does not wrap. *)
LEMMA DecPositive ==
  ASSUME NEW x \in Nat, x > 0
  PROVE  Dec(x) = x - 1
  BY DEF Dec

LEMMA Distribute ==
  ASSUME NEW a \in Nat, NEW b \in Nat
  PROVE  (a + 1) * b = a * b + b
  OBVIOUS

(* The states partition, and the fixed counters have their types. *)
LEMMA StateFacts ==
  /\ \A st \in States : st = "TIMEDOUT" \/ st \in Retrying \/ st \in Quiet
  /\ \A st \in Retrying : st # "TIMEDOUT" /\ st \notin Quiet /\ st \in States
  /\ \A st \in Quiet : st # "TIMEDOUT" /\ st \in States
  /\ "TIMEDOUT" \in States
  BY DEF States, Retrying, Quiet

LEMMA ConstantFacts ==
  /\ USHRT \in Nat /\ ATTEMPTS \in Nat /\ TICKS \in Nat
  /\ TICKS_BETWEEN_PINGS \in Nat /\ PINGS_BEFORE_PURGE \in Nat
  /\ ATTEMPTS \in 1 .. USHRT - 1 /\ TICKS \in 1 .. USHRT - 1
  /\ TICKS_BETWEEN_PINGS \in 1 .. USHRT - 1 /\ PINGS_BEFORE_PURGE \in 1 .. USHRT - 1
  BY CounterAssumption

LEMMA SetStateRecord ==
  ASSUME NEW cr \in Records, NEW st \in States
  PROVE  crecord_setState(cr, st) \in Records /\ crecord_setState(cr, st).state = st
<1>1. TICKS_BETWEEN_PINGS \in 0 .. USHRT - 1 /\ PINGS_BEFORE_PURGE \in 0 .. USHRT - 1
  BY ConstantFacts
<1> QED
  BY <1>1 DEF crecord_setState, Records

(* crecord_setState starts the ping count and leaves the retries alone. *)
LEMMA SetStateOK ==
  ASSUME NEW cr \in Records, NEW h \in History, NEW st \in States,
         st \in Retrying => (cr.state = st /\ RetryOK(cr, h))
  PROVE  RecordOK(crecord_setState(cr, st), [h EXCEPT !.quiet = 0])
<1> DEFINE c2 == crecord_setState(cr, st)
           h2 == [h EXCEPT !.quiet = 0]
<1>1. /\ c2.state = st /\ c2.nattempts = cr.nattempts /\ c2.ticks = cr.ticks
      /\ c2.ticksLeft = cr.ticksLeft
      /\ c2.ticksTilPing = TICKS_BETWEEN_PINGS
      /\ c2.pingsTilPurge = PINGS_BEFORE_PURGE
      /\ h2.elapsed = h.elapsed /\ h2.resends = h.resends /\ h2.quiet = 0
  BY DEF crecord_setState, Records, History
<1>2. c2 \in Records /\ h2 \in History
  <2>1. 0 \in Nat /\ TICKS_BETWEEN_PINGS \in 0 .. USHRT - 1
                  /\ PINGS_BEFORE_PURGE \in 0 .. USHRT - 1
    BY ConstantFacts
  <2> QED
    BY <2>1 DEF crecord_setState, Records, History
<1> HIDE DEF c2, h2
<1>3. RetryOK(c2, h2)
  BY <1>1 DEF RetryOK
<1>4. PingOK(c2, h2)
  <2>1. ((PINGS_BEFORE_PURGE - PINGS_BEFORE_PURGE) + 1) * TICKS_BETWEEN_PINGS
           = TICKS_BETWEEN_PINGS
    BY ConstantFacts
  <2> QED
    BY <2>1, <1>1, ConstantFacts DEF PingOK
<1> QED
  BY <1>2, <1>3, <1>4 DEF RecordOK, c2, h2

(* A fresh payload starts the retries as well. *)
LEMMA SetPayloadOK ==
  ASSUME NEW cr \in Records, NEW pl \in Payload, NEW st \in States
  PROVE  RecordOK(crecord_setState(crecord_setPayload(cr, pl), st), Restarted)
<1> DEFINE c2 == crecord_setState(crecord_setPayload(cr, pl), st)
<1>1. /\ c2.state = st /\ c2.nattempts = ATTEMPTS /\ c2.ticks = TICKS
      /\ c2.ticksLeft = TICKS
      /\ c2.ticksTilPing = TICKS_BETWEEN_PINGS
      /\ c2.pingsTilPurge = PINGS_BEFORE_PURGE
  BY DEF crecord_setState, crecord_setPayload, Records
<1>2. c2 \in Records /\ Restarted \in History
  <2>1. /\ TICKS_BETWEEN_PINGS \in 0 .. USHRT - 1 /\ PINGS_BEFORE_PURGE \in 0 .. USHRT - 1
        /\ ATTEMPTS \in 0 .. USHRT - 1 /\ TICKS \in 0 .. USHRT - 1
    BY ConstantFacts
  <2> QED
    BY <2>1 DEF crecord_setState, crecord_setPayload, Records, History, Restarted
<1> HIDE DEF c2
<1>3. RetryOK(c2, Restarted)
  BY <1>1, ConstantFacts, BackoffAssumption DEF RetryOK, Restarted
<1>4. PingOK(c2, Restarted)
  <2>1. ((PINGS_BEFORE_PURGE - PINGS_BEFORE_PURGE) + 1) * TICKS_BETWEEN_PINGS
           = TICKS_BETWEEN_PINGS
    BY ConstantFacts
  <2> QED
    BY <2>1, <1>1, ConstantFacts DEF PingOK, Restarted
<1> QED
  BY <1>2, <1>3, <1>4 DEF RecordOK, c2

(* So does a new record. *)
LEMMA FreshOK ==
  ASSUME NEW pl \in Payload, NEW st \in States
  PROVE  RecordOK(Fresh(pl, st), Restarted)
<1> DEFINE c2 == Fresh(pl, st)
<1>1. /\ c2.state = st /\ c2.nattempts = ATTEMPTS /\ c2.ticks = TICKS
      /\ c2.ticksLeft = TICKS
      /\ c2.ticksTilPing = TICKS_BETWEEN_PINGS
      /\ c2.pingsTilPurge = PINGS_BEFORE_PURGE
  BY DEF Fresh
<1>2. c2 \in Records /\ Restarted \in History
  <2>1. /\ TICKS_BETWEEN_PINGS \in 0 .. USHRT - 1 /\ PINGS_BEFORE_PURGE \in 0 .. USHRT - 1
        /\ ATTEMPTS \in 0 .. USHRT - 1 /\ TICKS \in 0 .. USHRT - 1
    BY ConstantFacts
  <2> QED
    BY <2>1 DEF Fresh, Records, History, Restarted
<1> HIDE DEF c2
<1>3. RetryOK(c2, Restarted)
  BY <1>1, ConstantFacts, BackoffAssumption DEF RetryOK, Restarted
<1>4. PingOK(c2, Restarted)
  <2>1. ((PINGS_BEFORE_PURGE - PINGS_BEFORE_PURGE) + 1) * TICKS_BETWEEN_PINGS
           = TICKS_BETWEEN_PINGS
    BY ConstantFacts
  <2> QED
    BY <2>1, <1>1, ConstantFacts DEF PingOK, Restarted
<1> QED
  BY <1>2, <1>3, <1>4 DEF RecordOK, c2

(* What the timer must have seen when it gives a record up. *)
AtDeadline(cr, h) ==
    IF cr.state \in Retrying
    THEN h.resends = ATTEMPTS - 1 /\ h.elapsed + TICKS = 2 * Backoff[1]
    ELSE h.quiet = PINGS_BEFORE_PURGE * TICKS_BETWEEN_PINGS

(* A tick of a retrying record: wait on, retransmit, or give up. *)
LEMMA RetryTick ==
  ASSUME NEW cr, NEW h, RecordOK(cr, h), cr.state \in Retrying
  PROVE  /\ RecordOK(after_tick(cr), Ticked(cr, h))
         /\ scan_list(cr) # "purge"
         /\ after_tick(cr).state = "TIMEDOUT" => AtDeadline(cr, Ticked(cr, h))
<1> DEFINE c2 == after_tick(cr)
           h2 == Ticked(cr, h)
<1>1. /\ cr \in Records /\ h \in History /\ RetryOK(cr, h)
      /\ cr.state # "TIMEDOUT" /\ cr.state \notin Quiet /\ cr.state \in States
  BY StateFacts DEF RecordOK
<1>2. /\ cr.nattempts \in Nat /\ cr.nattempts \in 1 .. ATTEMPTS
      /\ cr.ticks = Backoff[cr.nattempts] /\ cr.ticks \in 1 .. USHRT - 1
      /\ cr.ticksLeft \in Nat /\ cr.ticksLeft \in 1 .. cr.ticks
      /\ h.resends = ATTEMPTS - cr.nattempts
      /\ h.elapsed + cr.ticksLeft + TICKS = 2 * cr.ticks
      /\ h.elapsed \in Nat /\ h.resends \in Nat /\ h.quiet \in Nat
  BY <1>1, BackoffAssumption, ConstantFacts DEF RetryOK, History
<1>3. /\ h2 \in History /\ h2.elapsed = h.elapsed + 1 /\ h2.quiet = h.quiet
      /\ h2.resends = IF scan_list(cr) = "retry" THEN h.resends + 1 ELSE h.resends
  <2> DEFINE r == IF scan_list(cr) = "retry" THEN h.resends + 1 ELSE h.resends
  <2>1. r \in Nat /\ h.elapsed + 1 \in Nat /\ h \in History
    BY <1>1, <1>2
  <2>2. h2 = [h EXCEPT !.elapsed = h.elapsed + 1, !.resends = r]
    BY <1>1 DEF Ticked
  <2> HIDE DEF r, h2
  <2>3. h2 \in History /\ h2.elapsed = h.elapsed + 1 /\ h2.quiet = h.quiet /\ h2.resends = r
    BY <2>1, <2>2 DEF History
  <2> QED
    BY <2>3 DEF r
<1>4. Dec(cr.ticksLeft) = cr.ticksLeft - 1 /\ Dec(cr.nattempts) = cr.nattempts - 1
  BY <1>2, DecPositive
<1>5. CASE cr.ticksLeft > 1
  <2>1. scan_list(cr) = "none"
    BY <1>1, <1>2, <1>4, <1>5 DEF scan_list
  <2>2. c2 = [cr EXCEPT !.ticksLeft = cr.ticksLeft - 1]
    BY <1>1, <1>4, <2>1 DEF after_tick, scan_record
  <2>3. cr.ticksLeft - 1 \in 0 .. USHRT - 1 /\ cr.ticksLeft - 1 \in 1 .. cr.ticks
    BY <1>2, <1>5, ConstantFacts
  <2>4. /\ c2 \in Records /\ c2.state = cr.state /\ c2.nattempts = cr.nattempts
        /\ c2.ticks = cr.ticks /\ c2.ticksLeft = cr.ticksLeft - 1
    BY <1>1, <2>2, <2>3 DEF Records
  <2> HIDE DEF c2, h2
  <2>5. RetryOK(c2, h2) /\ PingOK(c2, h2)
    BY <1>1, <1>2, <1>3, <2>1, <2>3, <2>4, ConstantFacts DEF RetryOK, PingOK
  <2> QED
    BY <1>1, <1>3, <2>1, <2>4, <2>5 DEF RecordOK, c2, h2
<1>6. CASE cr.ticksLeft = 1 /\ cr.nattempts > 1
  <2>1. scan_list(cr) = "retry"
    BY <1>1, <1>2, <1>4, <1>6 DEF scan_list
  <2>2. /\ Backoff[cr.nattempts - 1] = 2 * cr.ticks
        /\ cr.nattempts - 1 \in 1 .. ATTEMPTS /\ cr.nattempts - 1 \in 0 .. USHRT - 1
    BY <1>2, <1>6, BackoffAssumption, ConstantFacts
  <2>3. 2 * cr.ticks \in 1 .. USHRT - 1
    BY <2>2, BackoffAssumption
  <2>4. Twice(cr.ticks) = 2 * cr.ticks
    BY <1>2, <2>3, ConstantFacts DEF Twice
  <2>5. c2 = [cr EXCEPT !.nattempts = cr.nattempts - 1,
                        !.ticks = 2 * cr.ticks, !.ticksLeft = 2 * cr.ticks]
    BY <1>1, <1>4, <2>1, <2>4 DEF after_tick, scan_record
  <2>6. 2 * cr.ticks \in 0 .. USHRT - 1
    BY <2>3, ConstantFacts
  <2>7. /\ c2 \in Records /\ c2.state = cr.state /\ c2.nattempts = cr.nattempts - 1
        /\ c2.ticks = 2 * cr.ticks /\ c2.ticksLeft = 2 * cr.ticks
    BY <1>1, <2>2, <2>5, <2>6 DEF Records
  <2> HIDE DEF c2, h2
  <2>8. RetryOK(c2, h2) /\ PingOK(c2, h2)
    BY <1>1, <1>2, <1>3, <1>6, <2>1, <2>2, <2>3, <2>7, ConstantFacts DEF RetryOK, PingOK
  <2> QED
    BY <1>1, <1>3, <2>1, <2>7, <2>8 DEF RecordOK, c2, h2
<1>7. CASE cr.ticksLeft = 1 /\ cr.nattempts = 1
  <2>1. scan_list(cr) = "timed"
    BY <1>1, <1>2, <1>4, <1>7 DEF scan_list
  <2>2. scan_record(cr) = [cr EXCEPT !.ticksLeft = 0, !.nattempts = 0]
    BY <1>1, <2>1 DEF scan_record
  <2>3. c2 = crecord_setState([cr EXCEPT !.ticksLeft = 0, !.nattempts = 0], "TIMEDOUT")
    BY <2>1, <2>2 DEF after_tick
  <2>4. 0 \in 0 .. USHRT - 1
    BY ConstantFacts
  <2>5. [cr EXCEPT !.ticksLeft = 0, !.nattempts = 0] \in Records
    BY <1>1, <2>4 DEF Records
  <2>6. c2 \in Records /\ c2.state = "TIMEDOUT"
    BY <2>3, <2>5, SetStateRecord, StateFacts
  <2> HIDE DEF c2, h2
  <2>7. RetryOK(c2, h2) /\ PingOK(c2, h2)
    BY <2>6, StateFacts DEF RetryOK, PingOK
  <2>8. AtDeadline(cr, h2)
    BY <1>2, <1>3, <1>7, <2>1, ConstantFacts DEF AtDeadline
  <2> QED
    BY <1>3, <2>1, <2>6, <2>7, <2>8 DEF RecordOK, c2, h2
<1> QED
  BY <1>2, <1>5, <1>6, <1>7, ConstantFacts

(* A tick of a quiet record: wait on, ping, or give up. *)
LEMMA QuietTick ==
  ASSUME NEW cr, NEW h, RecordOK(cr, h), cr.state \in Quiet
  PROVE  /\ RecordOK(after_tick(cr), Ticked(cr, h))
         /\ scan_list(cr) # "purge"
         /\ after_tick(cr).state = "TIMEDOUT" => AtDeadline(cr, Ticked(cr, h))
<1> DEFINE c2 == after_tick(cr)
           h2 == Ticked(cr, h)
           B  == PINGS_BEFORE_PURGE - cr.pingsTilPurge
<1>1. /\ cr \in Records /\ h \in History /\ PingOK(cr, h)
      /\ cr.state # "TIMEDOUT" /\ cr.state \notin Retrying /\ cr.state \in States
  BY StateFacts DEF RecordOK
<1>2. /\ cr.ticksTilPing \in Nat /\ cr.ticksTilPing \in 1 .. TICKS_BETWEEN_PINGS
      /\ cr.pingsTilPurge \in Nat /\ cr.pingsTilPurge \in 1 .. PINGS_BEFORE_PURGE
      /\ B \in Nat
      /\ h.quiet + cr.ticksTilPing = (B + 1) * TICKS_BETWEEN_PINGS
      /\ h.elapsed \in Nat /\ h.resends \in Nat /\ h.quiet \in Nat
  BY <1>1, ConstantFacts DEF PingOK, History
<1>3. h2 \in History /\ h2.quiet = h.quiet + 1
  BY <1>1, <1>2 DEF Ticked, History
<1>4. Dec(cr.ticksTilPing) = cr.ticksTilPing - 1 /\ Dec(cr.pingsTilPurge) = cr.pingsTilPurge - 1
  BY <1>2, DecPositive
<1> HIDE DEF B
<1>5. CASE cr.ticksTilPing > 1
  <2>1. scan_list(cr) = "none"
    BY <1>1, <1>2, <1>4, <1>5 DEF scan_list
  <2>2. c2 = [cr EXCEPT !.ticksTilPing = cr.ticksTilPing - 1]
    BY <1>1, <1>4, <2>1 DEF after_tick, scan_record
  <2>3. /\ cr.ticksTilPing - 1 \in 0 .. USHRT - 1
        /\ cr.ticksTilPing - 1 \in 1 .. TICKS_BETWEEN_PINGS
        /\ (h.quiet + 1) + (cr.ticksTilPing - 1) = h.quiet + cr.ticksTilPing
    BY <1>2, <1>5, ConstantFacts
  <2>4. /\ c2 \in Records /\ c2.state = cr.state /\ c2.pingsTilPurge = cr.pingsTilPurge
        /\ c2.ticksTilPing = cr.ticksTilPing - 1
    BY <1>1, <2>2, <2>3 DEF Records
  <2> HIDE DEF c2, h2
  <2>5. RetryOK(c2, h2) /\ PingOK(c2, h2)
    BY <1>1, <1>2, <1>3, <2>3, <2>4 DEF RetryOK, PingOK, B
  <2> QED
    BY <1>1, <1>3, <2>1, <2>4, <2>5 DEF RecordOK, c2, h2
<1>6. CASE cr.ticksTilPing = 1 /\ cr.pingsTilPurge > 1
  <2>1. scan_list(cr) = "ping"
    BY <1>1, <1>2, <1>4, <1>6 DEF scan_list
  <2>2. c2 = [cr EXCEPT !.ticksTilPing = TICKS_BETWEEN_PINGS,
                        !.pingsTilPurge = cr.pingsTilPurge - 1]
    BY <1>1, <1>4, <2>1 DEF after_tick, scan_record
  <2>3. /\ cr.pingsTilPurge - 1 \in 0 .. USHRT - 1 /\ TICKS_BETWEEN_PINGS \in 0 .. USHRT - 1
        /\ cr.pingsTilPurge - 1 \in 1 .. PINGS_BEFORE_PURGE
        /\ PINGS_BEFORE_PURGE - (cr.pingsTilPurge - 1) = B + 1
    BY <1>2, <1>6, ConstantFacts DEF B
  <2>4. /\ c2 \in Records /\ c2.state = cr.state /\ c2.pingsTilPurge = cr.pingsTilPurge - 1
        /\ c2.ticksTilPing = TICKS_BETWEEN_PINGS
    BY <1>1, <2>2, <2>3 DEF Records
  <2>5. ((B + 1) + 1) * TICKS_BETWEEN_PINGS = (B + 1) * TICKS_BETWEEN_PINGS + TICKS_BETWEEN_PINGS
    <3>1. B + 1 \in Nat
      BY <1>2
    <3> QED
      BY <3>1, Distribute, ConstantFacts
  <2>6. (h.quiet + 1) + TICKS_BETWEEN_PINGS = ((B + 1) + 1) * TICKS_BETWEEN_PINGS
    BY <1>2, <1>6, <2>5, ConstantFacts
  <2> HIDE DEF c2, h2
  <2>7. RetryOK(c2, h2) /\ PingOK(c2, h2)
    BY <1>1, <1>3, <2>3, <2>4, <2>6, ConstantFacts DEF RetryOK, PingOK
  <2> QED
    BY <1>1, <1>3, <2>1, <2>4, <2>7 DEF RecordOK, c2, h2
<1>7. CASE cr.ticksTilPing = 1 /\ cr.pingsTilPurge = 1
  <2>1. scan_list(cr) = "timed"
    BY <1>1, <1>2, <1>4, <1>7 DEF scan_list
  <2>2. scan_record(cr) = [cr EXCEPT !.ticksTilPing = 0, !.pingsTilPurge = 0]
    BY <1>1, <2>1 DEF scan_record
  <2>3. c2 = crecord_setState([cr EXCEPT !.ticksTilPing = 0, !.pingsTilPurge = 0], "TIMEDOUT")
    BY <2>1, <2>2 DEF after_tick
  <2>4. 0 \in 0 .. USHRT - 1
    BY ConstantFacts
  <2>5. [cr EXCEPT !.ticksTilPing = 0, !.pingsTilPurge = 0] \in Records
    BY <1>1, <2>4 DEF Records
  <2>6. c2 \in Records /\ c2.state = "TIMEDOUT"
    BY <2>3, <2>5, SetStateRecord, StateFacts
  <2>7. AtDeadline(cr, h2)
    <3>1. B + 1 = PINGS_BEFORE_PURGE
      BY <1>7, ConstantFacts DEF B
    <3> HIDE DEF h2
    <3> QED
      BY <1>1, <1>2, <1>3, <1>7, <3>1 DEF AtDeadline
  <2> HIDE DEF c2, h2
  <2>8. RetryOK(c2, h2) /\ PingOK(c2, h2)
    BY <2>6, StateFacts DEF RetryOK, PingOK
  <2> QED
    BY <1>3, <2>1, <2>6, <2>7, <2>8 DEF RecordOK, c2, h2
<1> QED
  BY <1>2, <1>5, <1>6, <1>7, ConstantFacts

(* A tick of the whole table. *)
LEMMA TickStep ==
  ASSUME IInv, timer
  PROVE  /\ IInv'
         /\ \A s \in inTable :
               (table[s].state # "TIMEDOUT" /\ table'[s].state = "TIMEDOUT")
                  => AtDeadline(table[s], since'[s])
<1>1. ASSUME NEW s \in Slot, s \in inTable, table[s].state # "TIMEDOUT"
      PROVE  /\ table'[s] = after_tick(table[s]) /\ since'[s] = Ticked(table[s], since[s])
             /\ RecordOK(table'[s], since'[s])
             /\ table'[s].state = "TIMEDOUT" => AtDeadline(table[s], since'[s])
  <2>1. table[s] \in Records /\ RecordOK(table[s], since[s])
    BY <1>1 DEF IInv, TypeOK, RetrySchedule, PingSchedule, RecordOK, inTable
  <2>2. table[s].state \in Retrying \/ table[s].state \in Quiet
    BY <1>1, <2>1, StateFacts DEF Records
  <2>3. /\ RecordOK(after_tick(table[s]), Ticked(table[s], since[s]))
        /\ scan_list(table[s]) # "purge"
        /\ after_tick(table[s]).state = "TIMEDOUT"
              => AtDeadline(table[s], Ticked(table[s], since[s]))
    BY <2>1, <2>2, RetryTick, QuietTick
  <2>4. table'[s] = after_tick(table[s]) /\ since'[s] = Ticked(table[s], since[s])
    BY <1>1, <2>3 DEF timer
  <2> QED
    BY <2>3, <2>4
<1>2. ASSUME NEW s \in Slot, s \in inTable, table[s].state = "TIMEDOUT"
      PROVE  table'[s] = None /\ since'[s] = since[s]
  <2>1. scan_list(table[s]) = "purge" /\ Ticked(table[s], since[s]) = since[s]
    BY <1>2, StateFacts DEF scan_list, Ticked
  <2> QED
    BY <1>2, <2>1 DEF timer
<1>3. ASSUME NEW s \in Slot, s \notin inTable
      PROVE  table'[s] = None /\ since'[s] = since[s]
  BY <1>3 DEF timer
<1>4. TypeOK'
  <2>1. ASSUME NEW s \in Slot
        PROVE  table'[s] \in Records \cup {None} /\ since'[s] \in History
    <3>1. since[s] \in History
      BY DEF IInv, TypeOK
    <3> QED
      BY <1>1, <1>2, <1>3, <3>1 DEF RecordOK
  <2>2. table' = [s \in Slot |-> table'[s]] /\ since' = [s \in Slot |-> since'[s]]
    BY DEF timer
  <2> QED
    BY <2>1, <2>2 DEF TypeOK
<1>5. \A s \in inTable' : RecordOK(table'[s], since'[s])
  BY <1>1, <1>2, <1>3 DEF inTable
<1> QED
  BY <1>1, <1>4, <1>5 DEF IInv, RetrySchedule, PingSchedule, RecordOK, inTable

(* A step of one slot keeps the invariant if the slot's new record fits. *)
LEMMA SlotStep ==
  ASSUME IInv, NEW s \in Slot, NEW cr, NEW h,
         table' = [table EXCEPT ![s] = cr], since' = [since EXCEPT ![s] = h],
         RecordOK(cr, h)
  PROVE  IInv'
<1>1. cr \in Records /\ h \in History /\ RetryOK(cr, h) /\ PingOK(cr, h)
  BY DEF RecordOK
<1>2. TypeOK'
  BY <1>1 DEF IInv, TypeOK
<1>3. table'[s] = cr /\ since'[s] = h
  BY DEF IInv, TypeOK
<1>4. \A t \in Slot : t # s => table'[t] = table[t] /\ since'[t] = since[t]
  BY DEF IInv, TypeOK
<1>5. RetrySchedule' /\ PingSchedule'
  BY <1>1, <1>3, <1>4 DEF IInv, RetrySchedule, PingSchedule, inTable
<1> QED
  BY <1>2, <1>5 DEF IInv

(* Every action keeps the invariant. *)
LEMMA Invariance ==
  IInv /\ [Next]_vars => IInv'
<1> SUFFICES ASSUME IInv, [Next]_vars
             PROVE  IInv'
  OBVIOUS
<1>1. ASSUME NEW s \in Slot, s \in inTable
      PROVE  table[s] \in Records /\ since[s] \in History
             /\ RecordOK(table[s], since[s]) /\ table[s].state \in States
  BY <1>1 DEF IInv, TypeOK, RetrySchedule, PingSchedule, RecordOK, inTable, Records
<1>2. ASSUME NEW s \in Slot, NEW pl \in Payload, NEW st \in {"CONNECT_SENT", "IDLE"},
             Insert(s, pl, st)
      PROVE  IInv'
  <2>1. st \in States
    BY DEF States, Retrying, Quiet
  <2>2. RecordOK(Fresh(pl, st), Restarted)
    BY <2>1, FreshOK
  <2> QED
    BY <1>2, <2>2, SlotStep DEF Insert
<1>3. ASSUME NEW s \in Slot, NEW pl \in Payload,
             NEW st \in Retrying \cup {"IDLE", "QACK_SENT", "FACK_SENT"},
             Transmit(s, pl, st)
      PROVE  IInv'
  <2>1. st \in States /\ table[s] \in Records
    BY <1>1, <1>3 DEF Transmit, inTable, States, Retrying, Quiet
  <2> DEFINE cr == crecord_setState(crecord_setPayload(table[s], pl), st)
  <2>2. RecordOK(cr, Restarted)
    BY <2>1, SetPayloadOK
  <2>3. table' = [table EXCEPT ![s] = cr] /\ since' = [since EXCEPT ![s] = Restarted]
    BY <1>3 DEF Transmit
  <2> HIDE DEF cr
  <2> QED
    BY <2>2, <2>3, SlotStep
<1>4. ASSUME NEW s \in Slot,
             NEW st \in {"IDLE", "AWAITING_RESPONSE", "FACK_RECEIVED", "TIMEDOUT"},
             Move(s, st)
      PROVE  IInv'
  <2>1. st \in States /\ st \notin Retrying /\ table[s] \in Records /\ since[s] \in History
    BY <1>1, <1>4 DEF Move, inTable, States, Retrying, Quiet
  <2> DEFINE cr == crecord_setState(table[s], st)
             h  == [since[s] EXCEPT !.quiet = 0]
  <2>2. RecordOK(cr, h)
    BY <2>1, SetStateOK
  <2>3. table' = [table EXCEPT ![s] = cr] /\ since' = [since EXCEPT ![s] = h]
    BY <1>4 DEF Move
  <2> HIDE DEF cr, h
  <2> QED
    BY <2>2, <2>3, SlotStep
<1>5. ASSUME NEW s \in Slot, Refresh(s)
      PROVE  IInv'
  <2>1. /\ table[s] \in Records /\ since[s] \in History /\ table[s].state \in States
        /\ RetryOK(table[s], since[s])
    BY <1>1, <1>5 DEF Refresh, inTable, RecordOK
  <2> DEFINE cr == crecord_setState(table[s], table[s].state)
             h  == [since[s] EXCEPT !.quiet = 0]
  <2>2. RecordOK(cr, h)
    BY <2>1, SetStateOK
  <2>3. table' = [table EXCEPT ![s] = cr] /\ since' = [since EXCEPT ![s] = h]
    BY <1>5 DEF Refresh
  <2> HIDE DEF cr, h
  <2> QED
    BY <2>2, <2>3, SlotStep
<1>6. ASSUME NEW s \in Slot, Abandon(s)
      PROVE  IInv'
  BY <1>6 DEF Abandon, IInv, TypeOK, RetrySchedule, PingSchedule, inTable
<1>7. CASE timer
  BY <1>7, TickStep
<1>8. CASE UNCHANGED vars
  BY <1>8 DEF vars, IInv, TypeOK, RetrySchedule, PingSchedule, inTable
<1> QED
  BY <1>2, <1>3, <1>4, <1>5, <1>6, <1>7, <1>8 DEF Next

LEMMA Initially ==
  Init => IInv
<1>1. ASSUME Init
      PROVE  TypeOK /\ inTable = {}
  BY <1>1 DEF Init, TypeOK, History, inTable
<1> QED
  BY <1>1 DEF IInv, RetrySchedule, PingSchedule

(* The counters of every record stay unsigned shorts, for any table. *)
THEOREM TypeCorrect == Spec => []TypeOK
<1>1. IInv => TypeOK
  BY DEF IInv
<1> QED
  BY Initially, Invariance, <1>1, PTL DEF Spec

(* ctable_scan's retransmissions keep to the backoff schedule. *)
THEOREM RetryCorrect == Spec => []RetrySchedule
<1>1. IInv => RetrySchedule
  BY DEF IInv
<1> QED
  BY Initially, Invariance, <1>1, PTL DEF Spec

(* ctable_scan's pings keep to theirs. *)
THEOREM PingCorrect == Spec => []PingSchedule
<1>1. IInv => PingSchedule
  BY DEF IInv
<1> QED
  BY Initially, Invariance, <1>1, PTL DEF Spec

(* timer() moves a record to TIMEDOUT exactly at its deadline. *)
THEOREM DeadlineCorrect == Spec => GivesUpAtDeadline
<1> DEFINE AtIt == timer => \A s \in inTable :
              (table[s].state # "TIMEDOUT" /\ table'[s].state = "TIMEDOUT") =>
                 IF table[s].state \in Retrying
                 THEN /\ since'[s].resends = ATTEMPTS - 1
                      /\ since'[s].elapsed + TICKS = 2 * Backoff[1]
                 ELSE since'[s].quiet = PINGS_BEFORE_PURGE * TICKS_BETWEEN_PINGS
<1>1. IInv => AtIt
  BY TickStep DEF AtDeadline
<1>2. IInv => [AtIt]_vars
  BY <1>1
<1> HIDE DEF AtIt
<1>3. Spec => [][AtIt]_vars
  BY Initially, Invariance, <1>2, PTL DEF Spec
<1> QED
  BY <1>3 DEF GivesUpAtDeadline, AtIt
=============================================================================
