# Verification of hwdb-opendpi

TLA+ models, TLC runs and TLAPS proofs for the code of this repository: a packet
logger (`dpilogger.c`) with the protocol detection (`opendpi/`) and the hash tables
(`libhashish/`) it uses, a persistence client of the Homework database
(`dpipersist.c`), and the small RPC system over UDP that the client is built on
(`srpc.c`, `ctable.c`, `crecord.c`, `stable.c`, `endpoint.c`, `tslist.c`).

    tlc -workers 2 -config TSList.cfg TSList       one run
    tlapm TSListProofs.tla                         one module's proofs

## 1. Inventory

### Components, their state and their operations

| Component | Source | State | Operations |
|---|---|---|---|
| Thread-safe list | `tslist.c` | head, tail, count, heap cells, a mutex, the condition `nonempty` | `tsl_create`, `tsl_append`, `tsl_prepend`, `tsl_remove` |
| Connection record | `crecord.c` | state, sequence number, retained payload, attempts, ticks, ping counters, response buffer, last fragment | `crecord_create`, `_setState`, `_setPayload`, `_waitForState`, `_destroy`, getters and setters |
| Connection table | `ctable.c`, `endpoint.c` | hash buckets of records keyed by endpoint (address, subport), the counter of subports, one mutex | `ctable_insert`, `_lookup`, `_remove`, `_scan`, `_purge`, `_newSubport` |
| RPC engine | `srpc.c` | a reader and a timer thread per process; no other state of its own | fourteen message handlers, the timer's tick, `rpc_connect`, `rpc_call`, `rpc_disconnect`, `rpc_offer`, `rpc_query`, `rpc_response`; `rpc_suspend`, `rpc_resume`, `rpc_reinit` around `fork` |
| Service table | `stable.c` | buckets of service records (name and queue of queries), a mutex of its own | `stable_create`, `stable_lookup`, `stable_remove` |
| Persistent store client | `dpipersist.c` | a Berkeley DB handle, environment and mutex, `must_exit`, the last timestamp stored | set-up, poll and store, clean-up, signal handler, rotation thread |
| Flow logger | `dpilogger.c` | flow table, host table, time of the last cleaning | `process_packet` with `get_id`, `get_osdpi_flow`, `garbadge_collect_osdpi_flows` |
| Hash tables | `libhashish/lib` | buckets kept by one of nine collision engines (lists, arrays, red-black trees), a counter per bucket and one for all; an iterator's place and its copy of a bucket | `hi_create`, `hi_get`, `hi_insert`, `hi_remove`, `hi_rehash`, `hi_iterator_create`, `_reset`, `_getnext`, `_fini` |
| Protocol detection | `opendpi/src/lib` | per flow: verdict, excluded protocols, expected sequence numbers, packet counters, a stage per dissector; per host: protocols seen, time stamps and ports announced; the registered callbacks | `ipoque_set_protocol_detection_bitmask2`, `ipoque_detection_process_packet`: header parsing, connection tracking, the dissectors behind 83 callbacks |
| Allocation | `mem.c` | none | logging wrappers of `malloc` and `free` |

### How they interact

* `dpipersist` calls `rpc_connect` and `rpc_call`; a server calls `rpc_offer`,
  `rpc_query` and `rpc_response`. Both sides run the same reader and timer.
* API calls, reader and timer share the connection table under one mutex. A call
  that waits (`crecord_waitForState`) gives the mutex up and is woken by a
  broadcast when a handler or the timer sets a state.
* The reader puts accepted queries into the service's thread-safe list; workers
  take them out with `rpc_query`. What a worker gets as *sender* is a pointer to
  the endpoint of the connection record.
* `CONNECT` looks the service up in the service table, under the other mutex,
  before it makes a record.
* `dpipersist`'s two threads share the database handle under a Berkeley DB mutex.
* `dpilogger` is sequential: libpcap calls `process_packet` per packet. It keeps flows
  and hosts in two libhashish tables with the list engine, cleans the flows with an
  iterator while it removes entries, and passes every packet, with the records of its
  flow and hosts, to `ipoque_detection_process_packet`.
* OpenDPI's dissectors interact through the flow: each may set the verdict or exclude
  its own protocol, and registered callbacks are skipped by either. They interact
  through the hosts too: an FTP control connection lets a later connection be
  recognised as its data.

### What is hard

Datagrams are lost, duplicated by retransmission, and possibly reordered, and
handlers look at sequence numbers more than at states (`srpc.c`). Waits have no
time-out of their own. The timer frees records that other threads may still refer
to. Counters are unsigned shorts decremented before they are compared with zero.
Locks are released between a look-up and an insertion (`stable.c`), or not released
on an error path (`dpipersist.c`). Idle times are unsigned differences
(`dpilogger.c`). Retransmissions are told from losses by one unsigned comparison of
sequence numbers, and some eighty dissectors share a flow, each with stages that
advance over packets that may be repeated, reordered or missing (`opendpi/`). Tables
change while they are iterated, and are rebalanced, doubled and rehashed under their
users (`libhashish/`). PROJECT.json lists every such place under `hazards`, with the
properties that would notice it going wrong.

### What makes each part correct

* List: the pointers are a list, nothing is freed in use, no wake-up is lost, and
  callers see a FIFO queue.
* Timer: retransmissions and pings follow the schedule, and a peer is declared dead
  at the deadline, never before or after.
* RPC: a call is executed at most once, a successful call returns its own complete
  response, both sides stay in step, and every API call returns.
* Tables: what is in use, and nothing else, is found, under the right key.
* Persistence: stored records are an unbroken run, put into open files; asked to
  leave, the process leaves.
* Flow logger: flows count their packets, and leave the table neither early nor late.
* Hash tables: a dictionary to the caller whatever the engine, iterations that are
  complete, trees that stay balanced, nothing undefined.
* Protocol detection: packets are counted and ordered correctly, and a verdict takes
  its evidence, comes within the dissector's patience, is kept, reported and followed.

## 2. Modules

    FifoQueue <--refines-- TSList <-- TSListProofs
    CRecord <-- ConnTimer <-- ConnTimerProofs
            <-- Srpc --refines--> RemoteCall
                Srpc <-- SrpcProofs
    ConnTable + ServiceTable <-- Tables <-- MCTables, TablesProofs
    DpiPersist <-- DpiPersistProofs
    FlowTable <-- MCFlowTable, FlowTableProofs
    RedBlackTree <-- HashTable --refines--> Dictionary
                     HashTable <-- MCHashTable
    DpiFlow <-- DpiRegistry <-- Detection
    DpiFlow <-- DpiServices, DpiGames, DpiMedia, DpiSharing, DpiMail, DpiChat, DpiHttp
    Detection + the seven dissector modules <-- OpenDPI <-- MCDetection, DetectionProofs
    Chains <-- ConnTable, DpiRegistry, NumberFacts
    NumberFacts <-- DetectionProofs, DpiPersistProofs, FlowTableProofs, TablesProofs

`PROJECT.json`, `map`, gives for each definition the lines it models. Definitions
called `Mut...`, or described as a form of the definition that follows with a slip in
it, are plausible errors; substituting one for the other makes the property named under
`mutants` fail.

**TSList** (`tslist.c`). One action per stretch between lock and unlock.
`tsl_remove` is `cond_wait`, `unlink` and `finish`: the test of `count`, the
unlinking, and the copying and freeing that happen after the unlock. A signalled
consumer is *woken* and takes the mutex in a later step; others may overtake it.
Wake-ups without a signal, which POSIX allows, are modelled. **FifoQueue** is what
callers are promised.

**CRecord** (`crecord.c`, `ctable_scan`). The operations on a record as functions
from record to record, and what one tick does to it: `scan_list` is the list
`ctable_scan` threads the record on, `scan_record` its counters, `after_tick` both
with the time-out applied. Unsigned shorts wrap (`Dec`, `Twice`). Both modules below
use it, so that the schedule and the protocol cannot drift apart.

**ConnTimer** (`timer()` in `srpc.c` over `ctable_scan`). Handlers and calls appear
only through their effect on timing, from any state: a superset of what `srpc.c`
does. `since` is history, the ticks really counted, against which the counters are
compared.

**Srpc** (`srpc.c`). A client and a server process with one connection, one action
per command handler (`CONNECT` ... `SACK`), one per tick, and one per stretch of an
API call between two waits, all of which hold the table's mutex in the code. A
handler that ignores a datagram is a disjunct of its own. A payload is abstracted to
which fragment of which call it carries; a buffer is the sequence of fragments in
it, with `Junk` for memory that was not written. `Capacity` bounds the datagrams in
flight: one that finds no room is lost. Reading freed memory is a choice among
outcomes (`client_reads_freed`, `worker_reads_freed`, `rpc_response`). **RemoteCall**
is what `srpc.h` promises.

**ConnTable** (`ctable.c`, `endpoint.c`) has the buckets, keys and subports, with the
widths of pid, counter, `int` and `unsigned long` as constants; **ServiceTable**
(`stable.c`) has the two lock acquisitions of `stable_create` as two actions, and the hash
as it is computed: names are sequences of signed chars, summed in an int that wraps.
A look-up whose hash is negative reads in front of the table (`lookup_in_front`); what
follows is undefined and the specification ends there (`astray`).
**Tables** composes them: an offer is a step of the service table, time-outs and
outgoing connections are steps of the connection table, and a `CONNECT` is a step of
both.

**DpiPersist** (`dpipersist.c`). `main`'s set-up steps with the label each jumps to on
failure, the loop, the clean-up falling through its labels down to `rpc_disconnect`
(which returns, if it does, by `disconnected`), the rotation thread with
each Berkeley DB call able to fail, and signals. Using a closed or missing handle or a freed
or missing mutex may crash or do nothing. With `WakesDuringSetup` a rotation may come
before the set-up is complete. Flow records are numbers in timestamp order.

**FlowTable** (`dpilogger.c`). One action, `process_packet`, with the clean-up that is
part of it. Keys are the records the key strings are formatted from. Counters and
times are `uint32_t`; `WORD` is small enough in the run for byte counts to wrap.

**HashTable** (`libhashish/lib`). A client is chosen with the table: engine, sizes, keys,
and which calls it makes. Every call is one action, as one thread uses a table; what a
call may return and leave behind is an operator of the table (`InsertResults`,
`hi_rehash_outcomes`). The data structures are kept as the code has them: list order,
array slots with their holes, and the nodes, colours and parents of the trees in
**RedBlackTree**, where the mirrored halves of the code are one definition with the side
as a parameter. Memory that is used before it is written is `Junk` or a choice; a null
dereference, a division by zero or a write to freed memory ends the program
(`crashed`). The second hash of the `_HASH` engines is never stored by
the code, so whether a comparison with it succeeds is chosen when the entry is made.
`walk` is history, the keys an iterator owes and has returned. **Dictionary** is what a
caller is promised.

**Detection** (`ipq_main.c`). A packet arrives (`process_packet`: parsing, the reset by a
SYN, tracking, the choice of the buffer of callbacks), each callback is a step, and the
packet returns. The dissectors are the constant `Dissect`, so that what is proved of the
tracking holds for any of them. Positions in the byte streams are counted without
a limit (`edge`) next to the 32-bit numbers the code keeps. **DpiFlow** has the fields of a
flow and the verdicts `Detect`, `Exclude` and `Mark`; **DpiRegistry** the callbacks in the
order of `ipoque_set_protocol_detection_bitmask2`, with the protocols, packets and
exclusions each is registered for. The dissectors of `lib/protocols` are grouped by what
they are about: **DpiServices** (DNS, SSH, SSL, databases, ...), **DpiGames**, **DpiMedia**,
**DpiSharing** (peer to peer), **DpiMail** (with FTP and Usenet), **DpiChat** and **DpiHttp**. Each is
a function from the flow and the packet to the flow, with all of its stages, limits,
orders of tests and early returns. A payload is abstracted to the set of the tests it
passes (`p.has`) and its length; a test of bytes is membership of a name for that test.
**OpenDPI** binds the dissectors to the callbacks and states the properties of verdicts.
**Chains** has what the buckets of the connection table and the buffers of callbacks share: a
sequence walked from its head, of which some members are left out.

## 3. Runs

| Run | Distinct states | Shows |
|---|---|---|
| `list` | 38 000 | pointers, ownership, wake-ups, refinement of the queue, nobody sleeps on |
| `timer` | 9 400 | schedules with the real `ATTEMPTS` and `TICKS`; an untouched table empties |
| `calls` | 2.1 million | two calls, query and response in two fragments, with a reset of sequence numbers between them and threads that may wake up late: in step, at most once, own response |
| `reordered` | 230 000 | at most once per record of the server when datagrams overtake each other, with queries and responses of one datagram |
| `returns` | 64 000 | `rpc_connect`, `rpc_call` and `rpc_response` return |
| `tables` | 400 000 | both tables hold and find what they should, also with a name whose hash is negative, until it is looked up |
| `persist` | 24 000 | storage is unbroken and into open files; asked to leave, the main thread closes its files unless a rotation failed |
| `flows` | 200 000 | accounting and leaving of flows |
| `detection` | 610 000 | tracking, and the verdicts of all registered dissectors |
| `hash` | 300 000 | counters, balance, iterations, undefined behaviour, refinement of a dictionary |
| `disconnect_stuck` | violation | see section 6 |
| `waiter_freed` | violation | see section 6 |

The type invariants of `TSList`, `ConnTimer`, `DpiPersist`, `FlowTable` and `Detection` are
theorems and not checked again; `Srpc`'s is a theorem and an invariant of `calls`, and those
of the two tables and of `HashTable` are conjuncts of `HoldsLive`, `OffersAreFound` and
`Accounted`, the first two of which are theorems.

### Bounds, and why they are enough

* `list`: three consumers are needed for one to overtake another's wake-up while a
  third sleeps; three cells for a list with a first, middle and last element.
* `timer`: the real `ATTEMPTS = 7` and `TICKS = 2`, and the real counter width. The
  periods between pings, and their number, are three, which has a first, a middle
  and a last one; records do not influence each other, so one slot is enough.
* The `Srpc` runs shorten the schedule (`ATTEMPTS = 2`, `TICKS = 1`, pings every tick):
  every message still has a first transmission, a retransmission and a time-out,
  every wait can be pinged, and a tick can come between any two other steps. Two
  datagrams per direction let a duplicate be in flight with what follows it. Two
  calls with `SEQNO_LIMIT = 2` put a reset between them; two fragments have a first
  and a last one. `returns` has one datagram per direction, to keep the liveness
  check short; with `Capacity = 2` its three properties hold too (518 000 states, some
  minutes with `-lncheck final`).
* `tables`: two addresses that hash to one bucket, two subports, three records, so
  that several records of one chain time out at a tick; two names sharing a bucket,
  a third whose hash overflows an int of 11 bits to a negative number, two threads
  offering and three service records. The counter's limit is not reached here; section 6.
  Permutations of threads and of heap cells are symmetries: no definition tells them
  apart and no liveness property is checked.
* `persist`: three files (two rotations) and three records, so that a batch can be
  cut by a failing put and resumed in another file. Rotations come after the set-up, as
  the first is at least a second away; section 6 has what happens otherwise.
* `flows`: times beyond both time-outs together; both directions of a conversation,
  a second one with swapped ports, another protocol, and a host talking to itself.
* `detection`: 36 scenarios, each with the protocols configured, the kinds of packets two
  hosts exchange, and how much is lost, repeated or cut; together they take every
  callback, and every branch of the next-state relation. Sequence numbers are 16 bits wide and start shortly
  before the wrap in some scenarios; the window is 4 bytes, so that losses below and
  beyond it happen. `MAX_PACKET_COUNTER` is 14, above the limits in `Decided`;
  the limits of IRC (20, 30 and 70), PPLive (45) and MSN (100) are not reached.
* `hash`: seven keys in one tree meet every case of rebalancing at insertion and removal;
  tables of one to three buckets hold collisions and empty buckets; arrays start with one
  slot, so that they are doubled. Two clients are refused by `hi_create`. `PastEnd` lets an
  exhausted iterator be asked twice more.

Deadlock is not checked where the system may stop: when the client has finished, the
process has ended or crashed, or the bound on packets or connections is used up.

### Fairness

Weak fairness of threads only. `TSList`: a consumer that can run does. `ConnTimer`:
the timer thread never stops. `Srpc`: readers, timers, the worker, and a client
thread whose wait is over run; the reader's fairness is shared with losing, so the
network may lose every datagram, and nothing makes the client call. The `returns` run
assumes that woken threads run within a tick (`PromptWakeup`) and that the network
keeps order; both assumptions matter, see section 6. `DpiPersist`: both threads run,
nothing makes a rotation or a signal come; `rpc_call` returns, which `returns` shows for a
network that keeps order. That `rpc_disconnect` returns is not assumed, as it may not
(`disconnect_stuck`): `ClosesUnlessRotationFails` is about the files, and ends before it.

## 4. Proofs

For all values of the constants that satisfy the named assumptions:

* **TSListProofs**: `TypeCorrect`, `ChainCorrect`, `OwnershipCorrect`, `WakeupCorrect`,
  `ListImplementsQueue`, for any cells, items and finite set of consumers
  (`CellAssumption`, `ItemAssumption`: `NULL` is neither). The inductive invariant is
  `TypeOK /\ Chain /\ Ownership`: `Chain` alone is not inductive, as appending must not
  reuse a linked cell, which is what `Ownership` says, and `Ownership` needs `Chain` for
  the head to be the only cell that is unlinked. `NoLostWakeup` is inductive relative
  to these, with cardinality facts for a consumer that joins or leaves `woken`. The
  refinement uses lemmas on the items of a sequence of cells (`ItemsOf...`), one per
  way the sequence changes.
* **ConnTimerProofs**: `TypeCorrect`, `RetryCorrect`, `PingCorrect`, `DeadlineCorrect`, for
  any table and constants with `CounterAssumption` and `BackoffAssumption` (the doubled
  intervals fit an unsigned short). `TypeOK` alone does not exclude that a counter is
  zero before it is decremented; `RetrySchedule` and `PingSchedule` do, by tying each
  counter to the ticks counted, and they are what makes the invariant inductive. The
  case analysis is one lemma per kind of state (`RetryTick`, `QuietTick`).
* **SrpcProofs**: `TypeCorrect`, for any schedule, fragments, capacity and order of
  delivery: whatever a late, repeated or overtaking datagram makes a handler do, every
  record, buffer and datagram stays one the code can make, memory that was not written
  included. And `OnceCorrect`: no record of the server executes a call twice or in part,
  for any number of calls, if `ShortCalls` holds: queries of one datagram, and sequence
  numbers that need no reset. Datagrams may be lost, repeated and reordered, records may
  time out and be made again, and threads may wake up late. The inductive invariant
  `OInv` adds to the types that a larger sequence number belongs to a later call among
  the queries in flight and the one the client retains (`DataOrdered`), that what a
  record has accepted is increasing (`LogOrdered`), and that what has a number above the
  record's belongs to a call later than all it has accepted (`Ahead`). Every handler is
  reduced to which datagrams it adds (`Grows`). Both parts of `ShortCalls` are needed for
  this argument: with two fragments the property is false when datagrams overtake
  each other (section 6), and after a reset a smaller number belongs to a later call.
  On a network that keeps order (`InOrder`, again without resets: the limit is a billion
  in the code), queries and responses of any number of fragments: `InStepCorrect`, `OwnResponseCorrect` and
  `PromiseCorrect`, the refinement of `RemoteCall`. Here records may also be purged and
  made again, and at-most-once is over all of them. The inductive invariant
  `CallInv` is about the *stage* of a call, the number of fragments of query and response
  that have gone through. It has four groups of parts: what a record last transmitted fits its state
  (`ServerShape`, `ClientShape`); no datagram in flight is more than one stage beyond what
  its receiver has, or beyond what its sender has (`ServerBound`, `ClientBound`,
  `BothBound`); no CONNECT is behind a query and no QACK behind a response to the same
  query, which is where order is needed (`Fifo`, `Fresh`); and the data: numbers follow
  calls, buffers hold the fragments up to the stage, the worker has the last call accepted
  (`BodyOrder`, `LogOrder`, `QueryData`, `WorkerData`, `ResponseData`, `Outcomes`). `InStep` by
  itself is not inductive, as it says nothing of the copies in flight that a handler will
  meet. `ResultAssumption` says that what `rpc_call` returns on failure is no response.
* **TablesProofs**: `HoldsCorrect`, `FoundCorrect`, `OffersCorrect` and `NeverAstray`, for any
  number of buckets, records, clients and threads, any names and any width of an int
  (`ServiceAssumption`). `HoldsLive` is
  inductive: a chain from which the records that time out are unlinked is the same chain
  without them, each still once. `FindsOwnRecord` holds under `SubportsApart`: the
  process's number leaves the sign bit alone, its counter has not come round, and no
  client has a subport of this process; section 6 has a counterexample where the
  first fails and one where the second does. Its invariant `FInv` says that no
  bucket holds two records with one subport. `OffersAreFound` needs in `SInv` what a
  thread between the two acquisitions of `stable_create` has in hand, and that the names of
  the records made have hashes that are not negative: such a hash is in the table, as the
  remainder of an int (`HashSums`, `HashedName`). It says nothing of what follows a look-up in
  front of the table; `NeverAstray` says that there is none if `ShortNames` holds: at most nine
  characters of ASCII, which an int of 32 bits can sum (`LargestGrows`), as `stable.h:26`
  speaks of names of eight.
* **FlowTableProofs**: `StaleCorrect` and `LeavingCorrect`, for any packets, tables and
  time-outs (`TimeAssumption`) if `MayStepBack = FALSE`. The inductive invariant
  `Recent` says that no flow is newer than the last packet, that the last cleaning is
  at most `CLEANUP_TIMEOUT` ago, and that at that time every flow then in the table
  had been silent for at most `CONNECTION_TIMEOUT`; the bound is the sum of the two.
  `TypeCorrect` holds with time stamps that go back as well. `AccountedCorrect`, also
  without steps back, adds in `AInv` that a flow's counters are those of the packets
  since its record was made, as a set of places in the history, and that a flow which is
  not in the table was last heard before now, so that a new record counts only what
  follows.
* **DpiPersistProofs**: `TypeCorrect`, `OpenFileCorrect` and `UnbrokenCorrect`, for any
  number of records and files and any failures; the second without `WakesDuringSetup`, which
  it needs (section 6), the others with it too. The invariant ties the holder of the mutex to the places of the two
  threads, and the file's being open to the main thread's being in its loop while
  the rotation thread does not hold the mutex. Keeping the mutex when a rotation
  fails, which makes the process hang, is also what keeps it from a closed file. The types
  rest on lemmas on prefixes of a batch and on files extended at their end. For
  `StoredUnbroken` the invariant `UInv` adds that the batch in hand goes on where the
  files end, as long as the main thread waits for the mutex or stores it: a rotation in
  between adds an empty file and changes neither end.
* **DetectionProofs**: `TrackingTyped`, `TrackingCounts`, `TrackingStaysInStep` and
  `RetransmissionsJudged`, for any dissectors, packets, callbacks, width of sequence numbers
  and window that satisfy the assumptions of `Detection`. The inductive invariant is
  `TypeOK /\ Counted /\ InStep /\ Judged`. `InStep` ties the numbers the code keeps to
  positions without a limit; from it, lemmas on remainders turn the unsigned difference
  of the code into a comparison of positions, which is what `Judged` says and what makes
  `InStep` inductive when a partly repeated packet moves the edge.

  For the dissectors of `lib/protocols` (`Bound`, which `Detection.cfg` satisfies by
  `Dissect <- Dissector`), any packets, and any protocols configured and reconfigured:
  `VerdictIsKept`, `VerdictIsReported`, `FoundIsFollowed` and `VerdictRestsOnEvidence`. All
  four rest on a frame of every dissector, `Touches`: what it may find, what it may exclude,
  and which fields of the flow it may write. There is one lemma for each dissector or group,
  and the registry is then gone through entry by entry (`...Entries`, `...Touch`), which
  gives for each registered callback that it finds only successors of the verdicts it is
  registered for (`EntryOK`). Four invariants are added one after the other:
  - `Calls`: what is still to be called for a packet is a part of the registry, each entry
    at most once, chosen for this packet and the verdict saved when it came. `VerdictKept`
    follows, for the verdict in `saved` and not for the one met by a callback: two callbacks of
    one packet may replace it in turn, so that the last verdict is a successor of the first
    and not of the one between.
  - `Report`: verdict and mark agree, or the one dissector that takes back a mark (Direct
    Connect) has done so and is not called again for the packet. What the packet returns is
    then the verdict if it is configured (`ipq_main.c:1735`), which it need not be: it may have been found
    before a change of configuration, or by a dissector that serves two protocols.
  - `Follow`: most of the followed protocols are kept open by the order of tests of their own
    dissector, the only one that excludes them; MSN, Yahoo and Xbox also need what other dissectors leave behind: both hosts of an
    MSN flow bear its mark, Yahoo is found over TCP only, and on TCP Xbox is excluded
    only after HTTP is.
  - `Supported`: each stage, memo and command count that such a verdict rests on stands for
    packets really counted (`Sound`): by direction for stages of 1 + direction, by number for
    the others. `Evidence` alone is not inductive, as it says nothing of a dissector half way.
    Each of these fields is written by one dissector (`Keeper`, `SoundFrame`). A packet that
    is counted but not yet shown to a dissector is not its evidence (`Pending`, `Used`); it
    is what makes the argument go through the calls of one packet. At the limit of the
    counters nothing is added, and the limit is enough for every verdict
    (`EvidenceAssumption`: at least 4; 65000 in `ipq_structs.h:28`). The same assumption has a
    packet begin with at most one POP command, as the first four bytes are compared
    (`mail_pop.c`). FTP data is proved for packets that open a connection, a SYN without ACK
    or without payload: any other may also belong to a control connection.

* **NumberFacts**: what the others need of numbers and no backend finds alone, proved from
  the well-foundedness of the naturals, with sets in place of operators: induction up to a
  bound, a least element, the value of a function defined by recursion, remainders; and what
  is left of a chain without some of its members.

Model-checked only: all liveness (the prover has no fairness or `ENABLED`); of `Srpc`, that
`InStep` and the refinement of `RemoteCall` survive a reset of the sequence numbers
(`calls`), and `OwnResponse` with it; the hash tables, whose trees need recursive operators, which the prover
does not take; and of OpenDPI `Decided` and `SpecialWins`, which depend on which packets exist:
combinations of tests that no payload passes together would keep a dissector open, or make
two special ones compete.

## 5. Not modelled

* `rpc_suspend`, `rpc_resume`, `rpc_reinit` (apart from `ctable_purge`), a second client
  thread on one connection, several connections in `Srpc`: planned, see section 7.
* A worker whose buffer is too small for a query (`srpc.c:789`) is given zero bytes; the query
  is consumed like any other, so the model gives every worker room.
* `rpc_withdraw` does nothing; `stable_remove` is never called.
* What a bucket in front of the service table leads to (`astray`).
* `mem.c`, the `_dump` functions and formatting: output without state.
* `dpilogger`'s command line, pcap and OpenDPI set-up: I/O. `dpipersist`'s computation of
  sleeping times.
* libhashish: the hash and comparison functions (any function of the key), the bloom
  filter, `hi_fini` by a client, statistics, several threads in one table. `FlowTable` uses
  an abstract map, which `HashTable` shows the list engine to be.
* OpenDPI: packets without a flow record, the helpers that split a payload into lines
  (their outcome is part of `p.has`), `rtsp.c` and `meebo.c`, which nothing registers, the
  demo program. A build with `IPOQUE_EDONKEY_UPPER_PORTS_ONLY` (0 here) is one whose packets may
  pass the test *edk lower port*. Timers of hosts only tell younger from older than their limit.
  Berkeley DB, UDP, the Homework database and libpcap are outside the repository.

## 6. Where the code and its comments disagree

Two runs end in a violation:

* `disconnect_stuck`: the CACK handler (`srpc.c:223`) sets `IDLE` in whatever state the
  record is. A CACK duplicated by a retransmitted CONNECT, arriving after
  `rpc_disconnect` has sent its DISCONNECT, stops the retransmission; if the DISCONNECT
  was lost, both sides keep answering pings and `rpc_disconnect` never returns.
* `waiter_freed`: the timer (`srpc.c:480`) destroys a `TIMEDOUT` record at the next tick,
  although a thread in `crecord_waitForState` may not have run since.

### Disagreements seen without a run of their own

Each is a definition that states what a comment, header or message says; adding it to
the configuration named, with the change given, makes TLC print a counterexample.

| Property | Configuration | What happens |
|---|---|---|
| `RetriesOnlyAsDocumented` | `ConnTimer.cfg` | `ctable.h` lists the states in which a record is retransmitted; `ctable.c:114` also retransmits in `SEQNO_SENT`. |
| `CallReturns` | `SrpcReturns.cfg` with `Ordered = FALSE`, `Capacity = 2`, `ResponseFrags = 1` | A QACK that comes after the RESPONSE (`srpc.c:285`) moves the record from `IDLE` back to `AWAITING_RESPONSE`; the caller, not yet awake, waits as long as pings are answered. |
| `OwnResponse` | `SrpcReordered.cfg` with `ResponseFrags = 2` | A QACK (`srpc.c:285`) overtaken by the first fragment of the response moves the record back from `FACK_SENT`, where the RESPONSE handler (`:300`), which does not look at `fnum`, takes the last fragment for a whole response: `rpc_call` succeeds, and what comes before that fragment was never written. `srpc.h:29` promises `rlen` bytes of data. |
| `OwnResponse` | `SrpcReordered.cfg` with `MaxCalls = 2` | A delayed CONNECT makes a new record after the old one was purged, and a copy of the query is executed once more; `rpc_response` (`srpc.c:810`) stamps what it sends with the number the record has by then, so the response to the first call is returned by the second. |
| `OncePerRecord` | `SrpcReordered.cfg` with `QueryFrags = 2` | A server in `IDLE` or `RESPONSE_SENT` takes any QUERY with the next number as a whole one (`srpc.c:242` does not look at `fnum`): a late CONNECT makes a new record, and the last fragment alone is executed by it. |
| `SenderStaysValid` | any `Srpc` configuration | The worker's sender is the record's endpoint (`srpc.c:271`) and is freed with it. |
| `FindsNoOther` | `Tables.cfg` | `endpoint_equal` (`endpoint.c:43`) compares an address with itself: clients whose subports are equal and that share a bucket share a record. |
| `FindsOwnRecord` | `Tables.cfg` with `Pid = 2` | A pid with bit 15 set gives a negative `int`, sign-extended in the endpoint (`ctable.c:45`) but not on the wire: replies find no record. |
| `FindsOwnRecord` | `Tables.cfg` with `MaxConnects = 4` and a fourth cell in `Record` | The counter (`ctable.c:42`) wraps and a subport still in use is handed out again. |
| `S!OfferedOnce`, through a definition in `MCTables` | `Tables.cfg` | `stable_create` (`stable.c:37`) looks up and inserts under separate acquisitions of the mutex: one name, two records and two queues. |
| `ClosesWhenAsked` | `DpiPersist.cfg` with `SetupMayFail = FALSE` | A rotation that fails (`dpipersist.c:384` and the error paths after it) returns with the mutex locked; the main thread waits for it for ever. |
| `StoresIntoOpenFile` | `DpiPersist.cfg` with `WakesDuringSetup = TRUE` | The rotation thread starts before the set-up (`dpipersist.c:144`); a rotation due by then locks a mutex that is not allocated (`:376`), after which both threads use the handle. |
| `LeavesGracefully` | `DpiPersist.cfg` | The clean-up (`dpipersist.c:248`) frees the mutex and closes the handle without keeping the rotation thread out; and a set-up that fails to make the handle (`:186`) closes it all the same (`:252`). |
| `OnlySilentFlowsLeave` | `FlowTable.cfg` with `MayStepBack = TRUE` | A packet stamped before an earlier one makes an unsigned difference huge (`dpilogger.c:178`): active flows are freed. |
| `FragmentsSkipped` | `FlowTable.cfg` with `Packet <- MCFragments` | A fragment is counted (`dpilogger.c:300`) before it is recognised and skipped (`:320`). |
| `IdsTrackHosts` | `FlowTable.cfg` | Host states are keyed by the address of a header field in memory (`dpilogger.c:136`), and the stored key is a buffer on the stack (`:157`). |

The exact promise of `RemoteCall` also needs the network to keep order: a CONNECT
delayed until the server has purged the record makes a new one, which accepts a
delayed QUERY once more. `reordered` therefore checks at-most-once per record
(`OncePerRecord`). A CACK or QACK that comes late may also move a record that is
already `TIMEDOUT` to another state before the timer purges it.

Met while modelling the libraries, and part of the models:

* Arrays of libhashish with a hole are copied wrongly (`hi_array.c:205`), a failed `realloc`
  loses a bucket (`hi_array.c:259`), `hi_rehash` accepts zero buckets (`lib_init.c:398`), and
  a reset iterator of an emptied table reads freed memory (`hi_iterator.c:161`): the
  exceptions in `SafeClients`. The `_HASH` list engines never store the second hash
  (`hi_list.c:320`) and `LIST_MTF_HASH` compares it with `!=` (`hi_list.c:280`); the other
  array engines never find a key (`hi_array.c:87`). The load factor is an integer quotient
  (`hi_operations.c:139`).
* A loss of more than the window makes all later data of that direction look repeated
  (`ipq_main.c:1568`), until the numbers come round.
* TVANTS, Socrates, I23V5, iMesh, Thunder, Gnutella and Soulseek exclude the protocol
  they have just detected, MGCP and XDMCP exclude themselves on some of their own
  packets, and the ssl dissector finds Jabber and Oscar on flows whose dissectors have
  given up. The dissector of Jabber does not mark what it finds over SSL. The branches
  that refresh time stamps in Gnutella, Battlefield and Manolito, and the last stages of
  Postgres and Zattoo, are not reachable. A command keeps Telnet open whatever the
  number of packets.

## 7. Plan

Done, in this order: the list with its proofs; record and timer with their proofs;
the RPC engine; the tables; the two programs, with first proofs of each; OpenDPI with
proofs of its tracking; libhashish.

Then proofs for the RPC engine and both tables, of the accounting of flows and of
what is stored; that calls keep their promise on an ordered network; and that verdicts
of OpenDPI are kept, reported, followed and rest on evidence.

Next:

1. `Srpc`: the proofs on an ordered network with resets of the numbers as well; a
   second client thread, which may find the record idle between a response and the first
   thread's wake-up; `rpc_suspend`, `rpc_resume` and `rpc_reinit` around `fork`.
2. `OpenDPI`: proofs of `Decided` and `SpecialWins` from assumptions on which tests one
   payload may pass together, which TLC evaluates on the kinds of packets.
3. `FlowTable` composed with `Detection`: one flow record per conversation, freed while
   another is in use.
