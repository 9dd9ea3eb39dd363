----------------------------- MODULE ConnTable -----------------------------
(***************************************************************************)
(* The connection table as a table: the hash buckets of src/ctable.c, the  *)
(* endpoints of src/endpoint.c that are its keys, and the subports that    *)
(* tell the connections between two processes apart.  It is the table of   *)
(* one process: rpc_connect and the CONNECT handler of src/srpc.c insert,  *)
(* rpc_connect and the timer remove.  Every step holds the table's mutex.  *)
(*                                                                         *)
(* A socket address is a number; a subport is an unsigned long in an       *)
(* endpoint and 32 bits in a datagram.                                     *)
(***************************************************************************)
EXTENDS Integers, Sequences, SequencesExt, FiniteSets, Chains

CONSTANTS Address,       \* socket addresses of other processes
          Pid,           \* getpid() of this process
          PeerSubport,   \* subports of clients elsewhere, as on the wire
          CTABLE_SIZE,   \* buckets
          CTR_MAX,       \* where the counter of connections wraps: 0x7fff
          PIDS,          \* values of the subport's upper half: 65536
          CTRS,          \* values of its lower half: 65536
          ULONG,         \* values of an unsigned long
          Record,        \* heap cells for connection records
          MaxConnects,   \* bound: calls of rpc_connect
          None           \* no record

INTS == PIDS * CTRS      \* values of an int, and of the subport on the wire

SHIFT == 7

ASSUME WidthAssumption ==
    /\ PIDS \in Nat \ {0} /\ CTRS \in Nat \ {0} /\ ULONG \in Nat /\ ULONG >= INTS
    /\ CTR_MAX \in 1 .. CTRS - 1 /\ Pid \in Nat
    /\ CTABLE_SIZE \in Nat \ {0}
    /\ Address \subseteq Nat /\ PeerSubport \subseteq 0 .. INTS - 1
    /\ MaxConnects \in Nat

ASSUME RecordAssumption == None \notin Record

VARIABLES ctable,     \* the chain of each bucket, first record first
          ep,         \* the endpoint of each record
          live,       \* records inserted and not removed
          ctr,        \* the counter of connections
          connects    \* calls of rpc_connect so far

vars == <<ctable, ep, live, ctr, connects>>

Buckets == 0 .. CTABLE_SIZE - 1

Endpoint(addr, subport) == [addr |-> addr, subport |-> subport]

Init == /\ ctable = [b \in Buckets |-> << >>]
        /\ ep = [r \in Record |-> Endpoint(0, 0)]
        /\ live = {}
        /\ ctr = 0
        /\ connects = 0

-----------------------------------------------------------------------------
(* Endpoints. *)

endpoint_hash(e) == (SHIFT * (e.addr % CTABLE_SIZE) + e.subport) % CTABLE_SIZE

(* It compares the address of e1 with itself. *)
endpoint_equal(e1, e2) == e1.addr = e1.addr /\ e1.subport = e2.subport

(* (pid & 0xffff) << 16 | ctr is an int, and widened with its sign. *)
Subport(c) ==
    LET int == (Pid % PIDS) * CTRS + c
    IN IF int < INTS \div 2 THEN int ELSE int + (ULONG - INTS)

(* What cp_complete puts into a datagram, and endpoint_complete takes out. *)
OnTheWire(e) == [e EXCEPT !.subport = @ % INTS]

-----------------------------------------------------------------------------
(* The table. *)

(* The first record of the bucket whose endpoint is equal. *)
ctable_lookup(e) ==
    LET chain == ctable[endpoint_hash(e)]
        i == SelectInSeq(chain, LAMBDA r : endpoint_equal(e, ep[r]))
    IN IF i = 0 THEN None ELSE chain[i]

(* A new record for endpoint e, in front of its bucket. *)
ctable_insert(e) ==
    \E r \in Record \ live :
        /\ ctable' = [ctable EXCEPT ![endpoint_hash(e)] = <<r>> \o @]
        /\ ep' = [ep EXCEPT ![r] = e]
        /\ live' = live \cup {r}

(* ctable_newSubport's counter. *)
ctable_newSubport == IF ctr + 1 > CTR_MAX THEN 1 ELSE ctr + 1

(* rpc_connect, up to its wait. *)
rpc_connect(addr) ==
    /\ connects < MaxConnects
    /\ connects' = connects + 1
    /\ ctr' = ctable_newSubport
    /\ ctable_insert(Endpoint(addr, Subport(ctable_newSubport)))

MutConnectWithoutLookup(addr, sp) ==
    /\ ctable_insert(Endpoint(addr, sp))
    /\ UNCHANGED <<ctr, connects>>

(* The CONNECT handler: a record for an endpoint that is not known. *)
CONNECT(addr, sp) ==
    /\ ctable_lookup(Endpoint(addr, sp)) = None
    /\ ctable_insert(Endpoint(addr, sp))
    /\ UNCHANGED <<ctr, connects>>

MutRemoveCutsChain(gone) ==
    /\ gone # {}
    /\ ctable' = [b \in Buckets |->
                    SelectSeq(ctable[b], LAMBDA r :
                        \A i \in 1 .. Len(ctable[b]) :
                            (\E j \in i .. Len(ctable[b]) : ctable[b][j] = r)
                                => ctable[b][i] \notin gone)]
    /\ live' = live \ gone
    /\ UNCHANGED <<ep, ctr, connects>>

(* A chain without some of its records, walked from its head. *)
Unlinked(chain, gone) == Without(chain, gone)

(***************************************************************************)
(* The timer when the records `gone' have timed out: it removes them all,  *)
(* each from the bucket its endpoint hashes to, and destroys them.         *)
(* rpc_connect removes the record of a connection that was not accepted    *)
(* in the same way.                                                        *)
(***************************************************************************)
ctable_remove(gone) ==
    /\ gone # {}
    /\ ctable' = [b \in Buckets |->
                    Unlinked(ctable[b], {r \in gone : endpoint_hash(ep[r]) = b})]
    /\ live' = live \ gone
    /\ UNCHANGED <<ep, ctr, connects>>

(* rpc_reinit, in a child process. *)
ctable_purge ==
    /\ live # {}
    /\ ctable' = [b \in Buckets |-> << >>]
    /\ live' = {}
    /\ UNCHANGED <<ep, ctr, connects>>

Next == \/ \E addr \in Address :
              \/ rpc_connect(addr)
              \/ \E sp \in PeerSubport : CONNECT(addr, sp)
        \/ \E gone \in SUBSET live : ctable_remove(gone)
        \/ ctable_purge

Spec == Init /\ [][Next]_vars

-----------------------------------------------------------------------------
Endpoints == [addr : Nat, subport : 0 .. ULONG - 1]

(* The table, its keys and the counter have their types. *)
TypeOK == /\ ctable \in [Buckets -> Seq(Record)]
          /\ ep \in [Record -> Endpoints]
          /\ live \subseteq Record
          /\ ctr \in 0 .. CTR_MAX
          /\ connects \in 0 .. MaxConnects

(***************************************************************************)
(* The buckets hold exactly the live records, each once and where its      *)
(* endpoint hashes to: no destroyed record can be reached, and removing    *)
(* several records at a tick loses none of the others.                     *)
(***************************************************************************)
HoldsLive ==
    /\ TypeOK
    /\ \A b \in Buckets :
          /\ ToSet(ctable[b]) = {r \in live : endpoint_hash(ep[r]) = b}
          /\ \A i, j \in 1 .. Len(ctable[b]) : ctable[b][i] = ctable[b][j] => i = j

(***************************************************************************)
(* A datagram about a connection reaches the record of that connection:    *)
(* looking the endpoint up as it comes off the wire finds the record.      *)
(***************************************************************************)
FindsOwnRecord == \A r \in live : ctable_lookup(OnTheWire(ep[r])) = r

-----------------------------------------------------------------------------
(* What endpoint.h says and the code does not guarantee.                   *)

(***************************************************************************)
(* A client's datagram reaches no record but its own: what a lookup finds  *)
(* has the endpoint that was looked up, address and subport.               *)
(***************************************************************************)
FindsNoOther ==
    \A addr \in Address, sp \in PeerSubport :
        LET r == ctable_lookup(Endpoint(addr, sp))
        IN r # None => ep[r] = Endpoint(addr, sp)
=============================================================================
