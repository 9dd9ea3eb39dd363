---------------------------- MODULE ServiceTable ----------------------------
(***************************************************************************)
(* The table of offered services, src/stable.c: buckets of service records *)
(* under a mutex of its own.  rpc_offer may be called by any thread, and   *)
(* stable_create holds the mutex twice, once to look the name up and once  *)
(* to insert the record; between the two anything may happen.  The reader  *)
(* thread looks names up when a CONNECT arrives and keeps the record it    *)
(* found in the connection (crecord_setService); Tables composes this      *)
(* table with that of the connections.                                     *)
(*                                                                         *)
(* Names are C strings, sequences of signed chars, as the hash adds the    *)
(* chars up in a signed int: it may overflow, and be negative.             *)
(***************************************************************************)
EXTENDS Integers, Sequences, SequencesExt

CONSTANTS Name,           \* service names
          Thread,         \* threads that offer services
          Record,         \* heap cells for service records
          STABLE_SIZE,    \* buckets
          INT_HALF,       \* an int is in -INT_HALF .. INT_HALF - 1
          NULL            \* the null pointer

VARIABLES stable,      \* the chain of each bucket, first record first
          s_name,      \* the name in each record
          created,     \* records handed out by mem_alloc
          offer,       \* stable_create's place and local variables, by thread
          connected,   \* the service of the last connection made, by name
          astray       \* has a bucket in front of the table been used?

table == <<stable, s_name, created, offer, connected>>

vars == <<table, astray>>

SHIFT == 7

(* An int that has overflowed has wrapped. *)
Int32(x) == ((x + INT_HALF) % (2 * INT_HALF)) - INT_HALF

(* The remainder of C, which has the sign of the dividend. *)
Rem(x, y) == IF x < 0 THEN -((-x) % y) ELSE x % y

hash ==
    [n \in Name |->
        LET ans[i \in 0 .. Len(n)] == IF i = 0 THEN 0 ELSE Int32(SHIFT * ans[i - 1] + n[i])
        IN Rem(ans[Len(n)], STABLE_SIZE)]

Offers == [pc : {"out", "insert"}, name : Name \cup {NULL}, r : Record \cup {NULL}]

Init == /\ stable = [b \in 0 .. STABLE_SIZE - 1 |-> << >>]
        /\ s_name = [r \in Record |-> NULL]
        /\ created = {}
        /\ offer = [t \in Thread |-> [pc |-> "out", name |-> NULL, r |-> NULL]]
        /\ connected = [n \in Name |-> NULL]
        /\ astray = FALSE

(* The first record of the chain with that name, for a hash within the     *)
(* table.                                                                  *)
stable_lookup(n) ==
    LET i == SelectInSeq(stable[hash[n]], LAMBDA r : s_name[r] = n)
    IN IF i = 0 THEN NULL ELSE stable[hash[n]][i]

(* With a negative hash it reads in front of the table, as does its caller *)
(* stable_create or the CONNECT handler; what follows is undefined.        *)
lookup_in_front(n) ==
    /\ hash[n] < 0
    /\ astray' = TRUE
    /\ UNCHANGED table

(* stable_create up to the insertion.  When the name is known, or there is *)
(* no memory for the record or its queue, it returns NULL and nothing has  *)
(* changed.                                                                *)
stable_create(t, n) ==
    /\ offer[t].pc = "out"
    /\ hash[n] >= 0 /\ stable_lookup(n) = NULL
    /\ \E r \in Record \ created :
          /\ created' = created \cup {r}
          /\ s_name' = [s_name EXCEPT ![r] = n]
          /\ offer' = [offer EXCEPT ![t] = [pc |-> "insert", name |-> n, r |-> r]]
    /\ UNCHANGED <<stable, connected, astray>>

MutInsertWithoutNext(t) ==
    /\ offer[t].pc = "insert"
    /\ stable' = [stable EXCEPT ![hash[offer[t].name]] = <<offer[t].r>>]
    /\ offer' = [offer EXCEPT ![t].pc = "out"]
    /\ UNCHANGED <<s_name, created, connected, astray>>

(* The rest of it: the insertion, and the record is returned. *)
stable_create_inserts(t) ==
    /\ offer[t].pc = "insert"
    /\ stable' = [stable EXCEPT ![hash[offer[t].name]] = <<offer[t].r>> \o @]
    /\ offer' = [offer EXCEPT ![t].pc = "out"]
    /\ UNCHANGED <<s_name, created, connected, astray>>

(* The CONNECT handler: no connection to a service that is not offered. *)
connect(n) ==
    /\ hash[n] >= 0 /\ stable_lookup(n) # NULL
    /\ connected' = [connected EXCEPT ![n] = stable_lookup(n)]
    /\ UNCHANGED <<stable, s_name, created, offer, astray>>

Offering == \E t \in Thread : \/ \E n \in Name : stable_create(t, n)
                             \/ stable_create_inserts(t)

Next == ~astray /\ (Offering \/ \E n \in Name : connect(n) \/ lookup_in_front(n))

Spec == Init /\ [][Next]_vars

-----------------------------------------------------------------------------
(* The table, the records and the threads have their types. *)
TypeOK == /\ stable \in [0 .. STABLE_SIZE - 1 -> Seq(Record)]
          /\ s_name \in [Record -> Name \cup {NULL}]
          /\ created \subseteq Record
          /\ offer \in [Thread -> Offers]
          /\ connected \in [Name -> Record \cup {NULL}]
          /\ astray \in BOOLEAN

Inserted == created \ {offer[t].r : t \in {u \in Thread : offer[u].pc = "insert"}}

(***************************************************************************)
(* Whatever the interleaving of offers, each record whose creation is      *)
(* complete is in the bucket of its name exactly once, nothing else is,    *)
(* and so an offered name can be connected to; a connection goes to a      *)
(* service of the name asked for, also when another name shares its bucket. *)
(* Nothing is said of what follows a look-up in front of the table.        *)
(***************************************************************************)
OffersAreFound ==
    /\ TypeOK
    /\ \A b \in 0 .. STABLE_SIZE - 1 :
          /\ ToSet(stable[b]) = {r \in Inserted : hash[s_name[r]] = b}
          /\ \A i, j \in 1 .. Len(stable[b]) : stable[b][i] = stable[b][j] => i = j
    /\ \A r \in Inserted : stable_lookup(s_name[r]) # NULL
    /\ \A n \in Name : connected[n] # NULL => s_name[connected[n]] = n

-----------------------------------------------------------------------------
(* What stable.h says and the code does not guarantee.                     *)

(***************************************************************************)
(* "return NULL if error or if record exists": a name is offered once, so  *)
(* all its connections share one record and one queue of queries.          *)
(***************************************************************************)
OfferedOnce == \A r, q \in Inserted : s_name[r] = s_name[q] => r = q
=============================================================================
