------------------------------ MODULE HashTable ------------------------------
(***************************************************************************)
(* libhashish: a hash table with one of nine collision engines (lists,     *)
(* lists that move what was found to the front, both with a second hash,   *)
(* arrays, red-black trees), rehashing and an iterator.  The flow logger   *)
(* uses the plain list.  One thread calls the library.                     *)
(***************************************************************************)
EXTENDS RedBlackTree, SequencesExt

CONSTANTS
  Data,               \* what is stored under the keys
  Setups,             \* what clients configure and do, see SetupType
  PastEnd             \* bound: buckets an exhausted iterator may step beyond the table

VARIABLES
  setup,              \* the client, chosen at hi_create
  table,              \* hi_handle_t
  it,                 \* the client's iterator: live, bucket, and the copy a of a bucket
  answer,             \* what the last call returned
  crashed,            \* the program has done something undefined
  walk                \* history of the iterator: keys owed and keys returned

vars == <<setup, table, it, answer, crashed, walk>>

engine == setup.engine
Lists == {"LIST", "LIST_MTF", "LIST_HASH", "LIST_MTF_HASH"}
Arrays == {"ARRAY", "ARRAY_HASH", "ARRAY_DYN", "ARRAY_DYN_HASH"}
Hashed == {"LIST_HASH", "LIST_MTF_HASH"}      \* keep a second hash value with an entry

\* The engines that find what they store.
Sound == {"LIST", "LIST_MTF", "ARRAY", "RBTREE"}

SetupType ==
  [engine : Lists \union Arrays \union {"RBTREE"}, table_size : Nat, array_size : Nat,
   rehash_auto : BOOLEAN, keys : SUBSET Nodes, data : SUBSET Data,
   sizes : SUBSET Nat,               \* passed to hi_rehash
   removes : BOOLEAN, iterates : BOOLEAN, resets : BOOLEAN,
   failing : BOOLEAN,                \* malloc and realloc may fail
   max_objects : Nat]                \* bound: entries of the table

ASSUME SetupsAssumption == Setups \subseteq SetupType

Entry(k, d, known) == [key |-> k, data |-> d, known |-> known]
NotAllocated == Entry(0, 0, FALSE)            \* a free slot of an array
Junk == Entry(-1, -1, FALSE)                  \* memory nobody has written to
Entries == {Entry(k, d, known) : k \in setup.keys, d \in setup.data, known \in BOOLEAN}

\* hash_func: an arbitrary function of the key.
Hash(k, t) == k % t.size

-----------------------------------------------------------------------------
(* Creation.                                                               *)

lhi_set_sanity_check(s) ==
  /\ s.table_size # 0
  /\ s.engine = "ARRAY" => s.array_size # 0

EmptyBucket ==
  CASE engine \in Lists -> << >>
    [] engine \in Arrays -> [i \in 1 .. setup.array_size |-> NotAllocated]
    [] engine = "RBTREE" -> EmptyTree

\* A handle: bucket_size counts the entries of a bucket (slot_size for arrays),
\* lost are the arrays whose memory a failed realloc has dropped.
create(n) ==
  [size |-> n, no_objects |-> 0, lost |-> {},
   buckets |-> [b \in 0 .. n - 1 |-> EmptyBucket],
   bucket_size |-> [b \in 0 .. n - 1 |-> 0]]

-----------------------------------------------------------------------------
(* The engines, as functions of the table.                                 *)

\* Where an operation finds k in its bucket, 0 if it does not.  The second hash is
\* never stored: whether the memory it is read from happens to hold it is chosen
\* when the entry is made, and lhi_get_list of LIST_MTF_HASH tests for a difference.
\* An array is searched until as many entries have been compared as it holds.
Position(t, op, k) ==
  LET b == Hash(k, t)
      bucket == t.buckets[b]
      hit(e) == /\ e.key = k
                /\ engine \in Hashed => e.known = ~ (op = "get" /\ engine = "LIST_MTF_HASH")
      used(i) == {j \in 1 .. i - 1 : bucket[j] # NotAllocated}
  IN CASE engine = "RBTREE" -> IF found(bucket, k) THEN k ELSE 0
       [] engine \in Lists -> SelectInSeq(bucket, hit)
       [] engine = "ARRAY" ->
            LET i == SelectInSeq(bucket, hit)
            IN IF i # 0 /\ Cardinality(used(i)) < t.bucket_size[b] THEN i ELSE 0
       [] OTHER -> 0                            \* left out with a FIXME

DataAt(t, k, i) ==
  LET bucket == t.buckets[Hash(k, t)] IN IF engine = "RBTREE" THEN bucket.data[i] ELSE bucket[i].data

\* The bucket of k is read through the null pointer.
NullArray(t, op, k) ==
  Hash(k, t) \in t.lost /\ (engine = "ARRAY" \/ op = "insert")

\* Count that forgets no_objects when an entry leaves.
CountBucketOnly(t, b, bucket, d) ==
  [t EXCEPT !.buckets[b] = bucket, !.bucket_size[b] = @ + d,
            !.no_objects = IF d = 1 THEN @ + 1 ELSE @]

\* One entry more (d = 1) or less (d = -1) in bucket b, which becomes bucket.
Count(t, b, bucket, d) ==
  [t EXCEPT !.buckets[b] = bucket, !.bucket_size[b] = @ + d, !.no_objects = @ + d]

\* The list is extended in front, an array at its first free slot.
store(t, k, d, known) ==
  LET b == Hash(k, t)
      bucket == t.buckets[b]
      i == SelectInSeq(bucket, LAMBDA e : e = NotAllocated)
  IN Count(t, b, CASE engine \in Lists -> <<Entry(k, d, known)>> \o bucket
                   [] engine \in Arrays -> [bucket EXCEPT ![i] = Entry(k, d, known)]
                   [] engine = "RBTREE" -> inserted(bucket, k, d), 1)

unstore(t, k, i) ==
  LET b == Hash(k, t)
      bucket == t.buckets[b]
  IN Count(t, b, CASE engine \in Lists -> RemoveAt(bucket, i)
                   [] engine \in Arrays -> [bucket EXCEPT ![i] = NotAllocated]
                   [] engine = "RBTREE" -> rb_erase(bucket, k), -1)

\* A full array is doubled before an insertion.
IsFull(t, b) == engine \in Arrays /\ t.bucket_size[b] >= Len(t.buckets[b])
grow(t, b) ==
  IF IsFull(t, b)
  THEN [t EXCEPT !.buckets[b] = @ \o [i \in 1 .. Len(@) |-> NotAllocated]] ELSE t

\* The insertion of an array or a tree that does not look for the key.
InsertWithoutLooking(t, k) ==
  IF engine \in Arrays /\ setup.array_size = 0 THEN {"SYSTEM", "INTERNAL"} ELSE {"SUCCESS"}

\* What lhi_insert_* may return when memory does not run out.  Lists do not look for the
\* key here.  No slots doubled are no slots, and realloc to size zero may return null.
InsertResults(t, k) ==
  CASE engine \notin Lists /\ Position(t, "insert", k) # 0 -> {"DUPKEY"}
    [] engine \in Arrays /\ setup.array_size = 0 -> {"SYSTEM", "INTERNAL"}
    [] OTHER -> {"SUCCESS"}

-----------------------------------------------------------------------------
(* Walking through a table, and rehashing.                                 *)

\* lhi_*_bucket_to_array: as many places as the bucket counts entries.  Of an array
\* only that many slots are looked at; places that are not filled hold junk.
bucket_to_array(t, b) ==
  LET n == t.bucket_size[b]
      bucket == t.buckets[b]
      kept == CASE engine \in Lists -> bucket
                [] engine \in Arrays -> SelectSeq(SubSeq(bucket, 1, n), LAMBDA e : e # NotAllocated)
                [] engine = "RBTREE" ->
                     LET nodes == hi_rbtree_traverse(bucket, bucket.root)
                     IN [i \in DOMAIN nodes |-> Entry(nodes[i].key, nodes[i].data, TRUE)]
  IN [i \in 1 .. n |-> IF i \in DOMAIN kept THEN kept[i] ELSE Junk]

\* Where the search for a bucket with entries ends that starts at bucket from.
get_next_bucket(t, from) ==
  LET filled == {b \in from .. t.size - 1 : t.bucket_size[b] # 0}
  IN IF filled # {} THEN Min(filled) ELSE Max({from, t.size})

\* The entries in the order in which an iterator returns them: buckets upwards,
\* the copy of each from its end.
Order(t) == FlattenSeq([b \in 1 .. t.size |-> Reverse(bucket_to_array(t, b - 1))])

\* The entries of order, one after the other, inserted into the table t.
Reinserted(t, order, known) ==
  FoldLeftDomain(LAMBDA acc, i :
      LET e == order[i]
          dup == Position(acc.table, "insert", e.key) # 0
      IN IF acc.dup \/ dup THEN [acc EXCEPT !.dup = TRUE]
         ELSE [acc EXCEPT !.table = store(grow(@, Hash(e.key, @)), e.key, e.data, known[i])],
    [table |-> t, dup |-> FALSE], order)

Outcome(result, t) == [result |-> result, table |-> t]

\* What hi_rehash may return and leave behind.  A failure on the way writes to the new
\* handle after it has been freed.
hi_rehash_outcomes(t, n) ==
  LET order == Order(t)
      kinds == IF engine \in Hashed THEN BOOLEAN ELSE {TRUE}
      moved == {Reinserted(create(n), order, known) : known \in [1 .. Len(order) -> kinds]}
      undone(result) == {Outcome(result, t), Outcome("CRASH", t)}
  IN (IF setup.failing THEN undone("SYSTEM") ELSE {})
     \union
     CASE order = << >> -> {Outcome("NODATA", t)}
       [] order # << >> /\ (n = 0 \/ t.lost # {} \/ \E i \in DOMAIN order : order[i] = Junk) ->
            {Outcome("CRASH", t)}
       [] OTHER -> UNION {IF m.dup THEN undone("DUPKEY") ELSE {Outcome("SUCCESS", m.table)} : m \in moved}

\* do_rehash that takes the quotient the wrong way round.
DoRehashHalves(t) ==
  IF setup.rehash_auto /\ 4 * (t.no_objects \div t.size) > 3
  THEN hi_rehash_outcomes(t, t.size \div 2) ELSE {Outcome("NODATA", t)}

\* The load factor is a quotient of integers: nothing happens below one entry per bucket.
do_rehash_outcomes(t) ==
  IF setup.rehash_auto /\ 4 * (t.no_objects \div t.size) > 3
  THEN hi_rehash_outcomes(t, 2 * t.size) ELSE {Outcome("NODATA", t)}

-----------------------------------------------------------------------------
(* The calls.                                                              *)

Stored(t, b) ==
  LET bucket == t.buckets[b]
  IN IF engine = "RBTREE" THEN {Entry(k, bucket.data[k], TRUE) : k \in KeysBelow(bucket, bucket.root)}
     ELSE ToSet(bucket) \ {NotAllocated}
KeysOf(t) == {e.key : e \in UNION {Stored(t, b) : b \in 0 .. t.size - 1}}

NoIterator == [live |-> FALSE, bucket |-> 0, a |-> << >>, null |-> FALSE]
NoWalk == [owed |-> {}, ever |-> {}, returned |-> {}, twice |-> {}, sure |-> FALSE, ended |-> FALSE]

Quiet == [op |-> "none", key |-> 0, result |-> "none", data |-> 0]
Answer(op, k, result, d) == answer' = [op |-> op, key |-> k, result |-> result, data |-> d]

Init ==
  /\ setup \in {s \in Setups : lhi_set_sanity_check(s)}
  /\ table = create(setup.table_size)
  /\ it = NoIterator /\ answer = Quiet /\ crashed = FALSE /\ walk = NoWalk

Crash == crashed' = TRUE /\ UNCHANGED <<setup, table, it, answer, walk>>

\* The engines that move to the front relink what they have found.
MovedToFront(t, k, i) ==
  IF i > 1 /\ engine \in {"LIST_MTF", "LIST_MTF_HASH"}
  THEN [t EXCEPT !.buckets[Hash(k, t)] = <<@[i]>> \o RemoveAt(@, i)] ELSE t

hi_get(k) ==
  LET i == Position(table, "get", k)
  IN IF NullArray(table, "get", k) THEN Crash
     ELSE /\ table' = MovedToFront(table, k, i)
          /\ IF i = 0 THEN Answer("get", k, "NOKEY", 0)
                      ELSE Answer("get", k, "SUCCESS", DataAt(table, k, i))
          /\ UNCHANGED <<setup, it, crashed, walk>>

hi_remove(k) ==
  LET i == Position(table, "remove", k)
  IN /\ setup.removes
     /\ IF NullArray(table, "remove", k) THEN Crash
        ELSE /\ table' = IF i = 0 THEN table ELSE unstore(table, k, i)
             /\ IF i = 0 THEN Answer("remove", k, "NOKEY", 0)
                         ELSE Answer("remove", k, "SUCCESS", DataAt(table, k, i))
             /\ walk' = IF i = 0 THEN walk ELSE [walk EXCEPT !.owed = @ \ {k}]
             /\ UNCHANGED <<setup, it, crashed>>

\* The table t after do_rehash takes the entry, if it can.  A failed realloc leaves the
\* array without memory and with twice as many slots.
insert_into(t, k, d) ==
  LET b == Hash(k, t)
  IN \E result \in InsertResults(t, k) :
       /\ \/ /\ result = "SUCCESS"
             /\ \E known \in IF engine \in Hashed THEN BOOLEAN ELSE {TRUE} :
                  table' = store(grow(t, b), k, d, known)
             /\ Answer("insert", k, result, d)
          \/ /\ result # "SUCCESS"
             /\ table' = t
             /\ Answer("insert", k, result, d)
          \/ /\ result = "SUCCESS" /\ setup.failing
             /\ engine \in Arrays => IsFull(t, b)
             /\ table' = IF engine \in Arrays THEN [grow(t, b) EXCEPT !.lost = @ \union {b}] ELSE t
             /\ Answer("insert", k, "SYSTEM", d)
       /\ walk' = [walk EXCEPT !.ever = IF it.live /\ answer'.result = "SUCCESS" THEN @ \union {k} ELSE @,
                               !.sure = @ /\ t.size = table.size]
       /\ UNCHANGED <<setup, it, crashed>>

\* Lists look for the key first, the others as part of the insertion, after the
\* table has been rehashed.
hi_insert(k, d) ==
  IF engine \in Lists /\ Position(table, "insert", k) # 0
  THEN Answer("insert", k, "DUPKEY", d) /\ UNCHANGED <<setup, table, it, crashed, walk>>
  ELSE /\ table.no_objects < setup.max_objects
       /\ \E o \in do_rehash_outcomes(table) :
            IF o.result = "CRASH" \/ NullArray(o.table, "insert", k) THEN Crash
            ELSE insert_into(o.table, k, d)

hi_rehash(n) ==
  \E o \in hi_rehash_outcomes(table, n) :
    IF o.result = "CRASH" THEN Crash
    ELSE /\ table' = o.table /\ answer' = Quiet
         /\ walk' = [walk EXCEPT !.sure = @ /\ o.result # "SUCCESS"]
         /\ UNCHANGED <<setup, it, crashed>>

-----------------------------------------------------------------------------
(* The iterator.                                                           *)

FreshWalk == [NoWalk EXCEPT !.owed = KeysOf(table), !.ever = KeysOf(table), !.sure = TRUE]

\* hi_iterator_create and hi_iterator_reset fetch the first bucket with entries.  A
\* reset that fetches none has freed the copy it had, but not its length.
hi_iterator_create ==
  LET b == get_next_bucket(table, 0)
  IN /\ setup.iterates /\ ~ it.live
     /\ \/ b \in table.lost /\ Crash
        \/ /\ \/ /\ b < table.size /\ b \notin table.lost
                 /\ it' = [live |-> TRUE, bucket |-> b, a |-> bucket_to_array(table, b), null |-> FALSE]
                 /\ walk' = FreshWalk
              \/ /\ b = table.size \/ setup.failing
                 /\ UNCHANGED <<it, walk>>
           /\ answer' = Quiet
           /\ UNCHANGED <<setup, table, crashed>>

hi_iterator_reset ==
  LET b == get_next_bucket(table, 0)
  IN /\ setup.resets /\ it.live
     /\ \/ b \in table.lost /\ Crash
        \/ /\ \/ /\ b < table.size /\ b \notin table.lost
                 /\ it' = [live |-> TRUE, bucket |-> b, a |-> bucket_to_array(table, b), null |-> FALSE]
                 /\ walk' = FreshWalk
              \/ /\ b = table.size \/ setup.failing
                 /\ it' = [it EXCEPT !.bucket = b, !.null = TRUE]
                 /\ walk' = NoWalk
           /\ answer' = Quiet
           /\ UNCHANGED <<setup, table, crashed>>

\* The last entry of the copy a is handed out.
hand_out(b, a) ==
  /\ it' = [it EXCEPT !.bucket = b, !.a = Front(a), !.null = FALSE]
  /\ walk' = [walk EXCEPT !.returned = @ \union {Last(a).key},
                        !.twice = @ \union ({Last(a).key} \intersect walk.returned)]

\* hi_iterator_getnext that stays in the bucket it has exhausted.
GetnextSameBucket ==
  LET b == get_next_bucket(table, it.bucket)
  IN /\ it.live
     /\ it.bucket < table.size + PastEnd
     /\ IF it.a # << >> THEN hand_out(it.bucket, it.a)
        ELSE \/ b < table.size /\ hand_out(b, bucket_to_array(table, b))
             \/ /\ b >= table.size
                /\ it' = [it EXCEPT !.bucket = b]
                /\ walk' = [walk EXCEPT !.ended = TRUE]
     /\ answer' = Quiet
     /\ UNCHANGED <<setup, table, crashed>>

hi_iterator_getnext ==
  LET b == get_next_bucket(table, it.bucket + 1)
  IN /\ it.live
     /\ it.bucket < table.size + PastEnd
     /\ \/ (IF it.a # << >> THEN it.null ELSE b \in table.lost) /\ Crash
        \/ /\ \/ it.a # << >> /\ ~ it.null /\ hand_out(it.bucket, it.a)
              \/ /\ it.a = << >> /\ b < table.size /\ b \notin table.lost
                 /\ hand_out(b, bucket_to_array(table, b))
              \/ /\ it.a = << >> /\ b >= table.size
                 /\ it' = [it EXCEPT !.bucket = b]
                 /\ walk' = [walk EXCEPT !.ended = TRUE]
              \/ /\ it.a = << >> /\ b < table.size /\ setup.failing
                 /\ it' = [it EXCEPT !.bucket = b]
                 /\ walk' = [walk EXCEPT !.sure = FALSE]
           /\ answer' = Quiet
           /\ UNCHANGED <<setup, table, crashed>>

hi_iterator_fini ==
  /\ it.live
  /\ it' = NoIterator /\ walk' = NoWalk /\ answer' = Quiet
  /\ UNCHANGED <<setup, table, crashed>>

Next ==
  /\ ~ crashed
  /\ \/ \E k \in setup.keys : hi_get(k) \/ hi_remove(k) \/ \E d \in setup.data : hi_insert(k, d)
     \/ \E n \in setup.sizes : hi_rehash(n)
     \/ hi_iterator_create \/ hi_iterator_reset \/ hi_iterator_getnext \/ hi_iterator_fini

Spec == Init /\ [][Next]_vars

-----------------------------------------------------------------------------
(* Properties.                                                             *)

\* The handle's fields keep their types; a copy of a bucket is a sequence of entries
\* and junk, and an iterator that is not live holds nothing.
TypeOK ==
  /\ setup \in Setups
  /\ table.size \in Nat \ {0}
  /\ DOMAIN table.buckets = 0 .. table.size - 1
  /\ table.bucket_size \in [0 .. table.size - 1 -> Nat]
  /\ table.no_objects \in Nat
  /\ table.lost \subseteq 0 .. table.size - 1
  /\ engine # "RBTREE" => \A b \in DOMAIN table.buckets :
       ToSet(table.buckets[b]) \subseteq Entries \union {NotAllocated}
  /\ ToSet(it.a) \subseteq Entries \union {Junk}
  /\ ~ it.live => it = NoIterator
  /\ crashed \in BOOLEAN

EntriesIn(b) ==
  CASE engine \in Lists -> Len(table.buckets[b])
    [] engine \in Arrays -> Cardinality({i \in DOMAIN table.buckets[b] : table.buckets[b][i] # NotAllocated})
    [] engine = "RBTREE" -> Cardinality(KeysBelow(table.buckets[b], table.buckets[b].root))

\* The handle keeps its types, and the counters agree with the buckets: bucket_size or
\* slot_size with each of them, no_objects with all together.  Copies are allocated and
\* searches ended by them.
Accounted ==
  /\ TypeOK
  /\ \A b \in DOMAIN table.buckets : table.bucket_size[b] = EntriesIn(b)
  /\ table.no_objects = FoldFunction(LAMBDA x, y : x + y, 0, table.bucket_size)

\* After any sequence of insertions and removals every bucket of the tree engine is a
\* red-black tree: ordered, linked both ways, no red node below a red one, and as many
\* black nodes on every way down.
Balanced ==
  engine = "RBTREE" => \A b \in DOMAIN table.buckets : IsRedBlack(table.buckets[b])

\* An iteration that was not cut off by a rehash or by a failed allocation has, when it
\* ends, returned every key that was in the table throughout, unless it has handed out
\* junk; it returns only keys that were there, and, with an engine that admits no
\* duplicates, each one once, although entries are inserted and removed on the way.
IterationComplete ==
  LET junk == Junk.key \in walk.returned
  IN walk.sure =>
       /\ walk.ended /\ ~ junk => walk.owed \subseteq walk.returned
       /\ walk.returned \ {Junk.key} \subseteq walk.ever
       /\ engine \in Sound => walk.twice \subseteq {Junk.key}

\* Nothing undefined happens, and no junk is returned, to a client that has enough memory,
\* never rehashes to zero buckets, does not reset an iterator of a table it also empties,
\* does not remove from arrays, and does not rehash an engine with a second hash.
SafeClients ==
  crashed \/ Junk.key \in walk.returned =>
    \/ setup.failing
    \/ 0 \in setup.sizes
    \/ (setup.resets /\ setup.removes)
    \/ (engine \in Arrays /\ setup.removes)
    \/ (engine \in Hashed /\ (setup.rehash_auto \/ setup.sizes # {}))

AsMap(entries) ==
  [k \in {e.key : e \in entries} |-> (CHOOSE e \in entries : e.key = k).data]

Contents == AsMap(UNION {Stored(table, b) : b \in DOMAIN table.buckets})

Dict == INSTANCE Dictionary WITH
  Keys <- Nodes,
  dict <- IF engine \in Sound THEN Contents ELSE << >>,
  reply <- IF engine \in Sound THEN answer ELSE Quiet

\* With an engine that finds what it stores, the table is a dictionary: a key that is
\* present is not overwritten, get and remove return what was inserted, and neither
\* rehashing, moving to the front, growing arrays nor an iterator changes what it holds.
IsDictionary == Dict!Spec
=============================================================================
