---------------------------- MODULE MCHashTable ----------------------------
(***************************************************************************)
(* Clients of the hash table for model checking.                           *)
(***************************************************************************)
EXTENDS HashTable

MCNodes == 1 .. 7

\* A client that inserts and looks up n keys in a table of the given size.
Client(e, size, n) ==
  [engine |-> e, table_size |-> size, array_size |-> 1, rehash_auto |-> FALSE, keys |-> 1 .. n,
   data |-> {1}, sizes |-> {}, removes |-> FALSE, iterates |-> FALSE, resets |-> FALSE,
   failing |-> FALSE, max_objects |-> n]

Removing(c) == [c EXCEPT !.removes = TRUE]
Iterating(c) == [c EXCEPT !.iterates = TRUE]
Resetting(c) == [c EXCEPT !.resets = TRUE]
Growing(c) == [c EXCEPT !.rehash_auto = TRUE]
Rehashing(c, sizes) == [c EXCEPT !.sizes = sizes]
Failing(c) == [c EXCEPT !.failing = TRUE]
WithData(c) == [c EXCEPT !.data = Data]
Bounded(c, n) == [c EXCEPT !.max_objects = n]
NoSlots(c) == [c EXCEPT !.array_size = 0]

MCSetups == {
  \* The flow logger: a list, entries removed while an iterator is open.
  Removing(Iterating(Client("LIST", 2, 4))),
  Removing(Growing(WithData(Client("LIST_MTF", 1, 3)))),
  Removing(Iterating(Rehashing(Client("LIST_MTF", 2, 3), {3}))),
  Removing(Iterating(Resetting(Failing(Rehashing(Client("LIST", 2, 2), {0, 1}))))),
  Bounded(Removing(Iterating(Rehashing(Client("LIST_HASH", 1, 2), {2}))), 2),
  Bounded(Removing(Growing(Client("LIST_MTF_HASH", 1, 2))), 3),
  Removing(Iterating(Client("ARRAY", 2, 3))),
  Removing(Growing(WithData(Client("ARRAY", 1, 3)))),
  Iterating(Resetting(Growing(Rehashing(Client("ARRAY", 1, 3), {1})))),
  Removing(Iterating(Failing(Rehashing(Client("ARRAY", 1, 2), {2})))),
  Bounded(Removing(Iterating(Client("ARRAY_DYN", 2, 2))), 4),
  Removing(NoSlots(Client("ARRAY_HASH", 1, 2))),
  Failing(Client("ARRAY_DYN_HASH", 1, 2)),
  \* Refused by hi_create.
  NoSlots(Client("ARRAY", 1, 2)), Client("LIST", 0, 2),
  \* Deep enough for every case of rebalancing.
  Removing(Client("RBTREE", 1, 7)),
  Removing(Growing(WithData(Client("RBTREE", 1, 3)))),
  Removing(Iterating(Rehashing(Client("RBTREE", 2, 3), {1}))),
  Removing(Iterating(Failing(Rehashing(Client("RBTREE", 1, 2), {2}))))}
=============================================================================
