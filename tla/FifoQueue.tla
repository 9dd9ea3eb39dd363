----------------------------- MODULE FifoQueue -----------------------------
(***************************************************************************)
(* What a thread-safe list (src/tslist.h) promises its callers: a          *)
(* double-ended sequence of items into which producers put at either end   *)
(* and out of whose front every item is handed to exactly one consumer.    *)
(* tsl_remove "blocks until successful", so the abstract operation is      *)
(* simply not enabled on an empty list.                                    *)
(***************************************************************************)
EXTENDS Naturals, Sequences

CONSTANTS Item,       \* what is queued: an (addr, data, size) triple
          Consumer,   \* threads that call tsl_remove
          NoItem      \* the result cell of a consumer that has none yet

VARIABLES items,      \* the queued items, front first
          taken       \* the item a consumer has been handed and not used yet

abstractVars == <<items, taken>>

AbsInit == items = << >> /\ taken = [c \in Consumer |-> NoItem]

PutBack(it) == items' = Append(items, it) /\ taken' = taken

PutFront(it) == items' = <<it>> \o items /\ taken' = taken

Take(c) == /\ taken[c] = NoItem
           /\ items # << >>
           /\ taken' = [taken EXCEPT ![c] = Head(items)]
           /\ items' = Tail(items)

Use(c) == /\ taken[c] # NoItem
          /\ taken' = [taken EXCEPT ![c] = NoItem]
          /\ items' = items

AbsNext == \/ \E it \in Item : PutBack(it) \/ PutFront(it)
           \/ \E c \in Consumer : Take(c) \/ Use(c)

AbsSpec == AbsInit /\ [][AbsNext]_abstractVars
=============================================================================
