------------------------------- MODULE TSList -------------------------------
(***************************************************************************)
(* The thread-safe list of src/tslist.c: a singly linked list of heap      *)
(* cells with head, tail and count, a mutex and the condition variable     *)
(* `nonempty'.  Everything done between pthread_mutex_lock and             *)
(* pthread_mutex_unlock is one action; pthread_cond_wait gives the mutex   *)
(* up, so a consumer that waits is woken in one step and looks at `count'  *)
(* again in a later one, and another consumer may come in between.         *)
(*                                                                         *)
(* `order' is a history variable: the cells linked into the list, front    *)
(* first.  No action's guard reads it.                                     *)
(***************************************************************************)
EXTENDS Naturals, Sequences, FiniteSets

CONSTANTS Cell,       \* heap cells mem_alloc can hand out for an Element
          Item,       \* the (addr, data, size) triples that are queued
          Consumer,   \* threads that call tsl_remove
          NULL        \* the null pointer

ASSUME CellAssumption == NULL \notin Cell
ASSUME ItemAssumption == NULL \notin Item
ASSUME ConsumerAssumption == IsFiniteSet(Consumer)

VARIABLES head, tail, count,   \* the ListHead
          next, data,          \* the Elements, by cell
          allocated,           \* cells between mem_alloc and mem_free
          pc,                  \* where each consumer is in tsl_remove
          e,                   \* tsl_remove's local variable, by consumer
          order                \* history: the linked cells, front first

list == <<head, tail, count>>
heap == <<next, data, allocated>>
vars == <<list, heap, pc, e, order>>

Places == {"out", "waiting", "woken", "unlinked"}

waiting == {c \in Consumer : pc[c] = "waiting"}
woken == {c \in Consumer : pc[c] = "woken"}

(* The list tsl_create returns. *)
Init == /\ head = NULL /\ tail = NULL /\ count = 0
        /\ next \in [Cell -> {NULL}] /\ data \in [Cell -> Item]
        /\ allocated = {}
        /\ pc = [c \in Consumer |-> "out"]
        /\ e = [c \in Consumer |-> NULL]
        /\ order = << >>

(***************************************************************************)
(* Plausible slips, used to show that the properties notice them.          *)
(***************************************************************************)
MutSignalNobody == UNCHANGED pc

MutSignalOnFirstOnly ==
    IF count = 0 THEN \/ waiting = {} /\ UNCHANGED pc
                      \/ \E c \in waiting : pc' = [pc EXCEPT ![c] = "woken"]
                 ELSE UNCHANGED pc

(* pthread_cond_signal(&nonempty): wakes one waiter if there is one. *)
cond_signal == \/ waiting = {} /\ UNCHANGED pc
               \/ \E c \in waiting : pc' = [pc EXCEPT ![c] = "woken"]

(* tsl_append; when mem_alloc fails it returns 0 and changes nothing. *)
tsl_append(it) ==
    \E new \in Cell \ allocated :
        /\ allocated' = allocated \cup {new}
        /\ data' = [data EXCEPT ![new] = it]
        /\ next' = IF count = 0 THEN [next EXCEPT ![new] = NULL]
                                ELSE [next EXCEPT ![new] = NULL, ![tail] = new]
        /\ head' = IF count = 0 THEN new ELSE head
        /\ tail' = new
        /\ count' = count + 1
        /\ order' = Append(order, new)
        /\ cond_signal
        /\ UNCHANGED e

MutPrependKeepsTail(it) ==
    \E new \in Cell \ allocated :
        /\ allocated' = allocated \cup {new}
        /\ data' = [data EXCEPT ![new] = it]
        /\ next' = [next EXCEPT ![new] = head]
        /\ head' = new
        /\ tail' = tail
        /\ count' = count + 1
        /\ order' = <<new>> \o order
        /\ cond_signal
        /\ UNCHANGED e

(* tsl_prepend. *)
tsl_prepend(it) ==
    \E new \in Cell \ allocated :
        /\ allocated' = allocated \cup {new}
        /\ data' = [data EXCEPT ![new] = it]
        /\ next' = [next EXCEPT ![new] = head]
        /\ head' = new
        /\ tail' = IF count = 0 THEN new ELSE tail
        /\ count' = count + 1
        /\ order' = <<new>> \o order
        /\ cond_signal
        /\ UNCHANGED e

(***************************************************************************)
(* tsl_remove.  The caller, coming in or woken, holds the mutex and tests  *)
(* `count': it goes (back) to sleep, or unlinks the first element.         *)
(***************************************************************************)
cond_wait(c) ==
    /\ pc[c] \in {"out", "woken"}
    /\ count = 0
    /\ pc' = [pc EXCEPT ![c] = "waiting"]
    /\ UNCHANGED <<list, heap, e, order>>

(* POSIX lets pthread_cond_wait return without a signal. *)
SpuriousWakeup(c) ==
    /\ pc[c] = "waiting"
    /\ pc' = [pc EXCEPT ![c] = "woken"]
    /\ UNCHANGED <<list, heap, e, order>>

MutUnlinkFreesFirst(c) ==
    /\ pc[c] \in {"out", "woken"}
    /\ count # 0
    /\ e' = [e EXCEPT ![c] = head]
    /\ head' = next[head]
    /\ count' = count - 1
    /\ tail' = IF count = 1 THEN NULL ELSE tail
    /\ order' = Tail(order)
    /\ pc' = [pc EXCEPT ![c] = "unlinked"]
    /\ allocated' = allocated \ {head}
    /\ UNCHANGED <<next, data>>

unlink(c) ==
    /\ pc[c] \in {"out", "woken"}
    /\ count # 0
    /\ e' = [e EXCEPT ![c] = head]
    /\ head' = next[head]
    /\ count' = count - 1
    /\ tail' = IF count = 1 THEN NULL ELSE tail
    /\ order' = Tail(order)
    /\ pc' = [pc EXCEPT ![c] = "unlinked"]
    /\ UNCHANGED heap

(* After the unlock: copy the element out and free it. *)
finish(c) ==
    /\ pc[c] = "unlinked"
    /\ allocated' = allocated \ {e[c]}
    /\ e' = [e EXCEPT ![c] = NULL]
    /\ pc' = [pc EXCEPT ![c] = "out"]
    /\ UNCHANGED <<list, next, data, order>>

tsl_remove(c) == cond_wait(c) \/ unlink(c) \/ finish(c)

Next == \/ \E it \in Item : tsl_append(it) \/ tsl_prepend(it)
        \/ \E c \in Consumer : tsl_remove(c) \/ SpuriousWakeup(c)

(* A thread that can run inside tsl_remove eventually runs. *)
Fairness == \A c \in Consumer : WF_vars(tsl_remove(c))

Spec == Init /\ [][Next]_vars /\ Fairness

-----------------------------------------------------------------------------
(* Every variable of the list, the heap and the consumers has its type. *)
TypeOK == /\ head \in Cell \cup {NULL} /\ tail \in Cell \cup {NULL}
          /\ count \in Nat
          /\ next \in [Cell -> Cell \cup {NULL}] /\ data \in [Cell -> Item]
          /\ allocated \subseteq Cell
          /\ pc \in [Consumer -> Places]
          /\ e \in [Consumer -> Cell \cup {NULL}]
          /\ order \in Seq(Cell)

Linked == {order[i] : i \in 1 .. Len(order)}

(***************************************************************************)
(* The pointers really are a list: `count' cells, reached from head one    *)
(* after the other, ending in tail whose next is NULL (which tsl_prepend   *)
(* relies on when the list is empty: it copies head without a test), with  *)
(* no cell twice.                                                          *)
(***************************************************************************)
Chain == /\ count = Len(order)
         /\ order = << >> => head = NULL /\ tail = NULL
         /\ order # << >> => /\ head = order[1]
                             /\ tail = order[Len(order)]
                             /\ next[tail] = NULL
         /\ \A i \in 1 .. Len(order) - 1 : next[order[i]] = order[i + 1]
         /\ \A i, j \in 1 .. Len(order) : order[i] = order[j] => i = j

(***************************************************************************)
(* No cell is freed under anyone: the linked cells and the cells consumers *)
(* have unlinked and still read are allocated, nobody holds a linked cell, *)
(* and no two consumers hold the same one.                                 *)
(***************************************************************************)
Ownership == /\ Linked \subseteq allocated
             /\ \A c \in Consumer :
                   /\ pc[c] = "unlinked" <=> e[c] # NULL
                   /\ pc[c] = "unlinked" => e[c] \in allocated \ Linked
             /\ \A c, d \in Consumer : e[c] # NULL /\ e[c] = e[d] => c = d

(***************************************************************************)
(* No wake-up is lost: while somebody sleeps, every queued element has a   *)
(* woken consumer coming for it, although consumers that never slept may   *)
(* take elements ahead of the woken ones.                                  *)
(***************************************************************************)
NoLostWakeup == waiting # {} => count <= Cardinality(woken)

(* The list implements the abstract queue. *)
Queue == INSTANCE FifoQueue
           WITH NoItem <- NULL,
                items <- [i \in 1 .. Len(order) |-> data[order[i]]],
                taken <- [c \in Consumer |->
                            IF pc[c] = "unlinked" THEN data[e[c]] ELSE NULL]

QueueSpec == Queue!AbsSpec

(***************************************************************************)
(* A consumer does not sleep on while there is something to take: it is    *)
(* woken, or the others empty the list.                                    *)
(***************************************************************************)
NobodySleepsOn ==
    \A c \in Consumer : (pc[c] = "waiting" /\ count > 0)
                           ~> (pc[c] # "waiting" \/ count = 0)
=============================================================================
