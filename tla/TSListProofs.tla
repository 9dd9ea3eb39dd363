---------------------------- MODULE TSListProofs ----------------------------
(***************************************************************************)
(* TSList for any number of cells, items and consumers: the pointers form  *)
(* a list, no element is freed under a reader, no wake-up is lost, and     *)
(* every step is a step of the abstract queue or leaves it alone.          *)
(***************************************************************************)
EXTENDS TSList, SequenceTheorems, FiniteSetTheorems, TLAPS

IInv == TypeOK /\ Chain /\ Ownership

(* tsl_create's empty list satisfies the inductive invariant. *)
LEMMA InitEstablishes == Init => IInv
<1> SUFFICES ASSUME Init PROVE IInv
  OBVIOUS
<1>1. order = << >> /\ Len(order) = 0
  BY DEF Init
<1>2. TypeOK
  BY EmptySeq DEF Init, TypeOK, Places
<1>3. Chain
  BY <1>1 DEF Init, Chain
<1>4. Ownership
  BY <1>1, ItemAssumption DEF Init, Ownership, Linked
<1> QED
  BY <1>2, <1>3, <1>4 DEF IInv

(* cond_signal moves one sleeping consumer, if any, to the woken ones. *)
LEMMA SignalEffect ==
  ASSUME TypeOK, cond_signal
  PROVE  /\ pc' \in [Consumer -> Places]
         /\ \A c \in Consumer : pc'[c] = "unlinked" <=> pc[c] = "unlinked"
  BY DEF TypeOK, cond_signal, waiting, Places

(* tsl_append preserves the inductive invariant. *)
LEMMA AppendStep ==
  ASSUME IInv, NEW it \in Item, tsl_append(it)
  PROVE  IInv'
<1> USE DEF IInv
<1>1. PICK new \in Cell \ allocated :
        /\ allocated' = allocated \cup {new}
        /\ data' = [data EXCEPT ![new] = it]
        /\ next' = IF count = 0 THEN [next EXCEPT ![new] = NULL]
                                ELSE [next EXCEPT ![new] = NULL, ![tail] = new]
        /\ head' = IF count = 0 THEN new ELSE head
        /\ tail' = new
        /\ count' = count + 1
        /\ order' = Append(order, new)
        /\ cond_signal
        /\ UNCHANGED e
  BY DEF tsl_append
<1>2. /\ order' \in Seq(Cell) /\ order' # << >>
      /\ Len(order') = Len(order) + 1
      /\ \A i \in 1 .. Len(order) : order'[i] = order[i]
      /\ order'[Len(order) + 1] = new
  BY <1>1, AppendProperties DEF TypeOK
<1>3. /\ Len(order) \in Nat
      /\ order # << >> => Len(order) # 0
      /\ \A i \in 1 .. Len(order) : order[i] \in Cell /\ order[i] \in allocated
  BY EmptySeq, ElementOfSeq, LenProperties DEF TypeOK, Ownership, Linked
<1>4. \A i \in 1 .. Len(order) : order[i] # new
  BY <1>1, <1>3
<1>5. TypeOK'
  <2>1. next' \in [Cell -> Cell \cup {NULL}] /\ data' \in [Cell -> Item]
    BY <1>1 DEF TypeOK
  <2>2. pc' \in [Consumer -> Places]
    BY <1>1, SignalEffect
  <2>3. /\ head' \in Cell \cup {NULL} /\ tail' \in Cell \cup {NULL}
        /\ count' \in Nat /\ allocated' \subseteq Cell
        /\ e' \in [Consumer -> Cell \cup {NULL}]
    BY <1>1 DEF TypeOK
  <2> QED
    BY <2>1, <2>2, <2>3, <1>2 DEF TypeOK
<1>6. Chain'
  <2>1. count' = Len(order') /\ tail' = order'[Len(order')] /\ head' = order'[1]
    BY <1>1, <1>2, <1>3 DEF Chain
  <2>2. next'[tail'] = NULL
    BY <1>1, <1>3, <1>4, CellAssumption DEF Chain, TypeOK
  <2>3. \A i \in 1 .. Len(order') - 1 : next'[order'[i]] = order'[i + 1]
    <3> TAKE i \in 1 .. Len(order') - 1
    <3>0. i \in 1 .. Len(order) /\ count # 0 /\ order # << >>
      BY <1>2, <1>3 DEF Chain
    <3>1. CASE i = Len(order)
      BY <3>0, <3>1, <1>1, <1>2, <1>3 DEF Chain, TypeOK
    <3>2. CASE i # Len(order)
      <4>1. i + 1 \in 1 .. Len(order) /\ i \in 1 .. Len(order) - 1
        BY <3>0, <3>2, <1>3
      <4>2. order[i] # tail /\ next[order[i]] = order[i + 1]
        BY <4>1, <3>0, <3>2, <1>3 DEF Chain
      <4> QED
        BY <4>1, <4>2, <3>0, <1>1, <1>2, <1>3, <1>4 DEF TypeOK
    <3> QED
      BY <3>1, <3>2
  <2>4. \A i, j \in 1 .. Len(order') : order'[i] = order'[j] => i = j
    BY <1>2, <1>3, <1>4 DEF Chain
  <2> QED
    BY <2>1, <2>2, <2>3, <2>4, <1>2 DEF Chain
<1>7. Ownership'
  <2>1. Linked' = Linked \cup {new}
    BY <1>2, <1>3 DEF Linked
  <2> QED
    BY <2>1, <1>1, SignalEffect DEF Ownership, TypeOK
<1> QED
  BY <1>5, <1>6, <1>7

(* tsl_prepend preserves the inductive invariant. *)
LEMMA PrependStep ==
  ASSUME IInv, NEW it \in Item, tsl_prepend(it)
  PROVE  IInv'
<1> USE DEF IInv
<1>1. PICK new \in Cell \ allocated :
        /\ allocated' = allocated \cup {new}
        /\ data' = [data EXCEPT ![new] = it]
        /\ next' = [next EXCEPT ![new] = head]
        /\ head' = new
        /\ tail' = IF count = 0 THEN new ELSE tail
        /\ count' = count + 1
        /\ order' = <<new>> \o order
        /\ cond_signal
        /\ UNCHANGED e
  BY DEF tsl_prepend
<1>2. /\ order' \in Seq(Cell)
      /\ Len(order') = Len(order) + 1
      /\ order'[1] = new
      /\ \A i \in 1 .. Len(order) : order'[i + 1] = order[i]
  <2>1. <<new>> \in Seq(Cell) /\ Len(<<new>>) = 1 /\ <<new>>[1] = new
    OBVIOUS
  <2>2. order \in Seq(Cell) /\ Len(order) \in Nat
    BY LenProperties DEF TypeOK
  <2>3. /\ <<new>> \o order \in Seq(Cell)
        /\ Len(<<new>> \o order) = Len(<<new>>) + Len(order)
        /\ \A i \in 1 .. Len(<<new>>) + Len(order) : (<<new>> \o order)[i] =
                     IF i <= Len(<<new>>) THEN <<new>>[i] ELSE order[i - Len(<<new>>)]
    BY <2>1, <2>2, ConcatProperties
  <2>4. \A i \in 1 .. Len(order) : i + 1 \in 1 .. 1 + Len(order) /\ ~(i + 1 <= 1) /\ (i + 1) - 1 = i
    BY <2>2
  <2>5. 1 \in 1 .. 1 + Len(order)
    BY <2>2
  <2> QED
    BY <2>1, <2>2, <2>3, <2>4, <2>5, <1>1
<1>3. /\ Len(order) \in Nat
      /\ order # << >> => Len(order) # 0
      /\ order' # << >>
      /\ \A i \in 1 .. Len(order) : order[i] \in Cell /\ order[i] \in allocated
  BY <1>2, EmptySeq, ElementOfSeq, LenProperties DEF TypeOK, Ownership, Linked
<1>4. \A i \in 1 .. Len(order) : order[i] # new
  BY <1>1, <1>3
<1>5. TypeOK'
  BY <1>1, <1>2, SignalEffect, CellAssumption DEF TypeOK
<1>6. Chain'
  <2>1. count' = Len(order') /\ tail' = order'[Len(order')] /\ head' = order'[1]
    BY <1>1, <1>2, <1>3 DEF Chain
  <2>2. next'[tail'] = NULL
    BY <1>1, <1>3, <1>4, CellAssumption DEF Chain, TypeOK
  <2>3. \A i \in 1 .. Len(order') - 1 : next'[order'[i]] = order'[i + 1]
    <3> TAKE i \in 1 .. Len(order') - 1
    <3>0. i \in 1 .. Len(order) /\ count # 0 /\ order # << >> /\ order'[i + 1] = order[i]
      BY <1>2, <1>3 DEF Chain
    <3>1. CASE i = 1
      BY <3>0, <3>1, <1>1, <1>2, <1>3 DEF Chain, TypeOK
    <3>2. CASE i # 1
      <4> DEFINE k == i - 1
      <4>1. k \in 1 .. Len(order) - 1 /\ k + 1 = i /\ k \in 1 .. Len(order)
        BY <3>0, <3>2, <1>3
      <4>2. order'[i] = order[k] /\ next[order[k]] = order[i]
        BY <4>1, <1>2 DEF Chain
      <4> QED
        BY <4>1, <4>2, <3>0, <1>1, <1>3, <1>4 DEF TypeOK
    <3> QED
      BY <3>1, <3>2
  <2>4. \A i, j \in 1 .. Len(order') : order'[i] = order'[j] => i = j
    <3>1. \A i \in 1 .. Len(order') : i # 1 => /\ i - 1 \in 1 .. Len(order)
                                               /\ order'[i] = order[i - 1]
      <4> TAKE i \in 1 .. Len(order')
      <4> HAVE i # 1
      <4>1. i - 1 \in 1 .. Len(order) /\ (i - 1) + 1 = i
        BY <1>2, <1>3
      <4> QED
        BY <4>1, <1>2
    <3> TAKE i, j \in 1 .. Len(order')
    <3>2. CASE i = 1 /\ j = 1
      BY <3>2
    <3>3. CASE i = 1 /\ j # 1
      BY <3>1, <3>3, <1>2, <1>4
    <3>4. CASE i # 1 /\ j = 1
      BY <3>1, <3>4, <1>2, <1>4
    <3>5. CASE i # 1 /\ j # 1
      BY <3>1, <3>5, <1>3 DEF Chain
    <3> QED
      BY <3>2, <3>3, <3>4, <3>5
  <2> QED
    BY <2>1, <2>2, <2>3, <2>4, <1>3 DEF Chain
<1>7. Ownership'
  <2>1. Linked' \subseteq Linked \cup {new}
    <3> SUFFICES ASSUME NEW i \in 1 .. Len(order')
                 PROVE  order'[i] \in Linked \cup {new}
      BY DEF Linked
    <3>1. CASE i = 1
      BY <3>1, <1>2
    <3>2. CASE i # 1
      <4>1. i - 1 \in 1 .. Len(order) /\ (i - 1) + 1 = i
        BY <3>2, <1>2, <1>3
      <4> QED
        BY <4>1, <1>2 DEF Linked
    <3> QED
      BY <3>1, <3>2
  <2> QED
    BY <2>1, <1>1, SignalEffect DEF Ownership, TypeOK
<1> QED
  BY <1>5, <1>6, <1>7

(* cond_wait and SpuriousWakeup touch only pc, and nobody's element. *)
LEMMA PcOnlyStep ==
  ASSUME IInv, UNCHANGED <<list, heap, e, order>>,
         pc' \in [Consumer -> Places],
         \A c \in Consumer : pc'[c] = "unlinked" <=> pc[c] = "unlinked"
  PROVE  IInv'
<1>1. TypeOK'
  BY DEF IInv, TypeOK, list, heap
<1>2. Chain'
  BY DEF IInv, Chain, list, heap
<1>3. Ownership'
  BY DEF IInv, Ownership, Linked, list, heap
<1> QED
  BY <1>1, <1>2, <1>3 DEF IInv

(* unlink takes the first cell off the list and gives it to the consumer. *)
LEMMA UnlinkStep ==
  ASSUME IInv, NEW c \in Consumer, unlink(c)
  PROVE  IInv'
<1> USE DEF IInv
<1>1. /\ Len(order) \in Nat \ {0} /\ order # << >>
      /\ \A i \in 1 .. Len(order) : order[i] \in Cell
      /\ head = order[1]
  BY EmptySeq, ElementOfSeq, LenProperties DEF unlink, TypeOK, Chain
<1>2. /\ order' \in Seq(Cell)
      /\ Len(order') = Len(order) - 1
      /\ \A i \in 1 .. Len(order') : order'[i] = order[i + 1]
  BY <1>1, HeadTailProperties DEF unlink, TypeOK
<1>3. head \in Cell /\ head \in Linked
  BY <1>1 DEF Linked
<1>4. /\ next' = next /\ data' = data /\ allocated' = allocated
      /\ count' = count - 1 /\ count \in Nat \ {0} /\ count = Len(order)
      /\ head' = next[head]
      /\ tail' = IF count = 1 THEN NULL ELSE tail
      /\ e' = [e EXCEPT ![c] = head]
      /\ pc' = [pc EXCEPT ![c] = "unlinked"]
  BY DEF unlink, heap, TypeOK, Chain
<1>5. TypeOK'
  BY <1>2, <1>3, <1>4 DEF TypeOK, Places
<1>6. Chain'
  <2>1. count' = Len(order')
    BY <1>2, <1>4
  <2>2. CASE Len(order) = 1
    <3>1. head' = NULL /\ tail' = NULL /\ Len(order') = 0
      BY <2>2, <1>1, <1>2, <1>4 DEF Chain
    <3>2. order' = << >>
      BY <3>1, <1>2, EmptySeq
    <3> QED
      BY <2>1, <3>1, <3>2 DEF Chain
  <2>3. CASE Len(order) # 1
    <3>1. Len(order') \in Nat \ {0} /\ order' # << >>
      BY <2>3, <1>1, <1>2, EmptySeq
    <3>2. head' = order'[1]
      BY <2>3, <1>1, <1>2, <1>4 DEF Chain
    <3>3. tail' = order'[Len(order')] /\ next'[tail'] = NULL
      BY <2>3, <1>1, <1>2, <1>4 DEF Chain
    <3>4. \A i \in 1 .. Len(order') - 1 : next'[order'[i]] = order'[i + 1]
      BY <1>1, <1>2, <1>4 DEF Chain
    <3>5. \A i, j \in 1 .. Len(order') : order'[i] = order'[j] => i = j
      BY <1>1, <1>2 DEF Chain
    <3> QED
      BY <2>1, <3>1, <3>2, <3>3, <3>4, <3>5 DEF Chain
  <2> QED
    BY <2>2, <2>3
<1>7. Ownership'
  <2>1. Linked' \subseteq Linked /\ head \notin Linked'
    BY <1>1, <1>2 DEF Linked, Chain
  <2>2. e[c] = NULL
    BY DEF unlink, Ownership
  <2>3. \A d \in Consumer : d # c => e'[d] = e[d] /\ pc'[d] = pc[d]
    BY <1>4 DEF TypeOK
  <2>4. e'[c] = head /\ pc'[c] = "unlinked" /\ head # NULL /\ head \in allocated
    BY <1>3, <1>4, CellAssumption DEF TypeOK, Ownership
  <2>5. \A d \in Consumer : d # c => e[d] # head
    BY <1>3, <2>4 DEF Ownership
  <2> QED
    BY <2>1, <2>3, <2>4, <2>5, <1>4 DEF Ownership
<1> QED
  BY <1>5, <1>6, <1>7

(* finish frees a cell that is neither linked nor held by anybody else. *)
LEMMA FinishStep ==
  ASSUME IInv, NEW c \in Consumer, finish(c)
  PROVE  IInv'
<1> USE DEF IInv
<1>1. TypeOK'
  BY DEF TypeOK, finish, list, Places
<1>2. Chain'
  BY DEF Chain, finish, list
<1>3. Ownership'
  <2>1. e[c] \notin Linked /\ e[c] # NULL /\ Linked' = Linked
    BY DEF Ownership, finish, Linked
  <2>2. \A d \in Consumer : d # c => e'[d] = e[d] /\ pc'[d] = pc[d] /\ e[d] # e[c]
    BY <2>1 DEF Ownership, finish, TypeOK
  <2>3. e'[c] = NULL /\ pc'[c] = "out" /\ allocated' = allocated \ {e[c]}
    BY DEF finish, TypeOK
  <2> QED
    BY <2>1, <2>2, <2>3 DEF Ownership
<1> QED
  BY <1>1, <1>2, <1>3

(* The inductive step. *)
LEMMA NextPreserves == IInv /\ [Next]_vars => IInv'
<1> SUFFICES ASSUME IInv, [Next]_vars PROVE IInv'
  OBVIOUS
<1>1. ASSUME NEW it \in Item, tsl_append(it) PROVE IInv'
  BY <1>1, AppendStep
<1>2. ASSUME NEW it \in Item, tsl_prepend(it) PROVE IInv'
  BY <1>2, PrependStep
<1>3. ASSUME NEW c \in Consumer, cond_wait(c) PROVE IInv'
  BY <1>3, PcOnlyStep DEF cond_wait, IInv, TypeOK, Places
<1>4. ASSUME NEW c \in Consumer, SpuriousWakeup(c) PROVE IInv'
  BY <1>4, PcOnlyStep DEF SpuriousWakeup, IInv, TypeOK, Places
<1>5. ASSUME NEW c \in Consumer, unlink(c) PROVE IInv'
  BY <1>5, UnlinkStep
<1>6. ASSUME NEW c \in Consumer, finish(c) PROVE IInv'
  BY <1>6, FinishStep
<1>7. CASE UNCHANGED vars
  BY <1>7, PcOnlyStep DEF vars, IInv, TypeOK
<1> QED
  BY <1>1, <1>2, <1>3, <1>4, <1>5, <1>6, <1>7 DEF Next, tsl_remove

LEMMA Invariance == Spec => []IInv
  BY InitEstablishes, NextPreserves, PTL DEF Spec

(* The state of the list always has its type. *)
THEOREM TypeCorrect == Spec => []TypeOK
  BY Invariance, PTL DEF IInv

(* head, tail, count and the next pointers always describe one list. *)
THEOREM ChainCorrect == Spec => []Chain
  BY Invariance, PTL DEF IInv

(* No element is freed while it is linked or another thread reads it. *)
THEOREM OwnershipCorrect == Spec => []Ownership
  BY Invariance, PTL DEF IInv

(***************************************************************************)
(* The wake-up argument.  `waiting' and `woken' are finite, so cardinality *)
(* counts them; an append adds one element and, if anyone sleeps, one      *)
(* woken consumer; a woken consumer that leaves takes an element along or  *)
(* finds none.                                                             *)
(***************************************************************************)
LEMMA WokenFinite ==
  ASSUME TypeOK
  PROVE  IsFiniteSet(woken) /\ Cardinality(woken) \in Nat
<1>1. woken \in SUBSET Consumer
  BY DEF woken
<1>2. IsFiniteSet(woken)
  BY <1>1, ConsumerAssumption, FS_Subset
<1> QED
  BY <1>2, FS_CardinalityType

(* A signal leaves nobody asleep, or adds one woken consumer. *)
LEMMA SignalWakes ==
  ASSUME TypeOK, cond_signal
  PROVE  \/ waiting' = {} /\ woken' = woken
         \/ Cardinality(woken') = Cardinality(woken) + 1
<1>1. CASE waiting = {} /\ UNCHANGED pc
  BY <1>1 DEF waiting, woken
<1>2. CASE \E c \in waiting : pc' = [pc EXCEPT ![c] = "woken"]
  <2>1. PICK c \in waiting : pc' = [pc EXCEPT ![c] = "woken"]
    BY <1>2
  <2>2. woken' = woken \cup {c} /\ c \notin woken
    BY <2>1 DEF waiting, woken, TypeOK
  <2> QED
    BY <2>2, WokenFinite, FS_AddElement
<1> QED
  BY <1>1, <1>2 DEF cond_signal

(* NoLostWakeup is inductive, given the types and the count of the list. *)
LEMMA WakeupStep ==
  ASSUME IInv, NoLostWakeup, [Next]_vars
  PROVE  NoLostWakeup'
<1>0. TypeOK /\ count \in Nat /\ Cardinality(woken) \in Nat /\ IsFiniteSet(woken)
  BY WokenFinite DEF IInv, TypeOK
<1>1. ASSUME NEW it \in Item, tsl_append(it) \/ tsl_prepend(it)
      PROVE  NoLostWakeup'
  <2>1. cond_signal /\ count' = count + 1
    BY <1>1 DEF tsl_append, tsl_prepend
  <2>2. CASE waiting' = {} /\ woken' = woken
    BY <2>2 DEF NoLostWakeup
  <2>3. CASE Cardinality(woken') = Cardinality(woken) + 1
    <3>1. waiting # {} \/ waiting' = {}
      BY <2>1, <1>0 DEF cond_signal, waiting
    <3> QED
      BY <3>1, <2>1, <2>3, <1>0 DEF NoLostWakeup
  <2> QED
    BY <2>1, <2>2, <2>3, <1>0, SignalWakes
<1>2. ASSUME NEW c \in Consumer, cond_wait(c)
      PROVE  NoLostWakeup'
  <2>1. count' = 0
    BY <1>2 DEF cond_wait, list
  <2>2. Cardinality(woken') \in Nat
    <3>1. woken' \in SUBSET Consumer
      BY DEF woken
    <3> QED
      BY <3>1, ConsumerAssumption, FS_Subset, FS_CardinalityType
  <2> QED
    BY <2>1, <2>2 DEF NoLostWakeup
<1>3. ASSUME NEW c \in Consumer, SpuriousWakeup(c)
      PROVE  NoLostWakeup'
  <2>1. woken' = woken \cup {c} /\ c \notin woken /\ c \in waiting /\ count' = count
    BY <1>0, <1>3 DEF SpuriousWakeup, woken, waiting, TypeOK, list
  <2>2. Cardinality(woken') = Cardinality(woken) + 1
    BY <1>0, <2>1, FS_AddElement
  <2> QED
    BY <1>0, <2>1, <2>2 DEF NoLostWakeup
<1>4. ASSUME NEW c \in Consumer, unlink(c)
      PROVE  NoLostWakeup'
  <2>1. /\ woken' = woken \ {c} /\ waiting' = waiting
        /\ count' = count - 1 /\ count # 0
    BY <1>0, <1>4 DEF unlink, woken, waiting, TypeOK
  <2>2. Cardinality(woken') >= Cardinality(woken) - 1
    BY <1>0, <2>1, FS_RemoveElement
  <2>3. Cardinality(woken') \in Nat
    BY <1>0, <2>1, FS_RemoveElement, FS_CardinalityType
  <2> QED
    BY <1>0, <2>1, <2>2, <2>3 DEF NoLostWakeup
<1>5. ASSUME NEW c \in Consumer, finish(c)
      PROVE  NoLostWakeup'
  <2>1. woken' = woken /\ waiting' = waiting /\ count' = count
    BY <1>0, <1>5 DEF finish, woken, waiting, TypeOK, list
  <2> QED
    BY <2>1 DEF NoLostWakeup
<1>6. CASE UNCHANGED vars
  BY <1>6 DEF vars, list, NoLostWakeup, waiting, woken
<1> QED
  BY <1>1, <1>2, <1>3, <1>4, <1>5, <1>6 DEF Next, tsl_remove

(* No wake-up is lost, however many consumers share the list. *)
THEOREM WakeupCorrect == Spec => []NoLostWakeup
<1>1. Init => NoLostWakeup
  BY DEF Init, NoLostWakeup, waiting
<1>2. IInv /\ NoLostWakeup /\ [Next]_vars => NoLostWakeup'
  BY WakeupStep
<1> QED
  BY <1>1, <1>2, Invariance, PTL DEF Spec

(***************************************************************************)
(* The refinement.  The queue's items are the data of the linked cells.    *)
(***************************************************************************)
ItemsOf(cells, contents) == [i \in 1 .. Len(cells) |-> contents[cells[i]]]

(* The contents of a sequence of cells are a sequence of items. *)
LEMMA ItemsOfSeq ==
  ASSUME NEW cells \in Seq(Cell), NEW contents \in [Cell -> Item]
  PROVE  /\ ItemsOf(cells, contents) \in Seq(Item)
         /\ Len(ItemsOf(cells, contents)) = Len(cells)
         /\ \A i \in 1 .. Len(cells) : ItemsOf(cells, contents)[i] = contents[cells[i]]
<1>1. Len(cells) \in Nat /\ \A i \in 1 .. Len(cells) : contents[cells[i]] \in Item
  BY ElementOfSeq, LenProperties
<1> QED
  BY <1>1 DEF ItemsOf

(* Linking a cell behind the others appends its item, and in front of them *)
(* puts it first; taking the first cell off takes the first item off.      *)
LEMMA ItemsOfAppend ==
  ASSUME NEW cells \in Seq(Cell), NEW contents \in [Cell -> Item],
         NEW new \in Cell, NEW it \in Item,
         \A i \in 1 .. Len(cells) : cells[i] # new
  PROVE  ItemsOf(Append(cells, new), [contents EXCEPT ![new] = it])
           = Append(ItemsOf(cells, contents), it)
<1> DEFINE c2 == Append(cells, new)
           d2 == [contents EXCEPT ![new] = it]
           lhs == ItemsOf(c2, d2)
           old == ItemsOf(cells, contents)
           rhs == Append(old, it)
<1>0. Len(cells) \in Nat /\ \A i \in 1 .. Len(cells) : cells[i] \in Cell
  BY ElementOfSeq, LenProperties
<1>1. /\ c2 \in Seq(Cell) /\ Len(c2) = Len(cells) + 1
      /\ \A i \in 1 .. Len(cells) : c2[i] = cells[i]
      /\ c2[Len(cells) + 1] = new
  BY AppendProperties
<1>2. /\ d2 \in [Cell -> Item] /\ d2[new] = it
      /\ \A i \in 1 .. Len(cells) : d2[cells[i]] = contents[cells[i]]
  BY <1>0
<1>3. /\ lhs \in Seq(Item) /\ Len(lhs) = Len(cells) + 1
      /\ \A i \in 1 .. Len(cells) + 1 : lhs[i] = d2[c2[i]]
  <2> HIDE DEF c2, d2
  <2> QED
    BY <1>1, <1>2, ItemsOfSeq
<1>4. /\ old \in Seq(Item) /\ Len(old) = Len(cells)
      /\ \A i \in 1 .. Len(cells) : old[i] = contents[cells[i]]
  BY ItemsOfSeq
<1>5. /\ rhs \in Seq(Item) /\ Len(rhs) = Len(cells) + 1
      /\ \A i \in 1 .. Len(cells) : rhs[i] = contents[cells[i]]
      /\ rhs[Len(cells) + 1] = it
  <2> HIDE DEF old
  <2> QED
    BY <1>4, AppendProperties
<1>6. \A i \in 1 .. Len(lhs) : lhs[i] = rhs[i]
  <2> HIDE DEF lhs, rhs, c2, d2
  <2> TAKE i \in 1 .. Len(lhs)
  <2>1. i \in 1 .. Len(cells) \/ i = Len(cells) + 1
    BY <1>0, <1>3
  <2> QED
    BY <2>1, <1>0, <1>1, <1>2, <1>3, <1>5
<1> HIDE DEF lhs, rhs
<1>7. lhs = rhs
  BY <1>3, <1>5, <1>6, SeqEqual
<1> QED
  BY <1>7 DEF lhs, rhs

LEMMA ItemsOfPrepend ==
  ASSUME NEW cells \in Seq(Cell), NEW contents \in [Cell -> Item],
         NEW new \in Cell, NEW it \in Item,
         \A i \in 1 .. Len(cells) : cells[i] # new
  PROVE  ItemsOf(<<new>> \o cells, [contents EXCEPT ![new] = it])
           = <<it>> \o ItemsOf(cells, contents)
<1> DEFINE c2 == <<new>> \o cells
           d2 == [contents EXCEPT ![new] = it]
           lhs == ItemsOf(c2, d2)
           old == ItemsOf(cells, contents)
           rhs == <<it>> \o old
<1>0. Len(cells) \in Nat /\ \A i \in 1 .. Len(cells) : cells[i] \in Cell
  BY ElementOfSeq, LenProperties
<1>1. /\ c2 \in Seq(Cell) /\ Len(c2) = Len(cells) + 1
      /\ \A i \in 1 .. Len(cells) + 1 : c2[i] = IF i <= 1 THEN new ELSE cells[i - 1]
  <2>1. <<new>> \in Seq(Cell) /\ Len(<<new>>) = 1 /\ <<new>>[1] = new
    OBVIOUS
  <2> QED
    BY <2>1, <1>0, ConcatProperties
<1>2. /\ d2 \in [Cell -> Item] /\ d2[new] = it
      /\ \A i \in 1 .. Len(cells) : d2[cells[i]] = contents[cells[i]]
  BY <1>0
<1>3. /\ lhs \in Seq(Item) /\ Len(lhs) = Len(cells) + 1
      /\ \A i \in 1 .. Len(cells) + 1 : lhs[i] = d2[c2[i]]
  <2> HIDE DEF c2, d2
  <2> QED
    BY <1>1, <1>2, ItemsOfSeq
<1>4. /\ old \in Seq(Item) /\ Len(old) = Len(cells)
      /\ \A i \in 1 .. Len(cells) : old[i] = contents[cells[i]]
  BY ItemsOfSeq
<1>5. /\ rhs \in Seq(Item) /\ Len(rhs) = Len(cells) + 1
      /\ \A i \in 1 .. Len(cells) + 1 : rhs[i] = IF i <= 1 THEN it ELSE old[i - 1]
  <2> HIDE DEF old
  <2>1. <<it>> \in Seq(Item) /\ Len(<<it>>) = 1 /\ <<it>>[1] = it
    OBVIOUS
  <2> QED
    BY <2>1, <1>0, <1>4, ConcatProperties
<1>6. \A i \in 1 .. Len(lhs) : lhs[i] = rhs[i]
  <2> HIDE DEF lhs, rhs, c2, d2, old
  <2> TAKE i \in 1 .. Len(lhs)
  <2>1. i = 1 \/ (~(i <= 1) /\ i - 1 \in 1 .. Len(cells))
    BY <1>0, <1>3
  <2>2. i \in 1 .. Len(cells) + 1
    BY <1>3
  <2>3. CASE i = 1
    BY <2>2, <2>3, <1>1, <1>2, <1>3, <1>5
  <2>4. CASE ~(i <= 1) /\ i - 1 \in 1 .. Len(cells)
    <3>1. c2[i] = cells[i - 1] /\ lhs[i] = d2[c2[i]] /\ rhs[i] = old[i - 1]
      BY <2>2, <2>4, <1>1, <1>3, <1>5
    <3>2. d2[cells[i - 1]] = contents[cells[i - 1]]
      BY <2>4, <1>2
    <3>3. old[i - 1] = contents[cells[i - 1]]
      BY <2>4, <1>4
    <3> QED
      BY <3>1, <3>2, <3>3
  <2> QED
    BY <2>1, <2>3, <2>4
<1> HIDE DEF lhs, rhs
<1>7. lhs = rhs
  BY <1>3, <1>5, <1>6, SeqEqual
<1> QED
  BY <1>7 DEF lhs, rhs

LEMMA ItemsOfTail ==
  ASSUME NEW cells \in Seq(Cell), NEW contents \in [Cell -> Item],
         cells # << >>
  PROVE  /\ ItemsOf(cells, contents) # << >>
         /\ ItemsOf(Tail(cells), contents) = Tail(ItemsOf(cells, contents))
         /\ contents[cells[1]] = Head(ItemsOf(cells, contents))
<1> DEFINE all == ItemsOf(cells, contents)
           rest == ItemsOf(Tail(cells), contents)
<1>0. Len(cells) \in Nat \ {0}
  BY EmptySeq
<1>1. /\ Tail(cells) \in Seq(Cell) /\ Len(Tail(cells)) = Len(cells) - 1
      /\ \A i \in 1 .. Len(cells) - 1 : Tail(cells)[i] = cells[i + 1]
  BY HeadTailProperties
<1>2. /\ all \in Seq(Item) /\ Len(all) = Len(cells)
      /\ \A i \in 1 .. Len(cells) : all[i] = contents[cells[i]]
  BY ItemsOfSeq
<1>3. /\ rest \in Seq(Item) /\ Len(rest) = Len(cells) - 1
      /\ \A i \in 1 .. Len(cells) - 1 : rest[i] = contents[Tail(cells)[i]]
  BY <1>1, ItemsOfSeq
<1> HIDE DEF all, rest
<1>4. all # << >>
  BY <1>0, <1>2
<1>5. /\ Tail(all) \in Seq(Item) /\ Len(Tail(all)) = Len(cells) - 1
      /\ \A i \in 1 .. Len(cells) - 1 : Tail(all)[i] = all[i + 1]
  BY <1>2, <1>4, HeadTailProperties
<1>6. rest = Tail(all)
  <2>1. \A i \in 1 .. Len(rest) : rest[i] = Tail(all)[i]
    BY <1>0, <1>1, <1>2, <1>3, <1>5
  <2> QED
    BY <2>1, <1>3, <1>5, SeqEqual
<1>7. contents[cells[1]] = Head(all)
  BY <1>0, <1>2, <1>4
<1> QED
  BY <1>4, <1>6, <1>7 DEF all, rest

(* The refinement mapping, named. *)
queued == ItemsOf(order, data)
handed == [c \in Consumer |-> IF pc[c] = "unlinked" THEN data[e[c]] ELSE NULL]

(* A step that leaves the linked cells, their data and the handed elements *)
(* alone is a stuttering step of the queue.                                *)
LEMMA QuietStep ==
  ASSUME UNCHANGED <<order, data, e>>,
         \A c \in Consumer : pc'[c] = "unlinked" <=> pc[c] = "unlinked"
  PROVE  queued' = queued /\ handed' = handed
  BY DEF queued, handed, ItemsOf

(* Linking a new cell leaves the handed elements alone. *)
LEMMA PutKeepsHanded ==
  ASSUME IInv, NEW new \in Cell \ allocated, NEW it \in Item, cond_signal,
         e' = e, data' = [data EXCEPT ![new] = it]
  PROVE  handed' = handed
<1>1. \A c \in Consumer : pc'[c] = "unlinked" <=> pc[c] = "unlinked"
  BY SignalEffect DEF IInv
<1>2. ASSUME NEW c \in Consumer, pc[c] = "unlinked"
      PROVE  data'[e[c]] = data[e[c]]
  BY <1>2 DEF IInv, Ownership, TypeOK
<1> QED
  BY <1>1, <1>2 DEF handed

(* Every step of the list is a step of the queue or leaves it alone. *)
LEMMA StepSimulates ==
  ASSUME IInv, [Next]_vars
  PROVE  [Queue!AbsNext]_<<queued, handed>>
<1>0. /\ TypeOK /\ order \in Seq(Cell) /\ data \in [Cell -> Item]
      /\ \A i \in 1 .. Len(order) : order[i] \in allocated
  BY DEF IInv, TypeOK, Ownership, Linked
<1>1. ASSUME NEW it \in Item, tsl_append(it)
      PROVE  Queue!PutBack(it)
  <2>1. PICK new \in Cell \ allocated :
          /\ data' = [data EXCEPT ![new] = it]
          /\ order' = Append(order, new)
          /\ cond_signal
          /\ e' = e
    BY <1>1 DEF tsl_append
  <2>2. queued' = Append(queued, it)
    <3>1. \A i \in 1 .. Len(order) : order[i] # new
      BY <1>0
    <3> QED
      BY <2>1, <3>1, <1>0, ItemsOfAppend DEF queued
  <2>3. handed' = handed
    BY <2>1, PutKeepsHanded
  <2> QED
    BY <2>2, <2>3 DEF Queue!PutBack, queued, handed, ItemsOf
<1>2. ASSUME NEW it \in Item, tsl_prepend(it)
      PROVE  Queue!PutFront(it)
  <2>1. PICK new \in Cell \ allocated :
          /\ data' = [data EXCEPT ![new] = it]
          /\ order' = <<new>> \o order
          /\ cond_signal
          /\ e' = e
    BY <1>2 DEF tsl_prepend
  <2>2. queued' = <<it>> \o queued
    <3>1. \A i \in 1 .. Len(order) : order[i] # new
      BY <1>0
    <3> QED
      BY <2>1, <3>1, <1>0, ItemsOfPrepend DEF queued
  <2>3. handed' = handed
    BY <2>1, PutKeepsHanded
  <2> QED
    BY <2>2, <2>3 DEF Queue!PutFront, queued, handed, ItemsOf
<1>3. ASSUME NEW c \in Consumer, cond_wait(c) \/ SpuriousWakeup(c)
      PROVE  queued' = queued /\ handed' = handed
  BY <1>0, <1>3, QuietStep DEF cond_wait, SpuriousWakeup, heap, TypeOK
<1>4. ASSUME NEW c \in Consumer, unlink(c)
      PROVE  Queue!Take(c)
  <2>1. /\ order # << >> /\ head = order[1] /\ head \in Cell
        /\ order' = Tail(order) /\ data' = data
    BY <1>4, <1>0, EmptySeq, ElementOfSeq DEF unlink, heap, IInv, Chain
  <2>2. /\ queued # << >> /\ queued' = Tail(queued)
        /\ data[head] = Head(queued)
    BY <2>1, <1>0, ItemsOfTail DEF queued
  <2>3. handed[c] = NULL /\ handed' = [handed EXCEPT ![c] = data[head]]
    <3>1. /\ e' = [e EXCEPT ![c] = head] /\ pc' = [pc EXCEPT ![c] = "unlinked"]
          /\ pc[c] # "unlinked"
      BY <1>4 DEF unlink
    <3> QED
      BY <3>1, <2>1, <1>0 DEF handed, TypeOK
  <2> QED
    BY <2>2, <2>3 DEF Queue!Take, queued, handed, ItemsOf
<1>5. ASSUME NEW c \in Consumer, finish(c)
      PROVE  Queue!Use(c)
  <2>1. order' = order /\ data' = data /\ queued' = queued
    BY <1>5 DEF finish, queued, ItemsOf
  <2>2. handed[c] # NULL
    BY <1>5, ItemAssumption DEF finish, handed, IInv, Ownership, TypeOK
  <2>3. handed' = [handed EXCEPT ![c] = NULL]
    BY <1>5, <1>0, <2>1 DEF finish, handed, TypeOK
  <2> QED
    BY <2>1, <2>2, <2>3 DEF Queue!Use, queued, handed, ItemsOf
<1>6. CASE UNCHANGED vars
  BY <1>6, QuietStep DEF vars, heap
<1> QED
  BY <1>1, <1>2, <1>3, <1>4, <1>5, <1>6 DEF Next, tsl_remove, Queue!AbsNext

(***************************************************************************)
(* The linked list with its mutex and condition variable implements the    *)
(* abstract queue: every item put is handed to exactly one consumer, front *)
(* first.                                                                  *)
(***************************************************************************)
THEOREM ListImplementsQueue == Spec => QueueSpec
<1>1. Init => Queue!AbsInit
  <2> SUFFICES ASSUME Init PROVE Queue!AbsInit
    OBVIOUS
  <2>1. order = << >> /\ Len(order) = 0 /\ \A c \in Consumer : pc[c] = "out"
    BY DEF Init
  <2>2. [i \in 1 .. Len(order) |-> data[order[i]]] = << >>
    BY <2>1
  <2> QED
    BY <2>1, <2>2 DEF Queue!AbsInit
<1>2. IInv /\ [Next]_vars => [Queue!AbsNext]_(Queue!abstractVars)
  BY StepSimulates DEF Queue!abstractVars, queued, handed, ItemsOf
<1> QED
  BY <1>1, <1>2, Invariance, PTL DEF Spec, QueueSpec, Queue!AbsSpec
=============================================================================
