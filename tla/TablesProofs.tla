---------------------------- MODULE TablesProofs ----------------------------
(***************************************************************************)
(* The two tables of a process, for any addresses, names, threads, sizes   *)
(* and numbers of records: buckets hold what they should, and lookups find *)
(* it.                                                                     *)
(***************************************************************************)
EXTENDS Tables, SequenceTheorems, NumberFacts

-----------------------------------------------------------------------------
(* Chains.                                                                 *)

(* A record put in front of a chain. *)
LEMMA InFront ==
  ASSUME NEW E, NEW s \in Seq(E), NEW r \in E, r \notin ToSet(s), NoDuplicates(s)
  PROVE  /\ <<r>> \o s \in Seq(E)
         /\ ToSet(<<r>> \o s) = ToSet(s) \cup {r}
         /\ NoDuplicates(<<r>> \o s)
<1> DEFINE t == <<r>> \o s
<1>1. /\ t \in Seq(E) /\ Len(t) = Len(s) + 1 /\ t[1] = r
      /\ \A i \in 1 .. Len(s) : t[i + 1] = s[i]
      /\ \A i \in 2 .. Len(t) : t[i] = s[i - 1] /\ i - 1 \in 1 .. Len(s)
  OBVIOUS
<1>2. Len(s) \in Nat /\ DOMAIN s = 1 .. Len(s) /\ DOMAIN t = 1 .. Len(t)
  BY <1>1
<1> HIDE DEF t
<1>3. ToSet(t) = ToSet(s) \cup {r}
  <2>1. \A i \in 1 .. Len(t) : t[i] \in ToSet(s) \cup {r}
    BY <1>1, <1>2 DEF ToSet
  <2>2. \A i \in 1 .. Len(s) : s[i] \in ToSet(t)
    BY <1>1, <1>2 DEF ToSet
  <2>3. r \in ToSet(t)
    BY <1>1, <1>2 DEF ToSet
  <2> QED
    BY <1>2, <2>1, <2>2, <2>3 DEF ToSet
<1>4. ASSUME NEW i \in 1 .. Len(t), NEW j \in 1 .. Len(t), t[i] = t[j] PROVE i = j
  <2>1. \A k \in 1 .. Len(s) : s[k] # r
    BY <1>2 DEF ToSet
  <2>2. CASE i = 1 \/ j = 1
    BY <1>1, <1>2, <1>4, <2>1, <2>2
  <2>3. CASE i # 1 /\ j # 1
    <3>1. /\ i - 1 \in 1 .. Len(s) /\ j - 1 \in 1 .. Len(s)
          /\ s[i - 1] = s[j - 1]
      BY <1>1, <1>2, <1>4, <2>3
    <3>2. i - 1 = j - 1
      BY <3>1 DEF NoDuplicates
    <3> QED
      BY <3>2
  <2> QED
    BY <2>2, <2>3
<1> QED
  BY <1>1, <1>3, <1>4 DEF t, NoDuplicates

(* What is left of a chain when records have been unlinked. *)
LEMMA UnlinkedChain ==
  ASSUME NEW E, NEW chain \in Seq(E), NEW gone, NoDuplicates(chain)
  PROVE  /\ Unlinked(chain, gone) \in Seq(E)
         /\ ToSet(Unlinked(chain, gone)) = ToSet(chain) \ gone
         /\ NoDuplicates(Unlinked(chain, gone))
<1>1. \A s \in Seq(E) : ToSet(s) = Members(s)
  BY DEF ToSet, Members
<1>2. /\ Without(chain, gone) \in Seq(E)
      /\ Members(Without(chain, gone)) = Members(chain) \ gone
      /\ NoDuplicates(Without(chain, gone))
  BY WithoutChain
<1> QED
  BY <1>1, <1>2 DEF Unlinked

(* What SelectInSeq makes of the places where a record fits. *)
LEMMA FirstPlace ==
  ASSUME NEW n \in Nat, NEW I, I \subseteq 1 .. n,
         NEW i, i = IF I # {} THEN Min(I) ELSE 0
  PROVE  /\ i = 0 <=> I = {}
         /\ i # 0 => i \in I
<1>1. CASE I = {}
  BY <1>1
<1>2. CASE I # {}
  <2>1. I \subseteq Nat
    OBVIOUS
  <2>2. \E k \in I : \A m \in I : k <= m
    BY <1>2, <2>1, LeastElement
  <2>3. Min(I) \in I
    BY <2>2 DEF Min
  <2>4. i = Min(I)
    BY <1>2
  <2>5. i \in I
    BY <2>3, <2>4
  <2>6. i # 0
    BY <2>5
  <2> QED
    BY <1>2, <2>5, <2>6
<1> QED
  BY <1>1, <1>2

-----------------------------------------------------------------------------
(* Connections.                                                            *)

LEMMA HashTyped ==
  ASSUME NEW e \in Endpoints
  PROVE  endpoint_hash(e) \in Buckets
<1>1. CTABLE_SIZE \in Nat \ {0} /\ e.addr \in Int /\ e.subport \in Int
  BY WidthAssumption DEF Endpoints
<1>2. e.addr % CTABLE_SIZE \in Int
  BY <1>1
<1>3. SHIFT * (e.addr % CTABLE_SIZE) + e.subport \in Int
  BY <1>1, <1>2 DEF SHIFT
<1> QED
  BY <1>1, <1>3 DEF endpoint_hash, Buckets

(* The two halves of a subport. *)
LEMMA Halves ==
  ASSUME NEW P \in Nat \ {0}, NEW C \in Nat \ {0}, NEW a \in 0 .. P - 1, NEW c \in 0 .. C - 1
  PROVE  a * C + c \in 0 .. P * C - 1
<1>1. a * C >= 0 /\ a * C \in Int
  BY SMT
<1>2. P * C = a * C + (P - a) * C /\ (P - a) * C \in Int
  BY SMT
<1>3. (P - a) * C >= C
  <2>1. P - a \in Int /\ P - a >= 1
    OBVIOUS
  <2>2. \A x \in Int : x >= 1 => x * C >= C
    BY SMT
  <2> QED
    BY <2>1, <2>2
<1> QED
  BY <1>1, <1>2, <1>3

LEMMA SubportTyped ==
  ASSUME NEW c \in 0 .. CTR_MAX
  PROVE  /\ (Pid % PIDS) * CTRS + c \in 0 .. INTS - 1
         /\ Subport(c) \in 0 .. ULONG - 1
         /\ INTS \in Nat /\ INTS > 0
<1>1. /\ PIDS \in Nat \ {0} /\ CTRS \in Nat \ {0} /\ c \in 0 .. CTRS - 1
      /\ Pid % PIDS \in 0 .. PIDS - 1
  BY WidthAssumption
<1>2. (Pid % PIDS) * CTRS + c \in 0 .. INTS - 1
  BY <1>1, Halves DEF INTS
<1>3. INTS \in Nat /\ INTS > 0
  BY <1>1, SMT DEF INTS
<1>4. ULONG \in Nat /\ ULONG >= INTS
  BY WidthAssumption
<1> QED
  BY <1>2, <1>3, <1>4 DEF Subport

LEMMA NewSubportTyped ==
  ASSUME HoldsLive
  PROVE  ctable_newSubport \in 1 .. CTR_MAX
  BY WidthAssumption DEF HoldsLive, TypeOK, ctable_newSubport

(* The endpoints the program makes. *)
LEMMA OwnEndpoint ==
  ASSUME HoldsLive, NEW addr \in Address
  PROVE  Endpoint(addr, Subport(ctable_newSubport)) \in Endpoints
<1>1. ctable_newSubport \in 0 .. CTR_MAX
  BY NewSubportTyped
<1>2. Subport(ctable_newSubport) \in 0 .. ULONG - 1
  BY <1>1, SubportTyped
<1> QED
  BY <1>2, WidthAssumption DEF Endpoint, Endpoints

LEMMA PeerEndpoint ==
  ASSUME NEW addr \in Address, NEW sp \in PeerSubport
  PROVE  Endpoint(addr, sp) \in Endpoints
<1>1. 0 \in 0 .. CTR_MAX
  BY WidthAssumption
<1>2. INTS \in Nat
  BY <1>1, SubportTyped
<1>3. sp \in 0 .. ULONG - 1
  BY <1>2, WidthAssumption
<1> QED
  BY <1>3, WidthAssumption DEF Endpoint, Endpoints

LEMMA InsertHolds ==
  ASSUME HoldsLive, NEW e \in Endpoints, ctable_insert(e),
         ctr' \in 0 .. CTR_MAX, connects' \in 0 .. MaxConnects
  PROVE  HoldsLive'
<1>1. PICK r \in Record \ live :
        /\ ctable' = [ctable EXCEPT ![endpoint_hash(e)] = <<r>> \o @]
        /\ ep' = [ep EXCEPT ![r] = e]
        /\ live' = live \cup {r}
  BY DEF ctable_insert
<1> DEFINE h == endpoint_hash(e)
<1>2. h \in Buckets
  BY HashTyped
<1>3. /\ ctable \in [Buckets -> Seq(Record)] /\ ep \in [Record -> Endpoints] /\ live \subseteq Record
      /\ \A b \in Buckets : /\ ToSet(ctable[b]) = {q \in live : endpoint_hash(ep[q]) = b}
                            /\ NoDuplicates(ctable[b])
  BY DEF HoldsLive, TypeOK, NoDuplicates
<1>4. /\ <<r>> \o ctable[h] \in Seq(Record)
      /\ ToSet(<<r>> \o ctable[h]) = ToSet(ctable[h]) \cup {r}
      /\ NoDuplicates(<<r>> \o ctable[h])
  <2>1. ctable[h] \in Seq(Record) /\ r \notin ToSet(ctable[h]) /\ NoDuplicates(ctable[h])
    BY <1>2, <1>3
  <2> QED
    BY <2>1, InFront
<1>5. /\ ep' \in [Record -> Endpoints] /\ live' \subseteq Record
      /\ endpoint_hash(ep'[r]) = h /\ \A q \in live : q # r /\ ep'[q] = ep[q]
  BY <1>1, <1>3
<1> HIDE DEF h
<1>6. ctable' = [ctable EXCEPT ![h] = <<r>> \o ctable[h]]
  BY <1>1, <1>2, <1>3 DEF h
<1>7. /\ ctable' \in [Buckets -> Seq(Record)]
      /\ ctable'[h] = <<r>> \o ctable[h]
      /\ \A b \in Buckets \ {h} : ctable'[b] = ctable[b]
  BY <1>2, <1>3, <1>4, <1>6
<1>8. ASSUME NEW b \in Buckets
      PROVE  /\ ToSet(ctable'[b]) = {q \in live' : endpoint_hash(ep'[q]) = b}
             /\ NoDuplicates(ctable'[b])
  <2>1. CASE b = h
    <3>1. {q \in live' : endpoint_hash(ep'[q]) = b} = {q \in live : endpoint_hash(ep[q]) = b} \cup {r}
      BY <1>1, <1>5, <2>1
    <3> QED
      BY <1>2, <1>3, <1>4, <1>7, <2>1, <3>1
  <2>2. CASE b # h
    <3>1. {q \in live' : endpoint_hash(ep'[q]) = b} = {q \in live : endpoint_hash(ep[q]) = b}
      BY <1>1, <1>5, <2>2
    <3> QED
      BY <1>3, <1>7, <2>2, <3>1
  <2> QED
    BY <2>1, <2>2
<1> QED
  BY <1>5, <1>7, <1>8 DEF HoldsLive, TypeOK, NoDuplicates, endpoint_hash

LEMMA RemoveHolds ==
  ASSUME HoldsLive, NEW gone \in SUBSET live, ctable_remove(gone)
  PROVE  HoldsLive'
<1>1. /\ ctable' = [b \in Buckets |-> Unlinked(ctable[b], {r \in gone : endpoint_hash(ep[r]) = b})]
      /\ live' = live \ gone /\ ep' = ep /\ ctr' = ctr /\ connects' = connects
  BY DEF ctable_remove
<1>2. /\ ctable \in [Buckets -> Seq(Record)]
      /\ \A b \in Buckets : /\ ToSet(ctable[b]) = {q \in live : endpoint_hash(ep[q]) = b}
                            /\ NoDuplicates(ctable[b])
  BY DEF HoldsLive, TypeOK, NoDuplicates
<1>3. ASSUME NEW b \in Buckets
      PROVE  /\ ctable'[b] \in Seq(Record)
             /\ ToSet(ctable'[b]) = {q \in live' : endpoint_hash(ep'[q]) = b}
             /\ NoDuplicates(ctable'[b])
  <2> DEFINE here == {r \in gone : endpoint_hash(ep[r]) = b}
  <2>1. ctable[b] \in Seq(Record) /\ NoDuplicates(ctable[b])
    BY <1>2
  <2>2. /\ Unlinked(ctable[b], here) \in Seq(Record)
        /\ ToSet(Unlinked(ctable[b], here)) = ToSet(ctable[b]) \ here
        /\ NoDuplicates(Unlinked(ctable[b], here))
    <3> HIDE DEF here
    <3> QED
      BY <2>1, UnlinkedChain
  <2>3. ToSet(ctable[b]) \ here = {q \in live' : endpoint_hash(ep'[q]) = b}
    BY <1>1, <1>2
  <2>4. ctable'[b] = Unlinked(ctable[b], here)
    BY <1>1
  <2> HIDE DEF here
  <2> QED
    BY <2>2, <2>3, <2>4
<1>4. ctable' \in [Buckets -> Seq(Record)]
  BY <1>1, <1>3
<1> QED
  BY <1>1, <1>3, <1>4 DEF HoldsLive, TypeOK, NoDuplicates, endpoint_hash

LEMMA PurgeHolds ==
  ASSUME HoldsLive, ctable_purge
  PROVE  HoldsLive'
  BY DEF HoldsLive, TypeOK, ctable_purge, ToSet

(***************************************************************************)
(* The steps of TablesNext as they change the connection table.            *)
(***************************************************************************)
LEMMA ConnStep ==
  ASSUME HoldsLive, TablesNext
  PROVE  \/ UNCHANGED vars
         \/ \E addr \in Address : rpc_connect(addr)
         \/ \E addr \in Address, sp \in PeerSubport : CONNECT(addr, sp)
         \/ \E gone \in SUBSET live : ctable_remove(gone)
         \/ ctable_purge
  BY DEF TablesNext

LEMMA NextHolds ==
  ASSUME HoldsLive, [TablesNext]_<<vars, services>>
  PROVE  HoldsLive'
<1>1. CASE UNCHANGED vars
  BY <1>1 DEF vars, HoldsLive, TypeOK, endpoint_hash
<1>2. ASSUME NEW addr \in Address, rpc_connect(addr) PROVE HoldsLive'
  <2>1. /\ ctable_insert(Endpoint(addr, Subport(ctable_newSubport)))
        /\ ctr' \in 0 .. CTR_MAX /\ connects' \in 0 .. MaxConnects
    BY <1>2, NewSubportTyped, WidthAssumption DEF rpc_connect, HoldsLive, TypeOK
  <2> QED
    BY <2>1, OwnEndpoint, InsertHolds
<1>3. ASSUME NEW addr \in Address, NEW sp \in PeerSubport, CONNECT(addr, sp) PROVE HoldsLive'
  <2>1. /\ ctable_insert(Endpoint(addr, sp))
        /\ ctr' \in 0 .. CTR_MAX /\ connects' \in 0 .. MaxConnects
    BY <1>3 DEF CONNECT, HoldsLive, TypeOK
  <2> QED
    BY <2>1, PeerEndpoint, InsertHolds
<1>4. ASSUME NEW gone \in SUBSET live, ctable_remove(gone) PROVE HoldsLive'
  BY <1>4, RemoveHolds
<1>5. CASE ctable_purge
  BY <1>5, PurgeHolds
<1>6. CASE TablesNext
  BY <1>1, <1>2, <1>3, <1>4, <1>5, <1>6, ConnStep
<1> QED
  BY <1>1, <1>6

(***************************************************************************)
(* Whatever connections are made, refused, timed out and purged, and in    *)
(* whatever order several are removed at one tick, the buckets of ctable.c *)
(* hold exactly the live records, each once and where it is looked for.    *)
(***************************************************************************)
THEOREM HoldsCorrect == TablesSpec => []HoldsLive
<1>1. TablesInit => HoldsLive
  <2>1. ASSUME Init PROVE HoldsLive
    <3>1. Endpoint(0, 0) \in Endpoints
      <4>1. 0 \in 0 .. CTR_MAX
        BY WidthAssumption
      <4>2. INTS \in Nat /\ INTS > 0
        BY <4>1, SubportTyped
      <4> QED
        BY <4>2, WidthAssumption DEF Endpoint, Endpoints
    <3> QED
      BY <2>1, <3>1, WidthAssumption DEF Init, HoldsLive, TypeOK, ToSet
  <2> QED
    BY <2>1 DEF TablesInit
<1> QED
  BY <1>1, NextHolds, PTL DEF TablesSpec

(* What a lookup finds, and what it has missed when it finds nothing. *)
LEMMA Lookup ==
  ASSUME HoldsLive, NEW e \in Endpoints
  PROVE  /\ ctable_lookup(e) = None
               => \A q \in live : endpoint_hash(ep[q]) = endpoint_hash(e) => ep[q].subport # e.subport
         /\ ctable_lookup(e) # None
               => /\ ctable_lookup(e) \in live
                  /\ endpoint_hash(ep[ctable_lookup(e)]) = endpoint_hash(e)
                  /\ ep[ctable_lookup(e)].subport = e.subport
<1> DEFINE h == endpoint_hash(e)
           chain == ctable[h]
           equal == {i \in 1 .. Len(chain) : endpoint_equal(e, ep[chain[i]])}
           i0 == IF equal # {} THEN Min(equal) ELSE 0
<1>1. h \in Buckets
  BY HashTyped
<1>2. /\ chain \in Seq(Record) /\ Len(chain) \in Nat /\ DOMAIN chain = 1 .. Len(chain)
      /\ ToSet(chain) = {q \in live : endpoint_hash(ep[q]) = h}
      /\ live \subseteq Record
  BY <1>1 DEF HoldsLive, TypeOK
<1>3. (i0 = 0 <=> equal = {}) /\ (i0 # 0 => i0 \in equal)
  <2>1. equal \subseteq 1 .. Len(chain)
    OBVIOUS
  <2> HIDE DEF equal, chain
  <2> QED
    BY <1>2, <2>1, FirstPlace
<1>4. ctable_lookup(e) = IF i0 = 0 THEN None ELSE chain[i0]
  BY DEF ctable_lookup, SelectInSeq
<1>5. \A i \in 1 .. Len(chain) : i \in equal <=> ep[chain[i]].subport = e.subport
  BY DEF endpoint_equal
<1> HIDE DEF equal, chain, i0
<1>6. equal \subseteq 1 .. Len(chain)
  BY DEF equal
<1>7. CASE i0 = 0
  <2>1. \A q \in ToSet(chain) : ep[q].subport # e.subport
    BY <1>2, <1>3, <1>5, <1>7 DEF ToSet
  <2> QED
    BY <1>2, <1>4, <1>7, <2>1
<1>8. CASE i0 # 0
  <2>1. i0 \in 1 .. Len(chain) /\ chain[i0] \in ToSet(chain) /\ ep[chain[i0]].subport = e.subport
    BY <1>2, <1>3, <1>5, <1>6, <1>8 DEF ToSet
  <2>2. chain[i0] # None
    BY <1>2, <2>1, RecordAssumption
  <2> QED
    BY <1>2, <1>4, <1>8, <2>1, <2>2
<1> QED
  BY <1>7, <1>8

(***************************************************************************)
(* The circumstances in which subports identify connections, although      *)
(* endpoint_equal does not compare addresses: the process's number leaves  *)
(* the sign bit of the int alone, its counter has not come round, and no   *)
(* client elsewhere has a subport of this process.                         *)
(***************************************************************************)
SubportsApart ==
  /\ (Pid % PIDS) * CTRS + CTR_MAX < INTS \div 2
  /\ MaxConnects <= CTR_MAX
  /\ \A c \in 1 .. CTR_MAX : Subport(c) \notin PeerSubport

(* A subport of this process was handed out once, and one bucket does not  *)
(* hold two records with one subport.                                      *)
FInv ==
  /\ ctr = connects
  /\ \A r \in live : ep[r].subport \in PeerSubport \cup {Subport(c) : c \in 1 .. ctr}
  /\ \A r, q \in live : /\ endpoint_hash(ep[r]) = endpoint_hash(ep[q])
                        /\ ep[r].subport = ep[q].subport
                        => r = q

LEMMA SubportsDiffer ==
  ASSUME SubportsApart, NEW c \in 1 .. CTR_MAX
  PROVE  /\ Subport(c) = (Pid % PIDS) * CTRS + c
         /\ Subport(c) \in 0 .. INTS - 1
         /\ \A d \in 1 .. CTR_MAX : Subport(c) = Subport(d) => c = d
<1>1. ASSUME NEW d \in 1 .. CTR_MAX
      PROVE  Subport(d) = (Pid % PIDS) * CTRS + d /\ Subport(d) \in 0 .. INTS - 1
  <2>1. d \in 0 .. CTR_MAX /\ CTR_MAX \in 0 .. CTR_MAX /\ CTR_MAX \in Nat
    BY WidthAssumption
  <2>2. (Pid % PIDS) * CTRS + d \in 0 .. INTS - 1 /\ INTS \in Nat
    BY <2>1, SubportTyped
  <2>3. (Pid % PIDS) * CTRS \in Int
    BY WidthAssumption, SMT
  <2>4. (Pid % PIDS) * CTRS + d < INTS \div 2
    <3>1. INTS \div 2 \in Int
      BY <2>2
    <3> QED
      BY <2>1, <2>3, <3>1 DEF SubportsApart
  <2> QED
    BY <2>2, <2>4 DEF Subport
<1>2. (Pid % PIDS) * CTRS \in Int /\ CTR_MAX \in Nat
  BY WidthAssumption, SMT
<1> QED
  BY <1>1, <1>2

(* A new record whose subport is not in its bucket. *)
LEMMA InsertApart ==
  ASSUME HoldsLive, FInv, NEW e \in Endpoints, ctable_insert(e),
         ctr' = connects', ctr' \in Nat, ctr' >= ctr,
         e.subport \in PeerSubport \cup {Subport(c) : c \in 1 .. ctr'},
         \A q \in live : endpoint_hash(ep[q]) = endpoint_hash(e) => ep[q].subport # e.subport
  PROVE  FInv'
<1>1. PICK r \in Record \ live : ep' = [ep EXCEPT ![r] = e] /\ live' = live \cup {r}
  BY DEF ctable_insert
<1>2. ep \in [Record -> Endpoints] /\ live \subseteq Record /\ ctr \in Nat
  BY DEF HoldsLive, TypeOK
<1>3. ep'[r] = e /\ \A q \in live : q # r /\ ep'[q] = ep[q]
  BY <1>1, <1>2
<1>4. 1 .. ctr \subseteq 1 .. ctr'
  BY <1>2
<1>5. \A q \in live' : ep'[q].subport \in PeerSubport \cup {Subport(c) : c \in 1 .. ctr'}
  BY <1>1, <1>3, <1>4 DEF FInv
<1>6. \A q1, q2 \in live' : /\ endpoint_hash(ep'[q1]) = endpoint_hash(ep'[q2])
                            /\ ep'[q1].subport = ep'[q2].subport
                            => q1 = q2
  BY <1>1, <1>3 DEF FInv
<1> QED
  BY <1>5, <1>6 DEF FInv, Subport, endpoint_hash

LEMMA NextApart ==
  ASSUME SubportsApart, HoldsLive, FInv, [TablesNext]_<<vars, services>>
  PROVE  FInv'
<1>1. CASE UNCHANGED vars
  BY <1>1 DEF vars, FInv, Subport, endpoint_hash
<1>2. ASSUME NEW addr \in Address, rpc_connect(addr) PROVE FInv'
  <2> DEFINE c1 == ctable_newSubport
             e == Endpoint(addr, Subport(c1))
  <2>1. /\ connects < MaxConnects /\ connects' = connects + 1 /\ ctr' = c1
        /\ ctable_insert(e)
        /\ ctr = connects /\ ctr \in Nat
    BY <1>2 DEF rpc_connect, FInv, HoldsLive, TypeOK
  <2>2. c1 = ctr + 1 /\ c1 \in 1 .. CTR_MAX
    BY <2>1, WidthAssumption DEF ctable_newSubport, SubportsApart
  <2>3. e \in Endpoints /\ e.subport = Subport(c1)
    BY OwnEndpoint DEF Endpoint
  <2> HIDE DEF c1, e
  <2>4. \A q \in live : ep[q].subport # e.subport
    <3>1. Subport(c1) \notin PeerSubport
      BY <2>2 DEF SubportsApart
    <3>2. \A c \in 1 .. ctr : Subport(c) # Subport(c1)
      <4>1. \A c \in 1 .. ctr : c \in 1 .. CTR_MAX /\ c # c1
        BY <2>1, <2>2, WidthAssumption
      <4>2. \A c \in 1 .. CTR_MAX : Subport(c1) = Subport(c) => c1 = c
        <5>1. PICK c2 \in 1 .. CTR_MAX : c2 = c1
          BY <2>2
        <5>2. \A c \in 1 .. CTR_MAX : Subport(c2) = Subport(c) => c2 = c
          BY SubportsDiffer
        <5> QED
          BY <5>1, <5>2
      <4> QED
        BY <4>1, <4>2
    <3> QED
      BY <2>3, <3>1, <3>2 DEF FInv
  <2>5. ctr' = connects' /\ ctr' \in Nat /\ ctr' >= ctr /\ c1 \in 1 .. ctr'
    BY <2>1, <2>2
  <2>6. e.subport \in PeerSubport \cup {Subport(c) : c \in 1 .. ctr'}
    BY <2>3, <2>5
  <2> QED
    BY <2>1, <2>3, <2>4, <2>5, <2>6, InsertApart
<1>3. ASSUME NEW addr \in Address, NEW sp \in PeerSubport, CONNECT(addr, sp) PROVE FInv'
  <2> DEFINE e == Endpoint(addr, sp)
  <2>1. /\ ctable_lookup(e) = None /\ ctable_insert(e)
        /\ ctr' = ctr /\ connects' = connects /\ ctr = connects /\ ctr \in Nat
    BY <1>3 DEF CONNECT, FInv, HoldsLive, TypeOK
  <2>2. e \in Endpoints /\ e.subport = sp
    BY PeerEndpoint DEF Endpoint
  <2> HIDE DEF e
  <2>3. \A q \in live : endpoint_hash(ep[q]) = endpoint_hash(e) => ep[q].subport # e.subport
    BY <2>1, <2>2, Lookup
  <2>4. ctr' = connects' /\ ctr' \in Nat /\ ctr' >= ctr
    BY <2>1
  <2>5. e.subport \in PeerSubport \cup {Subport(c) : c \in 1 .. ctr'}
    BY <2>2
  <2> QED
    BY <2>1, <2>2, <2>3, <2>4, <2>5, InsertApart
<1>4. ASSUME NEW gone \in SUBSET live, ctable_remove(gone) PROVE FInv'
  BY <1>4 DEF FInv, ctable_remove, Subport, endpoint_hash
<1>5. CASE ctable_purge
  BY <1>5 DEF FInv, ctable_purge
<1>6. CASE TablesNext
  BY <1>1, <1>2, <1>3, <1>4, <1>5, <1>6, ConnStep
<1> QED
  BY <1>1, <1>6

(***************************************************************************)
(* A datagram reaches the record of its connection, in a table of any size *)
(* and with any clients, as long as subports keep connections apart: the   *)
(* hash and the comparison then agree on the wire's form of an endpoint.   *)
(***************************************************************************)
THEOREM FoundCorrect == SubportsApart => (TablesSpec => []FindsOwnRecord)
<1> SUFFICES ASSUME SubportsApart PROVE TablesSpec => []FindsOwnRecord
  OBVIOUS
<1>1. TablesInit => FInv
  BY DEF TablesInit, Init, FInv
<1>2. ASSUME HoldsLive, FInv PROVE FindsOwnRecord
  <2>1. SUFFICES ASSUME NEW r \in live PROVE ctable_lookup(OnTheWire(ep[r])) = r
    BY DEF FindsOwnRecord
  <2>2. ep[r] \in Endpoints /\ ctr \in 0 .. CTR_MAX
    BY <1>2 DEF HoldsLive, TypeOK
  <2>3. ep[r].subport \in 0 .. INTS - 1 /\ INTS \in Nat \ {0}
    <3>1. \A c \in 1 .. CTR_MAX : Subport(c) \in 0 .. INTS - 1
      BY SubportsDiffer
    <3>2. 1 .. ctr \subseteq 1 .. CTR_MAX
      BY <2>2, WidthAssumption
    <3>3. ep[r].subport \in PeerSubport \cup {Subport(c) : c \in 1 .. ctr}
      BY <1>2 DEF FInv
    <3>4. INTS \in Nat /\ INTS > 0
      <4>1. 0 \in 0 .. CTR_MAX
        BY WidthAssumption
      <4> QED
        BY <4>1, SubportTyped
    <3>5. PeerSubport \subseteq 0 .. INTS - 1
      BY WidthAssumption
    <3>6. ep[r].subport \in 0 .. INTS - 1
      <4> HIDE DEF Subport
      <4> QED
        BY <3>1, <3>2, <3>3, <3>5
    <3> QED
      BY <3>4, <3>6
  <2>4. ep[r].subport % INTS = ep[r].subport
    BY <2>3, ModSmall
  <2>5. OnTheWire(ep[r]) = ep[r]
    BY <2>2, <2>4 DEF OnTheWire, Endpoints
  <2>6. ctable_lookup(ep[r]) # None
    BY <1>2, <2>2, Lookup
  <2>7. /\ ctable_lookup(ep[r]) \in live
        /\ endpoint_hash(ep[ctable_lookup(ep[r])]) = endpoint_hash(ep[r])
        /\ ep[ctable_lookup(ep[r])].subport = ep[r].subport
    BY <1>2, <2>2, <2>6, Lookup
  <2> QED
    BY <1>2, <2>5, <2>7 DEF FInv
<1> QED
  BY <1>1, <1>2, NextApart, HoldsCorrect, PTL DEF TablesSpec

-----------------------------------------------------------------------------
(* Services.                                                               *)

Inserting == {t \in Thread : offer[t].pc = "insert"}

(***************************************************************************)
(* Between its two halves stable_create owns the record it has made: no    *)
(* other thread has it, and no bucket.  A record keeps its name.           *)
(***************************************************************************)
SInv ==
  /\ S!TypeOK
  /\ \A r \in created : s_name[r] \in Name /\ S!hash[s_name[r]] >= 0
  /\ \A t \in Inserting : /\ offer[t].r \in created /\ offer[t].name \in Name
                          /\ s_name[offer[t].r] = offer[t].name
  /\ \A t, u \in Inserting : offer[t].r = offer[u].r => t = u
  /\ \A b \in 0 .. STABLE_SIZE - 1 :
        /\ ToSet(stable[b]) = {r \in S!Inserted : S!hash[s_name[r]] = b}
        /\ NoDuplicates(stable[b])
  /\ \A n \in Name : connected[n] # None => connected[n] \in created /\ s_name[connected[n]] = n

(* The hash is the remainder of sums that are ints. *)
Sums(n, f) ==
  /\ f \in [0 .. Len(n) -> Int]
  /\ f[0] = 0
  /\ \A i \in 1 .. Len(n) : f[i] = S!Int32(S!SHIFT * f[i - 1] + n[i])
  /\ S!hash[n] = S!Rem(f[Len(n)], STABLE_SIZE)

LEMMA HashSums ==
  ASSUME NEW n \in Name
  PROVE  \E f : Sums(n, f)
<1> DEFINE len == Len(n)
           step == [x \in Int \X (1 .. len) |-> S!Int32(S!SHIFT * x[1] + n[x[2]])]
<1>1. /\ len \in Nat /\ DOMAIN n = 1 .. len
      /\ \A i \in 1 .. len : n[i] \in Int
  <2> DEFINE Char == (-128 .. 127) \ {0}
  <2>1. n \in Seq(Char)
    BY ServiceAssumption
  <2>2. \A c \in Char : c \in Int
    OBVIOUS
  <2> HIDE DEF Char
  <2>3. \A i \in 1 .. Len(n) : n[i] \in Char
    BY <2>1
  <2> QED
    BY <2>1, <2>2, <2>3
<1>2. step \in [Int \X (1 .. len) -> Int]
  <2>1. ASSUME NEW x \in Int \X (1 .. len) PROVE S!Int32(S!SHIFT * x[1] + n[x[2]]) \in Int
    <3>1. x[1] \in Int /\ n[x[2]] \in Int
      BY <1>1
    <3> QED
      BY <3>1, ServiceAssumption DEF S!Int32, S!SHIFT
  <2> QED
    BY <2>1
<1>3. PICK f : Recursion(f, len, Int, 0, step)
  <2> HIDE DEF len, step
  <2>1. 0 \in Int
    OBVIOUS
  <2> QED
    BY <1>1, <1>2, <2>1, RecursionExists
<1>4. /\ f \in [0 .. len -> Int] /\ f[0] = 0
      /\ \A i \in 1 .. len : f[i] = S!Int32(S!SHIFT * f[i - 1] + n[i])
  <2>1. f \in [0 .. len -> Int] /\ f[0] = 0 /\ \A i \in 1 .. len : f[i] = step[<<f[i - 1], i>>]
    BY <1>3 DEF Recursion
  <2>2. ASSUME NEW i \in 1 .. len PROVE f[i] = S!Int32(S!SHIFT * f[i - 1] + n[i])
    <3>1. f[i - 1] \in Int
      BY <1>1, <2>1
    <3>2. step[<<f[i - 1], i>>] = S!Int32(S!SHIFT * f[i - 1] + n[i])
      BY <3>1
    <3> QED
      BY <2>1, <3>2
  <2> QED
    BY <2>1, <2>2
<1> HIDE DEF step
(* It is the function that the hash chooses. *)
<1>5. S!hash[n] = S!Rem(f[len], STABLE_SIZE)
  <2> DEFINE Fits(h) == h = [i \in 0 .. len |-> IF i = 0 THEN 0
                                ELSE S!Int32(S!SHIFT * h[i - 1] + n[i])]
             hh == CHOOSE h : Fits(h)
  <2>1. Fits(f)
    <3>1. \A i \in 0 .. len : i = 0 \/ i \in 1 .. len
      BY <1>1
    <3> QED
      BY <1>4, <3>1
  <2>2. Fits(hh)
    <3> HIDE DEF Fits
    <3> QED
      BY <2>1
  <2>3. hh[0] = 0 /\ \A i \in 1 .. len : hh[i] = S!Int32(S!SHIFT * hh[i - 1] + n[i])
    <3>1. 0 \in 0 .. len /\ \A i \in 1 .. len : i \in 0 .. len /\ i # 0
      BY <1>1
    <3> HIDE DEF hh, len
    <3>2. \A i \in 0 .. len : hh[i] = IF i = 0 THEN 0 ELSE S!Int32(S!SHIFT * hh[i - 1] + n[i])
      BY <2>2
    <3> QED
      BY <3>1, <3>2, Zenon
  <2>4. S!hash[n] = S!Rem(hh[len], STABLE_SIZE)
    BY DEF S!hash
  <2> HIDE DEF hh, Fits
  <2> DEFINE T == {i \in 0 .. len : hh[i] = f[i]}
  <2>5. 0 \in T
    BY <1>1, <1>4, <2>3
  <2>6. ASSUME NEW i \in 1 .. len, i - 1 \in T PROVE i \in T
    BY <1>1, <1>4, <2>3, <2>6
  <2>7. len \in T
    <3> HIDE DEF T, len
    <3>1. 0 .. len \subseteq T
      BY <1>1, <2>5, <2>6, InductionUpTo
    <3> QED
      BY <1>1, <3>1
  <2> QED
    BY <2>4, <2>7
<1>6. Sums(n, f)
  BY <1>4, <1>5 DEF Sums
<1> QED
  BY <1>6

(* A hash that is not negative is in the table. *)
LEMMA HashedName ==
  ASSUME NEW n \in Name, S!hash[n] >= 0
  PROVE  S!hash[n] \in 0 .. STABLE_SIZE - 1
<1>1. PICK f : Sums(n, f)
  BY HashSums
<1>2. PICK x \in Int : S!hash[n] = S!Rem(x, STABLE_SIZE)
  <2>1. Len(n) \in 0 .. Len(n)
    BY ServiceAssumption
  <2> QED
    BY <1>1, <2>1 DEF Sums
<1>3. CASE x >= 0
  <2>1. x % STABLE_SIZE \in 0 .. STABLE_SIZE - 1
    BY ServiceAssumption
  <2> QED
    BY <1>2, <1>3, <2>1 DEF S!Rem
<1>4. CASE x < 0
  <2>1. (-x) % STABLE_SIZE \in 0 .. STABLE_SIZE - 1
    BY ServiceAssumption
  <2>2. S!hash[n] = 0
    BY <1>2, <1>4, <2>1 DEF S!Rem
  <2> QED
    BY <2>2, ServiceAssumption
<1> QED
  BY <1>3, <1>4

LEMMA InsertedIs ==
  S!Inserted = created \ {offer[t].r : t \in Inserting}
  BY DEF S!Inserted, Inserting

(* What a lookup of a service finds. *)
LEMMA ServiceLookup ==
  ASSUME SInv, NEW n \in Name, S!hash[n] >= 0
  PROVE  /\ S!stable_lookup(n) = None => \A r \in S!Inserted : s_name[r] # n
         /\ S!stable_lookup(n) # None
               => S!stable_lookup(n) \in S!Inserted /\ s_name[S!stable_lookup(n)] = n
<1> DEFINE chain == stable[S!hash[n]]
           named == {i \in 1 .. Len(chain) : s_name[chain[i]] = n}
           i0 == IF named # {} THEN Min(named) ELSE 0
<1>1. S!hash[n] \in 0 .. STABLE_SIZE - 1
  BY HashedName
<1>2. /\ chain \in Seq(Service) /\ Len(chain) \in Nat /\ DOMAIN chain = 1 .. Len(chain)
      /\ ToSet(chain) = {r \in S!Inserted : S!hash[s_name[r]] = S!hash[n]}
      /\ \A i \in 1 .. Len(chain) : chain[i] \in Service
  BY <1>1 DEF SInv, S!TypeOK
<1>3. (i0 = 0 <=> named = {}) /\ (i0 # 0 => i0 \in named)
  <2>1. named \subseteq 1 .. Len(chain)
    OBVIOUS
  <2> HIDE DEF named, chain
  <2> QED
    BY <1>2, <2>1, FirstPlace
<1>4. S!stable_lookup(n) = IF i0 = 0 THEN None ELSE chain[i0]
  BY DEF S!stable_lookup, S!SelectInSeq, S!Min, Min
<1>5. named \subseteq 1 .. Len(chain) /\ \A i \in 1 .. Len(chain) : i \in named <=> s_name[chain[i]] = n
  OBVIOUS
<1> HIDE DEF named, chain, i0
<1>6. CASE i0 = 0
  <2>1. \A r \in ToSet(chain) : s_name[r] # n
    BY <1>2, <1>3, <1>5, <1>6 DEF ToSet
  <2> QED
    BY <1>2, <1>4, <1>6, <2>1
<1>7. CASE i0 # 0
  <2>1. i0 \in 1 .. Len(chain) /\ chain[i0] \in ToSet(chain) /\ s_name[chain[i0]] = n
    BY <1>2, <1>3, <1>5, <1>7 DEF ToSet
  <2>2. chain[i0] # None
    BY <1>2, <2>1, ServiceAssumption
  <2> QED
    BY <1>2, <1>4, <1>7, <2>1, <2>2
<1> QED
  BY <1>6, <1>7

(* The first half makes a record that is nobody else's. *)
LEMMA CreateServices ==
  ASSUME SInv, NEW t \in Thread, NEW n \in Name, S!stable_create(t, n)
  PROVE  SInv'
<1>1. PICK r \in Service \ created :
        /\ created' = created \cup {r}
        /\ s_name' = [s_name EXCEPT ![r] = n]
        /\ offer' = [offer EXCEPT ![t] = [pc |-> "insert", name |-> n, r |-> r]]
  BY DEF S!stable_create
<1>2. stable' = stable /\ connected' = connected /\ astray' = astray /\ offer[t].pc = "out"
  BY DEF S!stable_create
<1>3. /\ stable \in [0 .. STABLE_SIZE - 1 -> Seq(Service)]
      /\ s_name \in [Service -> Name \cup {None}]
      /\ created \subseteq Service
      /\ offer \in [Thread -> S!Offers]
      /\ connected \in [Name -> Service \cup {None}]
      /\ astray \in BOOLEAN
  BY DEF SInv, S!TypeOK
<1>4. [pc |-> "insert", name |-> n, r |-> r] \in S!Offers
  BY DEF S!Offers
<1>5. S!TypeOK'
  BY <1>1, <1>2, <1>3, <1>4 DEF S!TypeOK
<1>6. s_name'[r] = n /\ \A q \in created : q # r /\ s_name'[q] = s_name[q]
  BY <1>1, <1>3
<1>7. /\ offer'[t].pc = "insert" /\ offer'[t].r = r /\ offer'[t].name = n
      /\ \A u \in Thread \ {t} : offer'[u] = offer[u]
  BY <1>1, <1>3
<1>8. Inserting' = Inserting \cup {t} /\ t \notin Inserting /\ Inserting \subseteq Thread
  BY <1>2, <1>7 DEF Inserting
<1>9. S!Inserted' = S!Inserted
  <2>1. {offer'[u].r : u \in Inserting'} = {offer[u].r : u \in Inserting} \cup {r}
    BY <1>7, <1>8
  <2>2. S!Inserted' = created' \ {offer'[u].r : u \in Inserting'}
    BY DEF S!Inserted, Inserting
  <2> QED
    BY <1>1, <2>1, <2>2, InsertedIs
<1>10. \A q \in created' : s_name'[q] \in Name /\ S!hash[s_name'[q]] >= 0
  <2>1. S!hash[n] >= 0
    BY DEF S!stable_create
  <2> QED
    BY <1>1, <1>6, <2>1 DEF SInv
<1>11. \A u \in Inserting' : /\ offer'[u].r \in created' /\ offer'[u].name \in Name
                             /\ s_name'[offer'[u].r] = offer'[u].name
  BY <1>1, <1>6, <1>7, <1>8 DEF SInv
<1>12. \A u, v \in Inserting' : offer'[u].r = offer'[v].r => u = v
  BY <1>1, <1>7, <1>8 DEF SInv
<1>13. \A b \in 0 .. STABLE_SIZE - 1 :
          /\ ToSet(stable'[b]) = {q \in S!Inserted' : S!hash[s_name'[q]] = b}
          /\ NoDuplicates(stable'[b])
  <2>1. S!Inserted \subseteq created
    BY InsertedIs
  <2> QED
    BY <1>2, <1>6, <1>9, <2>1 DEF SInv
<1>14. \A m \in Name : connected'[m] # None => connected'[m] \in created' /\ s_name'[connected'[m]] = m
  BY <1>1, <1>2, <1>6 DEF SInv
<1> QED
  BY <1>5, <1>10, <1>11, <1>12, <1>13, <1>14 DEF SInv

(* The second half puts it in front of its bucket. *)
LEMMA InsertServices ==
  ASSUME SInv, NEW t \in Thread, S!stable_create_inserts(t)
  PROVE  SInv'
<1> DEFINE r == offer[t].r
           h == S!hash[offer[t].name]
<1>1. /\ stable' = [stable EXCEPT ![h] = <<r>> \o @]
      /\ offer' = [offer EXCEPT ![t].pc = "out"]
      /\ s_name' = s_name /\ created' = created /\ connected' = connected /\ astray' = astray
      /\ t \in Inserting
  BY DEF S!stable_create_inserts, Inserting
<1>2. /\ stable \in [0 .. STABLE_SIZE - 1 -> Seq(Service)]
      /\ created \subseteq Service
      /\ offer \in [Thread -> S!Offers]
  BY DEF SInv, S!TypeOK
<1>3. /\ r \in created /\ r \in Service /\ offer[t].name \in Name /\ s_name[r] = offer[t].name
      /\ h \in 0 .. STABLE_SIZE - 1
  BY <1>1, <1>2, HashedName DEF SInv
<1>4. r \notin S!Inserted
  BY <1>1, InsertedIs
<1>5. /\ <<r>> \o stable[h] \in Seq(Service)
      /\ ToSet(<<r>> \o stable[h]) = ToSet(stable[h]) \cup {r}
      /\ NoDuplicates(<<r>> \o stable[h])
  <2>1. stable[h] \in Seq(Service) /\ r \notin ToSet(stable[h]) /\ NoDuplicates(stable[h])
    BY <1>2, <1>3, <1>4 DEF SInv
  <2> HIDE DEF r, h
  <2> QED
    BY <1>3, <2>1, InFront
<1>6. /\ offer' \in [Thread -> S!Offers]
      /\ offer'[t].pc = "out"
      /\ \A u \in Thread \ {t} : offer'[u] = offer[u]
  BY <1>1, <1>2 DEF S!Offers
<1>7. Inserting' = Inserting \ {t} /\ Inserting \subseteq Thread
  BY <1>6 DEF Inserting
<1> HIDE DEF r, h
<1>8. stable' = [stable EXCEPT ![h] = <<r>> \o stable[h]]
  BY <1>1, <1>2, <1>3
<1>9. /\ stable' \in [0 .. STABLE_SIZE - 1 -> Seq(Service)]
      /\ stable'[h] = <<r>> \o stable[h]
      /\ \A b \in (0 .. STABLE_SIZE - 1) \ {h} : stable'[b] = stable[b]
  BY <1>2, <1>3, <1>5, <1>8
<1>10. S!TypeOK'
  BY <1>1, <1>6, <1>9 DEF SInv, S!TypeOK
<1>11. S!Inserted' = S!Inserted \cup {r}
  <2>1. S!Inserted' = created' \ {offer'[u].r : u \in Inserting'}
    BY DEF S!Inserted, Inserting
  <2>2. {offer'[u].r : u \in Inserting'} = {offer[u].r : u \in Inserting \ {t}}
    BY <1>6, <1>7
  <2>3. {offer[u].r : u \in Inserting} = {offer[u].r : u \in Inserting \ {t}} \cup {r}
    BY <1>1 DEF r
  <2>4. r \notin {offer[u].r : u \in Inserting \ {t}}
    BY <1>1 DEF r, SInv
  <2> QED
    BY <1>1, <1>3, <2>1, <2>2, <2>3, <2>4, InsertedIs
<1>12. \A u \in Inserting' : /\ offer'[u].r \in created' /\ offer'[u].name \in Name
                             /\ s_name'[offer'[u].r] = offer'[u].name
  BY <1>1, <1>6, <1>7 DEF SInv
<1>13. \A u, v \in Inserting' : offer'[u].r = offer'[v].r => u = v
  BY <1>6, <1>7 DEF SInv
<1>14. ASSUME NEW b \in 0 .. STABLE_SIZE - 1
       PROVE  /\ ToSet(stable'[b]) = {q \in S!Inserted' : S!hash[s_name'[q]] = b}
              /\ NoDuplicates(stable'[b])
  <2>1. S!hash[s_name[r]] = h
    BY <1>3 DEF h
  <2>2. ToSet(stable[b]) = {q \in S!Inserted : S!hash[s_name[q]] = b} /\ NoDuplicates(stable[b])
    BY DEF SInv
  <2>3. CASE b = h
    BY <1>1, <1>5, <1>9, <1>11, <2>1, <2>2, <2>3
  <2>4. CASE b # h
    BY <1>1, <1>9, <1>11, <2>1, <2>2, <2>4
  <2> QED
    BY <2>3, <2>4
<1>15. /\ \A q \in created' : s_name'[q] \in Name /\ S!hash[s_name'[q]] >= 0
       /\ \A m \in Name : connected'[m] # None => connected'[m] \in created' /\ s_name'[connected'[m]] = m
  BY <1>1 DEF SInv
<1> QED
  BY <1>10, <1>12, <1>13, <1>14, <1>15 DEF SInv

(* A connection is made to the service that was found. *)
LEMMA ConnectServices ==
  ASSUME SInv, NEW n \in Name, S!connect(n)
  PROVE  SInv'
<1> DEFINE r == S!stable_lookup(n)
<1>1. /\ r # None /\ connected' = [connected EXCEPT ![n] = r]
      /\ stable' = stable /\ s_name' = s_name /\ created' = created /\ offer' = offer
      /\ astray' = astray /\ S!hash[n] >= 0
  BY DEF S!connect
<1>2. r \in S!Inserted /\ s_name[r] = n
  BY <1>1, ServiceLookup
<1>3. r \in created
  BY <1>2, InsertedIs
<1> HIDE DEF r
<1>4. connected \in [Name -> Service \cup {None}] /\ created \subseteq Service
  BY DEF SInv, S!TypeOK
<1>5. /\ connected' \in [Name -> Service \cup {None}]
      /\ connected'[n] = r /\ \A m \in Name \ {n} : connected'[m] = connected[m]
  BY <1>1, <1>3, <1>4
<1>6. S!TypeOK'
  BY <1>1, <1>5 DEF SInv, S!TypeOK
<1>7. \A m \in Name : connected'[m] # None => connected'[m] \in created' /\ s_name'[connected'[m]] = m
  BY <1>1, <1>2, <1>3, <1>5 DEF SInv
<1>8. S!Inserted' = S!Inserted /\ Inserting' = Inserting
  BY <1>1 DEF S!Inserted, Inserting
<1> QED
  BY <1>1, <1>6, <1>7, <1>8 DEF SInv

LEMMA NextServices ==
  ASSUME SInv, [TablesNext]_<<vars, services>>
  PROVE  SInv'
<1>1. CASE UNCHANGED services
  BY <1>1 DEF services, SInv, S!TypeOK, S!Inserted, Inserting
<1>2. CASE S!Offering
  BY <1>2, CreateServices, InsertServices DEF S!Offering
<1>3. ASSUME NEW n \in Name, S!connect(n) PROVE SInv'
  BY <1>3, ConnectServices
<1>4. ASSUME NEW n \in Name, S!lookup_in_front(n) PROVE SInv'
  <2>1. stable' = stable /\ s_name' = s_name /\ created' = created /\ offer' = offer
        /\ connected' = connected /\ astray' = TRUE
    BY <1>4 DEF S!lookup_in_front, S!table
  <2>2. S!TypeOK'
    BY <2>1 DEF SInv, S!TypeOK
  <2>3. S!Inserted' = S!Inserted /\ Inserting' = Inserting
    BY <2>1 DEF S!Inserted, Inserting
  <2> QED
    BY <2>1, <2>2, <2>3 DEF SInv
<1>5. CASE TablesNext
  BY <1>1, <1>2, <1>3, <1>4, <1>5 DEF TablesNext
<1> QED
  BY <1>1, <1>5

(***************************************************************************)
(* Whatever the interleaving of any number of threads that offer services, *)
(* also the same one, with connections to them: stable.c loses no record   *)
(* and links none twice, an offered service is found, and a connection     *)
(* goes to a service of the name asked for.  The names are any strings, and *)
(* their hashes what hash makes of them; what a look-up in front of the    *)
(* table leads to is not part of the specification.                        *)
(***************************************************************************)
THEOREM OffersCorrect == TablesSpec => []OffersAreFound
<1>1. TablesInit => SInv
  <2>1. ASSUME S!Init PROVE SInv
    <3>1. S!TypeOK /\ Inserting = {} /\ S!Inserted = {}
      <4>1. astray = FALSE
        BY <2>1 DEF S!Init
      <4>2. /\ stable \in [0 .. STABLE_SIZE - 1 -> Seq(Service)]
            /\ s_name \in [Service -> Name \cup {None}]
            /\ created \subseteq Service
            /\ offer \in [Thread -> S!Offers]
            /\ connected \in [Name -> Service \cup {None}]
        BY <2>1 DEF S!Init, S!Offers
      <4>3. Inserting = {} /\ S!Inserted = {}
        BY <2>1 DEF S!Init, S!Inserted, Inserting
      <4> QED
        BY <4>1, <4>2, <4>3 DEF S!TypeOK
    <3> QED
      BY <2>1, <3>1 DEF S!Init, SInv, ToSet, NoDuplicates
  <2> QED
    BY <2>1 DEF TablesInit
<1>2. ASSUME SInv PROVE OffersAreFound
  <2>1. \A r \in S!Inserted : S!stable_lookup(s_name[r]) # None
    <3>1. \A r \in S!Inserted : s_name[r] \in Name /\ S!hash[s_name[r]] >= 0
      BY <1>2, InsertedIs DEF SInv
    <3> QED
      BY <1>2, <3>1, ServiceLookup
  <2> QED
    BY <1>2, <2>1 DEF SInv, OffersAreFound, S!OffersAreFound, NoDuplicates, ToSet, S!ToSet
<1> QED
  BY <1>1, <1>2, NextServices, PTL DEF TablesSpec

-----------------------------------------------------------------------------
(* The names whose hashes do not overflow.                                 *)

INT31 == 2147483648

(* Nine characters of ASCII are few enough for an int of 32 bits. *)
ShortNames ==
  /\ INT_HALF >= INT31
  /\ \A n \in Name : Len(n) <= 9 /\ \A i \in 1 .. Len(n) : n[i] \in 0 .. 127

(* The largest sum of that many characters. *)
Largest(i) == CASE i = 0 -> 0        [] i = 1 -> 127       [] i = 2 -> 1016
                [] i = 3 -> 7239     [] i = 4 -> 50800     [] i = 5 -> 355727
                [] i = 6 -> 2490216  [] i = 7 -> 17431639  [] i = 8 -> 122021600
                [] i = 9 -> 854151327

LEMMA LargestGrows ==
  ASSUME NEW i \in 1 .. 9
  PROVE  /\ Largest(i - 1) \in Nat /\ Largest(i) \in Nat
         /\ 7 * Largest(i - 1) + 127 = Largest(i)
         /\ Largest(i) < INT31
<1>1. i = 1 \/ i = 2 \/ i = 3 \/ i = 4 \/ i = 5 \/ i = 6 \/ i = 7 \/ i = 8 \/ i = 9
  OBVIOUS
<1> QED
  BY <1>1, SMT DEF Largest, INT31

LEMMA Int32Small ==
  ASSUME NEW x \in Int, 0 <= x, x < INT_HALF
  PROVE  S!Int32(x) = x
<1> DEFINE M == 2 * INT_HALF
           a == x + INT_HALF
<1>1. INT_HALF \in Nat \ {0} /\ M \in Nat \ {0} /\ a \in Int /\ -M < a /\ a < M /\ ~(a < 0)
  BY ServiceAssumption
<1>2. a % M = a
  <2> HIDE DEF M, a
  <2> QED
    BY <1>1, ModSmall
<1>3. S!Int32(x) = (a % M) - INT_HALF
  BY DEF S!Int32
<1> HIDE DEF M
<1> QED
  BY <1>1, <1>2, <1>3

LEMMA ShortHash ==
  ASSUME ShortNames, NEW n \in Name
  PROVE  S!hash[n] >= 0
<1>1. PICK f : Sums(n, f)
  BY HashSums
<1> DEFINE len == Len(n)
           T == {i \in 0 .. len : f[i] >= 0 /\ f[i] <= Largest(i)}
<1>2. len \in Nat /\ len <= 9 /\ \A i \in 1 .. len : n[i] \in 0 .. 127
  BY ServiceAssumption DEF ShortNames
<1>3. f \in [0 .. len -> Int] /\ f[0] = 0
      /\ \A i \in 1 .. len : f[i] = S!Int32(S!SHIFT * f[i - 1] + n[i])
  BY <1>1 DEF Sums
<1>4. 0 \in T
  <2>1. Largest(0) = 0
    BY SMT DEF Largest
  <2> QED
    BY <1>2, <1>3, <2>1
<1>5. ASSUME NEW i \in 1 .. len, i - 1 \in T PROVE i \in T
  <2>1. i \in 1 .. 9 /\ i \in 0 .. len /\ i - 1 \in 0 .. len
    BY <1>2
  <2>2. f[i - 1] \in Int /\ f[i - 1] >= 0 /\ f[i - 1] <= Largest(i - 1) /\ n[i] \in 0 .. 127
    BY <1>2, <1>3, <1>5, <2>1
  <2>3. /\ Largest(i - 1) \in Nat /\ Largest(i) \in Nat
        /\ 7 * Largest(i - 1) + 127 = Largest(i)
        /\ Largest(i) < INT31
    BY <2>1, LargestGrows
  <2> DEFINE x == 7 * f[i - 1] + n[i]
  <2>4. x \in Int /\ 0 <= x /\ x <= Largest(i)
    <3>1. \A a, c, l \in Int : /\ 0 <= a /\ a <= l /\ 0 <= c /\ c <= 127
                              => 7 * a + c \in Int /\ 0 <= 7 * a + c /\ 7 * a + c <= 7 * l + 127
      BY SMT
    <3>2. n[i] \in Int /\ 0 <= n[i] /\ n[i] <= 127 /\ Largest(i - 1) \in Int
      <4>1. \A c \in 0 .. 127 : c \in Int /\ 0 <= c /\ c <= 127
        OBVIOUS
      <4>2. Largest(i - 1) \in Int
        BY <2>3
      <4> QED
        BY <2>2, <4>1, <4>2
    <3>3. 7 * f[i - 1] + n[i] \in Int /\ 0 <= 7 * f[i - 1] + n[i]
          /\ 7 * f[i - 1] + n[i] <= 7 * Largest(i - 1) + 127
      BY <2>2, <3>1, <3>2
    <3> QED
      BY <2>3, <3>3
  <2>5. x < INT_HALF
    <3>1. INT_HALF >= INT31 /\ INT31 \in Nat /\ INT_HALF \in Nat
      BY ServiceAssumption, SMT DEF ShortNames, INT31
    <3> QED
      BY <2>3, <2>4, <3>1
  <2>6. f[i] = S!Int32(x)
    BY <1>3 DEF S!SHIFT
  <2> HIDE DEF x
  <2>7. f[i] = x
    BY <2>4, <2>5, <2>6, Int32Small
  <2> QED
    BY <2>1, <2>4, <2>7
<1>6. len \in T
  <2> HIDE DEF T, len
  <2>1. 0 .. len \subseteq T
    BY <1>2, <1>4, <1>5, InductionUpTo
  <2> QED
    BY <1>2, <2>1
<1>7. f[len] \in Int /\ f[len] >= 0
  BY <1>2, <1>3, <1>6
<1>8. f[len] % STABLE_SIZE \in 0 .. STABLE_SIZE - 1
  BY <1>7, ServiceAssumption
<1>9. S!hash[n] = f[len] % STABLE_SIZE
  BY <1>1, <1>7 DEF Sums, S!Rem
<1> QED
  BY <1>8, <1>9, ServiceAssumption

(***************************************************************************)
(* With names as short as stable.h speaks of, neither an offer nor a       *)
(* CONNECT looks in front of stable.c's table: the hash, which is not      *)
(* checked, stays within the int and so is not negative.                   *)
(***************************************************************************)
THEOREM NeverAstray == ShortNames => (TablesSpec => []~astray)
<1> SUFFICES ASSUME ShortNames PROVE TablesSpec => []~astray
  OBVIOUS
<1>1. TablesInit => ~astray
  BY DEF TablesInit, S!Init
<1>2. ASSUME ~astray, [TablesNext]_<<vars, services>> PROVE ~astray'
  <2>1. CASE UNCHANGED services
    BY <1>2, <2>1 DEF services
  <2>2. CASE S!Offering
    BY <1>2, <2>2 DEF S!Offering, S!stable_create, S!stable_create_inserts
  <2>3. ASSUME NEW n \in Name, S!connect(n) PROVE ~astray'
    BY <1>2, <2>3 DEF S!connect
  <2>4. ASSUME NEW n \in Name, S!lookup_in_front(n) PROVE FALSE
    <3>1. S!hash[n] < 0 /\ S!hash[n] >= 0
      BY <2>4, ShortHash DEF S!lookup_in_front
    <3>2. S!hash[n] \in 0 .. STABLE_SIZE - 1
      BY <3>1, HashedName
    <3> QED
      BY <3>1, <3>2, ServiceAssumption
  <2>5. CASE TablesNext
    BY <2>1, <2>2, <2>3, <2>4, <2>5 DEF TablesNext
  <2> QED
    BY <1>2, <2>1, <2>5
<1> QED
  BY <1>1, <1>2, PTL DEF TablesSpec
=============================================================================
