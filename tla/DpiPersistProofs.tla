-------------------------- MODULE DpiPersistProofs --------------------------
(***************************************************************************)
(* The mutex of dpipersist.c does its work for any number of records and   *)
(* files, whatever fails: the main thread puts records into open files.    *)
(***************************************************************************)
EXTENDS DpiPersist, NumberFacts, SequenceTheorems

-----------------------------------------------------------------------------
(* FlattenSeq: it is well defined, and what it computes step by step. *)

Flattens(f, s, S) ==
  /\ f \in [0 .. Len(s) -> Seq(S)]
  /\ f[0] = << >>
  /\ \A i \in 1 .. Len(s) : f[i] = f[i - 1] \o s[i]
  /\ FlattenSeq(s) = f[Len(s)]

LEMMA FlattenSteps ==
  ASSUME NEW S, NEW s \in Seq(Seq(S))
  PROVE  \E f : Flattens(f, s, S)
<1> DEFINE n == Len(s)
           step == [x \in Seq(S) \X (1 .. n) |-> x[1] \o s[x[2]]]
<1>1. n \in Nat /\ \A i \in 1 .. n : s[i] \in Seq(S)
  OBVIOUS
<1>2. step \in [Seq(S) \X (1 .. n) -> Seq(S)]
  <2>1. ASSUME NEW x \in Seq(S) \X (1 .. n) PROVE x[1] \o s[x[2]] \in Seq(S)
    <3>1. x[1] \in Seq(S) /\ s[x[2]] \in Seq(S)
      BY <1>1
    <3> QED
      BY <3>1
  <2> QED
    BY <2>1
<1>3. << >> \in Seq(S)
  OBVIOUS
<1>4. PICK f : Recursion(f, n, Seq(S), << >>, step)
  <2> HIDE DEF n, step
  <2> QED
    BY <1>1, <1>2, <1>3, RecursionExists
<1> USE DEF Recursion
<1>5. ASSUME NEW i \in 1 .. n PROVE f[i] = f[i - 1] \o s[i]
  <2>0. i - 1 \in 0 .. n
    BY <1>1
  <2>1. f[i - 1] \in Seq(S)
    BY <1>4, <2>0
  <2>2. step[<<f[i - 1], i>>] = f[i - 1] \o s[i]
    BY <2>1
  <2> QED
    BY <1>4, <2>2
<1>6. CASE n = 0
  BY <1>4, <1>5, <1>6 DEF FlattenSeq, Flattens
<1>7. CASE n # 0
  <2> DEFINE Fits(h) == h = [i \in 1 .. n |-> IF i = 1 THEN s[i] ELSE h[i - 1] \o s[i]]
             h0 == [i \in 1 .. n |-> f[i]]
             hh == CHOOSE h : Fits(h)
  <2>1. Fits(h0)
    <3>1. ASSUME NEW i \in 1 .. n PROVE h0[i] = IF i = 1 THEN s[i] ELSE h0[i - 1] \o s[i]
      <4>1. CASE i = 1
        <5>1. f[1] = << >> \o s[1] /\ s[1] \in Seq(S)
          <6>1. f[1] = f[1 - 1] \o s[1]
            BY <1>5, <4>1
          <6>2. 1 - 1 = 0
            OBVIOUS
          <6> QED
            BY <1>1, <1>4, <4>1, <6>1, <6>2
        <5>2. f[1] = s[1]
          BY <5>1
        <5> QED
          BY <4>1, <5>2
      <4>2. CASE i # 1
        <5>1. i - 1 \in 1 .. n
          BY <1>1, <4>2
        <5>2. h0[i - 1] = f[i - 1] /\ h0[i] = f[i]
          BY <5>1
        <5> HIDE DEF h0
        <5> QED
          BY <1>5, <4>2, <5>2
      <4> QED
        BY <4>1, <4>2
    <3> QED
      BY <3>1
  <2>2. Fits(hh)
    <3> HIDE DEF Fits
    <3> QED
      BY <2>1
  <2>3. ASSUME NEW i \in 1 .. n PROVE hh[i] = IF i = 1 THEN s[i] ELSE hh[i - 1] \o s[i]
    <3> HIDE DEF hh
    <3> QED
      BY <2>2
  <2> DEFINE T == {i \in 0 .. n : i = 0 \/ hh[i] = f[i]}
  <2>4. 0 \in T
    BY <1>1
  <2>5. ASSUME NEW i \in 1 .. n, i - 1 \in T PROVE i \in T
    <3> HIDE DEF hh
    <3>1. CASE i = 1
      <4>1. hh[1] = s[1] /\ h0[1] = s[1] /\ h0[1] = f[1]
        BY <2>1, <2>3, <3>1
      <4>2. hh[i] = f[i]
        BY <3>1, <4>1
      <4> QED
        BY <4>2
    <3>2. CASE i # 1
      <4>1. hh[i - 1] = f[i - 1]
        BY <2>5, <3>2
      <4>2. hh[i] = f[i]
        BY <1>5, <2>3, <3>2, <4>1
      <4> QED
        BY <4>2
    <3> QED
      BY <3>1, <3>2
  <2>6. 0 .. n \subseteq T
    <3> HIDE DEF T
    <3> QED
      BY <1>1, <2>4, <2>5, InductionUpTo
  <2>7. hh[n] = f[n]
    <3> HIDE DEF hh
    <3> QED
      BY <1>1, <1>7, <2>6
  <2>8. FlattenSeq(s) = hh[n]
    BY <1>7 DEF FlattenSeq
  <2> HIDE DEF hh
  <2> QED
    BY <1>4, <1>5, <2>7, <2>8 DEF Flattens
<1> QED
  BY <1>6, <1>7

(* One sequence more at the end is appended to what was there. *)
LEMMA FlattenExtended ==
  ASSUME NEW S, NEW s \in Seq(Seq(S)), NEW t \in Seq(Seq(S)),
         Len(t) = Len(s) + 1, \A i \in 1 .. Len(s) : t[i] = s[i]
  PROVE  /\ FlattenSeq(s) \in Seq(S)
         /\ FlattenSeq(t) = FlattenSeq(s) \o t[Len(t)]
<1> DEFINE n == Len(s)
<1>0. n \in Nat /\ Len(t) = n + 1 /\ n \in 0 .. n /\ n + 1 \in 1 .. n + 1
  OBVIOUS
<1>1. PICK f : Flattens(f, s, S)
  BY FlattenSteps
<1>2. PICK g : Flattens(g, t, S)
  BY FlattenSteps
<1> USE DEF Flattens
<1> DEFINE T == {i \in 0 .. n : f[i] = g[i]}
<1>3. 0 \in T
  BY <1>0, <1>1, <1>2
<1>4. ASSUME NEW i \in 1 .. n, i - 1 \in T PROVE i \in T
  <2>1. f[i - 1] = g[i - 1] /\ t[i] = s[i] /\ i \in 1 .. n + 1
    BY <1>0, <1>4
  <2>2. f[i] = g[i]
    BY <1>1, <1>2, <2>1
  <2> QED
    BY <2>2
<1>5. n \in T
  <2> HIDE DEF T, n
  <2>1. 0 .. n \subseteq T
    BY <1>0, <1>3, <1>4, InductionUpTo
  <2> QED
    BY <1>0, <2>1
<1>6. g[n + 1] = g[n] \o t[n + 1]
  <2>1. PICK j \in 1 .. Len(t) : j = n + 1 /\ j - 1 = n
    BY <1>0
  <2>2. g[j] = g[n] \o t[j]
    BY <1>2, <2>1
  <2> QED
    BY <2>1, <2>2, Zenon
<1> QED
  BY <1>0, <1>1, <1>2, <1>5, <1>6

LEMMA FlattenAppend ==
  ASSUME NEW S, NEW s \in Seq(Seq(S)), NEW e \in Seq(S)
  PROVE  FlattenSeq(Append(s, e)) = FlattenSeq(s) \o e
<1>1. /\ Append(s, e) \in Seq(Seq(S))
      /\ Len(Append(s, e)) = Len(s) + 1
      /\ \A i \in 1 .. Len(s) : Append(s, e)[i] = s[i]
      /\ Append(s, e)[Len(s) + 1] = e
  BY AppendProperties
<1> QED
  BY <1>1, FlattenExtended

LEMMA FlattenLastExtended ==
  ASSUME NEW S, NEW s \in Seq(Seq(S)), Len(s) > 0, NEW e \in Seq(S)
  PROVE  FlattenSeq([s EXCEPT ![Len(s)] = @ \o e]) = FlattenSeq(s) \o e
<1> DEFINE n == Len(s)
           u == SubSeq(s, 1, n - 1)
           t == [s EXCEPT ![n] = @ \o e]
<1>0. n \in Nat /\ n > 0 /\ s[n] \in Seq(S) /\ \A i \in 1 .. n - 1 : s[i] \in Seq(S)
  OBVIOUS
<1>1. u \in Seq(Seq(S)) /\ Len(u) = n - 1 /\ \A i \in 1 .. n - 1 : u[i] = s[i]
  <2>1. 1 \in 1 .. Len(s) + 1 /\ n - 1 \in 0 .. Len(s)
    BY <1>0
  <2>2. \A i \in 1 .. n - 1 : 1 + i - 1 = i
    BY <1>0
  <2>3. n - 1 - 1 + 1 = n - 1
    BY <1>0
  <2>4. /\ u \in Seq(Seq(S))
        /\ Len(u) = IF 1 <= n - 1 THEN n - 1 - 1 + 1 ELSE 0
        /\ \A i \in 1 .. n - 1 - 1 + 1 : u[i] = s[1 + i - 1]
    BY <2>1, SubSeqProperties
  <2> QED
    BY <1>0, <2>2, <2>3, <2>4
<1>2. t \in Seq(Seq(S)) /\ Len(t) = n /\ t[n] = s[n] \o e /\ \A i \in 1 .. n - 1 : t[i] = s[i]
  <2>1. s[n] \o e \in Seq(S)
    BY <1>0
  <2> QED
    BY <1>0, <2>1
<1>3. n - 1 + 1 = n
  BY <1>0
<1> HIDE DEF n, u, t
<1>4. FlattenSeq(u) \in Seq(S) /\ FlattenSeq(s) = FlattenSeq(u) \o s[n]
  BY <1>1, <1>3, FlattenExtended DEF n
<1>5. FlattenSeq(t) = FlattenSeq(u) \o (s[n] \o e)
  <2>1. Len(t) = Len(u) + 1 /\ \A i \in 1 .. Len(u) : t[i] = u[i]
    BY <1>1, <1>2, <1>3
  <2>2. FlattenSeq(t) = FlattenSeq(u) \o t[Len(t)]
    BY <1>1, <1>2, <2>1, FlattenExtended
  <2> QED
    BY <1>2, <2>2
<1>6. FlattenSeq(u) \o (s[n] \o e) = (FlattenSeq(u) \o s[n]) \o e
  <2>1. FlattenSeq(u) \in Seq(S) /\ s[n] \in Seq(S) /\ e \in Seq(S)
    BY <1>0, <1>4
  <2>2. PICK x \in Seq(S), y \in Seq(S) : x = FlattenSeq(u) /\ y = s[n]
    BY <2>1
  <2>3. (x \o y) \o e = x \o (y \o e)
    BY ConcatAssociative, SMTT(60)
  <2> QED
    BY <2>2, <2>3
<1> QED
  BY <1>4, <1>5, <1>6 DEF t, n

Looping == {"loop", "call", "lock", "store"}

Replacing == {"close", "create", "open"}

(***************************************************************************)
(* Who holds the mutex is where that thread is, and the file is open       *)
(* whenever the main thread is in its loop and the rotation thread does    *)
(* not hold the mutex.  A rotation thread that gives up keeps the mutex,   *)
(* and with it the main thread away from the closed file.  Before the      *)
(* mutex is allocated the rotation thread must sleep: it would not be kept *)
(* out, nor keep the main thread out later.                                *)
(***************************************************************************)
IInv ==
    /\ main = "store" <=> holder = "main"
    /\ rotation \in Replacing /\ mutex = "allocated" => holder = "rotation"
    /\ main \in Setup => rotation = "asleep" /\ holder = "nobody"
    /\ main = "mutex_alloc" => db = "open"
    /\ main \in Looping => mutex = "allocated"
    /\ main \in Looping /\ holder # "rotation" => db = "open"

USE DEF Looping, Replacing, Setup

(* What the set-up does, without its failures' details. *)
LEMMA SetupStep ==
  ASSUME setup
  PROVE  /\ main \in Setup
         /\ UNCHANGED <<rotation, holder, must_exit, flows, batch, last, files>>
         /\ \/ /\ main' = Succeeds[main]
               /\ db' = CASE main = "db_create" -> "created" [] main = "db_open" -> "open" [] OTHER -> db
               /\ mutex' = IF main = "mutex_alloc" THEN "allocated" ELSE mutex
            \/ main' \in {Fails[main], "crashed"} /\ UNCHANGED <<db, mutex>>
  BY DEF setup, Undefined, data

LEMMA InitIInv == Init => IInv
  BY DEF Init, IInv

LEMMA MainIInv ==
  ASSUME IInv, MainStep
  PROVE  IInv'
<1>1. CASE setup
  BY <1>1, SetupStep DEF IInv, Succeeds, Fails
<1>2. CASE loop_test
  BY <1>2 DEF loop_test, IInv, resources
<1>3. CASE rpc_call
  BY <1>3 DEF rpc_call, IInv, resources
<1>4. CASE mutex_lock
  BY <1>4 DEF mutex_lock, IInv
<1>5. CASE processresults
  <2>1. main = "store" /\ main' \in {"loop", "crashed"} /\ holder' = "nobody"
        /\ UNCHANGED <<rotation, mutex, db>>
    BY <1>5 DEF processresults, Undefined
  <2> QED
    BY <2>1 DEF IInv
<1>6. CASE cleanup
  BY <1>6 DEF cleanup, IInv, Undefined, Closes
<1> QED
  BY <1>1, <1>2, <1>3, <1>4, <1>5, <1>6 DEF MainStep

LEMMA RotationIInv ==
  ASSUME IInv, RotationStep
  PROVE  IInv'
<1>1. CASE rotation_locks
  BY <1>1 DEF rotation_locks, IInv, Undefined
<1>2. CASE rotation_closes
  BY <1>2 DEF rotation_closes, IInv, Undefined, GivesUp, Closes
<1>3. CASE rotation_creates
  BY <1>3 DEF rotation_creates, IInv, Undefined, GivesUp
<1>4. CASE rotation_opens
  BY <1>4 DEF rotation_opens, IInv, Undefined, GivesUp
<1> QED
  BY <1>1, <1>2, <1>3, <1>4 DEF RotationStep

LEMMA NextIInv ==
  ASSUME ~WakesDuringSetup, IInv, [Next]_vars
  PROVE  IInv'
<1>0. CASE disconnected
  BY <1>0 DEF disconnected, IInv, resources
<1>1. CASE wake
  BY <1>1 DEF wake, IInv, resources
<1>2. CASE signal_handler
  BY <1>2 DEF signal_handler, IInv, resources
<1>3. CASE arrives
  BY <1>3 DEF arrives, IInv, resources
<1>4. CASE UNCHANGED vars
  BY <1>4 DEF vars, IInv
<1> QED
  BY <1>0, <1>1, <1>2, <1>3, <1>4, MainIInv, RotationIInv DEF Next

-----------------------------------------------------------------------------
(* Types.  What is put into a file are records of the batch, which came    *)
(* from the records the Homework database has.                             *)

Records == Seq(1 .. MaxFlows)

LEMMA PrefixTyped ==
  ASSUME NEW s \in Records, NEW i \in 0 .. Len(s)
  PROVE  SubSeq(s, 1, i) \in Records /\ (i > 0 => s[i] \in 1 .. MaxFlows)
<1>0. s \in [1 .. Len(s) -> 1 .. MaxFlows] /\ Len(s) \in Nat
  BY LenProperties DEF Records
<1>1. \A j \in 1 .. i : s[j] \in 1 .. MaxFlows
  BY <1>0
<1>2. SubSeq(s, 1, i) \in Records
  BY <1>1, SubSeqProperties DEF Records
<1> QED
  BY <1>1, <1>2

LEMMA FilesTyped ==
  ASSUME NEW f \in Seq(Records), NEW s \in Records
  PROVE  /\ [f EXCEPT ![Len(f)] = @ \o s] \in Seq(Records)
         /\ Append(f, << >>) \in Seq(Records)
<1>1. f \in [1 .. Len(f) -> Records] /\ Len(f) \in Nat
  OBVIOUS
<1>2. ASSUME NEW j \in 1 .. Len(f) PROVE f[j] \o s \in Records
  BY <1>1 DEF Records
<1>3. [f EXCEPT ![Len(f)] = @ \o s] \in [1 .. Len(f) -> Records]
  BY <1>1, <1>2
<1>4. << >> \in Records
  BY DEF Records
<1> QED
  BY <1>1, <1>3, <1>4

LEMMA FlowsTyped ==
  ASSUME TypeOK, NEW from \in 0 .. MaxFlows
  PROVE  Flows(from) \in Records
<1>1. flows \in Nat /\ from \in Nat /\ flows <= MaxFlows /\ MaxFlows \in Nat
  BY BoundAssumption DEF TypeOK
<1>2. CASE from <= flows
  <2>1. flows - from \in Nat /\ \A i \in 1 .. flows - from : from + i \in 1 .. MaxFlows
    BY <1>1, <1>2
  <2>2. Flows(from) \in [1 .. flows - from -> 1 .. MaxFlows]
    BY <2>1 DEF Flows
  <2> QED
    BY <2>1, <2>2, SeqDef DEF Records
<1>3. CASE from > flows
  <2>1. 1 .. flows - from = 1 .. 0
    BY <1>1, <1>3
  <2>2. Flows(from) \in [1 .. 0 -> 1 .. MaxFlows]
    BY <2>1 DEF Flows
  <2> QED
    BY <2>2, SeqDef DEF Records
<1> QED
  BY <1>1, <1>2, <1>3

(* How many puts succeed. *)
LEMMA Puts ==
  ASSUME processresults, batch \in Records
  PROVE  \E i \in 0 .. Len(batch) :
            /\ files' = [files EXCEPT ![Len(files)] = @ \o SubSeq(batch, 1, i)]
            /\ last' = IF i > 0 THEN batch[i] ELSE last
            /\ must_exit' = (must_exit \/ i < Len(batch))
<1>1. 0 \in 0 .. Len(batch)
  BY LenProperties DEF Records
<1>2. (IF db = "open" THEN 0 .. Len(batch) ELSE {0}) \subseteq 0 .. Len(batch)
  BY <1>1
<1>3. PICK i \in (IF db = "open" THEN 0 .. Len(batch) ELSE {0}) :
        /\ files' = [files EXCEPT ![Len(files)] = @ \o SubSeq(batch, 1, i)]
        /\ last' = IF i > 0 THEN batch[i] ELSE last
        /\ must_exit' = (must_exit \/ i < Len(batch))
  BY DEF processresults
<1>4. i \in 0 .. Len(batch)
  BY <1>2
<1> QED
  BY <1>3, <1>4

LEMMA MainTyped ==
  ASSUME TypeOK, MainStep
  PROVE  TypeOK'
<1> USE DEF Setup, Cleanup, Ended
<1>1. CASE setup
  BY <1>1, SetupStep DEF TypeOK, Succeeds, Fails
<1>2. CASE loop_test
  BY <1>2 DEF loop_test, TypeOK, resources, data
<1>3. CASE rpc_call
  <2>1. \A from \in 0 .. flows : from \in 0 .. MaxFlows
    BY BoundAssumption DEF TypeOK
  <2>2. batch' \in Records
    BY <1>3, <2>1, FlowsTyped DEF rpc_call, TypeOK, Records
  <2> QED
    BY <1>3, <2>2 DEF rpc_call, TypeOK, Records, resources
<1>4. CASE mutex_lock
  BY <1>4 DEF mutex_lock, TypeOK, data
<1>5. CASE processresults
  <2>1. PICK i \in 0 .. Len(batch) :
          /\ files' = [files EXCEPT ![Len(files)] = @ \o SubSeq(batch, 1, i)]
          /\ last' = IF i > 0 THEN batch[i] ELSE last
          /\ must_exit' = (must_exit \/ i < Len(batch))
    BY <1>5, Puts DEF TypeOK, Records
  <2>2. SubSeq(batch, 1, i) \in Records /\ (i > 0 => batch[i] \in 1 .. MaxFlows)
    BY PrefixTyped DEF TypeOK, Records
  <2>3. files' \in Seq(Records)
    BY <2>1, <2>2, FilesTyped DEF TypeOK, Records
  <2>4. last' \in 0 .. MaxFlows
    BY <2>1, <2>2 DEF TypeOK
  <2>5. must_exit' \in BOOLEAN
    BY <2>1
  <2> QED
    BY <1>5, <2>3, <2>4, <2>5 DEF processresults, TypeOK, Undefined, Records
<1>6. CASE cleanup
  BY <1>6 DEF cleanup, TypeOK, Undefined, Closes, data
<1> QED
  BY <1>1, <1>2, <1>3, <1>4, <1>5, <1>6 DEF MainStep

LEMMA RotationTyped ==
  ASSUME TypeOK, RotationStep
  PROVE  TypeOK'
<1> USE DEF Setup, Cleanup, Ended
<1>1. CASE rotation_locks
  BY <1>1 DEF rotation_locks, TypeOK, Undefined, data
<1>2. CASE rotation_closes
  BY <1>2 DEF rotation_closes, TypeOK, Undefined, GivesUp, Closes, data
<1>3. CASE rotation_creates
  BY <1>3 DEF rotation_creates, TypeOK, Undefined, GivesUp, data
<1>4. CASE rotation_opens
  <2>1. files' \in Seq(Records)
    BY <1>4, FilesTyped DEF rotation_opens, TypeOK, Records
  <2> QED
    BY <1>4, <2>1 DEF rotation_opens, TypeOK, Records, Undefined, GivesUp
<1> QED
  BY <1>1, <1>2, <1>3, <1>4 DEF RotationStep

LEMMA NextTyped ==
  ASSUME TypeOK, [Next]_vars
  PROVE  TypeOK'
<1>0. CASE disconnected
  BY <1>0 DEF disconnected, TypeOK, resources, data, Setup, Cleanup, Ended
<1>1. CASE wake
  BY <1>1 DEF wake, TypeOK, resources, data
<1>2. CASE signal_handler
  BY <1>2 DEF signal_handler, TypeOK, resources, data
<1>3. CASE arrives
  BY <1>3, BoundAssumption DEF arrives, TypeOK, resources
<1>4. CASE UNCHANGED vars
  BY <1>4 DEF vars, TypeOK
<1> QED
  BY <1>0, <1>1, <1>2, <1>3, <1>4, MainTyped, RotationTyped DEF Next

(***************************************************************************)
(* Whatever order polls, rotations and failures of dpipersist.c come in,   *)
(* places, resources and data keep their types; what is stored, and the    *)
(* time stamp asked for next, come from records that exist.                *)
(***************************************************************************)
THEOREM TypeCorrect == Spec => []TypeOK
<1>1. Init => TypeOK
  <2>1. << >> \in Records
    BY EmptySeq DEF Records
  <2>2. <<<< >>>> \in Seq(Records)
    BY <2>1
  <2>3. Init => flows \in 0 .. MaxFlows /\ last \in 0 .. MaxFlows
    BY BoundAssumption DEF Init
  <2>4. Init => batch \in Records /\ files \in Seq(Records)
    BY <2>1, <2>2, Zenon DEF Init
  <2> QED
    BY <2>3, <2>4 DEF Init, TypeOK, Records
<1> QED
  BY <1>1, NextTyped, PTL DEF Spec

-----------------------------------------------------------------------------
(***************************************************************************)
(* processresults only puts records into an open file that it holds the    *)
(* mutex for, across rotations that succeed and rotations that fail, if no *)
(* rotation comes due before the mutex is allocated.                       *)
(***************************************************************************)
THEOREM OpenFileCorrect == ~WakesDuringSetup => (Spec => []StoresIntoOpenFile)
<1>1. IInv => StoresIntoOpenFile
  BY DEF IInv, StoresIntoOpenFile
<1> QED
  <2> SUFFICES ASSUME ~WakesDuringSetup PROVE Spec => []StoresIntoOpenFile
    OBVIOUS
  <2>1. IInv /\ [Next]_vars => IInv'
    BY NextIInv
  <2> QED
    BY <1>1, <2>1, InitIInv, PTL DEF Spec

-----------------------------------------------------------------------------
(***************************************************************************)
(* What is stored is an unbroken run.  The strengthening is about the      *)
(* response between the call and the puts: it goes on from the record that *)
(* was stored last, and nothing is stored by anybody else meanwhile.  A    *)
(* rotation puts an empty file behind the others and loses none of them.   *)
(***************************************************************************)
Consecutive(s) == \A i \in 2 .. Len(s) : s[i] = s[i - 1] + 1

GoesOn(from) == \A j \in 1 .. Len(batch) : batch[j] = from + j

UInv ==
    /\ Len(files) > 0
    /\ StoredUnbroken
    /\ main \in {"lock", "store"} => \E from \in Nat : (last # 0 => from = last) /\ GoesOn(from)

(* A run of records that goes on from the end of another extends it. *)
LEMMA RunExtended ==
  ASSUME NEW s \in Records, NEW t \in Records, NEW from \in Nat,
         Consecutive(s), s # << >> => Last(s) = from,
         \A j \in 1 .. Len(t) : t[j] = from + j
  PROVE  /\ s \o t \in Records
         /\ Consecutive(s \o t)
         /\ t = << >> => s \o t = s
         /\ t # << >> => s \o t # << >> /\ Last(s \o t) = t[Len(t)]
<1>1. /\ s \o t \in Records /\ Len(s) \in Nat /\ Len(t) \in Nat
      /\ Len(s \o t) = Len(s) + Len(t)
  BY DEF Records
<1>2. \A i \in 1 .. Len(s) + Len(t) :
         (s \o t)[i] = IF i <= Len(s) THEN s[i] ELSE t[i - Len(s)]
  BY DEF Records
<1>3. ASSUME NEW i \in 2 .. Len(s \o t) PROVE (s \o t)[i] = (s \o t)[i - 1] + 1
  <2>0. i \in 1 .. Len(s) + Len(t) /\ i - 1 \in 1 .. Len(s) + Len(t)
    BY <1>1
  <2>1. CASE i <= Len(s)
    <3>1. i \in 2 .. Len(s) /\ i - 1 <= Len(s)
      BY <1>1, <2>1
    <3>2. s[i] = s[i - 1] + 1
      BY <3>1 DEF Consecutive
    <3> QED
      BY <1>2, <2>0, <2>1, <3>1, <3>2
  <2>2. CASE i - 1 = Len(s)
    <3>1. s # << >> /\ i - Len(s) = 1 /\ 1 \in 1 .. Len(t) /\ ~(i <= Len(s)) /\ i - 1 <= Len(s)
      BY <1>1, <2>0, <2>2
    <3>2. t[1] = from + 1 /\ s[i - 1] = from
      BY <2>2, <3>1 DEF Last
    <3>3. (s \o t)[i] = t[1] /\ (s \o t)[i - 1] = s[i - 1]
      BY <1>2, <2>0, <3>1
    <3> QED
      BY <3>2, <3>3
  <2>3. CASE i - 1 > Len(s)
    <3>1. /\ i - Len(s) \in 1 .. Len(t) /\ i - 1 - Len(s) \in 1 .. Len(t)
          /\ ~(i <= Len(s)) /\ ~(i - 1 <= Len(s))
      BY <1>1, <2>0, <2>3
    <3>2. t[i - Len(s)] = from + (i - Len(s)) /\ t[i - 1 - Len(s)] = from + (i - 1 - Len(s))
      BY <3>1
    <3>3. (s \o t)[i] = t[i - Len(s)] /\ (s \o t)[i - 1] = t[i - 1 - Len(s)]
      BY <1>2, <2>0, <3>1
    <3> QED
      BY <1>1, <3>2, <3>3
  <2> QED
    BY <1>1, <2>0, <2>1, <2>2, <2>3
<1>4. t = << >> => s \o t = s
  BY DEF Records
<1>5. ASSUME t # << >> PROVE s \o t # << >> /\ Last(s \o t) = t[Len(t)]
  <2>1. Len(t) > 0
    BY <1>5, EmptySeq DEF Records
  <2>2. /\ Len(s) + Len(t) \in 1 .. Len(s) + Len(t) /\ ~(Len(s) + Len(t) <= Len(s))
        /\ Len(s) + Len(t) - Len(s) = Len(t)
    BY <1>1, <2>1
  <2> QED
    BY <1>1, <1>2, <2>1, <2>2 DEF Last
<1> QED
  BY <1>1, <1>3, <1>4, <1>5 DEF Consecutive

LEMMA StoredTyped ==
  ASSUME TypeOK
  PROVE  files \in Seq(Records) /\ Stored \in Records
<1>1. files \in Seq(Records)
  BY DEF TypeOK, Records
<1>2. << >> \in Seq(1 .. MaxFlows)
  BY EmptySeq
<1>3. Append(files, << >>) \in Seq(Records) /\ Len(Append(files, << >>)) = Len(files) + 1
  BY <1>1, <1>2 DEF Records
<1>4. \A i \in 1 .. Len(files) : Append(files, << >>)[i] = files[i]
  BY <1>1, <1>2 DEF Records
<1>5. FlattenSeq(files) \in Seq(1 .. MaxFlows)
  BY <1>1, <1>3, <1>4, FlattenExtended DEF Records
<1> QED
  BY <1>1, <1>5 DEF Stored, Records

LEMMA CallUInv ==
  ASSUME TypeOK, UInv, rpc_call
  PROVE  UInv'
<1>1. CASE main' = "lock"
  <2>1. PICK from \in (IF last # 0 THEN {last} ELSE 0 .. flows) : batch' = Flows(from)
    BY <1>1 DEF rpc_call
  <2>2. from \in Nat /\ (last # 0 => from = last) /\ flows \in Nat
    BY <2>1, BoundAssumption DEF TypeOK
  <2>3. \A j \in 1 .. Len(batch') : batch'[j] = from + j
    <3>1. from \in 0 .. MaxFlows
      BY <2>1, BoundAssumption DEF TypeOK
    <3>2. Flows(from) \in Records
      BY <3>1, FlowsTyped
    <3>3. DOMAIN Flows(from) = 1 .. Len(Flows(from))
      BY <3>2 DEF Records
    <3>4. \A j \in DOMAIN Flows(from) : Flows(from)[j] = from + j
      BY DEF Flows
    <3> QED
      BY <2>1, <3>3, <3>4
  <2>4. UNCHANGED <<files, last>>
    BY DEF rpc_call
  <2> QED
    BY <2>2, <2>3, <2>4 DEF UInv, GoesOn, StoredUnbroken, Stored
<1>2. CASE main' # "lock"
  BY <1>2 DEF rpc_call, UInv, StoredUnbroken, Stored
<1> QED
  BY <1>1, <1>2

LEMMA StoreUInv ==
  ASSUME TypeOK, UInv, processresults
  PROVE  UInv'
<1>1. PICK i \in 0 .. Len(batch) :
        /\ files' = [files EXCEPT ![Len(files)] = @ \o SubSeq(batch, 1, i)]
        /\ last' = IF i > 0 THEN batch[i] ELSE last
  BY Puts DEF TypeOK, Records
<1>2. PICK from \in Nat : (last # 0 => from = last) /\ GoesOn(from)
  BY DEF processresults, UInv
<1> DEFINE t == SubSeq(batch, 1, i)
<1>3. t \in Records /\ batch \in Records /\ Len(batch) \in Nat /\ i \in Nat
  BY PrefixTyped DEF TypeOK, Records
<1>4. Len(t) = i /\ \A j \in 1 .. i : t[j] = batch[j]
  BY <1>3, SubSeqProperties DEF Records
<1>5. \A j \in 1 .. Len(t) : t[j] = from + j
  BY <1>2, <1>3, <1>4 DEF GoesOn
<1>6. files \in Seq(Records) /\ Stored \in Records
  BY StoredTyped
<1> HIDE DEF t
<1>7. Stored' = Stored \o t
  <2>1. files \in Seq(Seq(1 .. MaxFlows)) /\ Len(files) > 0 /\ t \in Seq(1 .. MaxFlows)
    BY <1>3, <1>6 DEF UInv, Records
  <2>2. FlattenSeq([files EXCEPT ![Len(files)] = @ \o t]) = FlattenSeq(files) \o t
    BY <2>1, FlattenLastExtended
  <2> QED
    BY <1>1, <2>2 DEF Stored, t
<1>8. Consecutive(Stored) /\ last = IF Stored = << >> THEN 0 ELSE Last(Stored)
  BY DEF UInv, StoredUnbroken, Consecutive
<1>9. Stored # << >> => Last(Stored) = from
  <2>1. ASSUME Stored # << >> PROVE Last(Stored) \in 1 .. MaxFlows
    <3>1. Len(Stored) \in 1 .. Len(Stored)
      BY <1>6, <2>1, EmptySeq DEF Records
    <3>2. Stored[Len(Stored)] \in 1 .. MaxFlows
      BY <1>6, <3>1, ElementOfSeq DEF Records
    <3> QED
      BY <3>2 DEF Last
  <2> QED
    BY <1>2, <1>8, <2>1
<1>10. /\ Consecutive(Stored \o t)
       /\ t = << >> => Stored \o t = Stored
       /\ t # << >> => Stored \o t # << >> /\ Last(Stored \o t) = t[Len(t)]
  BY <1>3, <1>5, <1>6, <1>8, <1>9, RunExtended
<1>11. last' = IF Stored' = << >> THEN 0 ELSE Last(Stored')
  <2>1. CASE i = 0
    <3>1. t = << >> /\ last' = last
      BY <1>1, <1>3, <1>4, <2>1, EmptySeq DEF Records
    <3> QED
      BY <1>7, <1>8, <1>10, <3>1
  <2>2. CASE i > 0
    <3>1. t # << >> /\ last' = t[Len(t)]
      BY <1>1, <1>3, <1>4, <2>2
    <3> QED
      BY <1>7, <1>10, <3>1
  <2> QED
    BY <1>3, <2>1, <2>2
<1>12. StoredUnbroken'
  <2>1. Consecutive(Stored')
    BY <1>7, <1>10
  <2> QED
    BY <1>11, <2>1 DEF StoredUnbroken, Consecutive
<1>13. Len(files') > 0
  BY <1>1, <1>6 DEF UInv
<1>14. main' \in {"loop", "crashed"}
  BY DEF processresults, Undefined
<1> QED
  BY <1>12, <1>13, <1>14 DEF UInv

LEMMA OpensUInv ==
  ASSUME TypeOK, UInv, rotation_opens
  PROVE  UInv'
<1>1. files \in Seq(Records) /\ Stored \in Records
  BY StoredTyped
<1>2. CASE files' = Append(files, << >>)
  <2>1. Stored' = Stored
    <3>1. << >> \in Seq(1 .. MaxFlows)
      BY EmptySeq
    <3>2. FlattenSeq(Append(files, << >>)) = FlattenSeq(files) \o << >>
      BY <1>1, <3>1, FlattenAppend DEF Records
    <3>3. Stored \o << >> = Stored
      BY <1>1 DEF Records
    <3> QED
      BY <1>2, <3>2, <3>3 DEF Stored
  <2>2. Len(files') > 0
    BY <1>1, <1>2
  <2>3. UNCHANGED <<last, batch>> /\ (main' = main \/ main' = "crashed")
    BY <1>2 DEF rotation_opens, Undefined
  <2> QED
    BY <2>1, <2>2, <2>3 DEF UInv, StoredUnbroken, GoesOn
<1>3. CASE UNCHANGED files
  BY <1>3 DEF rotation_opens, UInv, StoredUnbroken, Stored, GoesOn, Undefined
<1> QED
  BY <1>2, <1>3 DEF rotation_opens

LEMMA NextUInv ==
  ASSUME TypeOK, UInv, [Next]_vars
  PROVE  UInv'
<1> DEFINE Elsewhere ==
      /\ UNCHANGED <<files, batch, last>>
      /\ main' \in {"lock", "store"} => main \in {"lock", "store"}
<1>1. ASSUME Elsewhere PROVE UInv'
  BY <1>1 DEF UInv, StoredUnbroken, Stored, GoesOn
<1>2. CASE setup
  <2>1. Elsewhere
    BY <1>2, SetupStep DEF Succeeds, Fails
  <2> QED
    BY <1>1, <2>1
<1>3. CASE loop_test \/ mutex_lock \/ disconnected \/ wake \/ signal_handler \/ arrives \/ UNCHANGED vars
  <2>1. Elsewhere
    BY <1>3 DEF loop_test, mutex_lock, disconnected, wake, signal_handler, arrives, vars, data
  <2> QED
    BY <1>1, <2>1
<1>4. CASE cleanup
  <2>1. Elsewhere
    BY <1>4 DEF cleanup, Undefined, Closes, data
  <2> QED
    BY <1>1, <2>1
<1>5. CASE rotation_locks \/ rotation_closes \/ rotation_creates
  <2>1. Elsewhere
    BY <1>5 DEF rotation_locks, rotation_closes, rotation_creates, Undefined, Closes, data
  <2> QED
    BY <1>1, <2>1
<1> HIDE DEF Elsewhere
<1> QED
  BY <1>2, <1>3, <1>4, <1>5, CallUInv, StoreUInv, OpensUInv DEF Next, MainStep, RotationStep

(***************************************************************************)
(* dpipersist.c stores an unbroken run of flow records, for any number of  *)
(* records and files: no poll, rotation, failing put or exit makes it skip *)
(* a record or store one twice, and the time stamp it asks for next is     *)
(* that of the last record in the files.                                   *)
(***************************************************************************)
THEOREM UnbrokenCorrect == Spec => []StoredUnbroken
<1>1. Init => UInv
  <2> SUFFICES ASSUME Init PROVE UInv
    OBVIOUS
  <2>1. << >> \in Seq(Seq(1 .. MaxFlows)) /\ << >> \in Seq(1 .. MaxFlows)
    BY EmptySeq
  <2>2. files = Append(<< >>, << >>)
    BY DEF Init
  <2>3. FlattenSeq(<< >>) = << >>
    BY DEF FlattenSeq
  <2>4. FlattenSeq(Append(<< >>, << >>)) = << >> \o << >>
    BY <2>1, <2>3, FlattenAppend
  <2>5. << >> \o << >> = << >>
    OBVIOUS
  <2>6. Stored = << >>
    BY <2>2, <2>4, <2>5 DEF Stored
  <2> QED
    BY <2>6 DEF Init, UInv, StoredUnbroken
<1>2. UInv => StoredUnbroken
  BY DEF UInv
<1> QED
  BY <1>1, <1>2, NextUInv, TypeCorrect, PTL DEF Spec
=============================================================================
