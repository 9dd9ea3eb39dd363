----------------------------- MODULE DpiPersist -----------------------------
(***************************************************************************)
(* The persistence client src/dpipersist.c.  The main thread polls the     *)
(* Homework database for flow records over an RPC connection and appends   *)
(* them to a Berkeley DB file; a second thread closes the file and opens a *)
(* new one now and then.  The threads share the database handle and a      *)
(* Berkeley DB mutex; signal handlers ask the main thread to leave.        *)
(*                                                                         *)
(* Flow records are numbered in the order of their timestamps, which are   *)
(* distinct.  The rotation thread is started before the set-up and sleeps  *)
(* for hours, or until midnight: WakesDuringSetup says whether it may wake *)
(* before the set-up, which connects to the server first, has finished.    *)
(***************************************************************************)
EXTENDS Naturals, Sequences, SequencesExt

CONSTANTS MaxFlows,          \* bound: flow records the database receives
          MaxFiles,          \* bound: database files
          SetupMayFail,      \* may the set-up fail?
          RotationMayFail,   \* may it fail while rotating?
          WakesDuringSetup   \* may a rotation come due while starting up?

ASSUME BoundAssumption == MaxFlows \in Nat /\ MaxFiles \in Nat \ {0}
ASSUME FailureAssumption == SetupMayFail \in BOOLEAN /\ RotationMayFail \in BOOLEAN
ASSUME WakeAssumption == WakesDuringSetup \in BOOLEAN

VARIABLES main,        \* where the main thread is
          rotation,    \* where the rotation thread is
          holder,      \* who holds the mutex
          mutex, db,   \* the mutex and the handle dbp
          must_exit,
          flows,       \* flow records the Homework database has received
          batch,       \* the records of the last response
          last,        \* the last record stored, 0 for none
          files        \* the records in each file, oldest file first

vars == <<main, rotation, holder, mutex, db, must_exit, flows, batch, last, files>>

resources == <<holder, mutex, db>>
data == <<flows, batch, last, files>>

Setup == {"connect", "env_create", "env_open", "db_create", "db_open", "mutex_alloc"}
Cleanup == {"err3", "err2", "err1", "err0"}
Ended == {"over", "crashed"}

Init == /\ main = "connect"
        /\ rotation = "asleep"
        /\ holder = "nobody" /\ mutex = "none" /\ db = "none"
        /\ must_exit = FALSE
        /\ flows = 0 /\ batch = << >> /\ last = 0 /\ files = <<<< >>>>

(* The process ends when the main thread does, or when any thread crashes. *)
Running == main \notin Ended

(* Using a handle that was closed, or a mutex that was freed or never      *)
(* allocated, is undefined: the process crashes, or nothing happens.       *)
Undefined(carriesOn) == main' \in {carriesOn, "crashed"}

-----------------------------------------------------------------------------
(* main() before the loop; a step that fails jumps to a clean-up label, or *)
(* exits when there is no connection.  The rotation thread may have closed *)
(* or opened the new handle between its creation and its opening.          *)

Succeeds == [connect |-> "env_create", env_create |-> "env_open", env_open |-> "db_create",
             db_create |-> "db_open", db_open |-> "mutex_alloc", mutex_alloc |-> "loop"]

Fails == [connect |-> "over", env_create |-> "err0", env_open |-> "err1",
          db_create |-> "err2", db_open |-> "err2", mutex_alloc |-> "err3"]

setup ==
    /\ main \in Setup
    /\ LET spoilt == main = "db_open" /\ db # "created"
       IN \/ /\ ~spoilt
             /\ main' = Succeeds[main]
             /\ db' = CASE main = "db_create" -> "created" [] main = "db_open" -> "open" [] OTHER -> db
             /\ mutex' = IF main = "mutex_alloc" THEN "allocated" ELSE mutex
          \/ /\ SetupMayFail \/ spoilt
             /\ IF spoilt /\ db = "closed" THEN Undefined(Fails[main]) ELSE main' = Fails[main]
             /\ UNCHANGED <<db, mutex>>
    /\ UNCHANGED <<rotation, holder, must_exit, data>>

(* A signal; before the loop it would kill the process. *)
signal_handler ==
    /\ Running /\ main \notin Setup
    /\ ~must_exit
    /\ must_exit' = TRUE
    /\ UNCHANGED <<main, rotation, resources, data>>

-----------------------------------------------------------------------------
(* The loop. *)

MutLoopTestIgnoresExit ==
    /\ main = "loop"
    /\ main' = "call"
    /\ UNCHANGED <<rotation, resources, must_exit, data>>

loop_test ==
    /\ main = "loop"
    /\ main' = IF must_exit THEN "err3" ELSE "call"
    /\ UNCHANGED <<rotation, resources, must_exit, data>>

Flows(from) == [i \in 1 .. flows - from |-> from + i]

(* Everything since `last'; before the first record, what the window of    *)
(* TIME_DELTA seconds still holds.                                         *)
rpc_call ==
    /\ main = "call"
    /\ \/ main' = "err3" /\ UNCHANGED batch
       \/ main' = "loop" /\ UNCHANGED batch       \* a response without results
       \/ /\ main' = "lock"
          /\ \E from \in (IF last # 0 THEN {last} ELSE 0 .. flows) : batch' = Flows(from)
    /\ UNCHANGED <<rotation, resources, must_exit, flows, last, files>>

mutex_lock ==
    /\ main = "lock"
    /\ holder = "nobody"
    /\ holder' = "main"
    /\ main' = "store"
    /\ UNCHANGED <<rotation, mutex, db, must_exit, data>>

MutStoreForgetsLast ==
    /\ main = "store"
    /\ \E i \in (IF db = "open" THEN 0 .. Len(batch) ELSE {0}) :
          /\ files' = [files EXCEPT ![Len(files)] = @ \o SubSeq(batch, 1, i)]
          /\ last' = IF i > 0 THEN batch[1] ELSE last
          /\ must_exit' = (must_exit \/ i < Len(batch))
    /\ holder' = "nobody"
    /\ IF db = "open" \/ batch = << >> THEN main' = "loop" ELSE Undefined("loop")
    /\ UNCHANGED <<rotation, mutex, db, flows, batch>>

(* processresults: i puts succeed, none if the file is not open, and the   *)
(* mutex is released.                                                      *)
processresults ==
    /\ main = "store"
    /\ \E i \in (IF db = "open" THEN 0 .. Len(batch) ELSE {0}) :
          /\ files' = [files EXCEPT ![Len(files)] = @ \o SubSeq(batch, 1, i)]
          /\ last' = IF i > 0 THEN batch[i] ELSE last
          /\ must_exit' = (must_exit \/ i < Len(batch))
    /\ holder' = "nobody"
    /\ IF db = "open" \/ batch = << >> THEN main' = "loop" ELSE Undefined("loop")
    /\ UNCHANGED <<rotation, mutex, db, flows, batch>>

(* Closing the handle; before it is made it is the null pointer. *)
Closes(goesOn) ==
    /\ main' \in CASE db = "none" -> {"crashed"}
                   [] db = "closed" -> {goesOn, "crashed"}
                   [] OTHER -> {goesOn}
    /\ db' = "closed"

(***************************************************************************)
(* The clean-up, from the label reached downwards.  The rotation thread is *)
(* neither stopped nor kept out by the mutex.                              *)
(***************************************************************************)
cleanup ==
    /\ \/ /\ main = "err3"
          /\ IF holder = "rotation" THEN Undefined("err2") ELSE main' = "err2"
          /\ mutex' = "freed"
          /\ UNCHANGED db
       \/ /\ main = "err2"
          /\ Closes("err1")
          /\ UNCHANGED mutex
       \/ main = "err1" /\ main' = "err0" /\ UNCHANGED <<mutex, db>>
    /\ UNCHANGED <<rotation, holder, must_exit, data>>

(* The end of the clean-up, in case rpc_disconnect returns: it may wait    *)
(* for ever, see DisconnectReturns of Srpc.                                *)
disconnected ==
    /\ main = "err0"
    /\ main' = "over"
    /\ UNCHANGED <<rotation, resources, must_exit, data>>

-----------------------------------------------------------------------------
(* The rotation thread. *)

GivesUp == rotation' = "gone" /\ must_exit' = TRUE /\ UNCHANGED holder

wake ==
    /\ rotation = "asleep" /\ Len(files) < MaxFiles
    /\ Running
    /\ main \in Setup => WakesDuringSetup
    /\ rotation' = "lock"
    /\ UNCHANGED <<main, resources, must_exit, data>>

(* Only a mutex that is allocated keeps anybody waiting.  Before the       *)
(* environment is made its handle is the null pointer.                     *)
rotation_locks ==
    /\ rotation = "lock" /\ Running
    /\ \/ mutex = "allocated" /\ holder = "nobody" /\ holder' = "rotation" /\ UNCHANGED main
       \/ /\ mutex # "allocated" /\ UNCHANGED holder
          /\ IF main \in {"connect", "env_create"} THEN main' = "crashed" ELSE Undefined(main)
    /\ rotation' = "close"
    /\ UNCHANGED <<mutex, db, must_exit, data>>

MutCloseFailsUnlocks ==
    /\ rotation = "close" /\ Running
    /\ Closes(main)
    /\ \/ rotation' = "create" /\ UNCHANGED <<holder, must_exit>>
       \/ rotation' = "gone" /\ must_exit' = TRUE /\ holder' = "nobody"
    /\ UNCHANGED <<mutex, data>>

rotation_closes ==
    /\ rotation = "close" /\ Running
    /\ Closes(main)
    /\ \/ rotation' = "create" /\ UNCHANGED <<holder, must_exit>>
       \/ RotationMayFail /\ GivesUp
    /\ UNCHANGED <<mutex, data>>

(* Main may have closed the environment by now. *)
rotation_creates ==
    /\ rotation = "create" /\ Running
    /\ IF main = "err0" THEN Undefined(main) ELSE UNCHANGED main
    /\ \/ rotation' = "open" /\ db' = "created" /\ UNCHANGED <<holder, must_exit>>
       \/ RotationMayFail /\ GivesUp /\ UNCHANGED db
    /\ UNCHANGED <<mutex, data>>

(* Main may have closed the new handle, or, when starting up, opened it or *)
(* put another in its place.                                               *)
rotation_opens ==
    /\ rotation = "open" /\ Running
    /\ \/ /\ db = "created" /\ db' = "open"
          /\ rotation' = "asleep" /\ holder' = "nobody"
          /\ IF mutex = "allocated" THEN UNCHANGED main ELSE Undefined(main)
          /\ files' = Append(files, << >>)
          /\ UNCHANGED must_exit
       \/ /\ RotationMayFail \/ db # "created"
          /\ GivesUp
          /\ IF db = "closed" THEN Undefined(main) ELSE UNCHANGED main
          /\ UNCHANGED <<db, files>>
    /\ UNCHANGED <<mutex, flows, batch, last>>

(* The Homework database receives a flow record. *)
arrives ==
    /\ Running /\ flows < MaxFlows
    /\ flows' = flows + 1
    /\ UNCHANGED <<main, rotation, resources, must_exit, batch, last, files>>

MainStep == setup \/ loop_test \/ rpc_call \/ mutex_lock \/ processresults \/ cleanup

RotationStep == rotation_locks \/ rotation_closes \/ rotation_creates \/ rotation_opens

Next == MainStep \/ disconnected \/ wake \/ RotationStep \/ signal_handler \/ arrives

(* Both threads run when they can, and rpc_call returns; nothing makes a   *)
(* rotation come due, and nothing makes rpc_disconnect return.             *)
Spec == Init /\ [][Next]_vars /\ WF_vars(MainStep) /\ WF_vars(RotationStep)

-----------------------------------------------------------------------------
(* Places, resources and data have their types. *)
TypeOK ==
    /\ main \in Setup \cup Cleanup \cup Ended \cup {"loop", "call", "lock", "store"}
    /\ rotation \in {"asleep", "lock", "close", "create", "open", "gone"}
    /\ holder \in {"nobody", "main", "rotation"}
    /\ mutex \in {"none", "allocated", "freed"}
    /\ db \in {"none", "created", "open", "closed"}
    /\ must_exit \in BOOLEAN
    /\ flows \in 0 .. MaxFlows /\ last \in 0 .. MaxFlows
    /\ batch \in Seq(1 .. MaxFlows)
    /\ files \in Seq(Seq(1 .. MaxFlows))

Stored == FlattenSeq(files)

(***************************************************************************)
(* From the first record stored on, every record is stored exactly once    *)
(* and in order, across polls, rotations and failing puts: the files in    *)
(* sequence are an unbroken run of flow records that ends with `last'.     *)
(***************************************************************************)
StoredUnbroken ==
    /\ \A i \in 2 .. Len(Stored) : Stored[i] = Stored[i - 1] + 1
    /\ last = IF Stored = << >> THEN 0 ELSE Last(Stored)

(***************************************************************************)
(* Records are only ever put into an open file, never into one the         *)
(* rotation thread is replacing or has failed to replace.                  *)
(***************************************************************************)
StoresIntoOpenFile == main = "store" => db = "open" /\ holder = "main"

(***************************************************************************)
(* Asked to leave, by a signal or a failing put, the process closes its    *)
(* file and environment, at the latest with the response it has just       *)
(* received, and gets as far as rpc_disconnect; the one exception is a     *)
(* rotation that has failed, see ClosesWhenAsked.  Whether rpc_disconnect  *)
(* then returns is not said here: it need not.                             *)
(***************************************************************************)
Closed == main = "err0" \/ main \in Ended

ClosesUnlessRotationFails == must_exit ~> Closed \/ rotation = "gone"

(* "gracefully exit from loop": asked to leave, the process closes its     *)
(* file.  It does not when a failed rotation has left the mutex locked.    *)
ClosesWhenAsked == must_exit ~> Closed

(* "gracefully exit from loop": a process that leaves does not crash on a  *)
(* handle or mutex that the rotation thread uses.  The clean-up does not   *)
(* keep that thread out.                                                   *)
LeavesGracefully == main # "crashed"
=============================================================================
