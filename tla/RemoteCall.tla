----------------------------- MODULE RemoteCall -----------------------------
(***************************************************************************)
(* What the RPC system promises its two users (src/srpc.h).  A client      *)
(* makes calls one after the other; the worker of the server executes each *)
(* call at most once, possibly after the client has given up; a call that  *)
(* is reported successful was executed, and its result is the complete     *)
(* response to that very call.                                             *)
(***************************************************************************)
EXTENDS Naturals, Sequences

CONSTANTS MaxCalls,       \* calls the client makes
          NoResult,       \* no call has returned yet, or one is in progress
          Fail            \* a call that returned 0

VARIABLES made,           \* calls begun
          executed,       \* calls handed to the worker, in order
          outcome         \* result of the last call

callVars == <<made, executed, outcome>>

Executed == {executed[i] : i \in 1 .. Len(executed)}

RCInit == made = 0 /\ executed = << >> /\ outcome = NoResult

Begin == /\ made < MaxCalls
         /\ outcome # NoResult \/ made = 0
         /\ made' = made + 1
         /\ outcome' = NoResult
         /\ UNCHANGED executed

(* rpc_call finds the connection gone or busy and returns at once. *)
Refuse == /\ made < MaxCalls
          /\ outcome # NoResult \/ made = 0
          /\ made' = made + 1
          /\ outcome' = Fail
          /\ UNCHANGED executed

Execute == \E k \in 1 .. made :
              /\ k \notin Executed
              /\ executed' = Append(executed, k)
              /\ UNCHANGED <<made, outcome>>

Succeed == /\ made > 0
           /\ outcome = NoResult
           /\ made \in Executed
           /\ outcome' = made
           /\ UNCHANGED <<made, executed>>

GiveUp == /\ made > 0
          /\ outcome = NoResult
          /\ outcome' = Fail
          /\ UNCHANGED <<made, executed>>

RCNext == Begin \/ Refuse \/ Execute \/ Succeed \/ GiveUp

RCSpec == RCInit /\ [][RCNext]_callVars
=============================================================================
