----------------------------- MODULE Dictionary -----------------------------
(***************************************************************************)
(* What a hash table promises its caller: a finite map from keys to data,  *)
(* in which a key that is present is never overwritten, and answers that   *)
(* tell what the map held.  An operation that fails changes nothing.       *)
(***************************************************************************)
EXTENDS Integers, TLC

CONSTANTS Keys, Data

VARIABLES
  dict,               \* from the keys present to their data
  reply               \* the last answer: operation, key, result and datum

Reply(op, k, result, d) == [op |-> op, key |-> k, result |-> result, data |-> d]

\* What the caller sees of every other operation: nothing of the map.
Quiet == Reply("none", 0, "none", 0)

Failures == {"SYSTEM", "INTERNAL"}

Init == dict = << >> /\ reply = Quiet

\* The reply r of an operation, and the maps before and after it.
Insert(r, old, new) ==
  /\ r.op = "insert" /\ r.key \in Keys /\ r.data \in Data
  /\ \/ r.result = "SUCCESS" /\ r.key \notin DOMAIN old /\ new = old @@ (r.key :> r.data)
     \/ r.result = "DUPKEY" /\ r.key \in DOMAIN old /\ new = old
     \/ r.result \in Failures /\ new = old

\* An operation finds the key with its datum, or does not find it.
Finds(r, old) ==
  /\ r.key \in Keys
  /\ IF r.key \in DOMAIN old THEN r.result = "SUCCESS" /\ r.data = old[r.key]
                             ELSE r.result = "NOKEY" /\ r.data = 0

Get(r, old, new) == r.op = "get" /\ Finds(r, old) /\ new = old

Remove(r, old, new) ==
  r.op = "remove" /\ Finds(r, old) /\ new = [k \in DOMAIN old \ {r.key} |-> old[k]]

Other(r, old, new) == r = Quiet /\ new = old

Step(r, old, new) ==
  Insert(r, old, new) \/ Get(r, old, new) \/ Remove(r, old, new) \/ Other(r, old, new)

Next == Step(reply', dict, dict')

Spec == Init /\ [][Next]_<<dict, reply>>
=============================================================================
