------------------------------- MODULE Tables -------------------------------
(***************************************************************************)
(* The two tables of a process together: ConnTable and ServiceTable have   *)
(* mutexes of their own, and threads that offer services run while the     *)
(* connection table changes.  They meet in the CONNECT handler, which      *)
(* holds the connection table's mutex, looks the service up and only then  *)
(* makes a record, for that service.                                       *)
(***************************************************************************)
EXTENDS ConnTable, TLC

CONSTANTS Name, Thread, Service, STABLE_SIZE, INT_HALF

ASSUME ServiceAssumption ==
    /\ STABLE_SIZE \in Nat \ {0} /\ INT_HALF \in Nat \ {0}
    /\ \A n \in Name : n \in Seq((-128 .. 127) \ {0})
    /\ None \notin Service \cup Name

VARIABLES stable, s_name, created, offer, connected, astray

services == <<stable, s_name, created, offer, connected, astray>>

S == INSTANCE ServiceTable WITH Record <- Service, NULL <- None

TablesInit == Init /\ S!Init

TablesNext ==
    /\ ~astray
    /\ \/ S!Offering /\ UNCHANGED vars
       \/ \E n \in Name : S!lookup_in_front(n) /\ UNCHANGED vars
       \/ \E addr \in Address, sp \in PeerSubport, n \in Name :
             /\ S!connect(n)
             /\ \/ CONNECT(addr, sp)
                \/ ctable_lookup(Endpoint(addr, sp)) # None /\ UNCHANGED vars  \* a known client again
       \/ /\ UNCHANGED services
          /\ \/ \E addr \in Address : rpc_connect(addr)
             \/ \E gone \in SUBSET live : ctable_remove(gone)
             \/ ctable_purge

TablesSpec == TablesInit /\ [][TablesNext]_<<vars, services>>

-----------------------------------------------------------------------------
(* stable_create, stable_lookup and the CONNECT handler: see ServiceTable. *)
OffersAreFound == S!OffersAreFound

Symmetry == Permutations(Thread) \cup Permutations(Service) \cup Permutations(Record)
=============================================================================
