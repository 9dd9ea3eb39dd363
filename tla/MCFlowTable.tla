---------------------------- MODULE MCFlowTable ----------------------------
(* A TCP conversation in both directions, another between the same ports   *)
(* the other way round, a UDP one, and a host that talks to itself.        *)
EXTENDS FlowTable

TCP(s, sp, d, dp) == [saddr |-> s, source |-> sp, daddr |-> d, dest |-> dp,
                      protocol |-> "TCP", fragment |-> FALSE]

MCPacket == {TCP(1, 1, 2, 2), TCP(2, 2, 1, 1), TCP(1, 2, 2, 1),
             [TCP(2, 2, 1, 1) EXCEPT !.protocol = "UDP"],
             TCP(1, 1, 1, 2), TCP(1, 2, 1, 1)}

MCFragments == {[p EXCEPT !.fragment = f] : p \in {TCP(1, 1, 2, 2), TCP(1, 2, 2, 1)}, f \in BOOLEAN}
=============================================================================
