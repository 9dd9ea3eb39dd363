SPECIFICATION Spec
CONSTANTS
    Cell = {k1, k2, k3}
    Item = {i1, i2}
    Consumer = {c1, c2, c3}
    NULL = NULL
INVARIANTS Chain Ownership NoLostWakeup
PROPERTIES QueueSpec NobodySleepsOn
