SPECIFICATION Spec
CONSTANTS
    Packet <- MCPacket
    Slot = {s1}
    CLEANUP_TIMEOUT = 1
    CONNECTION_TIMEOUT = 2
    WORD = 16
    ipsize = 5
    MaxTime = 8
    MaxPackets = 4
    MayStepBack = FALSE
    Nobody = Nobody
CHECK_DEADLOCK FALSE
INVARIANTS Accounted NoStaleFlows
PROPERTY OnlySilentFlowsLeave
