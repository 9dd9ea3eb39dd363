SPECIFICATION Spec
CONSTANTS
  Bitmasks <- MCBitmasks
  Reconfigured <- MCReconfigured
  Kinds <- MCKinds
  Offsets <- MCOffsets
  Limit <- MCLimit
  Timers <- MCTimers
  MaxFlows <- MCMaxFlows
  Span <- MCSpan
  SeqMod = 65536
  Window = 4
  MAX_PACKET_COUNTER = 14
  ISN <- MCISN
  Dissect <- Dissector
INVARIANTS
  Counted Judged InStep Evidence Decided SpecialWins Followed
PROPERTIES VerdictKept Reported
CHECK_DEADLOCK FALSE
