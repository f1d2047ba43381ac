SPECIFICATION Spec
CONSTANTS
  i1 = i1
  i2 = i2
  o1 = o1
  r1 = r1
  r2 = r2
  In <- MCIn
  Out <- MCOut
  Acceptor = a
  Fd = {1, 2}
  Remote <- MCRemote
  Zero = r2
  Self = self
  Loopback <- MCLoopback
  Target <- MCTarget
  MaxInbound = 1
  None = none
INVARIANTS InboundLimited OneSessionPerPeer ShutsItsOwnSockets StoppedIsQuiet
PROPERTY StopEnds
CHECK_DEADLOCK FALSE
