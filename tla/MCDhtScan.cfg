SPECIFICATION FairSpec
CONSTANTS
  p1 = p1
  p2 = p2
  p3 = p3
  p4 = p4
  p5 = p5
  Peer <- MCPeer
  Usable <- MCUsable
  Presets <- MCPresets
  Options <- MCOptions
  KnownLimit = 4
  Member = {m1, m2}
  UsizeModulus = 16
INVARIANTS TypeOK CounterExact NoneFound AnnouncedAddUp ReportComplete ScanInv
PROPERTY ReportEnds
CHECK_DEADLOCK FALSE
