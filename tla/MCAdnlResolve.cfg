SPECIFICATION FairSpec
CONSTANTS
  p1 = p1
  p2 = p2
  p3 = p3
  p4 = p4
  Peer <- MCPeer
  Usable <- MCUsable
  Presets <- MCPresets
  KnownLimit = 3
INVARIANTS TypeOK IndexInRange SkipsNone BadNotAsked GivesUpOnlyIfAllBad ResolveInv
PROPERTY EveryPeerAsked
CHECK_DEADLOCK FALSE
