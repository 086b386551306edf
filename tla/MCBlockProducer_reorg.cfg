SPECIFICATION Spec
CONSTANTS
  m1 = m1
  m2 = m2
  c1 = c1
  c2 = c2
  Msg = {m1, m2}
  Calls = {c1, c2}
  Block <- MCBlock
  Genesis <- MCGenesis
  Num <- MCNum
  Parent <- MCParent
  Child <- MCChild
  GenesisNum = 0
  FlushInterval = 1
  MaxInflight = 1
  MaxFeed = 3
  Env = {"reorg", "crash"}
INVARIANTS
  TypeOK
  NoLostBlocks
  FollowsFeed
  NoGhostBlock
  OverlayNeverStale
  PrestateCoversMemory
  OneFlushInFlight
  NoMissedWakeup
PROPERTIES
  ImplementsChain
  CallsFinish
