SPECIFICATION Spec
CONSTANTS
  m1 = m1
  m2 = m2
  c1 = c1
  c2 = c2
  Msg = {m1, m2}
  Calls = {c1, c2}
  Block <- MCBlock
  Genesis <- MCGenesis
  Num <- MCNum
  Parent <- MCParent
  Child <- MCChild
  GenesisNum = 0
  FlushInterval = 2
  MaxInflight = 2
  MaxFeed = 2
  Env = {"state_error", "init_once"}
SYMMETRY Symmetry
INVARIANTS
  InitInFirstBlock
