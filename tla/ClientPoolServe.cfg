SPECIFICATION ServeSpec
CONSTANTS
  Client = {c1, c2}
  Rest = {r1, r2}
  NoClient = NoClient
  MaxSlots = 2
  MaxConnections = 2
SYMMETRY Symmetry
INVARIANTS TypeOK RefsAreHolders HoldersAreLive NoLeak CountMatchesPool
