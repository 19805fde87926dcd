SPECIFICATION FairSpec
CONSTANTS
  Client = {c1}
  Rest = {r1, r2}
  NoClient = NoClient
  MaxSlots = 2
  MaxConnections = 2
CHECK_DEADLOCK FALSE
INVARIANT ClosingPoolIsZombie
PROPERTIES ZombieNotRevived ShutdownCompletes ThreadsDrain KickedIsFreed
