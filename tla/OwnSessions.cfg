SPECIFICATION FairSpec
CONSTANTS
  NoKey = NoKey
  Allowed = {"AES_GCM"}
  c1 = c1
  c2 = c2
  Conn = {c1, c2}
  NoConn = NoConn
  Ip = {1, 2}
  Addr <- MCAddr
  Slots = 1
  Limit = 2
  Window = 1
  SameCode = {c2}
  Version <- MCVersion
  EcmSize = 100
  MaxNumber = 2
  MaxWay = 1
INVARIANTS TypeOK KeysAgree InStep
PROPERTIES LoginEnds BlockEnds
