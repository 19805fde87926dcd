SPECIFICATION FairSpec
CONSTANTS
  Thread = {t1}
  Node = {n1, n2, n3}
  Null = Null
  Chan = {ch1, ch2}
  Cw = {w1, w2}
  Absent = Absent
  MaxEntries = 3
  Timeout = 1
  MaxTime = 3
INVARIANTS ListWellFormed OneValidPerChannel
PROPERTIES StoreRefined ExpiredGone
