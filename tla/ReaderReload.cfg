SPECIFICATION Spec
CONSTANTS
  NReaders = 1
  Thread = {t1}
  NoThread = NoThread
  ch1 = ch1
  ch2 = ch2
  Chan = {ch1}
  Ecm = {e1}
  Emm = {}
  None = None
  Type <- MCType
  Priority <- MCPriority
  Hop <- MCHop
  Enabled <- MCEnabled
  ServesCaid <- MCServes
  ServesProvid <- MCServes
  MaxFailures = 2
  Backoff = 1
  DedupSlots = 2
  DedupWindow = 1
  MaxReloads = 1
INVARIANT ReadersLive
