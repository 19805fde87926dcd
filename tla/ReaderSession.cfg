SPECIFICATION BusySpec
CONSTANTS
  NReaders = 2
  Thread = {t1, t2}
  NoThread = NoThread
  ch1 = ch1
  ch2 = ch2
  Chan = {ch1, ch2}
  Ecm = {e1, e2}
  Emm = {m1}
  None = None
  Type <- MCType
  Priority <- MCPriority
  Hop <- MCHop
  Enabled <- MCEnabled
  ServesCaid <- MCServesOwn
  ServesProvid <- MCServesOwn
  MaxFailures = 1
  Backoff = 1
  DedupSlots = 1
  DedupWindow = 1
  MaxReloads = 0
INVARIANTS TypeOK AnswerMatches
PROPERTIES RequestsEnd ErrorIsRetried
