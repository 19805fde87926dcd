CONSTANTS
    Missing = Missing
    Today = 20260101
    MaxKeys = 3
    Worker = {w1}
    Reloader = {r1}
    Main = r1
    Jobs <- MCJobs
    Files <- MCFiles
    MaxLines = 3
    MaxReloads = 2
SPECIFICATION Spec
INVARIANTS OneEntryPerKey KeysBounded
PROPERTIES ReloadIsFile JobsEnd
