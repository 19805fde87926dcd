SPECIFICATION FairSpec
CONSTANTS
    Configurations <- MCConfigurations
    Tables <- MCTables
    Configured = s1
    None = None
    s1 = s1
    s2 = s2
    Request = {r1}
    MaxRequests = 1
    MaxRounds = 1
    MaxDecoders = 2
    MaxSignals = 2
CHECK_DEADLOCK FALSE
INVARIANTS SourcesGone DecodersCounted InjectedIsTuned
PROPERTIES ReloadStarts ServerEnds ZapTaken
