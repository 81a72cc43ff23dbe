SPECIFICATION FairSpec
CONSTANTS
    s1 = s1
    s2 = s2
    Scrape = {s1, s2}
    Loop = loop
    MaxBlock = 2
    Delay = 1
    Timeout = 2
    NoSnapshot = NoSnapshot
INVARIANTS
    TypeOK
    OneCollection
    SnapshotCoversCheckpoint
    FreshMeansRecent
    StaleOnlyAfterFailure
PROPERTIES
    ScrapesAnswered
    LoopKeepsTrying
