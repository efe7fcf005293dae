CONSTANTS
    Task = {t1, t2}
    Size = 2
    MaxBody = 3
    FetchAttempts = 2
    Permits = 1
    Crashes = TRUE
SPECIFICATION FetchFairSpec
INVARIANT FetchTypeOK
INVARIANT InstalledIfHonest
PROPERTY DownloadVerified
PROPERTY FetchEnds
