SPECIFICATION FairSpec
CONSTANTS
    s1 = s1
    s2 = s2
    s3 = s3
    s4 = s4
    Shas = {s1, s2, s3, s4}
    NoSha = nosha
    Green = {s1, s2, s4}
    Bad = {s2}
    LegacyReleases = {s1}
    InitialReleases <- ThreeInstalled
    Keep = 3
    MaxCrashes = 1
INVARIANTS ReleasesSound SettledWithoutRecord
PROPERTIES RecordRemovedWhenSettled PendingResolved
