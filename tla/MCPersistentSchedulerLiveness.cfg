SPECIFICATION FairSpec
CONSTANTS
    s1 = s1
    s2 = s2
    s3 = s3
    w1 = w1
    w2 = w2
    Schedule = {s1, s2, s3}
    Rank <- MCRank
    Cron = {s3}
    CronMatch <- MCMatchesOnce
    Interval <- MCShortestInterval
    Caller = {w1}
    Outcome = {"FAILED"}
    Contract = {"v1"}
    NoContract = NoContract
    NoStamp = NoStamp
    MaxDuePerTick = 2
    Limit = 1
    RecoveryLimit = 1
    LeaseTime = 1
    MaxTime = 1
PROPERTIES
    DueIsClaimed
