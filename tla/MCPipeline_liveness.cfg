SPECIFICATION FairSpec
CONSTANTS
    f1 = f1
    f2 = f2
    u1 = u1
    u2 = u2
    r1 = r1
    r2 = r2
    Runs = {r1, r2}
    Feeds = {f1, f2}
    NameRank <- MCNameRank
    Urls = {u1, u2}
    Untitled = {u2}
    FeedItems <- SharedItems
    RawScores = {0, 11}
    TopLimit = 1
    MaxDay = 0
PROPERTIES
    RunEnds
    CatchUp
