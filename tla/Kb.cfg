SPECIFICATION FairSpec
CONSTANTS
    long = long
    short = short
    scan = scan
    Contents = {c1}
    Modules = {m1}
    Docs = {long, short, scan}
    Batches <- MCBatches
    Plain = Plain
    NoUrl = NoUrl
    MaxRequests = 3
    Searches = {s1}
    None = None
    MaxFailures = 1
INVARIANTS
    KbFollowsRows
PROPERTIES
    AnswersCatchUp
CHECK_DEADLOCK FALSE
