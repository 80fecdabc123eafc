\* The cache: two registers, a bitmask (0 when not cached) and a low-byte
\* setpoint (read live, cached decoded), so that the stamps are per key.
\* The connection: two tasks, any call each, over and over; three client
\* objects, one that the other task still holds, the current one, and the next.
CONSTANTS
    cover = cover
    heat = heat
    Keys = {cover, heat}
    Fields = {lo}
    Values = {0, 1}
    Zero = 0
    LowByte = lo
    Base <- MCBase
    DerivedSources = {}
    Polls = {p1}
    Writers = {t1, t2}
    Missing = Missing
    NoOne = NoOne
    MaxVersion = 2
    MaxGeneration = 2
    Tasks = {t1, t2}
    Clients = {c1, c2, c3}
    NoTask = NoTask
    NoClient = NoClient
    MaxAttempts = 2
SPECIFICATION LocksFairSpec
INVARIANTS
    CommitSurvives
    ConnTypeOK
    OneConnection
    BackoffMeansDown
    NoCircularWait
PROPERTIES
    KeepsContract
    RmwEnds
    PollEnds
    NoAttemptInBackoff
    KeepsPolicy
    CallsEnd
