\* A poll in flight across an RMW and a close() puts the old word back.
CONSTANTS
    conf = conf
    Keys = {conf}
    Fields = {lo, hi}
    Values = {0, 1}
    Zero = 0
    LowByte = lo
    Base <- MCBase
    DerivedSources = {conf}
    Polls = {p1}
    Writers = {w1}
    Missing = Missing
    NoOne = NoOne
    MaxVersion = 4
    MaxGeneration = 3
SPECIFICATION Spec
INVARIANT CommitSurvivesClose
