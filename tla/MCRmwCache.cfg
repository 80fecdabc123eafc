\* One register, cached or read live: two overlapping polls, two RMWs, the
\* panel and close() race for one word.
CONSTANTS
    conf = conf
    Keys = {conf}
    Fields = {lo, hi}
    Values = {0, 1}
    Zero = 0
    LowByte = lo
    Base <- MCBase
    DerivedSources = {conf}
    Polls = {p1, p2}
    Writers = {w1, w2}
    Missing = Missing
    NoOne = NoOne
    MaxVersion = 3
    MaxGeneration = 3
SPECIFICATION Spec
SYMMETRY TaskSymmetry
INVARIANT TypeOK
PROPERTIES SiblingsKept DerivedFollows
