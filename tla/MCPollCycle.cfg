\* A page of two ranges that the firmware flags and one it never does; full
\* reads every third poll.
CONSTANTS
    user = user
    installer = installer
    factory = factory
    u1 = u1
    i1 = i1
    i2 = i2
    f1 = f1
    Pages = {installer, factory}
    Ranges = {i1, i2, f1}
    PageOf <- MCPageOf
    Notifying = {installer}
    Polls = {p1}
    FullReadInterval = 2
    MaxVersion = 2
    MaxFailures = 1
    MaxCancels = 1
    MaxCloses = 1
SPECIFICATION FairSpec
INVARIANTS TypeOK BoundedStaleness StaleIsKnown
PROPERTY EventuallyFresh
