\* A change of a flagged page between a poll's look at MBF_NOTIFICATION and its
\* clearing of it: no failures, no cancellation, no close().
CONSTANTS
    user = user
    installer = installer
    factory = factory
    u1 = u1
    i1 = i1
    i2 = i2
    f1 = f1
    Pages = {user, factory}
    Ranges = {u1, f1}
    PageOf <- MCPageOf
    Notifying = {user}
    Polls = {p1}
    FullReadInterval = 2
    MaxVersion = 3
    MaxFailures = 0
    MaxCancels = 0
    MaxCloses = 0
SPECIFICATION Spec
PROPERTY SkippedPagesUnchanged
