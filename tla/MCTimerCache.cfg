\* Two timer blocks beside a page of one register that does not change; full
\* reads every third poll.
CONSTANTS
    installer = installer
    i1 = i1
    t1 = t1
    t2 = t2
    Installer = installer
    Pages = {installer}
    Ranges = {i1}
    PageOf <- MCPageOf
    Notifying = {installer}
    Polls = {p1}
    FullReadInterval = 2
    MaxVersion = 1
    MaxFailures = 1
    MaxCancels = 1
    MaxCloses = 1
    Timers = {t1, t2}
    AskedSets <- MCAsked
    MaxBlockVersion = 2
    MaxLosses = 1
SPECIFICATION TimersFairSpec
INVARIANTS TimersTypeOK TimerStaleness
PROPERTIES NoReuseAcrossClose TimersEventuallyFresh
