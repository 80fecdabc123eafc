\* One relay: two calls and the panel work on its block at the same time.
CONSTANTS
    Blocks = {light}
    Fields <- MCFields
    ValuesOf <- MCValuesOf
    Enabled = Enabled
    AlwaysOn = AlwaysOn
    AlwaysOff = AlwaysOff
    Code = Code
    Requests <- MCRequests
    Callers = {w1, w2}
    Panel = {light}
    Unread = Unread
    MaxCalls = 2
    MaxPanel = 1
SPECIFICATION Spec
SYMMETRY CallerSymmetry
INVARIANT TypeOK
PROPERTIES RestKept SuccessApplied
