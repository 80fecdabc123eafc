\* One task that sets the mode of a relay, and then the relay.
CONSTANTS
    Blocks = {light}
    Fields <- MCFields
    ValuesOf <- MCValuesOf
    Enabled = Enabled
    AlwaysOn = AlwaysOn
    AlwaysOff = AlwaysOff
    Code = Code
    Requests <- MCRequests
    Callers = {w1}
    Panel = {}
    Unread = Unread
    MaxCalls = 2
    MaxPanel = 0
SPECIFICATION Spec
PROPERTY GuardHonest
