\* One async_set_relay_mode whose write is rejected.
CONSTANTS
    Blocks = {light}
    Fields <- MCFields
    ValuesOf <- MCValuesOf
    Enabled = Enabled
    AlwaysOn = AlwaysOn
    AlwaysOff = AlwaysOff
    Code = Code
    Requests <- MCRequests
    Callers = {w1}
    Panel = {}
    Unread = Unread
    MaxCalls = 1
    MaxPanel = 0
SPECIFICATION Spec
PROPERTY ModeHonest
