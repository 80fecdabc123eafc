\* One call of async_set_filtration_mode with a name that is not one, after a
\* poll that has seen manual mode.
CONSTANTS
    Users = {c1}
    Unread = Unread
    Modes = {"manual", "auto"}
    UnknownMode = "unknown"
    ValveModes = {"auto", "always_on"}
    Seconds = {0}
    MaxUses = 1
    MaxEvents = 0
SPECIFICATION GuardedSpec
PROPERTY UnknownModesRaiseFirst
