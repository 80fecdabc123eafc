---------------------------- MODULE MCTimerWrites ----------------------------
(* Instances of TimerWrites for TLC.                                       *)
EXTENDS TimerWrites, TLC

MCFields == {"enable", "function", "schedule"}
MCValuesOf ==
    [f \in MCFields |-> CASE f = "enable" -> {Enabled, AlwaysOn, AlwaysOff}
                          [] f = "function" -> {Code, "other"}
                          [] OTHER -> {"day", "night"}]
MCRequests == {[f \in {"schedule"} |-> v] : v \in {"day", "night"}}

CallerSymmetry == Permutations(Callers)
==============================================================================
