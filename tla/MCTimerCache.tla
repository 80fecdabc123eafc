---------------------------- MODULE MCTimerCache ----------------------------
(* Instances of TimerCache for TLC.                                        *)
EXTENDS TimerCache

CONSTANTS installer, i1, t1, t2

MCAsked == {{t1, t2}, {t1}}

MCPageOf == [r \in Ranges |-> installer]
=============================================================================
