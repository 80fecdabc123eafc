---------------------------- MODULE MCPollCycle ----------------------------
(* Instances of PollCycle for TLC.                                         *)
EXTENDS PollCycle

CONSTANTS user,                \* a page of one range
          installer,           \* a page of two
          factory,             \* a page whose changes the firmware never flags
          u1, i1, i2, f1

MCPageOf == [r \in Ranges |-> CASE r = u1 -> user [] r = f1 -> factory [] OTHER -> installer]
=============================================================================
