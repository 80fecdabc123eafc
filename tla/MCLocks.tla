------------------------------ MODULE MCLocks ------------------------------
(* The packed-word cache and the connection, which share nothing in these  *)
(* models, in one run side by side, with the fairness under which every    *)
(* call ends: each behaviour is one of one part, while the other rests.    *)
(* So the states of the run are the sum of the parts', not their product.  *)
EXTENDS RmwCache, Connection

CONSTANTS cover,  \* MBF_PAR_HIDRO_COVER_ENABLE: cached, else 0
          heat    \* MBF_PAR_HEATING_TEMP: read live, cached decoded

ASSUME SameTasks == Writers = Tasks

VARIABLE part

MCBase == [k \in Keys |-> IF k = cover THEN "zero" ELSE "live"]

(* An RMW of the setpoint reads it first, whatever it holds at the start,  *)
(* and the register an idle RMW had before is nothing to its next one.     *)
RmwStarts ==
    /\ Init
    /\ device[heat].word = ZeroEntry.word
    /\ \A w \in Writers : key[w] = cover

RmwRests == RmwStarts /\ device[cover].word = ZeroEntry.word

LocksInit ==
    /\ part \in {"rmw", "connection"}
    /\ IF part = "rmw" THEN RmwStarts ELSE RmwRests
    /\ ConnInit

InRmw(A) == part = "rmw" /\ A /\ UNCHANGED <<part, connVars>>
InConnection(A) == part = "connection" /\ A /\ UNCHANGED <<part, vars>>

LocksNext == InRmw(Next) \/ InConnection(ConnNext)

lockRunVars == <<part, vars, connVars>>

(* The fairness of FairSpec and of ConnFairSpec: in each part, that of the *)
(* other says nothing, so an RMW and a call share a formula.               *)
LocksFairSpec ==
    /\ LocksInit /\ [][LocksNext]_lockRunVars
    /\ \A p \in Polls : /\ WF_lockRunVars(InRmw(PollStep(p)))
                        /\ SF_lockRunVars(InRmw(PollMerge(p)))
    /\ \A t \in Tasks : /\ SF_lockRunVars(InRmw(Acquire(t)) \/ InConnection(LockStep(t)))
                        /\ WF_lockRunVars(InRmw(RmwStep(t)) \/ InConnection(OwnStep(t)))
=============================================================================
