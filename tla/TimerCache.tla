----------------------------- MODULE TimerCache -----------------------------
(***************************************************************************)
(* The timer blocks of NeoPoolModbusClient (read_all_timers and            *)
(* _cached_timers in client.py) on top of PollCycle.  The blocks live on   *)
(* the INSTALLER page but are no part of a poll: read_all_timers reads     *)
(* them itself, and skips the reading when the last poll was neither a     *)
(* full one nor saw the INSTALLER bit.  The bit is consumed by the poll,   *)
(* so what read_all_timers misses then it is not told again.               *)
(*                                                                         *)
(* The host alternates: a poll, then read_all_timers for one of its sets   *)
(* of timers, then the next poll.  The contents of a block is its version, *)
(* 0 in the cache for none.                                                *)
(***************************************************************************)
EXTENDS PollCycle

CONSTANTS
    Timers,           \* the timer blocks
    AskedSets,        \* the enabled_timers the host asks for, now and again
    Installer,        \* the INSTALLER page
    MaxBlockVersion,  \* bound: changes of one block
    MaxLosses         \* bound: block reads and calls of read_all_timers that fail

ASSUME InstallerAssumption == Installer \in Pages
ASSUME AskedAssumption == AskedSets \subseteq (SUBSET Timers) \ {{}} /\ AskedSets # {}
ASSUME TimerBoundAssumption == MaxBlockVersion \in Nat /\ MaxLosses \in Nat

VARIABLES
    blocks,            \* the device: changes of each block
    lastNotification,  \* self._last_notification
    lastWasFullRead,   \* self._last_was_full_read
    cachedTimers,      \* self._cached_timers
    turn,              \* the host's next call
    readPc, canUseCache, forced, pending, timers,  \* read_all_timers' locals
    timerLag,          \* calls since the oldest change of a block the cache lacks
    readIn, cachedIn,  \* the session (calls of close()) a block was read in
    losses             \* counted for the bound

pollCycleVars == vars
lastVars == <<lastNotification, lastWasFullRead>>
readVars == <<readPc, canUseCache, forced, pending, timers, readIn>>
timersKept == <<cachedTimers, cachedIn>>
timerVars == <<blocks, lastVars, timersKept, turn, readVars, timerLag, losses>>
allVars == <<pollCycleVars, timerVars>>

NoTimers == [t \in Timers |-> 0]

(* The blocks that every call asks for.                                    *)
AlwaysAsked == {t \in Timers : \A asked \in AskedSets : t \in asked}

(* The bound on staleness, and where the count stops.                      *)
LagBound(lost) == (FullReadInterval + 1) * (lost + 1)
TimerLagCap == LagBound(MaxLosses + MaxCancels) + MaxFailures + 1

TimersInit ==
    /\ Init
    /\ blocks = [t \in Timers |-> 1]
    /\ lastNotification = {}
    /\ lastWasFullRead = TRUE
    /\ cachedTimers = NoTimers
    /\ turn = "poll"
    /\ readPc = "idle"
    /\ canUseCache = FALSE
    /\ forced = {}
    /\ pending = {}
    /\ timers = NoTimers
    /\ timerLag = NoTimers
    /\ readIn = NoTimers
    /\ cachedIn = NoTimers
    /\ losses = 0

-----------------------------------------------------------------------------
(* The controller changes a block (its panel, or a write of this client);  *)
(* whether it flags the change is up to its firmware.                      *)
BlockChange(t) ==
    /\ blocks[t] < MaxBlockVersion
    /\ blocks' = [blocks EXCEPT ![t] = @ + 1]
    /\ notification' \in {notification, notification \cup {Installer}}
    /\ UNCHANGED <<version, cached, pollsSinceFullRead, pollVars, lag, excused, countVars,
                   lastVars, timersKept, turn, readVars, timerLag, losses>>

-----------------------------------------------------------------------------
(* A poll.  What it has seen and whether it was full is recorded with the  *)
(* counter, before the merge.                                              *)

(* Mutant: a full read is not recorded as one.                             *)
RecordPollPartial(p) ==
    IF pc[p] # "merge" /\ pc'[p] = "merge"
    THEN lastNotification' = seen[p] /\ lastWasFullRead' = FALSE
    ELSE UNCHANGED lastVars

(* Mutant: the ranges that were read are recorded, not the pages' bits.    *)
RecordPollRanges(p) ==
    IF pc[p] # "merge" /\ pc'[p] = "merge"
    THEN /\ lastNotification' = {r \in Ranges : PageOf[r] \in seen[p]}
         /\ lastWasFullRead' = forceFull[p]
    ELSE UNCHANGED lastVars

RecordPoll(p) ==
    IF pc[p] # "merge" /\ pc'[p] = "merge"
    THEN lastNotification' = seen[p] /\ lastWasFullRead' = forceFull[p]
    ELSE UNCHANGED lastVars

(* The host goes on to the timers when the poll has returned; when it has  *)
(* raised, it may as well start over.                                      *)
TimedPoll(p) ==
    /\ turn = "poll"
    /\ \/ /\ PollStep(p)
          /\ turn' = IF pc[p] = "merge" THEN "timers" ELSE "poll"
       \/ (PollFail(p) \/ PollCancel(p)) /\ turn' \in {"poll", "timers"}
    /\ RecordPoll(p)
    /\ UNCHANGED <<blocks, timersKept, readVars, timerLag, losses>>

-----------------------------------------------------------------------------
(* read_all_timers                                                         *)

Returned ==
    /\ readPc' = "idle"
    /\ canUseCache' = FALSE
    /\ forced' = {}
    /\ pending' = {}
    /\ timers' = NoTimers
    /\ readIn' = NoTimers
    /\ turn' = "poll"

(* One more call has come back, and this is what the cache lacks of the    *)
(* blocks every call asks for.                                             *)
CountLag(t) ==
    CASE t \notin AlwaysAsked \/ cachedTimers'[t] = blocks[t] -> 0
      [] t \in AlwaysAsked /\ cachedTimers'[t] = cachedTimers[t] /\ cachedTimers[t] # blocks[t] ->
           IF timerLag[t] < TimerLagCap THEN timerLag[t] + 1 ELSE timerLag[t]
      [] OTHER -> 1

Unchanged == ~lastWasFullRead /\ Installer \notin lastNotification

(* Every block asked for is cached and none has changed: no request.      *)
TimersFromCache ==
    /\ turn = "timers" /\ readPc = "idle"
    /\ Unchanged
    /\ \E asked \in AskedSets : \A t \in asked : cachedTimers[t] # 0
    /\ UNCHANGED timersKept
    /\ timerLag' = [t \in Timers |-> CountLag(t)]
    /\ turn' = "poll"
    /\ UNCHANGED <<pollCycleVars, blocks, lastVars, readVars, losses>>

(* Whether cached blocks may be used is settled before the first request.  *)
TimersStart ==
    /\ turn = "timers" /\ readPc = "idle"
    /\ \E asked \in AskedSets : \E force \in SUBSET asked :
        /\ ~(Unchanged /\ force = {} /\ \A t \in asked : cachedTimers[t] # 0)
        /\ forced' = force
        /\ pending' = asked
    /\ readPc' = "reading"
    /\ canUseCache' = Unchanged
    /\ UNCHANGED <<pollCycleVars, blocks, lastVars, timersKept, turn, timers, readIn,
                   timerLag, losses>>

Reusable(t) == canUseCache /\ t \notin forced /\ cachedTimers[t] # 0

TimerReuse(t) ==
    /\ t \in pending
    /\ Reusable(t)
    /\ timers' = [timers EXCEPT ![t] = cachedTimers[t]]
    /\ readIn' = [readIn EXCEPT ![t] = cachedIn[t]]
    /\ pending' = pending \ {t}
    /\ UNCHANGED <<pollCycleVars, blocks, lastVars, timersKept, turn, readPc, canUseCache,
                   forced, timerLag, losses>>

TimerRead(t) ==
    /\ t \in pending
    /\ ~Reusable(t)
    /\ timers' = [timers EXCEPT ![t] = blocks[t]]
    /\ readIn' = [readIn EXCEPT ![t] = closes]
    /\ pending' = pending \ {t}
    /\ UNCHANGED <<pollCycleVars, blocks, lastVars, timersKept, turn, readPc, canUseCache,
                   forced, timerLag, losses>>

(* The request for one block fails: the block is left out, the rest goes   *)
(* on.                                                                     *)
TimerReadFails(t) ==
    /\ t \in pending
    /\ ~Reusable(t)
    /\ losses < MaxLosses
    /\ losses' = losses + 1
    /\ pending' = pending \ {t}
    /\ UNCHANGED <<pollCycleVars, blocks, lastVars, timersKept, turn, readPc, canUseCache,
                   forced, timers, readIn, timerLag>>

(* Mutant: what is cached is not overwritten.                              *)
TimersDoneKeeps ==
    /\ readPc = "reading" /\ pending = {}
    /\ cachedTimers' = [t \in Timers |-> IF cachedTimers[t] = 0 THEN timers[t] ELSE cachedTimers[t]]
    /\ cachedIn' = [t \in Timers |-> IF cachedTimers[t] = 0 THEN readIn[t] ELSE cachedIn[t]]
    /\ timerLag' = [t \in Timers |-> CountLag(t)]
    /\ Returned
    /\ UNCHANGED <<pollCycleVars, blocks, lastVars, losses>>

(* The blocks this call has got are taken over, the others kept.           *)
TimersDone ==
    /\ readPc = "reading" /\ pending = {}
    /\ cachedTimers' = [t \in Timers |-> IF timers[t] # 0 THEN timers[t] ELSE cachedTimers[t]]
    /\ cachedIn' = [t \in Timers |-> IF timers[t] # 0 THEN readIn[t] ELSE cachedIn[t]]
    /\ timerLag' = [t \in Timers |-> CountLag(t)]
    /\ Returned
    /\ UNCHANGED <<pollCycleVars, blocks, lastVars, losses>>

(* No connection, or the task is cancelled: nothing is taken over.         *)
TimersRaise ==
    /\ readPc = "reading"
    /\ losses < MaxLosses
    /\ losses' = losses + 1
    /\ Returned
    /\ UNCHANGED <<pollCycleVars, blocks, lastVars, timersKept, timerLag>>

-----------------------------------------------------------------------------
(* Mutant: close() leaves the record of the last poll as it is.            *)
CloseAllKeepsLast ==
    /\ Close
    /\ cachedTimers' = NoTimers
    /\ cachedIn' = NoTimers
    /\ timerLag' = NoTimers
    /\ UNCHANGED <<blocks, lastVars, turn, readVars, losses>>

CloseAll ==
    /\ Close
    /\ cachedTimers' = NoTimers
    /\ cachedIn' = NoTimers
    /\ lastNotification' = {}
    /\ lastWasFullRead' = TRUE
    /\ timerLag' = NoTimers
    /\ UNCHANGED <<blocks, turn, readVars, losses>>

ReadStep ==
    \/ TimersFromCache \/ TimersStart \/ TimersDone
    \/ \E t \in Timers : TimerReuse(t) \/ TimerRead(t)

TimersNext ==
    \/ \E t \in Timers : BlockChange(t)
    \/ \E p \in Polls : TimedPoll(p)
    \/ ReadStep
    \/ \E t \in Timers : TimerReadFails(t)
    \/ TimersRaise
    \/ CloseAll

TimersSpec == TimersInit /\ [][TimersNext]_allVars

(* The host keeps calling, and every request ends.                         *)
TimersFairSpec ==
    /\ TimersSpec
    /\ \A p \in Polls : WF_allVars(TimedPoll(p) /\ PollStep(p))
    /\ WF_allVars(ReadStep)

-----------------------------------------------------------------------------
(* Properties                                                              *)

TimersTypeOK ==
    /\ blocks \in [Timers -> Nat]
    /\ lastNotification \subseteq Pages
    /\ lastWasFullRead \in BOOLEAN
    /\ cachedTimers \in [Timers -> Nat]
    /\ turn \in {"poll", "timers"}
    /\ readPc \in {"idle", "reading"}
    /\ canUseCache \in BOOLEAN
    /\ forced \subseteq Timers
    /\ pending \subseteq Timers
    /\ timers \in [Timers -> Nat]
    /\ timerLag \in [Timers -> Nat]
    /\ readIn \in [Timers -> Nat] /\ cachedIn \in [Timers -> Nat]
    /\ losses \in Nat

(* However the firmware flags the INSTALLER page, a change of a block the  *)
(* host always asks for is missing from _cached_timers after at most       *)
(* FullReadInterval + 1 calls of read_all_timers; a block read or a call   *)
(* that fails, and a cancelled poll, cost at most one more such round      *)
(* each, since the poll has consumed the bit, and a failed poll one more   *)
(* call.                                                                   *)
TimerStaleness ==
    \A t \in AlwaysAsked : timerLag[t] <= LagBound(losses + cancels) + failures

(* close(): a read_all_timers that is under way brings the blocks it has   *)
(* from before the close() back into _cached_timers.  Later calls do not   *)
(* answer from them, however many polls fail in between: the first poll of *)
(* the new session is a full one, and until it has succeeded nothing is    *)
(* taken from the cache.  (When the reading after that poll is lost or     *)
(* does not ask for the block, or the poll is cancelled, it is served      *)
(* after all.)                                                             *)
NoReuseAcrossClose ==
    [][losses + cancels = 0 =>
         \A t \in AlwaysAsked : TimersFromCache \/ TimerReuse(t) => cachedIn[t] = closes]_allVars

(* Once the blocks stop changing, the cache comes to hold those the host   *)
(* always asks for.                                                        *)
TimersEventuallyFresh == <>[](\A t \in AlwaysAsked : cachedTimers[t] = blocks[t])

=============================================================================
