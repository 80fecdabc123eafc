----------------------------- MODULE PollCycle -----------------------------
(***************************************************************************)
(* How a poll of NeoPoolModbusClient (_perform_read_all in client.py)      *)
(* decides which configuration registers to read: the page-change bits of  *)
(* MBF_NOTIFICATION, the forced full read every _FULL_READ_INTERVAL polls, *)
(* and the clearing of the notification register, against a device whose   *)
(* registers change at any moment, failing requests, cancelled polls and   *)
(* close().                                                                *)
(*                                                                         *)
(* A page is read as one or more ranges (up to 31 registers each), so a    *)
(* change may fall between two ranges of one page.  The contents of a      *)
(* range are its version, the number of its changes; the cache holds the   *)
(* version it last took over, 0 when it holds nothing.  Read-modify-writes *)
(* and their stamps are the subject of RmwCache.                           *)
(***************************************************************************)
EXTENDS Naturals, FiniteSets

CONSTANTS
    Pages,             \* the pages with a notification bit
    Ranges,            \* the register ranges a full read consists of
    PageOf,            \* the page of each range
    Notifying,         \* the pages whose changes the firmware really flags
    Polls,             \* poll tasks
    FullReadInterval,  \* _FULL_READ_INTERVAL
    MaxVersion,        \* bound: changes of one range
    MaxFailures,       \* bound: polls with a failing request
    MaxCancels,        \* bound: polls cancelled after their last read
    MaxCloses          \* bound: calls of close()

ASSUME PageAssumption == PageOf \in [Ranges -> Pages] /\ Notifying \subseteq Pages
ASSUME IntervalAssumption == FullReadInterval \in Nat \ {0}
ASSUME BoundAssumption ==
    /\ MaxVersion \in Nat /\ MaxFailures \in Nat
    /\ MaxCancels \in Nat /\ MaxCloses \in Nat

VARIABLES
    version,             \* the device: changes of each range
    notification,        \* the device: MBF_NOTIFICATION
    cached,              \* self._cached_result, by range
    pollsSinceFullRead,  \* self._polls_since_full_read
    pc, seen, forceFull, toRead, result,  \* one poll's locals
    lag,                 \* merges since the oldest change the cache still lacks
    excused,             \* ranges with a change a poll could not help missing
    failures, cancels, closes  \* counted for the bounds

deviceVars == <<version, notification>>
pollVars == <<pc, seen, forceFull, toRead, result>>
countVars == <<failures, cancels, closes>>
vars == <<deviceVars, cached, pollsSinceFullRead, pollVars, lag, excused, countVars>>

Nothing == [r \in Ranges |-> 0]
Stale == {r \in Ranges : cached[r] < version[r]}

(* Where the count of lag stops, above anything BoundedStaleness allows.   *)
LagCap == (FullReadInterval + 1) * (MaxCancels + 1) + 1

(* Polls that have seen notification bits and are going to clear them.     *)
InWindow == {p \in Polls : pc[p] \in {"pages", "clear"} /\ seen[p] # {}}

Init ==
    /\ version = [r \in Ranges |-> 1]
    /\ notification \in SUBSET Pages
    /\ cached = Nothing
    /\ pollsSinceFullRead = FullReadInterval
    /\ pc = [p \in Polls |-> "idle"]
    /\ seen = [p \in Polls |-> {}]
    /\ forceFull = [p \in Polls |-> FALSE]
    /\ toRead = [p \in Polls |-> {}]
    /\ result = [p \in Polls |-> Nothing]
    /\ lag = Nothing
    /\ excused = {}
    /\ failures = 0 /\ cancels = 0 /\ closes = 0

-----------------------------------------------------------------------------
(* The device                                                              *)

RangeChange(r) ==
    /\ version[r] < MaxVersion
    /\ version' = [version EXCEPT ![r] = @ + 1]
    /\ notification' = notification \cup ({PageOf[r]} \cap Notifying)
    /\ excused' = IF InWindow # {} THEN excused \cup {r} ELSE excused
    /\ UNCHANGED <<cached, pollsSinceFullRead, pollVars, lag, countVars>>

-----------------------------------------------------------------------------
(* One poll                                                                *)

PollReturn(p) ==
    /\ pc' = [pc EXCEPT ![p] = "idle"]
    /\ seen' = [seen EXCEPT ![p] = {}]
    /\ forceFull' = [forceFull EXCEPT ![p] = FALSE]
    /\ toRead' = [toRead EXCEPT ![p] = {}]
    /\ result' = [result EXCEPT ![p] = Nothing]

(* Mutant: one poll too many before the full read.                         *)
PollMeasureLate(p) ==
    /\ pc[p] = "idle"
    /\ pc' = [pc EXCEPT ![p] = "pages"]
    /\ seen' = [seen EXCEPT ![p] = notification]
    /\ forceFull' = [forceFull EXCEPT ![p] = pollsSinceFullRead > FullReadInterval]
    /\ toRead' = [toRead EXCEPT ![p] =
                    {r \in Ranges : forceFull'[p] \/ PageOf[r] \in notification}]
    /\ result' = [result EXCEPT ![p] = cached]
    /\ UNCHANGED <<deviceVars, cached, pollsSinceFullRead, lag, excused, countVars>>

(* Mutant: the bits are cleared as soon as they are read.                  *)
PollMeasureClears(p) ==
    /\ pc[p] = "idle"
    /\ pc' = [pc EXCEPT ![p] = "pages"]
    /\ seen' = [seen EXCEPT ![p] = notification]
    /\ forceFull' = [forceFull EXCEPT ![p] = pollsSinceFullRead >= FullReadInterval]
    /\ toRead' = [toRead EXCEPT ![p] =
                    {r \in Ranges : forceFull'[p] \/ PageOf[r] \in notification}]
    /\ result' = [result EXCEPT ![p] = cached]
    /\ notification' = {}
    /\ UNCHANGED <<version, cached, pollsSinceFullRead, lag, excused, countVars>>

(* Mutant: pages are queued for reading where ranges are meant.            *)
PollMeasurePages(p) ==
    /\ pc[p] = "idle"
    /\ pc' = [pc EXCEPT ![p] = "pages"]
    /\ seen' = [seen EXCEPT ![p] = notification]
    /\ forceFull' = [forceFull EXCEPT ![p] = pollsSinceFullRead >= FullReadInterval]
    /\ toRead' = [toRead EXCEPT ![p] = IF forceFull'[p] THEN Ranges ELSE notification]
    /\ result' = [result EXCEPT ![p] = cached]
    /\ UNCHANGED <<deviceVars, cached, pollsSinceFullRead, lag, excused, countVars>>

(* The MEASURE page is read first; with its notification bits the ranges   *)
(* to read are settled, and the snapshot starts as a copy of the cache.    *)
PollMeasure(p) ==
    /\ pc[p] = "idle"
    /\ pc' = [pc EXCEPT ![p] = "pages"]
    /\ seen' = [seen EXCEPT ![p] = notification]
    /\ forceFull' = [forceFull EXCEPT ![p] = pollsSinceFullRead >= FullReadInterval]
    /\ toRead' = [toRead EXCEPT ![p] =
                    {r \in Ranges : forceFull'[p] \/ PageOf[r] \in notification}]
    /\ result' = [result EXCEPT ![p] = cached]
    /\ UNCHANGED <<deviceVars, cached, pollsSinceFullRead, lag, excused, countVars>>

PollReadRange(p) ==
    /\ pc[p] = "pages"
    /\ \E r \in toRead[p] :
        /\ toRead' = [toRead EXCEPT ![p] = @ \ {r}]
        /\ result' = [result EXCEPT ![p][r] = version[r]]
    /\ UNCHANGED <<deviceVars, cached, pollsSinceFullRead, pc, seen, forceFull,
                   lag, excused, countVars>>

(* A request fails: the poll raises, having changed nothing.               *)
PollFail(p) ==
    /\ pc[p] = "pages"
    /\ toRead[p] # {}
    /\ failures < MaxFailures
    /\ failures' = failures + 1
    /\ PollReturn(p)
    /\ UNCHANGED <<deviceVars, cached, pollsSinceFullRead, lag, excused, cancels, closes>>

(* Mutant: partial polls are not counted.                                  *)
PollCountFull(p) ==
    /\ pollsSinceFullRead' = IF forceFull[p] THEN 0 ELSE pollsSinceFullRead
    /\ pc' = [pc EXCEPT ![p] = "merge"]

(* From the last request to the await for the cache lock.                  *)
PollCount(p) ==
    /\ pollsSinceFullRead' = IF forceFull[p] THEN 0 ELSE pollsSinceFullRead + 1
    /\ pc' = [pc EXCEPT ![p] = "merge"]

PollNothingToClear(p) ==
    /\ pc[p] = "pages" /\ toRead[p] = {} /\ seen[p] = {}
    /\ PollCount(p)
    /\ UNCHANGED <<deviceVars, cached, seen, forceFull, toRead, result, lag, excused, countVars>>

PollToClear(p) ==
    /\ pc[p] = "pages" /\ toRead[p] = {} /\ seen[p] # {}
    /\ pc' = [pc EXCEPT ![p] = "clear"]
    /\ UNCHANGED <<deviceVars, cached, pollsSinceFullRead, seen, forceFull, toRead, result,
                   lag, excused, countVars>>

(* 0 is written to MBF_NOTIFICATION, whatever bits it has by now; when the *)
(* write fails the poll goes on all the same.                              *)
PollClear(p) ==
    /\ pc[p] = "clear"
    /\ notification' \in {{}, notification}
    /\ PollCount(p)
    /\ UNCHANGED <<version, cached, seen, forceFull, toRead, result, lag, excused, countVars>>

PollMerge(p) ==
    /\ pc[p] = "merge"
    /\ cached' = result[p]
    /\ lag' = [r \in Ranges |->
                 CASE cached'[r] = version[r] -> 0
                   [] cached'[r] # version[r] /\ cached'[r] = cached[r] ->
                        IF lag[r] < LagCap THEN lag[r] + 1 ELSE lag[r]
                   [] OTHER -> 1]
    /\ excused' = {r \in excused : cached'[r] < version[r]}
    /\ PollReturn(p)
    /\ UNCHANGED <<deviceVars, pollsSinceFullRead, countVars>>

(* The task is cancelled: what it has read is lost, and so are the bits it *)
(* has cleared, or is clearing.                                            *)
PollCancel(p) ==
    /\ pc[p] \in {"clear", "merge"}
    /\ cancels < MaxCancels
    /\ cancels' = cancels + 1
    /\ notification' \in IF pc[p] = "clear" THEN {{}, notification} ELSE {notification}
    /\ excused' = excused \cup Stale
    /\ PollReturn(p)
    /\ UNCHANGED <<version, cached, pollsSinceFullRead, lag, failures, closes>>

-----------------------------------------------------------------------------
(* close() resets the counter under the client lock and the cache under    *)
(* the cache lock.  Both halves are one step: it takes the cache lock at   *)
(* once when it is free, and queues for it first come first served when    *)
(* not, so a poll whose last request ends between the halves merges after  *)
(* both, and one that queued before the first merges what is then dropped. *)
Close ==
    /\ closes < MaxCloses
    /\ closes' = closes + 1
    /\ cached' = Nothing
    /\ pollsSinceFullRead' = FullReadInterval
    /\ lag' = Nothing
    /\ UNCHANGED <<deviceVars, pollVars, excused, failures, cancels>>

PollStep(p) ==
    \/ PollMeasure(p) \/ PollReadRange(p)
    \/ PollNothingToClear(p) \/ PollToClear(p) \/ PollClear(p) \/ PollMerge(p)

Next ==
    \/ \E r \in Ranges : RangeChange(r)
    \/ \E p \in Polls : PollStep(p) \/ PollFail(p) \/ PollCancel(p)
    \/ Close

Spec == Init /\ [][Next]_vars

(* The host polls again and again, and every request ends.                 *)
Fairness == \A p \in Polls : WF_vars(PollStep(p))

FairSpec == Spec /\ Fairness

-----------------------------------------------------------------------------
(* Properties                                                              *)

TypeOK ==
    /\ version \in [Ranges -> Nat]
    /\ notification \subseteq Pages
    /\ cached \in [Ranges -> Nat]
    /\ pollsSinceFullRead \in Nat
    /\ pc \in [Polls -> {"idle", "pages", "clear", "merge"}]
    /\ seen \in [Polls -> SUBSET Pages]
    /\ forceFull \in [Polls -> BOOLEAN]
    /\ toRead \in [Polls -> SUBSET Ranges]
    /\ result \in [Polls -> [Ranges -> Nat]]
    /\ lag \in [Ranges -> Nat]
    /\ excused \subseteq Ranges
    /\ failures \in Nat /\ cancels \in Nat /\ closes \in Nat

(* However the firmware keeps its notification bits, and whatever requests *)
(* fail, a change is missing from the cache after at most FullReadInterval *)
(* + 1 merged polls (a full read may just have passed it by), and each     *)
(* cancelled poll can cost one more such round.                            *)
BoundedStaleness ==
    \A r \in Ranges : lag[r] <= (FullReadInterval + 1) * (cancels + 1)

(* With a firmware that flags its changes, the cache of a range is older   *)
(* than the device only when the change is still flagged, or is on its way *)
(* to the cache, or a full read is due, or the change fell into the window *)
(* of a poll (or a cancelled poll took it along): failed polls, failed     *)
(* clears, torn pages and close() lose nothing.                            *)
StaleIsKnown ==
    \A r \in Stale \ excused :
        \/ PageOf[r] \notin Notifying
        \/ PageOf[r] \in notification
        \/ pollsSinceFullRead >= FullReadInterval
        \/ \E p \in Polls : pc[p] = "merge" /\ result[p][r] = version[r]

(* README: "notification-bit-driven cache invalidation so unchanged pages  *)
(* skip the read".  A page that is skipped is an unchanged one: the cache  *)
(* has what the device has when the poll decides to skip it.  A change     *)
(* that falls between a poll's look at the bits and its clearing of them   *)
(* is wiped unseen, and its page is skipped from then on.                  *)
SkippedPagesUnchanged ==
    [][\A p \in Polls : PollMeasure(p) =>
         \A r \in Ranges \ toRead'[p] :
             PageOf[r] \in Notifying => cached[r] = version[r]]_vars

(* Once the device stops changing, the cache comes to hold what it holds,  *)
(* flagged or not.                                                         *)
EventuallyFresh == <>[](Stale = {})

=============================================================================
