----------------------------- MODULE PollProofs -----------------------------
(***************************************************************************)
(* Theorems about what polls bring into the caches: PollCycle, TimerCache  *)
(* on top of it, and PumpState, for every set of pages, ranges, blocks and *)
(* outputs, every interval between full reads and every bound.             *)
(*                                                                         *)
(* The freshness theorems hold for any number of poll tasks as long as no  *)
(* two polls are under way at once, which is how the host calls the        *)
(* client; the library itself does not prevent an overlap, and with one    *)
(* they are false: the slower poll takes an older snapshot over the newer. *)
(***************************************************************************)
EXTENDS TimerCache, PumpState, TLAPS

OneAtATime == \A p, q \in Polls : pc[p] # "idle" /\ pc[q] # "idle" => p = q

NoneMerging == \A p \in Polls : pc[p] # "merge"

(* A poll between its look at the notification bits and its last request.  *)
UnderWay(p) == pc[p] \in {"pages", "clear"}

(* Polls since the last full read, as far as they matter.                  *)
SinceFull == IF pollsSinceFullRead < FullReadInterval THEN pollsSinceFullRead ELSE FullReadInterval

(* Nothing the client holds of a range is newer than the device, and what  *)
(* lags behind is older.                                                   *)
VersionInv ==
    \A r \in Ranges :
        /\ 1 <= version[r] /\ cached[r] <= version[r]
        /\ \A p \in Polls : result[p][r] <= version[r]
        /\ lag[r] > 0 => cached[r] < version[r]

(* A poll that is going to clear bits has read what they stand for.        *)
ShapeInv ==
    \A p \in Polls :
        /\ pc[p] \in {"clear", "merge"} => toRead[p] = {}
        /\ pc[p] = "clear" => seen[p] # {}

(* What StaleIsKnown says, of every range whose changes are flagged.       *)
Known(r) ==
    \/ cached[r] = version[r]
    \/ PageOf[r] \in notification
    \/ pollsSinceFullRead >= FullReadInterval
    \/ \E p \in Polls : pc[p] = "merge" /\ result[p][r] = version[r]

(* And what every poll under way is going to bring of it, or leaves to the *)
(* next one: the bit it does not clear.                                    *)
Brings(p, r) ==
    /\ UnderWay(p) => \/ r \in toRead[p]
                      \/ result[p][r] = version[r]
                      \/ seen[p] = {} /\ PageOf[r] \in notification
    /\ pc[p] = "merge" => result[p][r] = version[r] \/ PageOf[r] \in notification

KnownInv ==
    \A r \in Ranges \ excused :
        PageOf[r] \in Notifying => Known(r) /\ \A p \in Polls : Brings(p, r)

(* A range's lag is at most one more than the polls since the last full    *)
(* read.  A full read under way has a newer version of whatever lags, or   *)
(* is going to read it; any other poll has begun before one was due, or    *)
(* close() has emptied the cache since.                                    *)
Earlier == (FullReadInterval + 1) * cancels

PollLag(p, r) ==
    /\ UnderWay(p) =>
         IF forceFull[p]
         THEN r \in toRead[p] \/ lag[r] = 0 \/ result[p][r] # cached[r]
         ELSE pollsSinceFullRead < FullReadInterval \/ lag[r] = 0
    /\ pc[p] = "merge" =>
         IF forceFull[p]
         THEN lag[r] <= Earlier + FullReadInterval + 1 /\ (lag[r] = 0 \/ result[p][r] # cached[r])
         ELSE lag[r] <= Earlier + SinceFull

LagInv ==
    \A r \in Ranges :
        /\ NoneMerging => lag[r] <= Earlier + SinceFull + 1
        /\ \A p \in Polls : PollLag(p, r)

CycleInv == TypeOK /\ VersionInv /\ ShapeInv
FreshInv == CycleInv /\ KnownInv
StaleInv == CycleInv /\ LagInv

-----------------------------------------------------------------------------
(* The blocks of the timers                                                *)

BlockInv ==
    \A t \in Timers :
        /\ 1 <= blocks[t] /\ cachedTimers[t] <= blocks[t] /\ timers[t] <= blocks[t]
        /\ timerLag[t] > 0 => cachedTimers[t] < blocks[t]

TurnInv ==
    /\ turn = "timers" => \A p \in Polls : pc[p] = "idle"
    /\ readPc = "reading" => turn = "timers"
    /\ readPc = "idle" => pending = {} /\ timers = NoTimers

EarlierCalls == (FullReadInterval + 1) * (losses + cancels) + failures

(* A call that follows a full read is one late, and does not use the cache.*)
AfterPoll(t) ==
    \/ timerLag[t] <= EarlierCalls + SinceFull
    \/ lastWasFullRead /\ timerLag[t] <= EarlierCalls + FullReadInterval + 1

Reading(t) ==
    \/ timerLag[t] <= EarlierCalls + SinceFull
    \/ /\ timerLag[t] <= EarlierCalls + FullReadInterval + 1
       /\ ~canUseCache
       /\ \/ t \in pending
          \/ timers[t] # 0 /\ (timerLag[t] = 0 \/ timers[t] # cachedTimers[t])

TimerLagOK(t) ==
    /\ turn = "poll" /\ NoneMerging => timerLag[t] <= EarlierCalls + SinceFull + 1
    /\ \A p \in Polls : UnderWay(p) /\ ~forceFull[p] =>
         pollsSinceFullRead < FullReadInterval \/ timerLag[t] = 0
    /\ (turn = "timers" /\ readPc = "idle") \/ ~NoneMerging => AfterPoll(t)
    /\ readPc = "reading" => Reading(t)

TimerLagInv == \A t \in AlwaysAsked : TimerLagOK(t)

TimersTypes == TypeOK /\ TimersTypeOK
TimersIInv == TimersTypes /\ BlockInv /\ TurnInv
TimersStaleInv == TimersIInv /\ TimerLagInv

(* A block of an earlier session in the cache: the poll before the next    *)
(* reading is, or will be, a full one.                                     *)
Old(t) == cachedTimers[t] # 0 /\ cachedIn[t] # closes

OldOK(t) ==
    /\ Old(t) =>
         /\ lastWasFullRead
         /\ turn = "poll" =>
              /\ \A p \in Polls : UnderWay(p) => forceFull[p]
              /\ NoneMerging => pollsSinceFullRead >= FullReadInterval
         /\ readPc = "reading" => ~canUseCache
    /\ readPc = "reading" =>
         /\ t \in pending \/ timers[t] # 0
         /\ timers[t] # 0 /\ readIn[t] # closes =>
              lastWasFullRead /\ pollsSinceFullRead >= FullReadInterval

OldInv == losses + cancels = 0 => \A t \in AlwaysAsked : OldOK(t)

TimersReuseInv == TimersIInv /\ OldInv

-----------------------------------------------------------------------------
(* The pump                                                                *)

Sights ==
    [relays : [Outputs -> States], state : States \cup {"unknown"}, gpio : Outputs \cup {0},
     type : Types, pump : States \cup {"unknown"}]

PumpTypeOK ==
    /\ running \in States /\ relayState \in [Outputs -> States] /\ filtState \in States
    /\ filtGpio \in Outputs \cup {0} /\ pumpType \in Types
    /\ cachedPump \in Sights /\ pumpResult \in Sights
    /\ pumpStep \in {"none", "measured", "named", "complete"}
    /\ wasRunning \subseteq States

(* While output and type of the pump stay what they are, the register to   *)
(* go by has been read at a moment when the pump did what it says.         *)
SightInv ==
    /\ Truthful(running, relayState, filtState, filtGpio, pumpType)
    /\ pumpStep # "none" => running \in wasRunning
    /\ pumpStep # "none" /\ steady /\ pumpType = "single" /\ filtGpio \in Outputs =>
         pumpResult.relays[filtGpio] \in wasRunning
    /\ pumpStep \in {"named", "complete"} =>
         /\ pumpResult.gpio \in Outputs => pumpResult.pump = pumpResult.relays[pumpResult.gpio]
         /\ steady /\ pumpType = "variable" /\ "INSTALLER" \in fresh =>
              pumpResult.state \in wasRunning

PumpInv == PumpTypeOK /\ SightInv

-----------------------------------------------------------------------------
(* Type correctness of PollCycle                                           *)

LEMMA InitType == Init => TypeOK
BY IntervalAssumption DEF Init, TypeOK, Nothing

LEMMA ReturnType ==
    ASSUME TypeOK, NEW p \in Polls, PollReturn(p)
    PROVE  /\ pc' \in [Polls -> {"idle", "pages", "clear", "merge"}]
           /\ seen' \in [Polls -> SUBSET Pages]
           /\ forceFull' \in [Polls -> BOOLEAN]
           /\ toRead' \in [Polls -> SUBSET Ranges]
           /\ result' \in [Polls -> [Ranges -> Nat]]
BY DEF TypeOK, PollReturn, Nothing

LEMMA MeasureType == ASSUME TypeOK, NEW p \in Polls, PollMeasure(p) PROVE TypeOK'
<1>1. forceFull' \in [Polls -> BOOLEAN]
  BY DEF TypeOK, PollMeasure
<1>2. toRead' \in [Polls -> SUBSET Ranges]
  BY DEF TypeOK, PollMeasure
<1>3. seen' \in [Polls -> SUBSET Pages] /\ result' \in [Polls -> [Ranges -> Nat]]
  BY DEF TypeOK, PollMeasure
<1>4. QED
  BY <1>1, <1>2, <1>3 DEF TypeOK, PollMeasure, deviceVars, countVars

LEMMA ReadRangeType == ASSUME TypeOK, NEW p \in Polls, PollReadRange(p) PROVE TypeOK'
<1>1. PICK r \in toRead[p] : /\ toRead' = [toRead EXCEPT ![p] = @ \ {r}]
                             /\ result' = [result EXCEPT ![p][r] = version[r]]
  BY DEF PollReadRange
<1>2. r \in Ranges /\ version[r] \in Nat
  BY DEF TypeOK
<1>3. toRead' \in [Polls -> SUBSET Ranges] /\ result' \in [Polls -> [Ranges -> Nat]]
  BY <1>1, <1>2 DEF TypeOK
<1>4. QED
  BY <1>3 DEF TypeOK, PollReadRange, deviceVars, countVars

LEMMA CountType ==
    ASSUME TypeOK, NEW p \in Polls, PollCount(p)
    PROVE  /\ pollsSinceFullRead' \in Nat
           /\ pc' \in [Polls -> {"idle", "pages", "clear", "merge"}]
BY DEF TypeOK, PollCount

LEMMA MergeType == ASSUME TypeOK, NEW p \in Polls, PollMerge(p) PROVE TypeOK'
<1>1. cached' \in [Ranges -> Nat] /\ excused' \subseteq Ranges
  BY DEF TypeOK, PollMerge
<1>2. lag' \in [Ranges -> Nat]
  BY DEF TypeOK, PollMerge
<1>3. QED
  BY <1>1, <1>2, ReturnType DEF TypeOK, PollMerge, deviceVars, countVars

LEMMA StepType == ASSUME TypeOK, NEW p \in Polls, PollStep(p) PROVE TypeOK'
<1>1. CASE PollNothingToClear(p)
  BY <1>1, CountType DEF TypeOK, PollNothingToClear, deviceVars, countVars
<1>2. CASE PollToClear(p)
  BY <1>2 DEF TypeOK, PollToClear, deviceVars, countVars
<1>3. CASE PollClear(p)
  BY <1>3, CountType DEF TypeOK, PollClear, countVars
<1>4. QED
  BY <1>1, <1>2, <1>3, MeasureType, ReadRangeType, MergeType DEF PollStep

LEMMA FailType == ASSUME TypeOK, NEW p \in Polls, PollFail(p) PROVE TypeOK'
BY ReturnType DEF TypeOK, PollFail, deviceVars

LEMMA CancelType == ASSUME TypeOK, NEW p \in Polls, PollCancel(p) PROVE TypeOK'
<1>1. notification' \subseteq Pages /\ excused' \subseteq Ranges
  BY DEF TypeOK, PollCancel, Stale
<1>2. QED
  BY <1>1, ReturnType DEF TypeOK, PollCancel

LEMMA CloseType == TypeOK /\ Close => TypeOK'
BY IntervalAssumption DEF TypeOK, Close, Nothing, deviceVars, pollVars

LEMMA RangeChangeType == ASSUME TypeOK, NEW r \in Ranges, RangeChange(r) PROVE TypeOK'
<1>1. version' \in [Ranges -> Nat] /\ notification' \subseteq Pages /\ excused' \subseteq Ranges
  BY PageAssumption DEF TypeOK, RangeChange
<1>2. QED
  BY <1>1 DEF TypeOK, RangeChange, pollVars, countVars

LEMMA NextType == TypeOK /\ [Next]_vars => TypeOK'
<1> SUFFICES ASSUME TypeOK, [Next]_vars PROVE TypeOK'
  OBVIOUS
<1>1. CASE UNCHANGED vars
  BY <1>1 DEF TypeOK, vars, deviceVars, pollVars, countVars
<1>2. QED
  BY <1>1, RangeChangeType, StepType, FailType, CancelType, CloseType DEF Next

(* The variables of a poll and of the caches are what they should be,      *)
(* however many polls overlap.                                             *)
THEOREM PollTypes == Spec => []TypeOK
BY InitType, NextType, PTL DEF Spec

-----------------------------------------------------------------------------
(* Versions never run ahead of the device                                  *)

LEMMA InitCycle == Init => CycleInv
BY InitType DEF Init, CycleInv, VersionInv, ShapeInv, Nothing

(* A poll that changes its own snapshot only.                              *)
LEMMA SnapshotVersions ==
    ASSUME VersionInv, TypeOK, TypeOK', NEW p \in Polls,
           UNCHANGED <<version, cached, lag>>,
           \A q \in Polls \ {p} : result'[q] = result[q],
           \A r \in Ranges : result'[p][r] <= version[r]
    PROVE  VersionInv'
<1>1. ASSUME NEW r \in Ranges, NEW q \in Polls PROVE result'[q][r] <= version[r]
  BY <1>1 DEF VersionInv
<1>2. QED
  BY <1>1 DEF VersionInv

(* What a poll that returns, or is dropped, leaves behind.                 *)
LEMMA ReturnLocals ==
    ASSUME TypeOK, NEW p \in Polls, PollReturn(p)
    PROVE  /\ pc'[p] = "idle" /\ seen'[p] = {} /\ toRead'[p] = {} /\ ~forceFull'[p]
           /\ \A r \in Ranges : result'[p][r] = 0
           /\ \A q \in Polls \ {p} :
                /\ pc'[q] = pc[q] /\ seen'[q] = seen[q] /\ toRead'[q] = toRead[q]
                /\ forceFull'[q] = forceFull[q] /\ result'[q] = result[q]
BY DEF TypeOK, PollReturn, Nothing

LEMMA ReturnCycle ==
    ASSUME CycleInv, TypeOK', NEW p \in Polls, PollReturn(p), UNCHANGED <<version, cached, lag>>
    PROVE  CycleInv'
<1>1. VersionInv'
  <2>1. \A r \in Ranges : result'[p][r] <= version[r]
    BY ReturnLocals DEF CycleInv, VersionInv, TypeOK
  <2>2. QED
    BY <2>1, ReturnLocals, SnapshotVersions DEF CycleInv
<1>2. ShapeInv'
  BY ReturnLocals DEF CycleInv, ShapeInv
<1>3. QED
  BY <1>1, <1>2 DEF CycleInv

LEMMA RangeChangeCycle ==
    ASSUME CycleInv, NEW r \in Ranges, RangeChange(r) PROVE CycleInv'
<1>1. TypeOK'
  BY RangeChangeType DEF CycleInv
<1>2. /\ UNCHANGED <<cached, lag, result, pc, toRead, seen>>
      /\ \A s \in Ranges : version[s] <= version'[s]
  BY DEF RangeChange, pollVars, CycleInv, TypeOK
<1>3. VersionInv'
  BY <1>1, <1>2 DEF CycleInv, VersionInv, TypeOK
<1>4. QED
  BY <1>1, <1>2, <1>3 DEF CycleInv, ShapeInv

LEMMA MeasureCycle ==
    ASSUME CycleInv, NEW p \in Polls, PollMeasure(p) PROVE CycleInv'
<1>1. TypeOK'
  BY MeasureType DEF CycleInv
<1>2. VersionInv'
  <2>1. /\ UNCHANGED <<version, cached, lag>> /\ result'[p] = cached
        /\ \A q \in Polls \ {p} : result'[q] = result[q]
    BY DEF PollMeasure, deviceVars, CycleInv, TypeOK
  <2>2. QED
    BY <1>1, <2>1, SnapshotVersions DEF CycleInv, VersionInv
<1>3. ShapeInv'
  BY DEF PollMeasure, CycleInv, ShapeInv, TypeOK
<1>4. QED
  BY <1>1, <1>2, <1>3 DEF CycleInv

LEMMA ReadRangeCycle ==
    ASSUME CycleInv, NEW p \in Polls, PollReadRange(p) PROVE CycleInv'
<1>1. TypeOK'
  BY ReadRangeType DEF CycleInv
<1>2. VersionInv'
  <2>1. PICK r \in toRead[p] : result' = [result EXCEPT ![p][r] = version[r]]
    BY DEF PollReadRange
  <2>2. /\ UNCHANGED <<version, cached, lag>>
        /\ \A q \in Polls \ {p} : result'[q] = result[q]
        /\ \A s \in Ranges : result'[p][s] = IF s = r THEN version[r] ELSE result[p][s]
    BY <2>1 DEF PollReadRange, deviceVars, CycleInv, TypeOK
  <2>3. \A s \in Ranges : result'[p][s] <= version[s]
    BY <2>2 DEF CycleInv, VersionInv, TypeOK
  <2>4. QED
    BY <1>1, <2>2, <2>3, SnapshotVersions DEF CycleInv
<1>3. ShapeInv'
  BY DEF PollReadRange, CycleInv, ShapeInv, TypeOK
<1>4. QED
  BY <1>1, <1>2, <1>3 DEF CycleInv

(* The last request is over: what is left is the merge.                    *)
LEMMA CountCycle ==
    ASSUME CycleInv, NEW p \in Polls,
           PollNothingToClear(p) \/ PollToClear(p) \/ PollClear(p)
    PROVE  CycleInv'
<1>1. TypeOK'
  BY StepType DEF PollStep, CycleInv
<1>2. UNCHANGED <<version, cached, lag, result, seen, toRead>> /\ toRead[p] = {}
  BY DEF PollNothingToClear, PollToClear, PollClear, deviceVars, CycleInv, ShapeInv
<1>3. /\ \A q \in Polls \ {p} : pc'[q] = pc[q]
      /\ pc'[p] = "clear" => seen[p] # {}
  BY DEF PollNothingToClear, PollToClear, PollClear, PollCount, CycleInv, TypeOK
<1>4. VersionInv'
  BY <1>2 DEF CycleInv, VersionInv
<1>5. ShapeInv'
  BY <1>2, <1>3 DEF CycleInv, ShapeInv
<1>6. QED
  BY <1>1, <1>4, <1>5 DEF CycleInv

LEMMA MergeCycle ==
    ASSUME CycleInv, NEW p \in Polls, PollMerge(p) PROVE CycleInv'
<1>1. TypeOK'
  BY MergeType DEF CycleInv
<1>2. VersionInv'
  <2>1. /\ UNCHANGED version /\ cached' = result[p]
        /\ \A r \in Ranges : cached'[r] = version[r] => lag'[r] = 0
    BY DEF PollMerge, deviceVars
  <2>2. \A r \in Ranges : cached'[r] <= version[r] /\ 1 <= version[r]
    BY <2>1 DEF CycleInv, VersionInv
  <2>3. \A r \in Ranges, q \in Polls : result'[q][r] <= version[r]
    BY ReturnLocals DEF PollMerge, CycleInv, VersionInv, TypeOK
  <2>4. \A r \in Ranges : lag'[r] > 0 => cached'[r] < version[r]
    <3>1. ASSUME NEW r \in Ranges PROVE cached'[r] \in Nat /\ version[r] \in Nat /\ lag'[r] \in Nat
      BY <1>1 DEF TypeOK, CycleInv
    <3>2. QED
      BY <2>1, <2>2, <3>1
  <2>5. QED
    BY <2>1, <2>2, <2>3, <2>4 DEF VersionInv
<1>3. ShapeInv'
  BY ReturnLocals DEF PollMerge, CycleInv, ShapeInv
<1>4. QED
  BY <1>1, <1>2, <1>3 DEF CycleInv

LEMMA FailCycle == ASSUME CycleInv, NEW p \in Polls, PollFail(p) PROVE CycleInv'
BY FailType, ReturnCycle DEF PollFail, deviceVars, CycleInv

LEMMA CancelCycle == ASSUME CycleInv, NEW p \in Polls, PollCancel(p) PROVE CycleInv'
BY CancelType, ReturnCycle DEF PollCancel, CycleInv

LEMMA CloseCycle == CycleInv /\ Close => CycleInv'
<1> SUFFICES ASSUME CycleInv, Close PROVE CycleInv'
  OBVIOUS
<1>1. TypeOK'
  BY CloseType DEF CycleInv
<1>2. VersionInv'
  BY DEF CycleInv, TypeOK, VersionInv, Close, Nothing, deviceVars, pollVars
<1>3. ShapeInv'
  BY DEF CycleInv, ShapeInv, Close, pollVars
<1>4. QED
  BY <1>1, <1>2, <1>3 DEF CycleInv

LEMMA StutterCycle == CycleInv /\ UNCHANGED vars => CycleInv'
BY DEF CycleInv, TypeOK, VersionInv, ShapeInv, vars, deviceVars, pollVars, countVars

LEMMA PollStepCycle == ASSUME CycleInv, NEW p \in Polls, PollStep(p) PROVE CycleInv'
BY MeasureCycle, ReadRangeCycle, CountCycle, MergeCycle DEF PollStep

LEMMA NextCycle == CycleInv /\ [Next]_vars => CycleInv'
BY RangeChangeCycle, PollStepCycle, FailCycle, CancelCycle, CloseCycle, StutterCycle DEF Next

-----------------------------------------------------------------------------
(* StaleIsKnown                                                            *)

(* One poll moves, the others are idle: only its own entries count.        *)
LEMMA OthersIdle ==
    ASSUME TypeOK, OneAtATime, OneAtATime', NEW p \in Polls, pc[p] # "idle" \/ pc'[p] # "idle",
           \A q \in Polls \ {p} : pc'[q] = pc[q]
    PROVE  \A q \in Polls \ {p} : pc[q] = "idle" /\ pc'[q] = "idle"
BY DEF OneAtATime

LEMMA KnownOne ==
    ASSUME NEW p \in Polls, \A q \in Polls \ {p} : pc'[q] = "idle",
           \A r \in Ranges \ excused' : PageOf[r] \in Notifying => Known(r)' /\ Brings(p, r)'
    PROVE  KnownInv'
<1> SUFFICES ASSUME NEW r \in Ranges \ excused', PageOf[r] \in Notifying, NEW q \in Polls
             PROVE  Known(r)' /\ Brings(q, r)'
  BY DEF KnownInv
<1>1. CASE q = p
  BY <1>1
<1>2. CASE q # p
  BY <1>2 DEF Brings, UnderWay
<1>3. QED
  BY <1>1, <1>2

LEMMA RangeChangeKnown ==
    ASSUME FreshInv, NEW r \in Ranges, RangeChange(r) PROVE KnownInv'
<1> SUFFICES ASSUME NEW s \in Ranges \ excused', PageOf[s] \in Notifying
             PROVE  Known(s)' /\ \A p \in Polls : Brings(p, s)'
  BY DEF KnownInv
<1>1. /\ s \notin excused
      /\ UNCHANGED <<cached, pollsSinceFullRead, pc, seen, toRead, result>>
      /\ notification \subseteq notification'
  BY DEF RangeChange, pollVars
<1>2. Known(s) /\ \A p \in Polls : Brings(p, s)
  BY <1>1 DEF FreshInv, KnownInv
<1>3. CASE s # r
  <2>1. version'[s] = version[s]
    BY <1>3 DEF RangeChange, FreshInv, CycleInv, TypeOK
  <2>2. QED
    BY <1>1, <1>2, <2>1 DEF Known, Brings, UnderWay
<1>4. CASE s = r
  <2>1. PageOf[s] \in notification'
    BY <1>4 DEF RangeChange
  <2>2. \A p \in Polls : UnderWay(p) => seen[p] = {}
    BY <1>4 DEF RangeChange, InWindow, UnderWay
  <2>3. QED
    BY <1>1, <2>1, <2>2 DEF Known, Brings, UnderWay
<1>5. QED
  BY <1>3, <1>4

(* A page the poll skips is unflagged, and no full read is due: so its     *)
(* ranges are up to date.                                                  *)
LEMMA MeasureKnown ==
    ASSUME FreshInv, OneAtATime, OneAtATime', NEW p \in Polls, PollMeasure(p) PROVE KnownInv'
<1>1. /\ UNCHANGED <<version, notification, cached, pollsSinceFullRead, excused>>
      /\ pc[p] = "idle" /\ pc'[p] = "pages" /\ result'[p] = cached
      /\ \A q \in Polls \ {p} : pc'[q] = pc[q] /\ result'[q] = result[q]
      /\ forceFull'[p] = (pollsSinceFullRead >= FullReadInterval)
      /\ toRead'[p] = {r \in Ranges : forceFull'[p] \/ PageOf[r] \in notification}
  BY DEF PollMeasure, deviceVars, FreshInv, CycleInv, TypeOK
<1>2. \A q \in Polls \ {p} : pc[q] = "idle" /\ pc'[q] = "idle"
  BY <1>1, OthersIdle DEF FreshInv, CycleInv
<1>3. ASSUME NEW r \in Ranges \ excused', PageOf[r] \in Notifying
      PROVE  Known(r)' /\ Brings(p, r)'
  <2>1. \/ cached[r] = version[r]
        \/ PageOf[r] \in notification
        \/ pollsSinceFullRead >= FullReadInterval
    BY <1>1, <1>2, <1>3 DEF FreshInv, KnownInv, Known
  <2>2. r \in toRead'[p] \/ result'[p][r] = version'[r]
    BY <1>1, <2>1
  <2>3. QED
    BY <1>1, <2>1, <2>2 DEF Known, Brings, UnderWay
<1>4. QED
  BY <1>2, <1>3, KnownOne

LEMMA ReadRangeKnown ==
    ASSUME FreshInv, OneAtATime, OneAtATime', NEW p \in Polls, PollReadRange(p) PROVE KnownInv'
<1>1. PICK r \in toRead[p] : /\ toRead' = [toRead EXCEPT ![p] = @ \ {r}]
                             /\ result' = [result EXCEPT ![p][r] = version[r]]
  BY DEF PollReadRange
<1>2. /\ UNCHANGED <<version, notification, cached, pollsSinceFullRead, excused, pc, seen>>
      /\ pc[p] = "pages" /\ toRead'[p] = toRead[p] \ {r}
      /\ \A s \in Ranges : result'[p][s] = IF s = r THEN version[r] ELSE result[p][s]
      /\ \A q \in Polls \ {p} : result'[q] = result[q]
  BY <1>1 DEF PollReadRange, deviceVars, FreshInv, CycleInv, TypeOK
<1>3. \A q \in Polls \ {p} : pc[q] = "idle" /\ pc'[q] = "idle"
  BY <1>2, OthersIdle DEF FreshInv, CycleInv
<1>4. ASSUME NEW s \in Ranges \ excused', PageOf[s] \in Notifying
      PROVE  Known(s)' /\ Brings(p, s)'
  BY <1>2, <1>3, <1>4 DEF FreshInv, KnownInv, Known, Brings, UnderWay
<1>5. QED
  BY <1>3, <1>4, KnownOne

(* Whether the poll has nothing to clear, clears, or fails to clear: it    *)
(* has what the bits stood for.                                            *)
LEMMA CountKnown ==
    ASSUME FreshInv, OneAtATime, OneAtATime', NEW p \in Polls,
           PollNothingToClear(p) \/ PollClear(p)
    PROVE  KnownInv'
<1>1. /\ UNCHANGED <<version, cached, excused, seen, toRead, result>>
      /\ pc[p] \in {"pages", "clear"} /\ pc'[p] = "merge" /\ toRead[p] = {}
      /\ \A q \in Polls \ {p} : pc'[q] = pc[q]
      /\ seen[p] = {} => notification' = notification
  BY DEF PollNothingToClear, PollClear, PollCount, deviceVars, FreshInv, CycleInv, TypeOK, ShapeInv
<1>2. \A q \in Polls \ {p} : pc[q] = "idle" /\ pc'[q] = "idle"
  BY <1>1, OthersIdle DEF FreshInv, CycleInv
<1>3. ASSUME NEW r \in Ranges \ excused', PageOf[r] \in Notifying
      PROVE  Known(r)' /\ Brings(p, r)'
  <2>1. result[p][r] = version[r] \/ PageOf[r] \in notification'
    BY <1>1, <1>3 DEF FreshInv, KnownInv, Brings, UnderWay
  <2>2. QED
    BY <1>1, <2>1 DEF Known, Brings, UnderWay
<1>4. QED
  BY <1>2, <1>3, KnownOne

LEMMA ToClearKnown ==
    ASSUME FreshInv, NEW p \in Polls, PollToClear(p) PROVE KnownInv'
<1>1. /\ UNCHANGED <<version, notification, cached, pollsSinceFullRead, excused, seen, toRead, result>>
      /\ pc[p] = "pages" /\ pc'[p] = "clear"
      /\ \A q \in Polls \ {p} : pc'[q] = pc[q]
  BY DEF PollToClear, deviceVars, FreshInv, CycleInv, TypeOK
<1> SUFFICES ASSUME NEW r \in Ranges \ excused', PageOf[r] \in Notifying, NEW q \in Polls
             PROVE  Known(r)' /\ Brings(q, r)'
  BY DEF KnownInv
<1>2. Known(r) /\ Brings(q, r) /\ Brings(p, r)
  BY <1>1 DEF FreshInv, KnownInv
<1>3. Known(r)'
  BY <1>1, <1>2 DEF Known
<1>4. Brings(q, r)'
  BY <1>1, <1>2 DEF Brings, UnderWay
<1>5. QED
  BY <1>3, <1>4

LEMMA MergeKnown ==
    ASSUME FreshInv, OneAtATime, OneAtATime', NEW p \in Polls, PollMerge(p) PROVE KnownInv'
<1>1. /\ UNCHANGED <<version, notification, pollsSinceFullRead>>
      /\ pc[p] = "merge" /\ pc'[p] = "idle" /\ cached' = result[p]
      /\ \A q \in Polls \ {p} : pc'[q] = pc[q]
      /\ excused' = {r \in excused : cached'[r] < version[r]}
  BY ReturnLocals DEF PollMerge, deviceVars, FreshInv, CycleInv
<1>2. \A q \in Polls \ {p} : pc[q] = "idle" /\ pc'[q] = "idle"
  BY <1>1, OthersIdle DEF FreshInv, CycleInv
<1>3. ASSUME NEW r \in Ranges \ excused', PageOf[r] \in Notifying
      PROVE  Known(r)' /\ Brings(p, r)'
  <2>1. CASE r \in excused
    <3>1. cached'[r] <= version[r] /\ ~(cached'[r] < version[r])
      BY <1>1, <1>3, <2>1 DEF FreshInv, CycleInv, VersionInv
    <3>2. cached'[r] \in Nat /\ version[r] \in Nat
      BY <1>1 DEF FreshInv, CycleInv, TypeOK
    <3>3. cached'[r] = version'[r]
      BY <1>1, <3>1, <3>2
    <3>4. QED
      BY <1>1, <3>3 DEF Known, Brings, UnderWay
  <2>2. CASE r \notin excused
    BY <1>1, <1>3, <2>2 DEF FreshInv, KnownInv, Known, Brings, UnderWay
  <2>3. QED
    BY <2>1, <2>2
<1>4. QED
  BY <1>2, <1>3, KnownOne

LEMMA FailKnown ==
    ASSUME FreshInv, OneAtATime, OneAtATime', NEW p \in Polls, PollFail(p) PROVE KnownInv'
<1>1. /\ UNCHANGED <<version, notification, cached, pollsSinceFullRead, excused>>
      /\ pc[p] = "pages" /\ pc'[p] = "idle"
      /\ \A q \in Polls \ {p} : pc'[q] = pc[q] /\ result'[q] = result[q]
  BY ReturnLocals DEF PollFail, deviceVars, FreshInv, CycleInv
<1>2. \A q \in Polls \ {p} : pc[q] = "idle" /\ pc'[q] = "idle"
  BY <1>1, OthersIdle DEF FreshInv, CycleInv
<1>3. ASSUME NEW r \in Ranges \ excused', PageOf[r] \in Notifying
      PROVE  Known(r)' /\ Brings(p, r)'
  BY <1>1, <1>2, <1>3 DEF FreshInv, KnownInv, Known, Brings, UnderWay
<1>4. QED
  BY <1>2, <1>3, KnownOne

(* Whatever is stale by then is excused; what is not is up to date.        *)
LEMMA CancelKnown ==
    ASSUME FreshInv, OneAtATime, OneAtATime', NEW p \in Polls, PollCancel(p) PROVE KnownInv'
<1>1. /\ UNCHANGED <<version, cached>> /\ excused' = excused \cup Stale
      /\ pc[p] # "idle" /\ pc'[p] = "idle"
      /\ \A q \in Polls \ {p} : pc'[q] = pc[q]
  BY ReturnLocals DEF PollCancel, FreshInv, CycleInv
<1>2. \A q \in Polls \ {p} : pc[q] = "idle" /\ pc'[q] = "idle"
  BY <1>1, OthersIdle DEF FreshInv, CycleInv
<1>3. ASSUME NEW r \in Ranges \ excused', PageOf[r] \in Notifying
      PROVE  Known(r)' /\ Brings(p, r)'
  <2>1. cached[r] = version[r]
    <3>1. ~(cached[r] < version[r])
      BY <1>1, <1>3 DEF Stale
    <3>2. cached[r] <= version[r] /\ cached[r] \in Nat /\ version[r] \in Nat
      BY <1>3 DEF FreshInv, CycleInv, VersionInv, TypeOK
    <3>3. QED
      BY <3>1, <3>2
  <2>2. QED
    BY <1>1, <2>1 DEF Known, Brings, UnderWay
<1>4. QED
  BY <1>2, <1>3, KnownOne

(* After close() a full read is due.                                       *)
LEMMA CloseKnown == FreshInv /\ Close => KnownInv'
<1> SUFFICES ASSUME FreshInv, Close, NEW r \in Ranges \ excused', PageOf[r] \in Notifying
             PROVE  Known(r)' /\ \A p \in Polls : Brings(p, r)'
  BY DEF KnownInv
<1>1. /\ UNCHANGED <<version, notification, excused, pc, seen, toRead, result>>
      /\ pollsSinceFullRead' >= FullReadInterval
  BY IntervalAssumption DEF Close, deviceVars, pollVars
<1>2. \A p \in Polls : Brings(p, r)
  BY <1>1 DEF FreshInv, KnownInv
<1>3. QED
  BY <1>1, <1>2 DEF Known, Brings, UnderWay

LEMMA NextFresh == FreshInv /\ OneAtATime /\ OneAtATime' /\ [Next]_vars => FreshInv'
<1> SUFFICES ASSUME FreshInv, OneAtATime, OneAtATime', [Next]_vars PROVE FreshInv'
  OBVIOUS
<1>1. CycleInv'
  BY NextCycle DEF FreshInv
<1>2. CASE UNCHANGED vars
  BY <1>1, <1>2 DEF FreshInv, KnownInv, Known, Brings, UnderWay, vars, deviceVars, pollVars
<1>3. ASSUME NEW p \in Polls, PollStep(p) PROVE KnownInv'
  BY <1>3, MeasureKnown, ReadRangeKnown, CountKnown, ToClearKnown, MergeKnown DEF PollStep
<1>4. QED
  BY <1>1, <1>2, <1>3, RangeChangeKnown, FailKnown, CancelKnown, CloseKnown DEF FreshInv, Next

LEMMA InitFresh == Init => FreshInv
BY InitCycle, IntervalAssumption DEF Init, FreshInv, KnownInv, Known, Brings, UnderWay

(* With a firmware that flags its changes nothing is stale without a       *)
(* reason, as long as polls do not overlap: whatever fails, whatever is    *)
(* cancelled, and however often the client is closed.                      *)
THEOREM StaleIsAlwaysKnown == Spec /\ []OneAtATime => []StaleIsKnown
<1>1. FreshInv => StaleIsKnown
  BY DEF FreshInv, KnownInv, Known, StaleIsKnown, Stale, CycleInv, TypeOK
<1>2. QED
  BY <1>1, InitFresh, NextFresh, PTL DEF Spec

(* What is left of the README's promise that skipped pages are unchanged   *)
(* ones (SkippedPagesUnchanged, which fails): a poll skips a range of a    *)
(* flagged page that has changed only when the change came between an      *)
(* earlier poll's look at the bits and its clearing of them, or was taken  *)
(* along by a cancelled one.                                               *)
SkippedUnlessExcused ==
    [][\A p \in Polls : PollMeasure(p) =>
         \A r \in Ranges \ (toRead'[p] \cup excused) :
             PageOf[r] \in Notifying => cached[r] = version[r]]_vars

(* As long as polls do not overlap, no poll skips a changed page (the      *)
(* choice of ranges at client.py 966-1000) for any other reason.           *)
THEOREM SkippedIsUnchanged == Spec /\ []OneAtATime => SkippedUnlessExcused
<1> DEFINE Skips == \A p \in Polls : PollMeasure(p) =>
             \A r \in Ranges \ (toRead'[p] \cup excused) :
                 PageOf[r] \in Notifying => cached[r] = version[r]
<1>1. ASSUME FreshInv, OneAtATime, OneAtATime', NEW p \in Polls, PollMeasure(p),
             NEW r \in Ranges \ (toRead'[p] \cup excused), PageOf[r] \in Notifying
      PROVE  cached[r] = version[r]
  <2>1. /\ pc[p] = "idle" /\ pc'[p] = "pages"
        /\ \A q \in Polls \ {p} : pc'[q] = pc[q]
        /\ toRead'[p] = {s \in Ranges : \/ pollsSinceFullRead >= FullReadInterval
                                        \/ PageOf[s] \in notification}
    BY <1>1 DEF PollMeasure, FreshInv, CycleInv, TypeOK
  <2>2. \A q \in Polls : pc[q] = "idle"
    BY <1>1, <2>1, OthersIdle DEF FreshInv, CycleInv
  <2>3. Known(r)
    BY <1>1 DEF FreshInv, KnownInv
  <2>4. QED
    BY <1>1, <2>1, <2>2, <2>3 DEF Known
<1>2. FreshInv /\ OneAtATime /\ OneAtATime' => [Skips]_vars
  BY <1>1
<1>3. QED
  BY <1>2, InitFresh, NextFresh, PTL DEF Spec, SkippedUnlessExcused

-----------------------------------------------------------------------------
(* BoundedStaleness                                                        *)

(* One more lost poll is one more round.                                   *)
LEMMA Round ==
    ASSUME NEW n \in Nat, NEW c \in Nat
    PROVE  /\ (n + 1) * c \in Nat
           /\ (n + 1) * (c + 1) = (n + 1) * c + n + 1
OBVIOUS

LEMMA Bounds ==
    ASSUME TypeOK
    PROVE  /\ FullReadInterval \in Nat /\ pollsSinceFullRead \in Nat
           /\ Earlier \in Nat
           /\ SinceFull \in Nat /\ SinceFull <= FullReadInterval
           /\ pollsSinceFullRead < FullReadInterval => SinceFull = pollsSinceFullRead
           /\ \A r \in Ranges : lag[r] \in Nat /\ cached[r] \in Nat /\ version[r] \in Nat
BY IntervalAssumption, Round DEF TypeOK, Earlier, SinceFull

LEMMA LagOne ==
    ASSUME NEW p \in Polls, \A q \in Polls \ {p} : pc'[q] = "idle",
           \A r \in Ranges : /\ NoneMerging' => lag'[r] <= (Earlier + SinceFull + 1)'
                             /\ PollLag(p, r)'
    PROVE  LagInv'
<1> SUFFICES ASSUME NEW r \in Ranges
             PROVE  /\ NoneMerging' => lag'[r] <= (Earlier + SinceFull + 1)'
                    /\ \A q \in Polls : PollLag(q, r)'
  BY DEF LagInv
<1>1. ASSUME NEW q \in Polls PROVE PollLag(q, r)'
  <2>1. CASE q = p
    BY <2>1
  <2>2. CASE q # p
    BY <2>2 DEF PollLag, UnderWay
  <2>3. QED
    BY <2>1, <2>2
<1>2. QED
  BY <1>1

(* What the counts are about stays as it is.                               *)
LEMMA LagFrame ==
    ASSUME LagInv,
           UNCHANGED <<cached, pollsSinceFullRead, pc, forceFull, toRead, result, lag, cancels>>
    PROVE  LagInv'
BY DEF LagInv, NoneMerging, PollLag, UnderWay, Earlier, SinceFull

LEMMA MeasureLag ==
    ASSUME StaleInv, OneAtATime, OneAtATime', NEW p \in Polls, PollMeasure(p) PROVE LagInv'
<1>1. /\ UNCHANGED <<cached, pollsSinceFullRead, lag, cancels>>
      /\ pc[p] = "idle" /\ pc'[p] = "pages"
      /\ \A q \in Polls \ {p} : pc'[q] = pc[q]
      /\ forceFull'[p] <=> pollsSinceFullRead >= FullReadInterval
      /\ toRead'[p] = {r \in Ranges : forceFull'[p] \/ PageOf[r] \in notification}
  BY DEF PollMeasure, countVars, StaleInv, CycleInv, TypeOK
<1>2. \A q \in Polls \ {p} : pc[q] = "idle" /\ pc'[q] = "idle"
  BY <1>1, OthersIdle DEF StaleInv, CycleInv
<1>3. ASSUME NEW r \in Ranges
      PROVE  lag'[r] <= (Earlier + SinceFull + 1)' /\ PollLag(p, r)'
  <2>1. NoneMerging
    BY <1>1, <1>2 DEF NoneMerging
  <2>2. lag[r] <= Earlier + SinceFull + 1
    BY <2>1 DEF StaleInv, LagInv
  <2>3. forceFull'[p] => r \in toRead'[p]
    BY <1>1
  <2>4. ~forceFull'[p] => pollsSinceFullRead' < FullReadInterval
    <3>1. pollsSinceFullRead \in Nat /\ FullReadInterval \in Nat
      BY Bounds DEF StaleInv, CycleInv
    <3>2. QED
      BY <1>1, <3>1
  <2>5. QED
    BY <1>1, <2>2, <2>3, <2>4 DEF PollLag, UnderWay, Earlier, SinceFull
<1>4. QED
  BY <1>2, <1>3, LagOne

LEMMA ReadRangeLag ==
    ASSUME StaleInv, OneAtATime, OneAtATime', NEW p \in Polls, PollReadRange(p) PROVE LagInv'
<1>1. PICK r \in toRead[p] : /\ toRead' = [toRead EXCEPT ![p] = @ \ {r}]
                             /\ result' = [result EXCEPT ![p][r] = version[r]]
  BY DEF PollReadRange
<1>2. /\ UNCHANGED <<cached, pollsSinceFullRead, lag, cancels, pc, forceFull>>
      /\ pc[p] = "pages" /\ toRead'[p] = toRead[p] \ {r}
      /\ \A s \in Ranges : result'[p][s] = IF s = r THEN version[r] ELSE result[p][s]
  BY <1>1 DEF PollReadRange, countVars, StaleInv, CycleInv, TypeOK
<1>3. \A q \in Polls \ {p} : pc[q] = "idle" /\ pc'[q] = "idle"
  BY <1>2, OthersIdle DEF StaleInv, CycleInv
<1>4. ASSUME NEW s \in Ranges
      PROVE  lag'[s] <= (Earlier + SinceFull + 1)' /\ PollLag(p, s)'
  <2>1. NoneMerging
    BY <1>2, <1>3 DEF NoneMerging
  <2>2. lag[s] <= Earlier + SinceFull + 1 /\ PollLag(p, s)
    BY <2>1 DEF StaleInv, LagInv
  <2>3. s = r => lag[s] = 0 \/ result'[p][s] # cached[s]
    BY <1>2, Bounds DEF StaleInv, CycleInv, VersionInv
  <2>4. QED
    BY <1>2, <2>2, <2>3 DEF PollLag, UnderWay, Earlier, SinceFull
<1>5. QED
  BY <1>3, <1>4, LagOne

(* The poll is counted: a full one ends the round, any other one takes     *)
(* another step in it.                                                     *)
LEMMA CountLagged ==
    ASSUME StaleInv, OneAtATime, OneAtATime', NEW p \in Polls,
           PollNothingToClear(p) \/ PollClear(p)
    PROVE  LagInv'
<1>1. /\ UNCHANGED <<cached, lag, cancels, forceFull, result>>
      /\ pc[p] \in {"pages", "clear"} /\ pc'[p] = "merge" /\ toRead[p] = {}
      /\ \A q \in Polls \ {p} : pc'[q] = pc[q]
      /\ pollsSinceFullRead' = IF forceFull[p] THEN 0 ELSE pollsSinceFullRead + 1
  BY DEF PollNothingToClear, PollClear, PollCount, countVars, StaleInv, CycleInv, TypeOK, ShapeInv
<1>2. \A q \in Polls \ {p} : pc[q] = "idle" /\ pc'[q] = "idle"
  BY <1>1, OthersIdle DEF StaleInv, CycleInv
<1>3. ~NoneMerging' /\ NoneMerging
  BY <1>1, <1>2 DEF NoneMerging
<1>4. ASSUME NEW r \in Ranges PROVE PollLag(p, r)'
  <2>1. lag[r] <= Earlier + SinceFull + 1 /\ PollLag(p, r)
    BY <1>3 DEF StaleInv, LagInv
  <2>2. Earlier' = Earlier
    BY <1>1 DEF Earlier
  <2>3. CASE forceFull[p]
    <3>1. lag[r] <= Earlier + FullReadInterval + 1
      BY <2>1, Bounds DEF StaleInv, CycleInv
    <3>2. lag[r] = 0 \/ result[p][r] # cached[r]
      BY <1>1, <2>1, <2>3 DEF PollLag, UnderWay
    <3>3. QED
      BY <1>1, <2>2, <2>3, <3>1, <3>2 DEF PollLag, UnderWay
  <2>4. CASE ~forceFull[p]
    <3>1. pollsSinceFullRead < FullReadInterval \/ lag[r] = 0
      BY <1>1, <2>1, <2>4 DEF PollLag, UnderWay
    <3>2. pollsSinceFullRead' = pollsSinceFullRead + 1
      BY <1>1, <2>4
    <3>3. lag[r] <= Earlier + SinceFull'
      BY <2>1, <3>1, <3>2, Bounds DEF StaleInv, CycleInv, SinceFull
    <3>4. QED
      BY <1>1, <2>2, <2>4, <3>3 DEF PollLag, UnderWay
  <2>5. QED
    BY <2>3, <2>4
<1>5. QED
  BY <1>2, <1>3, <1>4, LagOne

LEMMA ToClearLag ==
    ASSUME StaleInv, NEW p \in Polls, PollToClear(p) PROVE LagInv'
<1>1. /\ UNCHANGED <<cached, pollsSinceFullRead, lag, cancels, forceFull, toRead, result>>
      /\ pc[p] = "pages" /\ pc'[p] = "clear"
      /\ \A q \in Polls \ {p} : pc'[q] = pc[q]
  BY DEF PollToClear, countVars, StaleInv, CycleInv, TypeOK
<1>2. NoneMerging' => NoneMerging
  BY <1>1 DEF NoneMerging
<1>3. ASSUME NEW r \in Ranges, NEW q \in Polls PROVE PollLag(q, r)'
  BY <1>1, <1>3 DEF StaleInv, LagInv, PollLag, UnderWay, Earlier, SinceFull
<1>4. QED
  BY <1>1, <1>2, <1>3 DEF StaleInv, LagInv, Earlier, SinceFull

(* A merge adds at most one, and a full one nothing to what lagged before. *)
LEMMA MergeLag ==
    ASSUME StaleInv, OneAtATime, OneAtATime', NEW p \in Polls, PollMerge(p) PROVE LagInv'
<1>1. /\ UNCHANGED <<pollsSinceFullRead, cancels>>
      /\ pc[p] = "merge" /\ pc'[p] = "idle" /\ cached' = result[p]
      /\ \A q \in Polls \ {p} : pc'[q] = pc[q]
  BY ReturnLocals DEF PollMerge, countVars, StaleInv, CycleInv
<1>2. \A q \in Polls \ {p} : pc[q] = "idle" /\ pc'[q] = "idle"
  BY <1>1, OthersIdle DEF StaleInv, CycleInv
<1>3. ASSUME NEW r \in Ranges
      PROVE  lag'[r] <= (Earlier + SinceFull + 1)' /\ PollLag(p, r)'
  <2>1. lag'[r] \in {0, 1} \/ (cached'[r] = cached[r] /\ lag'[r] \in {lag[r], lag[r] + 1})
    BY DEF PollMerge
  <2>2. PollLag(p, r)
    BY DEF StaleInv, LagInv
  <2>3. lag[r] <= Earlier + SinceFull \/ (lag[r] = 0 \/ cached'[r] # cached[r])
    BY <1>1, <2>2 DEF PollLag
  <2>4. lag'[r] <= Earlier + SinceFull + 1
    BY <2>1, <2>3, Bounds DEF StaleInv, CycleInv
  <2>5. QED
    BY <1>1, <2>4 DEF PollLag, UnderWay, Earlier, SinceFull
<1>4. QED
  BY <1>2, <1>3, LagOne

LEMMA FailLag ==
    ASSUME StaleInv, OneAtATime, OneAtATime', NEW p \in Polls, PollFail(p) PROVE LagInv'
<1>1. /\ UNCHANGED <<cached, pollsSinceFullRead, lag, cancels>>
      /\ pc[p] = "pages" /\ pc'[p] = "idle"
      /\ \A q \in Polls \ {p} : pc'[q] = pc[q]
  BY ReturnLocals DEF PollFail, StaleInv, CycleInv
<1>2. \A q \in Polls \ {p} : pc[q] = "idle" /\ pc'[q] = "idle"
  BY <1>1, OthersIdle DEF StaleInv, CycleInv
<1>3. NoneMerging
  BY <1>1, <1>2 DEF NoneMerging
<1>4. \A r \in Ranges : lag'[r] <= (Earlier + SinceFull + 1)' /\ PollLag(p, r)'
  BY <1>1, <1>3 DEF StaleInv, LagInv, PollLag, UnderWay, Earlier, SinceFull
<1>5. QED
  BY <1>2, <1>4, LagOne

(* What the poll has read is lost: a round more for everything.            *)
LEMMA CancelLag ==
    ASSUME StaleInv, OneAtATime, OneAtATime', NEW p \in Polls, PollCancel(p) PROVE LagInv'
<1>1. /\ UNCHANGED <<cached, pollsSinceFullRead, lag>> /\ cancels' = cancels + 1
      /\ pc[p] # "idle" /\ pc'[p] = "idle"
      /\ \A q \in Polls \ {p} : pc'[q] = pc[q]
  BY ReturnLocals DEF PollCancel, StaleInv, CycleInv
<1>2. \A q \in Polls \ {p} : pc[q] = "idle" /\ pc'[q] = "idle"
  BY <1>1, OthersIdle DEF StaleInv, CycleInv
<1>3. Earlier' = Earlier + FullReadInterval + 1 /\ SinceFull' = SinceFull
  BY <1>1, Round, Bounds DEF StaleInv, CycleInv, TypeOK, Earlier, SinceFull
<1>4. ASSUME NEW r \in Ranges
      PROVE  lag'[r] <= Earlier' + SinceFull' + 1 /\ PollLag(p, r)'
  <2>1. (NoneMerging => lag[r] <= Earlier + SinceFull + 1) /\ PollLag(p, r)
    BY DEF StaleInv, LagInv
  <2>2. NoneMerging \/ pc[p] = "merge"
    BY <1>2 DEF NoneMerging
  <2>3. lag[r] <= Earlier + SinceFull + FullReadInterval + 1
    BY <2>1, <2>2, Bounds DEF PollLag, StaleInv, CycleInv
  <2>4. lag'[r] <= Earlier' + SinceFull' + 1
    BY <1>1, <1>3, <2>3, Bounds DEF StaleInv, CycleInv
  <2>5. PollLag(p, r)'
    BY <1>1 DEF PollLag, UnderWay
  <2>6. QED
    BY <2>4, <2>5
<1>5. QED
  BY <1>2, <1>4, LagOne

LEMMA CloseLag == StaleInv /\ Close => LagInv'
<1> SUFFICES ASSUME StaleInv, Close, NEW r \in Ranges
             PROVE  lag'[r] <= Earlier' + SinceFull' + 1 /\ \A p \in Polls : PollLag(p, r)'
  BY DEF LagInv
<1>1. lag'[r] = 0
  BY DEF Close, Nothing
<1>2. Earlier' = Earlier /\ SinceFull' = FullReadInterval
  BY IntervalAssumption DEF Close, Earlier, SinceFull
<1>3. /\ lag'[r] <= Earlier' + SinceFull' + 1
      /\ lag'[r] <= Earlier' + SinceFull'
      /\ lag'[r] <= Earlier' + FullReadInterval + 1
  BY <1>1, <1>2, Bounds DEF StaleInv, CycleInv
<1>4. ASSUME NEW p \in Polls PROVE PollLag(p, r)'
  BY <1>1, <1>3 DEF PollLag, UnderWay
<1>5. QED
  BY <1>3, <1>4

LEMMA NextStale == StaleInv /\ OneAtATime /\ OneAtATime' /\ [Next]_vars => StaleInv'
<1> SUFFICES ASSUME StaleInv, OneAtATime, OneAtATime', [Next]_vars PROVE StaleInv'
  OBVIOUS
<1>1. CycleInv'
  BY NextCycle DEF StaleInv
<1>2. CASE UNCHANGED vars
  BY <1>1, <1>2, LagFrame DEF StaleInv, vars, pollVars, countVars
<1>3. ASSUME NEW r \in Ranges, RangeChange(r) PROVE LagInv'
  BY <1>3, LagFrame DEF StaleInv, RangeChange, pollVars, countVars
<1>4. ASSUME NEW p \in Polls, PollStep(p) PROVE LagInv'
  BY <1>4, MeasureLag, ReadRangeLag, CountLagged, ToClearLag, MergeLag DEF PollStep
<1>5. QED
  BY <1>1, <1>2, <1>3, <1>4, FailLag, CancelLag, CloseLag DEF StaleInv, Next

(* However the firmware flags its changes, and whatever requests fail, the *)
(* cache lacks a change for no more than FullReadInterval + 1 merged polls *)
(* and as many again per cancelled poll, as long as polls do not overlap.  *)
THEOREM StalenessBounded == Spec /\ []OneAtATime => []BoundedStaleness
<1>1. Init => StaleInv
  <2> SUFFICES ASSUME Init PROVE LagInv
    BY InitCycle DEF StaleInv
  <2>1. TypeOK /\ Earlier \in Nat /\ SinceFull \in Nat
    BY InitType, Bounds
  <2>2. QED
    BY <2>1 DEF Init, Nothing, LagInv, PollLag, UnderWay
<1>2. ASSUME StaleInv PROVE BoundedStaleness
  <2> SUFFICES ASSUME NEW r \in Ranges PROVE lag[r] <= Earlier + FullReadInterval + 1
    <3>1. cancels \in Nat /\ FullReadInterval \in Nat
      BY <1>2, Bounds DEF StaleInv, CycleInv, TypeOK
    <3>2. (FullReadInterval + 1) * (cancels + 1) = Earlier + FullReadInterval + 1
      BY <3>1, Round DEF Earlier
    <3>3. QED
      BY <3>2 DEF BoundedStaleness
  <2>1. CASE NoneMerging
    BY <1>2, <2>1, Bounds DEF StaleInv, CycleInv, LagInv
  <2>2. CASE ~NoneMerging
    <3>1. PICK p \in Polls : pc[p] = "merge"
      BY <2>2 DEF NoneMerging
    <3>2. PollLag(p, r)
      BY <1>2 DEF StaleInv, LagInv
    <3>3. QED
      BY <1>2, <3>1, <3>2, Bounds DEF PollLag, StaleInv, CycleInv
  <2>3. QED
    BY <2>1, <2>2
<1>3. StaleInv => BoundedStaleness
  BY <1>2
<1>4. QED
  BY <1>1, <1>3, NextStale, PTL DEF Spec

-----------------------------------------------------------------------------
(* Type correctness of TimerCache                                          *)

LEMMA NoTimersType == NoTimers \in [Timers -> Nat]
BY DEF NoTimers

LEMMA TimersInitType == TimersInit => TimersTypes
<1> SUFFICES ASSUME TimersInit PROVE TimersTypeOK
  BY InitType DEF TimersInit, TimersTypes
<1>1. blocks \in [Timers -> Nat]
  BY DEF TimersInit
<1>2. QED
  BY <1>1, NoTimersType DEF TimersInit, TimersTypeOK

LEMMA CountLagType ==
    ASSUME TimersTypeOK, timerLag' = [t \in Timers |-> CountLag(t)]
    PROVE  timerLag' \in [Timers -> Nat]
BY DEF TimersTypeOK, CountLag

LEMMA BlockChangeType == ASSUME TimersTypes, NEW t \in Timers, BlockChange(t) PROVE TimersTypes'
<1>1. TypeOK'
  BY InstallerAssumption DEF TimersTypes, TypeOK, BlockChange, pollVars, countVars
<1>2. blocks' \in [Timers -> Nat]
  BY DEF TimersTypes, TimersTypeOK, BlockChange
<1>3. QED
  BY <1>1, <1>2 DEF TimersTypes, TimersTypeOK, BlockChange, lastVars, timersKept, readVars

LEMMA TimedPollType == ASSUME TimersTypes, NEW p \in Polls, TimedPoll(p) PROVE TimersTypes'
<1>1. TypeOK'
  BY StepType, FailType, CancelType DEF TimedPoll, TimersTypes
<1>2. turn' \in {"poll", "timers"}
  BY DEF TimedPoll
<1>3. lastNotification' \subseteq Pages /\ lastWasFullRead' \in BOOLEAN
  BY DEF TimedPoll, RecordPoll, lastVars, TimersTypes, TypeOK, TimersTypeOK
<1>4. QED
  BY <1>1, <1>2, <1>3 DEF TimersTypes, TimersTypeOK, TimedPoll, timersKept, readVars

(* A step of read_all_timers leaves everything of the poll alone.          *)
LEMMA PollFrame ==
    ASSUME UNCHANGED pollCycleVars
    PROVE  /\ TypeOK => TypeOK'
           /\ UNCHANGED <<pollsSinceFullRead, pc, forceFull, failures, cancels, closes>>
BY DEF pollCycleVars, vars, deviceVars, pollVars, countVars, TypeOK

LEMMA ReadStepType == TimersTypes /\ ReadStep => TimersTypes'
<1> SUFFICES ASSUME TimersTypes, ReadStep PROVE TimersTypes'
  OBVIOUS
<1>1. TypeOK'
  BY PollFrame DEF ReadStep, TimersFromCache, TimersStart, TimersDone, TimerReuse, TimerRead,
                   TimersTypes
<1>2. CASE TimersFromCache
  BY <1>1, <1>2, CountLagType
  DEF TimersFromCache, TimersTypes, TimersTypeOK, lastVars, timersKept, readVars
<1>3. CASE TimersStart
  <2>1. /\ forced' \subseteq Timers /\ pending' \subseteq Timers
        /\ readPc' = "reading" /\ canUseCache' \in BOOLEAN
    BY <1>3, AskedAssumption DEF TimersStart, Unchanged
  <2>2. QED
    BY <1>1, <1>3, <2>1 DEF TimersStart, TimersTypes, TimersTypeOK, lastVars, timersKept
<1>4. CASE TimersDone
  <2>1. cachedTimers' \in [Timers -> Nat] /\ cachedIn' \in [Timers -> Nat]
    BY <1>4 DEF TimersDone, TimersTypes, TimersTypeOK
  <2>2. timerLag' \in [Timers -> Nat]
    BY <1>4, CountLagType DEF TimersDone, TimersTypes
  <2>3. QED
    BY <1>1, <1>4, <2>1, <2>2, NoTimersType
    DEF TimersDone, Returned, TimersTypes, TimersTypeOK, lastVars
<1>5. ASSUME NEW t \in Timers, TimerReuse(t) PROVE TimersTypes'
  BY <1>1, <1>5 DEF TimerReuse, TimersTypes, TimersTypeOK, lastVars, timersKept
<1>6. ASSUME NEW t \in Timers, TimerRead(t) PROVE TimersTypes'
  BY <1>1, <1>6 DEF TimerRead, TimersTypes, TypeOK, TimersTypeOK, lastVars, timersKept
<1>7. QED
  BY <1>2, <1>3, <1>4, <1>5, <1>6 DEF ReadStep

LEMMA ReadFailsType ==
    ASSUME TimersTypes, NEW t \in Timers, TimerReadFails(t) PROVE TimersTypes'
BY PollFrame DEF TimerReadFails, TimersTypes, TimersTypeOK, lastVars, timersKept

LEMMA TimersRaiseType == TimersTypes /\ TimersRaise => TimersTypes'
<1> SUFFICES ASSUME TimersTypes, TimersRaise PROVE TimersTypes'
  OBVIOUS
<1>1. TypeOK'
  BY PollFrame DEF TimersRaise, TimersTypes
<1>2. /\ losses' \in Nat /\ timers' \in [Timers -> Nat] /\ readIn' \in [Timers -> Nat]
      /\ UNCHANGED <<blocks, lastNotification, lastWasFullRead, cachedTimers, cachedIn, timerLag>>
  BY NoTimersType DEF TimersRaise, Returned, TimersTypes, TimersTypeOK, lastVars, timersKept
<1>3. QED
  BY <1>1, <1>2 DEF TimersRaise, Returned, TimersTypes, TimersTypeOK

LEMMA CloseAllType == TimersTypes /\ CloseAll => TimersTypes'
BY CloseType, NoTimersType DEF CloseAll, TimersTypes, TimersTypeOK, readVars

LEMMA TimersNextType == TimersTypes /\ [TimersNext]_allVars => TimersTypes'
<1> SUFFICES ASSUME TimersTypes, [TimersNext]_allVars PROVE TimersTypes'
  OBVIOUS
<1>1. CASE UNCHANGED allVars
  BY <1>1, PollFrame DEF allVars, timerVars, lastVars, timersKept, readVars, TimersTypes, TimersTypeOK
<1>2. QED
  BY <1>1, BlockChangeType, TimedPollType, ReadStepType, ReadFailsType, TimersRaiseType,
     CloseAllType DEF TimersNext

(* The variables of read_all_timers and of what it keeps are what they     *)
(* should be.                                                              *)
THEOREM TimerTypes == TimersSpec => []TimersTypeOK
<1>1. TimersTypes => TimersTypeOK
  BY DEF TimersTypes
<1>2. QED
  BY <1>1, TimersInitType, TimersNextType, PTL DEF TimersSpec

-----------------------------------------------------------------------------
(* The host's turns, and the versions of the blocks                        *)

(* A step of a poll is a step of that poll alone, and starts or ends with  *)
(* it under way.                                                           *)
LEMMA OnePollMoves ==
    ASSUME TypeOK, NEW p \in Polls, PollStep(p) \/ PollFail(p) \/ PollCancel(p)
    PROVE  /\ \A q \in Polls \ {p} : pc'[q] = pc[q]
           /\ pc[p] # "idle" \/ pc'[p] # "idle"
           /\ pc[p] = "merge" \/ PollFail(p) \/ PollCancel(p) => pc'[p] = "idle"
<1>1. CASE PollMerge(p) \/ PollFail(p) \/ PollCancel(p)
  BY <1>1, ReturnLocals DEF PollMerge, PollFail, PollCancel
<1>2. CASE ~(PollMerge(p) \/ PollFail(p) \/ PollCancel(p))
  BY <1>2 DEF PollStep, PollMeasure, PollReadRange, PollNothingToClear, PollToClear, PollClear,
              PollCount, TypeOK
<1>3. QED
  BY <1>1, <1>2

LEMMA TimedPollTurns ==
    ASSUME TimersIInv, OneAtATime, OneAtATime', NEW p \in Polls, TimedPoll(p)
    PROVE  /\ turn = "poll" /\ readPc = "idle" /\ readPc' = "idle"
           /\ \A q \in Polls \ {p} : pc[q] = "idle" /\ pc'[q] = "idle"
           /\ turn' = "timers" => pc'[p] = "idle"
<1>1. \A q \in Polls \ {p} : pc[q] = "idle" /\ pc'[q] = "idle"
  BY OnePollMoves, OthersIdle DEF TimedPoll, TimersIInv, TimersTypes
<1>2. turn = "poll" /\ UNCHANGED readPc
  BY DEF TimedPoll, readVars
<1>3. readPc = "idle"
  BY <1>2 DEF TimersIInv, TimersTypes, TimersTypeOK, TurnInv
<1>4. turn' = "timers" => pc'[p] = "idle"
  BY OnePollMoves DEF TimedPoll, TimersIInv, TimersTypes
<1>5. QED
  BY <1>1, <1>2, <1>3, <1>4

(* The count goes up by one at most, and only while the cached block stays.*)
LEMMA CountLagStep ==
    ASSUME TimersTypeOK, NEW t \in Timers, timerLag'[t] = CountLag(t)
    PROVE  /\ timerLag'[t] > 0 => cachedTimers'[t] # blocks[t]
           /\ \/ timerLag'[t] \in {0, 1}
              \/ cachedTimers'[t] = cachedTimers[t] /\ timerLag'[t] \in {timerLag[t], timerLag[t] + 1}
BY DEF CountLag

LEMMA InitIInv == TimersInit => TimersIInv
BY TimersInitType DEF TimersInit, Init, NoTimers, TimersIInv, BlockInv, TurnInv

LEMMA BlockChangeIInv ==
    ASSUME TimersIInv, NEW t \in Timers, BlockChange(t) PROVE TimersIInv'
<1>1. TimersTypes'
  BY BlockChangeType DEF TimersIInv
<1>2. \A u \in Timers : blocks'[u] = blocks[u] \/ blocks'[u] = blocks[u] + 1
  BY DEF BlockChange, TimersIInv, TimersTypes, TimersTypeOK
<1>3. BlockInv'
  BY <1>2 DEF BlockChange, readVars, timersKept, TimersIInv, TimersTypes, TimersTypeOK, BlockInv
<1>4. TurnInv'
  BY DEF BlockChange, pollVars, readVars, TimersIInv, TurnInv
<1>5. QED
  BY <1>1, <1>3, <1>4 DEF TimersIInv

LEMMA TimedPollIInv ==
    ASSUME TimersIInv, OneAtATime, OneAtATime', NEW p \in Polls, TimedPoll(p) PROVE TimersIInv'
<1>1. TimersTypes'
  BY TimedPollType DEF TimersIInv
<1>2. BlockInv'
  BY DEF TimedPoll, timersKept, readVars, TimersIInv, BlockInv
<1>3. TurnInv'
  BY TimedPollTurns DEF TimedPoll, readVars, TimersIInv, TurnInv
<1>4. QED
  BY <1>1, <1>2, <1>3 DEF TimersIInv

LEMMA FromCacheIInv == TimersIInv /\ TimersFromCache => TimersIInv'
<1> SUFFICES ASSUME TimersIInv, TimersFromCache PROVE TimersIInv'
  OBVIOUS
<1>1. TimersTypes'
  BY ReadStepType DEF ReadStep, TimersIInv
<1>2. BlockInv'
  <2> SUFFICES ASSUME NEW t \in Timers, timerLag'[t] > 0 PROVE cachedTimers'[t] < blocks[t]
    BY DEF TimersFromCache, timersKept, readVars, TimersIInv, BlockInv
  <2>1. timerLag'[t] = CountLag(t) /\ cachedTimers' = cachedTimers
    BY DEF TimersFromCache, timersKept
  <2>2. cachedTimers'[t] # blocks[t]
    BY <2>1, CountLagStep DEF TimersIInv, TimersTypes
  <2>3. QED
    BY <2>1, <2>2 DEF TimersIInv, TimersTypes, TimersTypeOK, BlockInv
<1>3. TurnInv'
  BY PollFrame DEF TimersFromCache, readVars, TimersIInv, TurnInv
<1>4. QED
  BY <1>1, <1>2, <1>3 DEF TimersIInv

LEMMA StartIInv == TimersIInv /\ TimersStart => TimersIInv'
<1> SUFFICES ASSUME TimersIInv, TimersStart PROVE TimersIInv'
  OBVIOUS
<1>1. TimersTypes'
  BY ReadStepType DEF ReadStep, TimersIInv
<1>2. BlockInv'
  BY DEF TimersStart, timersKept, TimersIInv, BlockInv
<1>3. TurnInv'
  BY PollFrame DEF TimersStart, TimersIInv, TurnInv
<1>4. QED
  BY <1>1, <1>2, <1>3 DEF TimersIInv

(* A block is answered from the cache, read, or given up.                  *)
LEMMA PendingIInv ==
    ASSUME TimersIInv, NEW t \in Timers, TimerReuse(t) \/ TimerRead(t) \/ TimerReadFails(t)
    PROVE  TimersIInv'
<1>1. TimersTypes'
  BY ReadStepType, ReadFailsType DEF ReadStep, TimersIInv
<1>2. /\ UNCHANGED <<blocks, cachedTimers, timerLag, turn, readPc>> /\ UNCHANGED pollCycleVars
      /\ \A u \in Timers \ {t} : timers'[u] = timers[u]
      /\ timers'[t] \in {cachedTimers[t], blocks[t], timers[t]}
  BY DEF TimerReuse, TimerRead, TimerReadFails, timersKept, TimersIInv, TimersTypes, TimersTypeOK
<1>3. readPc = "reading"
  BY DEF TimerReuse, TimerRead, TimerReadFails, TimersIInv, TimersTypes, TimersTypeOK, TurnInv
<1>4. BlockInv'
  BY <1>2 DEF TimersIInv, TimersTypes, TimersTypeOK, BlockInv
<1>5. TurnInv'
  BY <1>2, <1>3, PollFrame DEF TimersIInv, TurnInv
<1>6. QED
  BY <1>1, <1>4, <1>5 DEF TimersIInv

LEMMA DoneIInv == TimersIInv /\ TimersDone => TimersIInv'
<1> SUFFICES ASSUME TimersIInv, TimersDone PROVE TimersIInv'
  OBVIOUS
<1>1. TimersTypes'
  BY ReadStepType DEF ReadStep, TimersIInv
<1>2. BlockInv'
  <2> SUFFICES ASSUME NEW t \in Timers
               PROVE  /\ 1 <= blocks[t] /\ cachedTimers'[t] <= blocks[t] /\ timers'[t] <= blocks[t]
                      /\ timerLag'[t] > 0 => cachedTimers'[t] < blocks[t]
    BY DEF TimersDone, BlockInv
  <2>1. timerLag'[t] = CountLag(t) /\ cachedTimers'[t] \in {timers[t], cachedTimers[t]}
    BY DEF TimersDone
  <2>2. timerLag'[t] > 0 => cachedTimers'[t] # blocks[t]
    BY <2>1, CountLagStep DEF TimersIInv, TimersTypes
  <2>3. timers'[t] = 0
    BY DEF TimersDone, Returned, NoTimers
  <2>4. QED
    BY <2>1, <2>2, <2>3 DEF TimersIInv, TimersTypes, TimersTypeOK, BlockInv
<1>3. TurnInv'
  BY PollFrame DEF TimersDone, Returned, TimersIInv, TurnInv
<1>4. QED
  BY <1>1, <1>2, <1>3 DEF TimersIInv

LEMMA RaiseIInv == TimersIInv /\ TimersRaise => TimersIInv'
<1> SUFFICES ASSUME TimersIInv, TimersRaise PROVE TimersIInv'
  OBVIOUS
<1>1. TimersTypes'
  BY TimersRaiseType DEF TimersIInv
<1>2. BlockInv'
  BY DEF TimersRaise, Returned, NoTimers, timersKept, TimersIInv, TimersTypes, TimersTypeOK, BlockInv
<1>3. TurnInv'
  BY DEF TimersRaise, Returned, TurnInv
<1>4. QED
  BY <1>1, <1>2, <1>3 DEF TimersIInv

LEMMA CloseAllIInv == TimersIInv /\ CloseAll => TimersIInv'
<1> SUFFICES ASSUME TimersIInv, CloseAll PROVE TimersIInv'
  OBVIOUS
<1>1. TimersTypes'
  BY CloseAllType DEF TimersIInv
<1>2. BlockInv'
  BY DEF CloseAll, NoTimers, readVars, TimersIInv, TimersTypes, TimersTypeOK, BlockInv
<1>3. TurnInv'
  BY DEF CloseAll, Close, pollVars, readVars, TimersIInv, TurnInv
<1>4. QED
  BY <1>1, <1>2, <1>3 DEF TimersIInv

LEMMA TimersNextIInv ==
    TimersIInv /\ OneAtATime /\ OneAtATime' /\ [TimersNext]_allVars => TimersIInv'
<1> SUFFICES ASSUME TimersIInv, OneAtATime, OneAtATime', [TimersNext]_allVars PROVE TimersIInv'
  OBVIOUS
<1>1. CASE UNCHANGED allVars
  <2>1. TimersTypes'
    BY <1>1, TimersNextType DEF TimersIInv
  <2>2. QED
    BY <1>1, <2>1, PollFrame
    DEF allVars, timerVars, timersKept, readVars, TimersIInv, BlockInv, TurnInv
<1>2. QED
  BY <1>1, BlockChangeIInv, TimedPollIInv, FromCacheIInv, StartIInv, PendingIInv, DoneIInv,
     RaiseIInv, CloseAllIInv DEF TimersNext, ReadStep

-----------------------------------------------------------------------------
(* TimerStaleness                                                          *)

LEMMA Asked == ASSUME NEW t \in AlwaysAsked PROVE t \in Timers
BY DEF AlwaysAsked

LEMMA TimerBounds ==
    ASSUME TimersTypes
    PROVE  /\ FullReadInterval \in Nat /\ pollsSinceFullRead \in Nat
           /\ losses \in Nat /\ cancels \in Nat /\ failures \in Nat
           /\ EarlierCalls \in Nat
           /\ SinceFull \in Nat /\ SinceFull <= FullReadInterval
           /\ pollsSinceFullRead < FullReadInterval => SinceFull = pollsSinceFullRead
           /\ \A t \in AlwaysAsked : timerLag[t] \in Nat
<1>1. FullReadInterval \in Nat /\ losses \in Nat /\ cancels \in Nat /\ failures \in Nat
  BY IntervalAssumption DEF TimersTypes, TypeOK, TimersTypeOK
<1>2. EarlierCalls \in Nat
  BY <1>1, Round DEF EarlierCalls
<1>3. QED
  BY <1>1, <1>2, Bounds, Asked DEF TimersTypes, TimersTypeOK

(* Every loss, cancellation or failure makes room.                         *)
LEMMA MoreCalls ==
    ASSUME TimersTypes
    PROVE  /\ UNCHANGED <<losses, cancels, failures>> => EarlierCalls' = EarlierCalls
           /\ losses' = losses + 1 /\ UNCHANGED <<cancels, failures>> =>
                EarlierCalls' = EarlierCalls + FullReadInterval + 1
           /\ cancels' = cancels + 1 /\ UNCHANGED <<losses, failures>> =>
                EarlierCalls' = EarlierCalls + FullReadInterval + 1
           /\ failures' = failures + 1 /\ UNCHANGED <<losses, cancels>> =>
                EarlierCalls' = EarlierCalls + 1
<1>1. /\ FullReadInterval \in Nat /\ losses \in Nat /\ cancels \in Nat /\ failures \in Nat
      /\ losses + cancels \in Nat
  BY TimerBounds
<1> DEFINE f(c) == (FullReadInterval + 1) * c
<1>2. f(losses + cancels) \in Nat
      /\ f((losses + cancels) + 1) = f(losses + cancels) + FullReadInterval + 1
  BY <1>1, Round
<1>3. EarlierCalls = f(losses + cancels) + failures
  BY DEF EarlierCalls
<1>4. EarlierCalls' = f(losses' + cancels') + failures'
  BY DEF EarlierCalls
<1> HIDE DEF f
<1>5. /\ losses + (cancels + 1) = (losses + cancels) + 1
      /\ (losses + 1) + cancels = (losses + cancels) + 1
  BY <1>1
<1>6. ASSUME UNCHANGED <<losses, cancels, failures>> PROVE EarlierCalls' = EarlierCalls
  BY <1>3, <1>4, <1>6
<1>7. ASSUME losses' = losses + 1, UNCHANGED <<cancels, failures>>
      PROVE  EarlierCalls' = EarlierCalls + FullReadInterval + 1
  <2>1. EarlierCalls' = f((losses + cancels) + 1) + failures
    BY <1>4, <1>5, <1>7
  <2>2. QED
    BY <1>1, <1>2, <1>3, <2>1
<1>8. ASSUME cancels' = cancels + 1, UNCHANGED <<losses, failures>>
      PROVE  EarlierCalls' = EarlierCalls + FullReadInterval + 1
  <2>1. EarlierCalls' = f((losses + cancels) + 1) + failures
    BY <1>4, <1>5, <1>8
  <2>2. QED
    BY <1>1, <1>2, <1>3, <2>1
<1>9. ASSUME failures' = failures + 1, UNCHANGED <<losses, cancels>>
      PROVE  EarlierCalls' = EarlierCalls + 1
  BY <1>1, <1>2, <1>3, <1>4, <1>9
<1>10. QED
  BY <1>6, <1>7, <1>8, <1>9

(* While it is the polls' turn only the one poll under way counts.         *)
LEMMA TimedPollOne ==
    ASSUME TimersStaleInv, OneAtATime, OneAtATime', NEW p \in Polls, TimedPoll(p),
           NEW t \in AlwaysAsked,
           turn' = "poll" /\ NoneMerging' => timerLag'[t] <= EarlierCalls' + SinceFull' + 1,
           UnderWay(p)' /\ ~forceFull'[p] =>
             pollsSinceFullRead' < FullReadInterval \/ timerLag'[t] = 0,
           turn' = "timers" \/ ~NoneMerging' => AfterPoll(t)'
    PROVE  TimerLagOK(t)'
<1>1. readPc' = "idle" /\ \A q \in Polls \ {p} : pc'[q] = "idle"
  BY TimedPollTurns DEF TimersStaleInv
<1>2. ASSUME NEW q \in Polls, UnderWay(q)', ~forceFull'[q]
      PROVE  pollsSinceFullRead' < FullReadInterval \/ timerLag'[t] = 0
  BY <1>1, <1>2 DEF UnderWay
<1>3. QED
  BY <1>1, <1>2 DEF TimerLagOK

(* What a poll that returns or starts leaves of the lag.                   *)
LEMMA TimedPollBefore ==
    ASSUME TimersStaleInv, OneAtATime, OneAtATime', NEW p \in Polls, TimedPoll(p),
           NEW t \in AlwaysAsked
    PROVE  /\ UNCHANGED <<timerLag, losses>> /\ turn = "poll"
           /\ pc[p] # "merge" => NoneMerging /\ timerLag[t] <= EarlierCalls + SinceFull + 1
           /\ pc[p] = "merge" => ~NoneMerging /\ AfterPoll(t)
           /\ pc'[p] # "merge" => NoneMerging'
<1>1. \A q \in Polls \ {p} : pc[q] = "idle" /\ pc'[q] = "idle"
  BY TimedPollTurns DEF TimersStaleInv
<1>2. turn = "poll" /\ UNCHANGED <<timerLag, losses>> /\ TimerLagOK(t)
  BY DEF TimedPoll, TimersStaleInv, TimerLagInv
<1>3. QED
  BY <1>1, <1>2 DEF NoneMerging, TimerLagOK

LEMMA MeasureTimerLag ==
    ASSUME TimersStaleInv, OneAtATime, OneAtATime', NEW p \in Polls, TimedPoll(p), PollMeasure(p),
           NEW t \in AlwaysAsked
    PROVE  TimerLagOK(t)'
<1>1. /\ pc[p] = "idle" /\ pc'[p] = "pages"
      /\ UNCHANGED <<pollsSinceFullRead, failures, cancels>>
      /\ forceFull'[p] <=> pollsSinceFullRead >= FullReadInterval
  BY DEF PollMeasure, countVars, TimersStaleInv, TimersIInv, TimersTypes, TypeOK
<1>2. turn' = "poll"
  BY <1>1 DEF TimedPoll, PollFail, PollCancel
<1>3. NoneMerging' /\ UNCHANGED timerLag /\ timerLag[t] <= EarlierCalls + SinceFull + 1
  BY <1>1, TimedPollBefore
<1>4. EarlierCalls' = EarlierCalls /\ SinceFull' = SinceFull
  BY <1>1, <1>3, MoreCalls, TimedPollBefore DEF SinceFull, TimersStaleInv, TimersIInv
<1>5. ~forceFull'[p] => pollsSinceFullRead' < FullReadInterval
  <2>1. pollsSinceFullRead \in Nat /\ FullReadInterval \in Nat
    BY TimerBounds DEF TimersStaleInv, TimersIInv
  <2>2. QED
    BY <1>1, <2>1
<1>6. timerLag'[t] <= EarlierCalls' + SinceFull' + 1
  BY <1>3, <1>4
<1>7. QED
  BY <1>2, <1>3, <1>5, <1>6, TimedPollOne

LEMMA UnderWayTimerLag ==
    ASSUME TimersStaleInv, OneAtATime, OneAtATime', NEW p \in Polls, TimedPoll(p),
           PollReadRange(p) \/ PollToClear(p),
           NEW t \in AlwaysAsked
    PROVE  TimerLagOK(t)'
<1>1. /\ pc[p] = "pages" /\ pc'[p] \in {"pages", "clear"}
      /\ UNCHANGED <<pollsSinceFullRead, failures, cancels, forceFull>>
  BY DEF PollReadRange, PollToClear, countVars, TimersStaleInv, TimersIInv, TimersTypes, TypeOK
<1>2. turn' = "poll"
  <2>1. pc'[p] # "idle"
    BY <1>1
  <2>2. QED
    BY <1>1, <2>1, TimedPollTurns DEF TimedPoll, TimersStaleInv
<1>3. NoneMerging' /\ UNCHANGED timerLag /\ timerLag[t] <= EarlierCalls + SinceFull + 1
  BY <1>1, TimedPollBefore
<1>4. EarlierCalls' = EarlierCalls /\ SinceFull' = SinceFull
  BY <1>1, MoreCalls, TimedPollBefore DEF SinceFull, TimersStaleInv, TimersIInv
<1>5. ~forceFull[p] => pollsSinceFullRead < FullReadInterval \/ timerLag[t] = 0
  BY <1>1 DEF TimersStaleInv, TimerLagInv, TimerLagOK, UnderWay
<1>6. timerLag'[t] <= EarlierCalls' + SinceFull' + 1
  BY <1>3, <1>4
<1>7. QED
  BY <1>1, <1>2, <1>3, <1>5, <1>6, TimedPollOne

(* The poll is counted, and what it was is recorded.                       *)
LEMMA CountTimerLag ==
    ASSUME TimersStaleInv, OneAtATime, OneAtATime', NEW p \in Polls, TimedPoll(p),
           PollNothingToClear(p) \/ PollClear(p),
           NEW t \in AlwaysAsked
    PROVE  TimerLagOK(t)'
<1>1. /\ pc[p] \in {"pages", "clear"} /\ pc'[p] = "merge"
      /\ UNCHANGED <<failures, cancels, forceFull>>
      /\ pollsSinceFullRead' = IF forceFull[p] THEN 0 ELSE pollsSinceFullRead + 1
  BY DEF PollNothingToClear, PollClear, PollCount, countVars, TimersStaleInv, TimersIInv,
         TimersTypes, TypeOK
<1>2. lastWasFullRead' = forceFull[p]
  BY <1>1 DEF TimedPoll, RecordPoll
<1>3. UNCHANGED timerLag /\ timerLag[t] <= EarlierCalls + SinceFull + 1
  BY <1>1, TimedPollBefore
<1>4. EarlierCalls' = EarlierCalls
  BY <1>1, MoreCalls, TimedPollBefore DEF TimersStaleInv, TimersIInv
<1>5. ~forceFull[p] => pollsSinceFullRead < FullReadInterval \/ timerLag[t] = 0
  BY <1>1 DEF TimersStaleInv, TimerLagInv, TimerLagOK, UnderWay
<1>6. AfterPoll(t)'
  <2>1. CASE forceFull[p]
    <3>1. timerLag[t] <= EarlierCalls + FullReadInterval + 1
      BY <1>3, TimerBounds DEF TimersStaleInv, TimersIInv
    <3>2. QED
      BY <1>2, <1>3, <1>4, <2>1, <3>1 DEF AfterPoll
  <2>2. CASE ~forceFull[p]
    <3>1. pollsSinceFullRead' = pollsSinceFullRead + 1
      BY <1>1, <2>2
    <3>2. timerLag[t] <= EarlierCalls + SinceFull'
      BY <1>3, <1>5, <2>2, <3>1, TimerBounds DEF TimersStaleInv, TimersIInv, SinceFull
    <3>3. QED
      BY <1>3, <1>4, <3>2 DEF AfterPoll
  <2>3. QED
    BY <2>1, <2>2
<1>7. ~NoneMerging' /\ ~UnderWay(p)'
  BY <1>1 DEF NoneMerging, UnderWay
<1>8. QED
  BY <1>6, <1>7, TimedPollOne

(* The merge itself leaves the counts alone.                               *)
LEMMA MergeTimerLag ==
    ASSUME TimersStaleInv, OneAtATime, OneAtATime', NEW p \in Polls, TimedPoll(p), PollMerge(p),
           NEW t \in AlwaysAsked
    PROVE  TimerLagOK(t)'
<1>1. /\ pc[p] = "merge" /\ pc'[p] = "idle"
      /\ UNCHANGED <<pollsSinceFullRead, failures, cancels>>
  BY ReturnLocals DEF PollMerge, countVars, TimersStaleInv, TimersIInv, TimersTypes
<1>2. UNCHANGED <<timerLag, lastWasFullRead>> /\ AfterPoll(t)
  BY <1>1, TimedPollBefore DEF TimedPoll, RecordPoll, lastVars
<1>3. EarlierCalls' = EarlierCalls /\ SinceFull' = SinceFull
  BY <1>1, MoreCalls, TimedPollBefore DEF SinceFull, TimersStaleInv, TimersIInv
<1>4. AfterPoll(t)'
  BY <1>2, <1>3 DEF AfterPoll
<1>5. turn' = "timers"
  <2>1. ~PollCancel(p) /\ ~PollFail(p)
    BY <1>1, TimerBounds DEF PollCancel, PollFail, TimersStaleInv, TimersIInv
  <2>2. QED
    BY <1>1, <2>1 DEF TimedPoll
<1>6. QED
  BY <1>1, <1>4, <1>5, TimedPollOne DEF UnderWay

(* A poll that fails or is cancelled has made room for what lags.          *)
LEMMA LostPollTimerLag ==
    ASSUME TimersStaleInv, OneAtATime, OneAtATime', NEW p \in Polls, TimedPoll(p),
           PollFail(p) \/ PollCancel(p),
           NEW t \in AlwaysAsked
    PROVE  TimerLagOK(t)'
<1>1. pc'[p] = "idle" /\ UNCHANGED <<pollsSinceFullRead, timerLag>> /\ SinceFull' = SinceFull
  BY OnePollMoves, TimedPollBefore
  DEF PollFail, PollCancel, SinceFull, TimersStaleInv, TimersIInv, TimersTypes
<1>2. timerLag[t] <= EarlierCalls' + SinceFull'
  <2>1. CASE PollFail(p)
    <3>1. EarlierCalls' = EarlierCalls + 1 /\ pc[p] # "merge"
      BY <2>1, MoreCalls, TimedPollBefore DEF PollFail, TimersStaleInv, TimersIInv
    <3>2. timerLag[t] <= EarlierCalls + SinceFull + 1
      BY <3>1, TimedPollBefore
    <3>3. QED
      BY <1>1, <3>1, <3>2, TimerBounds DEF TimersStaleInv, TimersIInv
  <2>2. CASE PollCancel(p)
    <3>1. EarlierCalls' = EarlierCalls + FullReadInterval + 1
      BY <2>2, MoreCalls, TimedPollBefore DEF PollCancel, TimersStaleInv, TimersIInv
    <3>2. timerLag[t] <= EarlierCalls + SinceFull + 1 \/ AfterPoll(t)
      BY TimedPollBefore
    <3>3. timerLag[t] <= EarlierCalls + SinceFull + FullReadInterval + 1
      BY <3>2, TimerBounds DEF AfterPoll, TimersStaleInv, TimersIInv
    <3>4. QED
      BY <1>1, <3>1, <3>3, TimerBounds DEF TimersStaleInv, TimersIInv
  <2>3. QED
    BY <2>1, <2>2
<1>3. AfterPoll(t)'
  BY <1>1, <1>2 DEF AfterPoll
<1>4. timerLag'[t] <= EarlierCalls' + SinceFull' + 1
  <2>1. SinceFull' \in Nat /\ timerLag[t] \in Nat /\ EarlierCalls' \in Nat
    BY <1>1, TimerBounds, MoreCalls, TimedPollBefore
    DEF PollFail, PollCancel, TimersStaleInv, TimersIInv
  <2>2. QED
    BY <1>1, <1>2, <2>1
<1>5. ~UnderWay(p)'
  BY <1>1 DEF UnderWay
<1>6. QED
  BY <1>3, <1>4, <1>5, TimedPollOne

LEMMA TimedPollLag ==
    ASSUME TimersStaleInv, OneAtATime, OneAtATime', NEW p \in Polls, TimedPoll(p)
    PROVE  TimerLagInv'
<1> SUFFICES ASSUME NEW t \in AlwaysAsked PROVE TimerLagOK(t)'
  BY DEF TimerLagInv, AlwaysAsked
<1>1. QED
  BY MeasureTimerLag, UnderWayTimerLag, CountTimerLag, MergeTimerLag, LostPollTimerLag
  DEF TimedPoll, PollStep

(* What the host's own reading leaves alone.                               *)
LEMMA ReadFrame ==
    ASSUME TimersStaleInv, turn = "timers", UNCHANGED pollCycleVars
    PROVE  /\ \A p \in Polls : pc'[p] = "idle"
           /\ NoneMerging' /\ \A p \in Polls : ~UnderWay(p)'
           /\ UNCHANGED <<pollsSinceFullRead, failures, cancels>> /\ SinceFull' = SinceFull
           /\ UNCHANGED losses => EarlierCalls' = EarlierCalls
<1>1. /\ \A p \in Polls : pc[p] = "idle"
      /\ UNCHANGED <<pc, pollsSinceFullRead, failures, cancels>>
  BY PollFrame DEF TimersStaleInv, TimersIInv, TurnInv
<1>2. QED
  BY <1>1, MoreCalls DEF NoneMerging, UnderWay, SinceFull, TimersStaleInv, TimersIInv

LEMMA FromCacheLag == TimersStaleInv /\ TimersFromCache => TimerLagInv'
<1> SUFFICES ASSUME TimersStaleInv, TimersFromCache, NEW t \in AlwaysAsked PROVE TimerLagOK(t)'
  BY DEF TimerLagInv, AlwaysAsked
<1>1. /\ turn = "timers" /\ turn' = "poll" /\ readPc = "idle" /\ readPc' = "idle"
      /\ UNCHANGED <<pollCycleVars, losses>> /\ ~lastWasFullRead
      /\ timerLag'[t] = CountLag(t) /\ t \in Timers
  BY Asked DEF TimersFromCache, Unchanged, readVars
<1>2. timerLag[t] <= EarlierCalls + SinceFull
  BY <1>1 DEF TimersStaleInv, TimerLagInv, TimerLagOK, AfterPoll
<1>3. timerLag'[t] <= EarlierCalls + SinceFull + 1
  BY <1>1, <1>2, CountLagStep, TimerBounds DEF TimersStaleInv, TimersIInv, TimersTypes
<1>4. timerLag'[t] <= EarlierCalls' + SinceFull' + 1
  BY <1>1, <1>3, ReadFrame
<1>5. QED
  BY <1>1, <1>4, ReadFrame DEF TimerLagOK

LEMMA StartLag == TimersStaleInv /\ TimersStart => TimerLagInv'
<1> SUFFICES ASSUME TimersStaleInv, TimersStart, NEW t \in AlwaysAsked PROVE TimerLagOK(t)'
  BY DEF TimerLagInv, AlwaysAsked
<1>1. /\ turn = "timers" /\ turn' = "timers" /\ readPc = "idle" /\ readPc' = "reading"
      /\ UNCHANGED <<pollCycleVars, losses, timerLag>>
      /\ canUseCache' => ~lastWasFullRead
      /\ t \in pending'
  BY DEF TimersStart, Unchanged, AlwaysAsked
<1>2. AfterPoll(t)
  BY <1>1 DEF TimersStaleInv, TimerLagInv, TimerLagOK
<1>3. Reading(t)'
  BY <1>1, <1>2, ReadFrame DEF AfterPoll, Reading
<1>4. QED
  BY <1>1, <1>3, ReadFrame DEF TimerLagOK

(* The block is read, and what is read is newer than what lags; or the     *)
(* cache is used, and so the poll was not a full one; or the block is lost.*)
LEMMA PendingLag ==
    ASSUME TimersStaleInv, NEW u \in Timers, TimerReuse(u) \/ TimerRead(u) \/ TimerReadFails(u)
    PROVE  TimerLagInv'
<1> SUFFICES ASSUME NEW t \in AlwaysAsked PROVE TimerLagOK(t)'
  BY DEF TimerLagInv, AlwaysAsked
<1>1. /\ readPc = "reading" /\ turn = "timers" /\ t \in Timers
      /\ Reading(t)
  BY Asked DEF TimerReuse, TimerRead, TimerReadFails, TimersStaleInv, TimersIInv, TimersTypes,
               TimersTypeOK, TurnInv, TimerLagInv, TimerLagOK
<1>2. /\ UNCHANGED <<timerLag, cachedTimers, canUseCache, readPc, turn, lastWasFullRead>>
      /\ UNCHANGED pollCycleVars
      /\ pending' = pending \ {u} /\ \A v \in Timers \ {u} : timers'[v] = timers[v]
  BY DEF TimerReuse, TimerRead, TimerReadFails, timersKept, lastVars,
         TimersStaleInv, TimersIInv, TimersTypes, TimersTypeOK
<1>3. Reading(t)'
  <2>1. CASE TimerReadFails(u)
    <3>1. EarlierCalls' = EarlierCalls + FullReadInterval + 1
      BY <1>1, <1>2, <2>1, MoreCalls, ReadFrame DEF TimerReadFails, TimersStaleInv, TimersIInv
    <3>2. timerLag[t] <= EarlierCalls' + SinceFull
      BY <1>1, <3>1, TimerBounds DEF Reading, TimersStaleInv, TimersIInv
    <3>3. QED
      BY <1>1, <1>2, <3>2, ReadFrame DEF Reading
  <2>2. CASE TimerReuse(u)
    <3>1. canUseCache /\ UNCHANGED losses
      BY <2>2 DEF TimerReuse, Reusable
    <3>2. timerLag[t] <= EarlierCalls + SinceFull
      BY <1>1, <3>1 DEF Reading
    <3>3. QED
      BY <1>1, <1>2, <3>1, <3>2, ReadFrame DEF Reading
  <2>3. CASE TimerRead(u)
    <3>1. UNCHANGED losses /\ timers'[u] = blocks[u]
      BY <2>3 DEF TimerRead, TimersStaleInv, TimersIInv, TimersTypes, TimersTypeOK
    <3>2. timers'[u] # 0 /\ (timerLag[u] = 0 \/ timers'[u] # cachedTimers[u])
      BY <3>1 DEF TimersStaleInv, TimersIInv, TimersTypes, TimersTypeOK, BlockInv
    <3>3. QED
      BY <1>1, <1>2, <3>1, <3>2, ReadFrame DEF Reading
  <2>4. QED
    BY <2>1, <2>2, <2>3
<1>4. QED
  BY <1>1, <1>2, <1>3, ReadFrame DEF TimerLagOK

LEMMA DoneLag == TimersStaleInv /\ TimersDone => TimerLagInv'
<1> SUFFICES ASSUME TimersStaleInv, TimersDone, NEW t \in AlwaysAsked PROVE TimerLagOK(t)'
  BY DEF TimerLagInv, AlwaysAsked
<1>1. /\ readPc = "reading" /\ turn = "timers" /\ turn' = "poll" /\ readPc' = "idle"
      /\ UNCHANGED <<pollCycleVars, losses>>
      /\ timerLag'[t] = CountLag(t) /\ t \in Timers /\ t \notin pending
      /\ timers[t] # 0 => cachedTimers'[t] = timers[t]
      /\ Reading(t)
  BY Asked DEF TimersDone, Returned, TimersStaleInv, TimersIInv, TurnInv, TimerLagInv, TimerLagOK
<1>2. timerLag[t] <= EarlierCalls + SinceFull \/ timerLag[t] = 0 \/ cachedTimers'[t] # cachedTimers[t]
  BY <1>1 DEF Reading
<1>3. timerLag'[t] <= EarlierCalls + SinceFull + 1
  BY <1>1, <1>2, CountLagStep, TimerBounds DEF TimersStaleInv, TimersIInv, TimersTypes
<1>4. timerLag'[t] <= EarlierCalls' + SinceFull' + 1
  BY <1>1, <1>3, ReadFrame
<1>5. QED
  BY <1>1, <1>4, ReadFrame DEF TimerLagOK

LEMMA RaiseLag == TimersStaleInv /\ TimersRaise => TimerLagInv'
<1> SUFFICES ASSUME TimersStaleInv, TimersRaise, NEW t \in AlwaysAsked PROVE TimerLagOK(t)'
  BY DEF TimerLagInv, AlwaysAsked
<1>1. /\ turn = "timers" /\ turn' = "poll" /\ readPc' = "idle"
      /\ UNCHANGED <<pollCycleVars, timerLag>> /\ losses' = losses + 1
      /\ Reading(t)
  BY DEF TimersRaise, Returned, TimersStaleInv, TimersIInv, TurnInv, TimerLagInv, TimerLagOK
<1>2. EarlierCalls' = EarlierCalls + FullReadInterval + 1
  BY <1>1, MoreCalls, ReadFrame DEF TimersStaleInv, TimersIInv
<1>3. timerLag[t] <= EarlierCalls + SinceFull + FullReadInterval + 1 + 1
  BY <1>1, TimerBounds DEF Reading, TimersStaleInv, TimersIInv
<1>4. timerLag'[t] <= EarlierCalls' + SinceFull' + 1
  BY <1>1, <1>2, <1>3, ReadFrame, TimerBounds DEF TimersStaleInv, TimersIInv
<1>5. QED
  BY <1>1, <1>4, ReadFrame DEF TimerLagOK

LEMMA TimerLagFrame ==
    ASSUME TimersStaleInv,
           UNCHANGED <<pc, forceFull, pollsSinceFullRead, failures, cancels, losses, turn, readPc,
                       timerLag, lastWasFullRead, canUseCache, pending, timers, cachedTimers>>
    PROVE  TimerLagInv'
<1> SUFFICES ASSUME NEW t \in AlwaysAsked PROVE TimerLagOK(t)'
  BY DEF TimerLagInv, AlwaysAsked
<1>1. TimerLagOK(t)
  BY DEF TimersStaleInv, TimerLagInv
<1>2. (AfterPoll(t) => AfterPoll(t)') /\ (Reading(t) => Reading(t)')
  BY DEF AfterPoll, Reading, EarlierCalls, SinceFull
<1>3. QED
  BY <1>1, <1>2 DEF TimerLagOK, NoneMerging, UnderWay, EarlierCalls, SinceFull

LEMMA CloseAllLag == TimersStaleInv /\ CloseAll => TimerLagInv'
<1> SUFFICES ASSUME TimersStaleInv, CloseAll, NEW t \in AlwaysAsked PROVE TimerLagOK(t)'
  BY DEF TimerLagInv, AlwaysAsked
<1>1. timerLag'[t] = 0 /\ UNCHANGED losses
  BY Asked DEF CloseAll, NoTimers
<1>2. EarlierCalls' = EarlierCalls /\ SinceFull' = FullReadInterval
  BY <1>1, IntervalAssumption, MoreCalls DEF CloseAll, Close, SinceFull, TimersStaleInv, TimersIInv
<1>3. /\ timerLag'[t] <= EarlierCalls' + SinceFull'
      /\ timerLag'[t] <= EarlierCalls' + SinceFull' + 1
  BY <1>1, <1>2, TimerBounds DEF TimersStaleInv, TimersIInv
<1>4. AfterPoll(t)' /\ Reading(t)'
  BY <1>3 DEF AfterPoll, Reading
<1>5. QED
  BY <1>1, <1>3, <1>4 DEF TimerLagOK

LEMMA TimersNextLag ==
    TimersStaleInv /\ OneAtATime /\ OneAtATime' /\ [TimersNext]_allVars => TimersStaleInv'
<1> SUFFICES ASSUME TimersStaleInv, OneAtATime, OneAtATime', [TimersNext]_allVars
             PROVE  TimersStaleInv'
  OBVIOUS
<1>1. TimersIInv'
  BY TimersNextIInv DEF TimersStaleInv
<1>2. CASE UNCHANGED allVars
  BY <1>1, <1>2, TimerLagFrame
  DEF allVars, pollCycleVars, vars, pollVars, countVars, timerVars, lastVars, timersKept, readVars,
      TimersStaleInv
<1>3. ASSUME NEW t \in Timers, BlockChange(t) PROVE TimerLagInv'
  BY <1>3, TimerLagFrame DEF BlockChange, pollVars, countVars, lastVars, timersKept, readVars
<1>4. QED
  BY <1>1, <1>2, <1>3, TimedPollLag, FromCacheLag, StartLag, PendingLag, DoneLag, RaiseLag,
     CloseAllLag DEF TimersNext, ReadStep, TimersStaleInv

(* However the firmware flags the INSTALLER page, a change of a block the  *)
(* host always asks for is missing from the cache for no more than         *)
(* FullReadInterval + 1 calls, one such round more per loss or cancelled   *)
(* poll and one call more per failed poll, as long as polls do not overlap.*)
THEOREM TimerStalenessBounded == TimersSpec /\ []OneAtATime => []TimerStaleness
<1>1. TimersInit => TimersStaleInv
  <2> SUFFICES ASSUME TimersInit, NEW t \in AlwaysAsked PROVE TimerLagOK(t)
    BY InitIInv DEF TimersStaleInv, TimerLagInv
  <2>1. EarlierCalls \in Nat /\ SinceFull \in Nat
    BY TimersInitType, TimerBounds
  <2>2. /\ timerLag[t] = 0 /\ readPc = "idle" /\ turn = "poll"
        /\ \A p \in Polls : pc[p] = "idle"
    BY Asked DEF TimersInit, Init, NoTimers
  <2>3. QED
    BY <2>1, <2>2 DEF TimerLagOK, NoneMerging, UnderWay
<1>2. ASSUME TimersStaleInv PROVE TimerStaleness
  <2> SUFFICES ASSUME NEW t \in AlwaysAsked
               PROVE  timerLag[t] <= LagBound(losses + cancels) + failures
    BY DEF TimerStaleness
  <2>1. LagBound(losses + cancels) + failures = EarlierCalls + FullReadInterval + 1
    <3>1. /\ FullReadInterval \in Nat /\ losses + cancels \in Nat /\ failures \in Nat
      BY <1>2, TimerBounds DEF TimersStaleInv, TimersIInv
    <3>2. /\ (FullReadInterval + 1) * (losses + cancels) \in Nat
          /\ LagBound(losses + cancels)
             = (FullReadInterval + 1) * (losses + cancels) + FullReadInterval + 1
      BY <3>1, Round DEF LagBound
    <3>3. QED
      BY <3>1, <3>2 DEF EarlierCalls
  <2>2. TimerLagOK(t) /\ readPc \in {"idle", "reading"} /\ turn \in {"poll", "timers"}
    BY <1>2 DEF TimersStaleInv, TimerLagInv, TimersIInv, TimersTypes, TimersTypeOK
  <2>3. \/ timerLag[t] <= EarlierCalls + SinceFull + 1
        \/ AfterPoll(t) \/ Reading(t)
    BY <2>2 DEF TimerLagOK
  <2>4. timerLag[t] <= EarlierCalls + FullReadInterval + 1
    BY <1>2, <2>3, TimerBounds DEF AfterPoll, Reading, TimersStaleInv, TimersIInv
  <2>5. QED
    BY <2>1, <2>4
<1>3. TimersStaleInv => TimerStaleness
  BY <1>2
<1>4. QED
  BY <1>1, <1>3, TimersNextLag, PTL DEF TimersSpec

-----------------------------------------------------------------------------
(* NoReuseAcrossClose                                                      *)

LEMMA NoSum ==
    ASSUME NEW a \in Nat, NEW b \in Nat, a + b = 0 PROVE a = 0 /\ b = 0
OBVIOUS

LEMMA LostNothing ==
    ASSUME TimersTypes
    PROVE  /\ losses + cancels = 0 <=> losses = 0 /\ cancels = 0
           /\ losses' = losses + 1 => losses' # 0
           /\ cancels' = cancels + 1 => cancels' # 0
BY TimerBounds

(* A poll that is not lost leaves a block of an earlier session to a full  *)
(* read, or is one.                                                        *)
LEMMA TimedPollOld ==
    ASSUME TimersReuseInv, OneAtATime, OneAtATime', NEW p \in Polls, TimedPoll(p)
    PROVE  OldInv'
<1>1. TimersTypes /\ TimersTypes'
  BY TimedPollType DEF TimersReuseInv, TimersIInv
<1> SUFFICES ASSUME losses' = 0, cancels' = 0, NEW t \in AlwaysAsked PROVE OldOK(t)'
  BY <1>1, NoSum DEF OldInv, AlwaysAsked, TimersTypes, TypeOK, TimersTypeOK
<1>2. ~PollCancel(p) /\ losses = 0
  BY <1>1, LostNothing DEF PollCancel, TimedPoll
<1>3. cancels = 0 /\ closes' = closes
  BY <1>2 DEF TimedPoll, PollStep, PollMeasure, PollReadRange, PollNothingToClear, PollToClear,
              PollClear, PollMerge, PollFail, countVars
<1>4. OldOK(t)
  BY <1>1, <1>2, <1>3, LostNothing DEF TimersReuseInv, OldInv
<1>5. /\ readPc' = "idle" /\ turn = "poll"
      /\ \A q \in Polls \ {p} : pc[q] = "idle" /\ pc'[q] = "idle"
  BY TimedPollTurns DEF TimersReuseInv
<1>6. SUFFICES ASSUME Old(t)'
               PROVE  /\ lastWasFullRead'
                      /\ turn' = "poll" =>
                           /\ UnderWay(p)' => forceFull'[p]
                           /\ NoneMerging' => pollsSinceFullRead' >= FullReadInterval
  BY <1>5 DEF OldOK, UnderWay
<1>7. /\ lastWasFullRead
      /\ UnderWay(p) => forceFull[p]
      /\ NoneMerging => pollsSinceFullRead >= FullReadInterval
  BY <1>3, <1>4, <1>5, <1>6 DEF OldOK, Old, TimedPoll, timersKept
<1>8. pc[p] # "merge" => NoneMerging
  BY <1>5 DEF NoneMerging
<1>9. CASE PollMeasure(p)
  BY <1>1, <1>7, <1>8, <1>9
  DEF PollMeasure, TimedPoll, RecordPoll, lastVars, TimersTypes, TypeOK
<1>10. CASE PollReadRange(p) \/ PollToClear(p)
  BY <1>1, <1>7, <1>8, <1>10
  DEF PollReadRange, PollToClear, UnderWay, TimedPoll, RecordPoll, lastVars, TimersTypes, TypeOK
<1>11. CASE PollNothingToClear(p) \/ PollClear(p)
  <2>1. UnderWay(p) /\ pc'[p] = "merge" /\ pc[p] # "merge"
    BY <1>1, <1>11 DEF PollNothingToClear, PollClear, PollCount, UnderWay, TimersTypes, TypeOK
  <2>2. lastWasFullRead' = forceFull[p]
    BY <2>1 DEF TimedPoll, RecordPoll
  <2>3. ~NoneMerging' /\ ~UnderWay(p)'
    BY <2>1 DEF NoneMerging, UnderWay
  <2>4. QED
    BY <1>7, <2>1, <2>2, <2>3
<1>12. CASE PollMerge(p)
  <2>1. pc[p] = "merge" /\ ~PollFail(p)
    BY <1>12 DEF PollMerge, PollFail
  <2>2. turn' = "timers" /\ UNCHANGED lastWasFullRead
    BY <1>2, <2>1 DEF TimedPoll, RecordPoll, lastVars
  <2>3. QED
    BY <1>7, <2>2
<1>13. CASE PollFail(p)
  <2>1. pc[p] = "pages" /\ pc'[p] = "idle" /\ UNCHANGED pollsSinceFullRead
    BY <1>1, <1>13, ReturnLocals DEF PollFail, TimersTypes
  <2>2. UNCHANGED lastWasFullRead
    BY <2>1 DEF TimedPoll, RecordPoll, lastVars
  <2>3. QED
    BY <1>7, <1>8, <2>1, <2>2 DEF UnderWay
<1>14. QED
  BY <1>2, <1>9, <1>10, <1>11, <1>12, <1>13 DEF TimedPoll, PollStep

(* A step of the host's own reading that loses nothing.                    *)
LEMMA ReadOld ==
    ASSUME TimersReuseInv, turn = "timers", UNCHANGED <<pollCycleVars, lastVars>>,
           UNCHANGED losses \/ losses' = losses + 1,
           losses' = 0 => \A t \in AlwaysAsked : OldOK(t) => OldOK(t)'
    PROVE  OldInv'
<1>1. TimersTypes
  BY DEF TimersReuseInv, TimersIInv
<1>2. UNCHANGED cancels
  BY PollFrame
<1> SUFFICES ASSUME losses' = 0, cancels' = 0, NEW t \in AlwaysAsked PROVE OldOK(t)'
  BY <1>1, <1>2, TimerBounds DEF OldInv, AlwaysAsked
<1>3. losses = 0 /\ cancels = 0
  BY <1>1, <1>2, LostNothing
<1>4. OldOK(t)
  BY <1>1, <1>3, LostNothing DEF TimersReuseInv, OldInv
<1>5. QED
  BY <1>4

LEMMA FromCacheOld == TimersReuseInv /\ TimersFromCache => OldInv'
<1> SUFFICES ASSUME TimersReuseInv, TimersFromCache PROVE OldInv'
  OBVIOUS
<1>1. ASSUME NEW t \in AlwaysAsked, OldOK(t) PROVE OldOK(t)'
  <2>1. ~Old(t) /\ readPc' = "idle"
    BY <1>1 DEF TimersFromCache, Unchanged, OldOK, readVars
  <2>2. ~Old(t)'
    BY <2>1, PollFrame DEF TimersFromCache, Old, timersKept
  <2>3. QED
    BY <2>1, <2>2 DEF OldOK
<1>2. QED
  BY <1>1, ReadOld DEF TimersFromCache

LEMMA StartOld == TimersReuseInv /\ TimersStart => OldInv'
<1> SUFFICES ASSUME TimersReuseInv, TimersStart PROVE OldInv'
  OBVIOUS
<1>1. ASSUME NEW t \in AlwaysAsked, OldOK(t) PROVE OldOK(t)'
  <2>1. /\ turn' = "timers" /\ t \in pending' /\ timers'[t] = 0
        /\ UNCHANGED <<lastWasFullRead, cachedTimers, cachedIn, closes>>
        /\ lastWasFullRead => ~canUseCache'
    BY PollFrame, Asked
    DEF TimersStart, Unchanged, AlwaysAsked, NoTimers, lastVars, timersKept, TimersReuseInv,
        TimersIInv, TurnInv
  <2>2. Old(t)' => Old(t)
    BY <2>1 DEF Old
  <2>3. QED
    BY <1>1, <2>1, <2>2 DEF OldOK
<1>2. QED
  BY <1>1, ReadOld DEF TimersStart

LEMMA PendingOld ==
    ASSUME TimersReuseInv, NEW u \in Timers, TimerReuse(u) \/ TimerRead(u) \/ TimerReadFails(u)
    PROVE  OldInv'
<1>1. /\ readPc = "reading" /\ turn = "timers"
      /\ UNCHANGED <<cachedTimers, cachedIn, canUseCache, readPc, turn>>
      /\ UNCHANGED <<pollCycleVars, lastVars>>
      /\ pending' = pending \ {u}
      /\ \A v \in Timers \ {u} : timers'[v] = timers[v] /\ readIn'[v] = readIn[v]
  BY DEF TimerReuse, TimerRead, TimerReadFails, timersKept, lastVars,
         TimersReuseInv, TimersIInv, TimersTypes, TimersTypeOK, TurnInv
<1>2. ASSUME losses' = 0, NEW t \in AlwaysAsked, OldOK(t) PROVE OldOK(t)'
  <2>1. ~TimerReadFails(u)
    BY <1>2, LostNothing DEF TimerReadFails, TimersReuseInv, TimersIInv
  <2>2. UNCHANGED <<lastWasFullRead, closes, pollsSinceFullRead>> /\ (Old(t)' => Old(t))
        /\ t \in Timers
    BY <1>1, PollFrame, Asked DEF Old, lastVars
  <2>3. CASE t = u /\ TimerReuse(u)
    <3>1. canUseCache /\ timers'[t] = cachedTimers[t] /\ cachedTimers[t] # 0 /\ readIn'[t] = cachedIn[t]
      BY <2>3 DEF TimerReuse, Reusable, TimersReuseInv, TimersIInv, TimersTypes, TimersTypeOK
    <3>2. cachedIn[t] = closes
      BY <1>1, <1>2, <3>1 DEF OldOK, Old
    <3>3. QED
      BY <1>1, <1>2, <2>2, <3>1, <3>2 DEF OldOK
  <2>4. CASE t = u /\ TimerRead(u)
    <3>1. timers'[t] # 0 /\ readIn'[t] = closes
      BY <2>4 DEF TimerRead, TimersReuseInv, TimersIInv, TimersTypes, TimersTypeOK, BlockInv
    <3>2. QED
      BY <1>1, <1>2, <2>2, <3>1 DEF OldOK
  <2>5. CASE t # u
    BY <1>1, <1>2, <2>2, <2>5 DEF OldOK
  <2>6. QED
    BY <2>1, <2>3, <2>4, <2>5
<1>3. QED
  BY <1>1, <1>2, ReadOld DEF TimerReuse, TimerRead, TimerReadFails

(* What the call has from before a close() enters the cache, and the next  *)
(* poll is a full one.                                                     *)
LEMMA DoneOld == TimersReuseInv /\ TimersDone => OldInv'
<1> SUFFICES ASSUME TimersReuseInv, TimersDone PROVE OldInv'
  OBVIOUS
<1>1. /\ readPc = "reading" /\ turn = "timers" /\ readPc' = "idle" /\ pending = {}
      /\ UNCHANGED <<pollCycleVars, lastVars, losses>>
      /\ \A p \in Polls : pc[p] = "idle"
  BY DEF TimersDone, Returned, TimersReuseInv, TimersIInv, TurnInv
<1>2. ASSUME NEW t \in AlwaysAsked, OldOK(t) PROVE OldOK(t)'
  <2>1. timers[t] # 0 /\ cachedIn'[t] = readIn[t]
    BY <1>1, <1>2, Asked DEF OldOK, TimersDone
  <2>2. UNCHANGED <<closes, lastWasFullRead, pollsSinceFullRead, pc>>
    BY <1>1, PollFrame DEF lastVars
  <2>3. Old(t)' => lastWasFullRead /\ pollsSinceFullRead >= FullReadInterval
    BY <1>1, <1>2, <2>1, <2>2 DEF OldOK, Old
  <2>4. QED
    BY <1>1, <2>2, <2>3 DEF OldOK, UnderWay
<1>3. QED
  BY <1>1, <1>2, ReadOld

LEMMA RaiseOld == TimersReuseInv /\ TimersRaise => OldInv'
<1> SUFFICES ASSUME TimersReuseInv, TimersRaise PROVE OldInv'
  OBVIOUS
<1>1. losses' # 0 /\ turn = "timers" /\ losses' = losses + 1
  BY LostNothing DEF TimersRaise, TimersReuseInv, TimersIInv, TurnInv
<1>2. QED
  BY <1>1, ReadOld DEF TimersRaise

(* close() leaves no old block, and makes the next poll a full one.        *)
LEMMA CloseAllOld == TimersReuseInv /\ CloseAll => OldInv'
<1> SUFFICES ASSUME TimersReuseInv, CloseAll PROVE OldInv'
  OBVIOUS
<1>1. UNCHANGED <<losses, cancels>>
  BY DEF CloseAll, Close
<1> SUFFICES ASSUME losses + cancels = 0, NEW t \in AlwaysAsked PROVE OldOK(t)'
  BY <1>1 DEF OldInv, AlwaysAsked
<1>2. OldOK(t)
  BY DEF TimersReuseInv, OldInv
<1>3. ~Old(t)' /\ lastWasFullRead' /\ pollsSinceFullRead' >= FullReadInterval
  BY Asked, IntervalAssumption DEF CloseAll, Close, Old, NoTimers
<1>4. UNCHANGED <<readPc, pending, timers>>
  BY DEF CloseAll, readVars
<1>5. QED
  BY <1>2, <1>3, <1>4 DEF OldOK

LEMMA OldFrame ==
    ASSUME TimersReuseInv,
           UNCHANGED <<pc, forceFull, pollsSinceFullRead, cancels, closes, losses, turn, readPc,
                       lastWasFullRead, canUseCache, pending, timers, readIn, cachedTimers, cachedIn>>
    PROVE  OldInv'
BY DEF TimersReuseInv, OldInv, OldOK, Old, NoneMerging, UnderWay, AlwaysAsked

LEMMA TimersNextOld ==
    TimersReuseInv /\ OneAtATime /\ OneAtATime' /\ [TimersNext]_allVars => TimersReuseInv'
<1> SUFFICES ASSUME TimersReuseInv, OneAtATime, OneAtATime', [TimersNext]_allVars
             PROVE  TimersReuseInv'
  OBVIOUS
<1>1. TimersIInv'
  BY TimersNextIInv DEF TimersReuseInv
<1>2. CASE UNCHANGED allVars
  BY <1>1, <1>2, OldFrame
  DEF allVars, pollCycleVars, vars, pollVars, countVars, timerVars, lastVars, timersKept, readVars,
      TimersReuseInv
<1>3. ASSUME NEW t \in Timers, BlockChange(t) PROVE OldInv'
  BY <1>3, OldFrame DEF BlockChange, pollVars, countVars, lastVars, timersKept, readVars
<1>4. QED
  BY <1>1, <1>2, <1>3, TimedPollOld, FromCacheOld, StartOld, PendingOld, DoneOld, RaiseOld,
     CloseAllOld DEF TimersNext, ReadStep, TimersReuseInv

(* As long as no reading is lost and no poll cancelled, read_all_timers    *)
(* never answers for an always asked block from what an earlier session    *)
(* has read, though close() may have met it in the middle of its reading,  *)
(* and however many polls fail.                                            *)
THEOREM NothingReusedAcrossClose == TimersSpec /\ []OneAtATime => NoReuseAcrossClose
<1> DEFINE NoReuse == losses + cancels = 0 =>
             \A t \in AlwaysAsked : TimersFromCache \/ TimerReuse(t) => cachedIn[t] = closes
<1>1. TimersInit => TimersReuseInv
  BY InitIInv, Asked DEF TimersInit, NoTimers, TimersReuseInv, OldInv, OldOK, Old
<1>2. ASSUME TimersReuseInv, losses + cancels = 0, NEW t \in AlwaysAsked,
             TimersFromCache \/ TimerReuse(t)
      PROVE  cachedIn[t] = closes
  <2>1. OldOK(t) /\ t \in Timers
    BY <1>2, Asked DEF TimersReuseInv, OldInv
  <2>2. CASE TimersFromCache
    <3>1. cachedTimers[t] # 0 /\ ~lastWasFullRead
      BY <2>2 DEF TimersFromCache, Unchanged, AlwaysAsked
    <3>2. QED
      BY <2>1, <3>1 DEF OldOK, Old
  <2>3. CASE TimerReuse(t)
    <3>1. canUseCache /\ cachedTimers[t] # 0 /\ readPc = "reading"
      BY <1>2, <2>1, <2>3
      DEF TimerReuse, Reusable, TimersReuseInv, TimersIInv, TimersTypes, TimersTypeOK, TurnInv
    <3>2. QED
      BY <2>1, <3>1 DEF OldOK, Old
  <2>4. QED
    BY <1>2, <2>2, <2>3
<1>3. TimersReuseInv => [NoReuse]_allVars
  BY <1>2
<1>4. QED
  BY <1>1, <1>3, TimersNextOld, PTL DEF TimersSpec, NoReuseAcrossClose

-----------------------------------------------------------------------------
(* PumpIsTrue                                                              *)

LEMMA NothingCachedType == NothingCached \in Sights
BY DEF NothingCached, Sights, States, Types

LEMMA InitPump == PumpInit => PumpInv
BY NothingCachedType DEF PumpInit, PumpInv, PumpTypeOK, SightInv, States

(* The installation moves on: what it does now counts among what it has    *)
(* done, and a change of output or type ends the steadiness.               *)
LEMMA InstallationPump ==
    ASSUME PumpInv, NEW run \in States, NEW relays \in [Outputs -> States], NEW state \in States,
           NEW gpio \in Outputs \cup {0}, NEW type \in Types,
           InstallationBecomes(run, relays, state, gpio, type),
           steady' => steady /\ gpio = filtGpio /\ type = pumpType
    PROVE  PumpInv'
<1>1. /\ running' = run /\ relayState' = relays /\ filtState' = state
      /\ filtGpio' = gpio /\ pumpType' = type
      /\ UNCHANGED <<cachedPump, pumpResult, pumpStep, fresh>>
      /\ wasRunning \subseteq wasRunning' /\ wasRunning' \subseteq States
      /\ pumpStep # "none" => run \in wasRunning'
      /\ Truthful(run, relays, state, gpio, type)
  BY DEF InstallationBecomes, PumpInv, PumpTypeOK
<1>2. PumpTypeOK'
  BY <1>1 DEF PumpInv, PumpTypeOK
<1>3. SightInv'
  BY <1>1 DEF PumpInv, SightInv, Truthful
<1>4. QED
  BY <1>2, <1>3 DEF PumpInv

(* The relay that is read first tells what a pump with one speed does.     *)
LEMMA MeasurePump ==
    ASSUME PumpInv, NEW pages \in SUBSET ConfigPages, Measure(pages) PROVE PumpInv'
<1>1. pumpResult' \in Sights /\ pumpResult'.relays = relayState
  BY DEF Measure, PumpInv, PumpTypeOK, Sights
<1>2. PumpTypeOK'
  BY <1>1 DEF Measure, installVars, PumpInv, PumpTypeOK
<1>3. SightInv'
  BY <1>1 DEF Measure, installVars, PumpInv, PumpTypeOK, SightInv, Truthful, Types
<1>4. QED
  BY <1>2, <1>3 DEF PumpInv

LEMMA NamedType ==
    ASSUME NEW r \in Sights
    PROVE  /\ Named(r) \in Sights
           /\ Named(r).relays = r.relays /\ Named(r).gpio = r.gpio
           /\ Named(r).state = r.state /\ Named(r).type = r.type
           /\ r.gpio \in Outputs => Named(r).pump = r.relays[r.gpio]
BY DEF Named, Sights

(* The filtration state is read with the output, at a moment when it tells *)
(* what a pump with several speeds does.                                   *)
LEMMA ReadInstallerPump == PumpInv /\ ReadInstaller => PumpInv'
<1> SUFFICES ASSUME PumpInv, ReadInstaller PROVE PumpInv'
  OBVIOUS
<1> DEFINE read == IF "INSTALLER" \in fresh
                   THEN [pumpResult EXCEPT !.gpio = filtGpio, !.state = filtState]
                   ELSE pumpResult
<1>1. /\ read \in Sights /\ read.relays = pumpResult.relays
      /\ "INSTALLER" \in fresh => read.state = filtState
  BY DEF PumpInv, PumpTypeOK, Sights
<1>2. pumpResult' = Named(read)
  BY DEF ReadInstaller
<1> HIDE DEF read
<1>3. /\ pumpResult' \in Sights /\ pumpResult'.relays = pumpResult.relays
      /\ pumpResult'.gpio \in Outputs => pumpResult'.pump = pumpResult'.relays[pumpResult'.gpio]
      /\ "INSTALLER" \in fresh => pumpResult'.state = filtState
  BY <1>1, <1>2, NamedType
<1>4. /\ pumpStep = "measured" /\ pumpStep' = "named"
      /\ UNCHANGED <<installVars, cachedPump, fresh, sightVars>>
  BY DEF ReadInstaller
<1>5. PumpTypeOK'
  BY <1>3, <1>4 DEF installVars, sightVars, PumpInv, PumpTypeOK
<1>6. SightInv'
  BY <1>3, <1>4 DEF installVars, sightVars, PumpInv, SightInv, Truthful
<1>7. QED
  BY <1>5, <1>6 DEF PumpInv

LEMMA ReadUserPump == PumpInv /\ ReadUser => PumpInv'
<1> SUFFICES ASSUME PumpInv, ReadUser PROVE PumpInv'
  OBVIOUS
<1>1. /\ pumpResult' \in Sights /\ pumpResult'.relays = pumpResult.relays
      /\ pumpResult'.gpio = pumpResult.gpio /\ pumpResult'.pump = pumpResult.pump
      /\ pumpResult'.state = pumpResult.state
  BY DEF ReadUser, PumpInv, PumpTypeOK, Sights
<1>2. /\ pumpStep = "named" /\ pumpStep' = "complete"
      /\ UNCHANGED <<installVars, cachedPump, fresh, sightVars>>
  BY DEF ReadUser
<1>3. PumpTypeOK'
  BY <1>1, <1>2 DEF installVars, sightVars, PumpInv, PumpTypeOK
<1>4. SightInv'
  BY <1>1, <1>2 DEF installVars, sightVars, PumpInv, SightInv, Truthful
<1>5. QED
  BY <1>3, <1>4 DEF PumpInv

LEMMA FixedType == ASSUME NEW r \in Sights PROVE Fixed(r) \in Sights
<1>1. CASE StateDecides(r)
  <2>1. r.gpio \in Outputs /\ r.state \in States
    BY <1>1 DEF StateDecides
  <2>2. QED
    BY <1>1, <2>1 DEF Fixed, Sights
<1>2. CASE ~StateDecides(r)
  BY <1>2 DEF Fixed
<1>3. QED
  BY <1>1, <1>2

(* The poll is over, merged or failed, and forgotten.                      *)
LEMMA ForgottenPump ==
    ASSUME PumpInv, PollForgotten, UNCHANGED installVars, cachedPump' \in Sights
    PROVE  PumpInv'
<1>1. PumpTypeOK'
  BY NothingCachedType DEF PollForgotten, installVars, PumpInv, PumpTypeOK
<1>2. SightInv'
  BY DEF PollForgotten, installVars, PumpInv, SightInv, Truthful
<1>3. QED
  BY <1>1, <1>2 DEF PumpInv

LEMMA EmptiedPump == PumpInv /\ PumpCacheEmptied => PumpInv'
BY NothingCachedType
DEF PumpCacheEmptied, installVars, sightVars, PumpInv, PumpTypeOK, SightInv, Truthful

LEMMA PumpNextInv == PumpInv /\ [PumpNext]_pumpVars => PumpInv'
<1> SUFFICES ASSUME PumpInv, [PumpNext]_pumpVars PROVE PumpInv'
  OBVIOUS
<1>1. ASSUME NEW run \in States, NEW relays \in [Outputs -> States], NEW state \in States,
             Switched(run, relays, state)
      PROVE  PumpInv'
  <2>1. filtGpio \in Outputs \cup {0} /\ pumpType \in Types
    BY DEF PumpInv, PumpTypeOK
  <2>2. QED
    BY <1>1, <2>1, InstallationPump DEF Switched
<1>2. ASSUME NEW run \in States, NEW relays \in [Outputs -> States],
             NEW gpio \in Outputs \cup {0}, NEW type \in Types, Reinstalled(run, relays, gpio, type)
      PROVE  PumpInv'
  BY <1>2, InstallationPump DEF Reinstalled
<1>3. CASE Merge
  BY <1>3, FixedType, ForgottenPump DEF Merge, PumpInv, PumpTypeOK
<1>4. CASE PumpPollFails
  BY <1>4, ForgottenPump DEF PumpPollFails, PumpInv, PumpTypeOK
<1>5. CASE UNCHANGED pumpVars
  BY <1>5 DEF pumpVars, installVars, sightVars, PumpInv, PumpTypeOK, SightInv, Truthful
<1>6. QED
  BY <1>1, <1>2, <1>3, <1>4, <1>5, MeasurePump, ReadInstallerPump, ReadUserPump, EmptiedPump
  DEF PumpNext

(* A poll that knows the pump's output and type, and has read the register *)
(* to go by, merges a state the pump has really been in since it began.    *)
LEMMA MergeTrue == ASSUME PumpInv, Merge, Informed PROVE cachedPump'.pump \in wasRunning
<1>1. /\ pumpStep = "complete" /\ cachedPump' = Fixed(pumpResult) /\ pumpResult \in Sights
      /\ steady /\ pumpResult.gpio = filtGpio /\ filtGpio \in Outputs /\ pumpResult.type = pumpType
      /\ pumpType \in Types /\ pumpResult.pump = pumpResult.relays[filtGpio]
      /\ wasRunning \subseteq States
  BY DEF Merge, Informed, PumpInv, PumpTypeOK, SightInv
<1>2. CASE pumpType = "single"
  <2>1. Fixed(pumpResult) = pumpResult
    BY <1>1, <1>2 DEF Fixed, StateDecides
  <2>2. pumpResult.relays[filtGpio] \in wasRunning
    BY <1>1, <1>2 DEF PumpInv, SightInv
  <2>3. QED
    BY <1>1, <2>1, <2>2
<1>3. CASE pumpType = "variable"
  <2>1. "INSTALLER" \in fresh
    BY <1>3 DEF Informed
  <2>2. pumpResult.state \in wasRunning
    BY <1>1, <1>3, <2>1 DEF PumpInv, SightInv
  <2>3. StateDecides(pumpResult)
    BY <1>1, <1>3, <2>1, <2>2 DEF StateDecides
  <2>4. Fixed(pumpResult).pump = pumpResult.state
    BY <1>1, <2>3 DEF Fixed, Sights
  <2>5. QED
    BY <1>1, <2>2, <2>4
<1>4. QED
  BY <1>1, <1>2, <1>3 DEF Types

(* Whatever the cache holds from before, an informed poll reports what the *)
(* pump has done while it was under way.                                   *)
THEOREM PumpTold == PumpSpec => PumpIsTrue
<1> DEFINE Told == pumpStep = "complete" /\ pumpStep' = "none" /\ cachedPump' # cachedPump /\ Informed
                     => cachedPump'.pump \in wasRunning
<1>1. ASSUME PumpInv, PumpNext, pumpStep = "complete", pumpStep' = "none", cachedPump' # cachedPump
      PROVE  Merge
  BY <1>1 DEF PumpNext, Switched, Reinstalled, InstallationBecomes, Measure, ReadInstaller,
              ReadUser, PumpPollFails, PumpCacheEmptied
<1>2. PumpInv /\ [PumpNext]_pumpVars => [Told]_pumpVars
  BY <1>1, MergeTrue
<1>3. QED
  BY <1>2, InitPump, PumpNextInv, PTL DEF PumpSpec, PumpIsTrue
=============================================================================
