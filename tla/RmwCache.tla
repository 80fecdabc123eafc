------------------------------ MODULE RmwCache ------------------------------
(***************************************************************************)
(* The packed-word cache of NeoPoolModbusClient (client.py): full polls    *)
(* (async_read_all) racing read-modify-write operations                    *)
(* (async_set_filtration_speed, async_set_masked_register,                 *)
(* async_set_bitmask_flag, the low-byte setpoints of async_set_setpoint),  *)
(* changes made at the controller's own panel, and close().                *)
(*                                                                         *)
(* The client is one asyncio event loop: an action is the code a task runs *)
(* between two awaits.  Every register word carries a version, the number  *)
(* of changes the device has seen; versions flow along with the words and  *)
(* never steer the code: they exist to say which of two words is older.    *)
(*                                                                         *)
(* Which pages a poll reads (notification bits, forced full reads) is left *)
(* open here: a poll may refresh any subset of the keys.                   *)
(***************************************************************************)
EXTENDS Naturals, FiniteSets

CONSTANTS
    Keys,            \* cache keys of packed registers
    Fields,          \* bit fields of a packed word
    Values,          \* contents of a field
    Zero,            \* the field contents of the word 0
    LowByte,         \* the field a low-byte setpoint keeps in the cache
    Base,            \* Base[k]: where an RMW of k takes its base word from
    DerivedSources,  \* keys from which a derived key is computed
    Polls,           \* poll tasks
    Writers,         \* RMW tasks
    Missing,         \* no cache entry
    NoOne,           \* the lock is free
    MaxVersion,      \* bound: changes of one register
    MaxGeneration    \* bound: RMW commits and closes

Word == [Fields -> Values]
Entry == [word : Word, version : Nat]

ASSUME FieldAssumption == Zero \in Values /\ LowByte \in Fields
ASSUME BaseAssumption == Base \in [Keys -> {"cached", "zero", "live"}]
ASSUME DerivedAssumption == DerivedSources \subseteq Keys
ASSUME TaskAssumption == NoOne \notin Writers
ASSUME MissingAssumption == Missing \notin Entry
ASSUME BoundAssumption == MaxVersion \in Nat /\ MaxGeneration \in Nat

VARIABLES
    device,            \* the registers, [Keys -> Entry]
    cachedResult,      \* self._cached_result
    derived,           \* the entry a derived key was last computed from
    cacheLock,         \* holder of self._cache_lock
    rmwGeneration,     \* self._rmw_generation
    rmwKeyGeneration,  \* self._rmw_key_generation, 0 for an absent key
    committed,         \* version of the last committed RMW of each key
    pollPc, pollGeneration, pending, result,   \* one poll's locals
    writerPc, key, word                        \* one RMW's locals

deviceVars == <<device, committed>>
clientVars == <<cachedResult, derived, cacheLock, rmwGeneration, rmwKeyGeneration>>
pollVars   == <<pollPc, pollGeneration, pending, result>>
writerVars == <<writerPc, key, word>>
vars == <<deviceVars, clientVars, pollVars, writerVars>>

(* What the poll and the RMW put into the cache: the low-byte setpoints    *)
(* are cached decoded, everything else as the raw word.                    *)
View(k, e) ==
    IF Base[k] = "live"
    THEN [e EXCEPT !.word = [f \in Fields |-> IF f = LowByte THEN @[f] ELSE Zero]]
    ELSE e

Active == {w \in Writers : writerPc[w] # "idle"}
ActiveOn(k) == {w \in Active : key[w] = k}
ZeroEntry == [word |-> [f \in Fields |-> Zero], version |-> 0]
NoSnapshot == [k \in Keys |-> Missing]

(* Changes still allowed by the bounds, counting the RMWs under way.       *)
RoomForChange(k) == device[k].version + Cardinality(ActiveOn(k)) < MaxVersion
RoomForGeneration == rmwGeneration + Cardinality(Active) < MaxGeneration

Init ==
    /\ device \in [Keys -> [word : Word, version : {1}]]
    /\ committed = [k \in Keys |-> 0]
    /\ cachedResult = NoSnapshot
    /\ derived = NoSnapshot
    /\ cacheLock = NoOne
    /\ rmwGeneration = 0
    /\ rmwKeyGeneration = [k \in Keys |-> 0]
    /\ pollPc = [p \in Polls |-> "idle"]
    /\ pollGeneration = [p \in Polls |-> 0]
    /\ pending = [p \in Polls |-> {}]
    /\ result = [p \in Polls |-> NoSnapshot]
    /\ writerPc = [w \in Writers |-> "idle"]
    /\ key \in [Writers -> Keys]
    /\ word = [w \in Writers |-> ZeroEntry]

-----------------------------------------------------------------------------
(* The controller: its panel, its telemetry, or a write of this client     *)
(* that is not an RMW and leaves the cache alone.                          *)

PanelChange(k) ==
    /\ RoomForChange(k)
    /\ \E f \in Fields, v \in Values :
        /\ device[k].word[f] # v
        /\ device' = [device EXCEPT
                        ![k] = [word |-> [@.word EXCEPT ![f] = v], version |-> @.version + 1]]
    /\ UNCHANGED <<committed, clientVars, pollVars, writerVars>>

-----------------------------------------------------------------------------
(* async_read_all / _perform_read_all / _merge_poll_result                 *)

(* The call returns or raises, and its locals are gone.                    *)
PollReturn(p) ==
    /\ pollPc' = [pollPc EXCEPT ![p] = "idle"]
    /\ pollGeneration' = [pollGeneration EXCEPT ![p] = 0]
    /\ pending' = [pending EXCEPT ![p] = {}]
    /\ result' = [result EXCEPT ![p] = NoSnapshot]

(* The generation is captured before the first await.                      *)
PollStart(p) ==
    /\ pollPc[p] = "idle"
    /\ pollPc' = [pollPc EXCEPT ![p] = "measure"]
    /\ pollGeneration' = [pollGeneration EXCEPT ![p] = rmwGeneration]
    /\ UNCHANGED <<deviceVars, clientVars, pending, result, writerVars>>

(* The MEASURE page has arrived: the snapshot starts as a copy of the      *)
(* cache, taken without the lock, and the pages to read are settled.       *)
PollOverlay(p) ==
    /\ pollPc[p] = "measure"
    /\ pollPc' = [pollPc EXCEPT ![p] = "pages"]
    /\ result' = [result EXCEPT ![p] = cachedResult]
    /\ \E flagged \in SUBSET Keys : pending' = [pending EXCEPT ![p] = flagged]
    /\ UNCHANGED <<deviceVars, clientVars, pollGeneration, writerVars>>

PollReadPage(p) ==
    /\ pollPc[p] = "pages"
    /\ \E k \in pending[p] :
        /\ result' = [result EXCEPT ![p][k] = View(k, device[k])]
        /\ pending' = [pending EXCEPT ![p] = @ \ {k}]
    /\ UNCHANGED <<deviceVars, clientVars, pollPc, pollGeneration, writerVars>>

(* Mutant: the generation is captured only when the reads are done.        *)
PollReadDoneCaptures(p) ==
    /\ pollPc[p] = "pages"
    /\ pending[p] = {}
    /\ pollPc' = [pollPc EXCEPT ![p] = "merge"]
    /\ pollGeneration' = [pollGeneration EXCEPT ![p] = rmwGeneration]
    /\ UNCHANGED <<deviceVars, clientVars, pending, result, writerVars>>

PollReadDone(p) ==
    /\ pollPc[p] = "pages"
    /\ pending[p] = {}
    /\ pollPc' = [pollPc EXCEPT ![p] = "merge"]
    /\ UNCHANGED <<deviceVars, clientVars, pollGeneration, pending, result, writerVars>>

(* A failed request, or the task cancelled at any await, the one for the   *)
(* cache lock included: the snapshot is dropped.                           *)
PollAbort(p) ==
    /\ pollPc[p] # "idle"
    /\ PollReturn(p)
    /\ UNCHANGED <<deviceVars, clientVars, writerVars>>

Skipped(p) == {k \in Keys : result[p][k] # Missing /\ rmwKeyGeneration[k] > pollGeneration[p]}
Merged(p) == {k \in Keys : result[p][k] # Missing} \ Skipped(p)

(* Mutant: the snapshot's derived view is merged whatever was skipped.     *)
PollMergeDerived(p) ==
    /\ pollPc[p] = "merge"
    /\ cacheLock = NoOne
    /\ cachedResult' = [k \in Keys |-> IF k \in Merged(p) THEN result[p][k] ELSE cachedResult[k]]
    /\ derived' = [k \in Keys |-> IF k \in DerivedSources THEN result[p][k] ELSE Missing]
    /\ PollReturn(p)
    /\ UNCHANGED <<deviceVars, cacheLock, rmwGeneration, rmwKeyGeneration, writerVars>>

(* A derived key comes with the snapshot, computed from the snapshot's     *)
(* word, unless that word was skipped: then it is recomputed from the      *)
(* cache as merged.                                                        *)
PollMerge(p) ==
    /\ pollPc[p] = "merge"
    /\ cacheLock = NoOne
    /\ cachedResult' = [k \in Keys |-> IF k \in Merged(p) THEN result[p][k] ELSE cachedResult[k]]
    /\ derived' = [k \in Keys |->
                     IF k \in DerivedSources
                     THEN IF k \in Skipped(p) THEN cachedResult'[k] ELSE result[p][k]
                     ELSE Missing]
    /\ PollReturn(p)
    /\ UNCHANGED <<deviceVars, cacheLock, rmwGeneration, rmwKeyGeneration, writerVars>>

-----------------------------------------------------------------------------
(* The read-modify-write operations and _rmw_commit                        *)

(* The call returns or raises: the lock, if held, is released.             *)
RmwReturn(w) ==
    /\ cacheLock' = IF cacheLock = w THEN NoOne ELSE cacheLock
    /\ writerPc' = [writerPc EXCEPT ![w] = "idle"]
    /\ word' = [word EXCEPT ![w] = ZeroEntry]

Request(w, k) ==
    /\ writerPc[w] = "idle"
    /\ RoomForGeneration /\ RoomForChange(k)
    /\ key' = [key EXCEPT ![w] = k]
    /\ writerPc' = [writerPc EXCEPT ![w] = "lock"]
    /\ UNCHANGED <<deviceVars, clientVars, pollVars, word>>

(* Mutant: the cached base is read before the lock is taken, so while      *)
(* another RMW may hold it.                                                *)
AcquireUnlocked(w) ==
    /\ writerPc[w] = "lock"
    /\ Base[key[w]] # "live" /\ cachedResult[key[w]] # Missing
    /\ word' = [word EXCEPT ![w] = cachedResult[key[w]]]
    /\ writerPc' = [writerPc EXCEPT ![w] = "write"]
    /\ UNCHANGED <<deviceVars, clientVars, pollVars, key>>

(* Mutant: nothing tests whether the word is cached.                       *)
AcquireUnchecked(w) ==
    /\ writerPc[w] = "lock"
    /\ cacheLock = NoOne
    /\ cacheLock' = w
    /\ word' = [word EXCEPT ![w] = cachedResult[key[w]]]
    /\ writerPc' = [writerPc EXCEPT ![w] = "write"]
    /\ UNCHANGED <<deviceVars, cachedResult, derived, rmwGeneration, rmwKeyGeneration,
                   pollVars, key>>

(* async with self._cache_lock, and on to the next await: the base is the  *)
(* cached word, or 0 when a masked or bitmask register is not cached, or   *)
(* has to be read from the device first.                                   *)
Acquire(w) ==
    LET k == key[w] IN
    /\ writerPc[w] = "lock"
    /\ cacheLock = NoOne
    /\ cacheLock' = w
    /\ \/ /\ Base[k] # "live" /\ cachedResult[k] # Missing
          /\ word' = [word EXCEPT ![w] = cachedResult[k]]
          /\ writerPc' = [writerPc EXCEPT ![w] = "write"]
       \/ /\ Base[k] = "zero" /\ cachedResult[k] = Missing
          /\ word' = [word EXCEPT ![w] = ZeroEntry]
          /\ writerPc' = [writerPc EXCEPT ![w] = "write"]
       \/ /\ Base[k] = "live" \/ (Base[k] = "cached" /\ cachedResult[k] = Missing)
          /\ writerPc' = [writerPc EXCEPT ![w] = "read"]
          /\ UNCHANGED word
    /\ UNCHANGED <<deviceVars, cachedResult, derived, rmwGeneration, rmwKeyGeneration,
                   pollVars, key>>

ReadBase(w) ==
    /\ writerPc[w] = "read"
    /\ word' = [word EXCEPT ![w] = device[key[w]]]
    /\ writerPc' = [writerPc EXCEPT ![w] = "write"]
    /\ UNCHANGED <<deviceVars, clientVars, pollVars, key>>

(* The main write, of v into field f, reaches the device; its confirmation *)
(* and the EEPROM and EXEC follow-ups are still to come.  A low-byte       *)
(* setpoint only ever writes its low byte.                                 *)
DeviceWrite(w, f, v) ==
    LET k == key[w]
        written == [word |-> [word[w].word EXCEPT ![f] = v], version |-> device[k].version + 1]
    IN
    /\ writerPc[w] = "write"
    /\ Base[k] = "live" => f = LowByte
    /\ device' = [device EXCEPT ![k] = written]
    /\ word' = [word EXCEPT ![w] = written]
    /\ writerPc' = [writerPc EXCEPT ![w] = "confirm"]
    /\ UNCHANGED <<committed, clientVars, pollVars, key>>

(* async_write_register has returned: cache entry, generation, stamp and   *)
(* lock release without an await between them.                             *)
Commit(w) ==
    LET k == key[w] IN
    /\ writerPc[w] = "confirm"
    /\ cachedResult' = [cachedResult EXCEPT ![k] = View(k, word[w])]
    /\ rmwGeneration' = rmwGeneration + 1
    /\ rmwKeyGeneration' = [rmwKeyGeneration EXCEPT ![k] = rmwGeneration']
    /\ committed' = [committed EXCEPT ![k] = word[w].version]
    /\ RmwReturn(w)
    /\ UNCHANGED <<device, derived, pollVars, key>>

(* Mutant: a failed RMW keeps the lock.                                    *)
RmwAbortLocked(w) ==
    /\ writerPc[w] # "idle"
    /\ writerPc' = [writerPc EXCEPT ![w] = "idle"]
    /\ UNCHANGED <<deviceVars, clientVars, pollVars, key, word>>

(* A failed request, or the task cancelled at an await: neither cache nor  *)
(* stamp change, whether or not the write has reached the device.          *)
RmwAbort(w) ==
    /\ writerPc[w] # "idle"
    /\ RmwReturn(w)
    /\ UNCHANGED <<deviceVars, cachedResult, derived, rmwGeneration, rmwKeyGeneration,
                   pollVars, key>>

-----------------------------------------------------------------------------
(* Mutant: close() starts the generations over.                            *)
CloseResets ==
    /\ cacheLock = NoOne
    /\ RoomForGeneration
    /\ cachedResult' = NoSnapshot
    /\ derived' = NoSnapshot
    /\ rmwKeyGeneration' = [k \in Keys |-> 0]
    /\ rmwGeneration' = 0
    /\ UNCHANGED <<deviceVars, cacheLock, pollVars, writerVars>>

(* The second half of close(): the part under the cache lock.              *)
Close ==
    /\ cacheLock = NoOne
    /\ RoomForGeneration
    /\ cachedResult' = NoSnapshot
    /\ derived' = NoSnapshot
    /\ rmwKeyGeneration' = [k \in Keys |-> 0]
    /\ rmwGeneration' = rmwGeneration + 1
    /\ UNCHANGED <<deviceVars, cacheLock, pollVars, writerVars>>

PollStep(p) ==
    \/ PollOverlay(p) \/ PollReadPage(p) \/ PollReadDone(p)
    \/ PollMerge(p)

RmwStep(w) ==
    \/ Acquire(w) \/ ReadBase(w) \/ Commit(w)
    \/ \E f \in Fields, v \in Values : DeviceWrite(w, f, v)

Next ==
    \/ \E k \in Keys : PanelChange(k)
    \/ \E p \in Polls : PollStart(p) \/ PollStep(p) \/ PollAbort(p)
    \/ \E w \in Writers : (\E k \in Keys : Request(w, k)) \/ RmwStep(w) \/ RmwAbort(w)
    \/ Close

Spec == Init /\ [][Next]_vars

(* Every request ends, in an answer or a timeout, so a task that can take  *)
(* a step takes it; asyncio.Lock serves its waiters in order, so a task    *)
(* that finds the lock free again and again gets it.                       *)
Fairness ==
    /\ \A p \in Polls : WF_vars(PollStep(p)) /\ SF_vars(PollMerge(p))
    /\ \A w \in Writers : WF_vars(RmwStep(w)) /\ SF_vars(Acquire(w))

FairSpec == Spec /\ Fairness

-----------------------------------------------------------------------------
(* Properties                                                              *)

Cached == Entry \cup {Missing}

TypeOK ==
    /\ device \in [Keys -> Entry]
    /\ committed \in [Keys -> Nat]
    /\ cachedResult \in [Keys -> Cached]
    /\ derived \in [Keys -> Cached]
    /\ cacheLock \in Writers \cup {NoOne}
    /\ rmwGeneration \in Nat
    /\ rmwKeyGeneration \in [Keys -> Nat]
    /\ pollPc \in [Polls -> {"idle", "measure", "pages", "merge"}]
    /\ pollGeneration \in [Polls -> Nat]
    /\ pending \in [Polls -> SUBSET Keys]
    /\ result \in [Polls -> [Keys -> Cached]]
    /\ writerPc \in [Writers -> {"idle", "lock", "read", "write", "confirm"}]
    /\ key \in [Writers -> Keys]
    /\ word \in [Writers -> Entry]

(* A poll that took its snapshot before an RMW of a register committed     *)
(* never puts the older word back: since the last close(), the cache of a  *)
(* committed register is at least as new as that commit.  (The generation  *)
(* guard of _merge_poll_result with the stamps of _rmw_commit, also for a  *)
(* poll that has been under way since before a close().)                   *)
CommitSurvives ==
    \A k \in Keys : rmwKeyGeneration[k] > 0 =>
        /\ cachedResult[k] # Missing
        /\ cachedResult[k].version >= committed[k]

(* The docstring of _rmw_commit makes that promise without the close():    *)
(* "a poll that snapshotted the old word before this write cannot restore  *)
(* it afterwards".  close() drops the stamps the promise rests on.         *)
CommitSurvivesClose ==
    \A k \in Keys : cachedResult[k] # Missing => cachedResult[k].version >= committed[k]

(* Two RMWs of one register never lose each other's field: when the last   *)
(* change of the register was a committed RMW of this session, the next    *)
(* RMW leaves every other field as it finds it on the device, whatever the *)
(* polls in flight do to the cached word it starts from.                   *)
SiblingsKept ==
    [][\A w \in Writers, f \in Fields, v \in Values :
         LET k == key[w] IN
         (/\ DeviceWrite(w, f, v)
          /\ rmwKeyGeneration[k] > 0
          /\ device[k].version = committed[k])
         => \A g \in Fields \ {f} : device'[k].word[g] = device[k].word[g]]_vars

(* A poll whose word was skipped does not leave its own derived view of    *)
(* the skipped word behind: after a merge the derived key belongs to the   *)
(* word in the cache (_RMW_DERIVED_KEYS).                                  *)
DerivedFollows ==
    [][\A p \in Polls, k \in DerivedSources :
         PollMerge(p) /\ result[p][k] # Missing => derived'[k] = cachedResult'[k]]_vars

(* The cache keeps the contract of WordFreshness: its version of a word is *)
(* that of the cached entry, and its floor the last commit while close()   *)
(* has not dropped the stamp.                                              *)
Contract == INSTANCE WordFreshness WITH
    registerVersion <- [k \in Keys |-> device[k].version],
    cacheVersion <- [k \in Keys |-> IF cachedResult[k] = Missing THEN 0 ELSE cachedResult[k].version],
    floor <- [k \in Keys |-> IF rmwKeyGeneration[k] > 0 THEN committed[k] ELSE 0]

KeepsContract == Contract!Spec

(* Every RMW call gets the cache lock and comes to an end, and every poll  *)
(* that has read its pages merges them: no path keeps _cache_lock.         *)
RmwEnds == \A w \in Writers : writerPc[w] = "lock" ~> writerPc[w] = "idle"
PollEnds == \A p \in Polls : pollPc[p] = "merge" ~> pollPc[p] = "idle"

=============================================================================
