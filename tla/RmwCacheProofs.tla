--------------------------- MODULE RmwCacheProofs ---------------------------
(***************************************************************************)
(* Theorems about RmwCache, for every set of keys, fields, values, polls   *)
(* and writers, and every bound.  The argument for CommitSurvives: a poll  *)
(* may merge a key only when the key's stamp is not above the generation   *)
(* the poll captured; so its last commit came before the poll began, and   *)
(* whatever the poll took for that key (the cached entry or the device's)  *)
(* is at least that commit.                                                *)
(***************************************************************************)
EXTENDS RmwCache, TLAPS

(* Everything the client holds is a word the device has had: none is newer *)
(* than the device's, and one of the same version is the same word.        *)
Behind(k, e) ==
    /\ 1 <= e.version
    /\ e.version <= device[k].version
    /\ e.version = device[k].version => e = View(k, device[k])

DeviceInv ==
    \A k \in Keys : 1 <= device[k].version /\ committed[k] <= device[k].version

CacheInv ==
    \A k \in Keys :
        /\ cachedResult[k] # Missing => Behind(k, cachedResult[k])
        /\ rmwKeyGeneration[k] <= rmwGeneration

(* What a poll has taken for a key it may merge is no older than the last  *)
(* commit.                                                                 *)
SnapshotOK(p, k) ==
    /\ result[p][k] # Missing => Behind(k, result[p][k])
    /\ (/\ pollPc[p] \in {"pages", "merge"}
        /\ 0 < rmwKeyGeneration[k]
        /\ rmwKeyGeneration[k] <= pollGeneration[p])
       => result[p][k] # Missing /\ committed[k] <= result[p][k].version

PollInv ==
    \A p \in Polls :
        /\ pollGeneration[p] <= rmwGeneration
        /\ \A k \in Keys : SnapshotOK(p, k)

(* An RMW past the lock holds it; its base is no older than the last       *)
(* commit, and the word it has written is newer.                           *)
WriterOK(w) ==
    /\ writerPc[w] \in {"read", "write", "confirm"} => cacheLock = w
    /\ writerPc[w] = "write" =>
        /\ word[w].version <= device[key[w]].version
        /\ word[w].version = device[key[w]].version => word[w] = device[key[w]]
        /\ 0 < rmwKeyGeneration[key[w]] => committed[key[w]] <= word[w].version
    /\ writerPc[w] = "confirm" =>
        /\ 1 <= word[w].version
        /\ word[w].version <= device[key[w]].version
        /\ word[w].version = device[key[w]].version => word[w] = device[key[w]]
        /\ committed[key[w]] < word[w].version

WriterInv == \A w \in Writers : WriterOK(w)

IInv == TypeOK /\ DeviceInv /\ CacheInv /\ CommitSurvives /\ PollInv /\ WriterInv

-----------------------------------------------------------------------------
(* Type correctness                                                        *)

(* A view of an entry is an entry of the same version.                     *)
LEMMA ViewType ==
    ASSUME NEW k \in Keys, NEW e \in Entry
    PROVE  View(k, e) \in Entry /\ View(k, e).version = e.version
BY FieldAssumption DEF View, Entry, Word

(* No cache entry is the mark of a missing one.                            *)
LEMMA EntryPresent ==
    ASSUME NEW e \in Entry
    PROVE  e # Missing
BY MissingAssumption

LEMMA ZeroEntryType == ZeroEntry \in Entry
BY FieldAssumption DEF ZeroEntry, Entry, Word

LEMMA NoSnapshotType == NoSnapshot \in [Keys -> Cached]
BY DEF NoSnapshot, Cached

LEMMA InitType == Init => TypeOK
<1> SUFFICES ASSUME Init PROVE TypeOK
  OBVIOUS
<1>1. device \in [Keys -> Entry]
  <2> [word : Word, version : {1}] \subseteq Entry
    BY DEF Entry
  <2> QED
    BY DEF Init
<1>2. word \in [Writers -> Entry]
  BY ZeroEntryType DEF Init
<1>3. cachedResult \in [Keys -> Cached] /\ derived \in [Keys -> Cached]
  BY NoSnapshotType DEF Init
<1>4. result \in [Polls -> [Keys -> Cached]]
  BY NoSnapshotType DEF Init
<1>5. QED
  BY <1>1, <1>2, <1>3, <1>4 DEF Init, TypeOK

(* Every step of the next-state relation, action by action.                *)
LEMMA NextType == TypeOK /\ [Next]_vars => TypeOK'
<1> SUFFICES ASSUME TypeOK, [Next]_vars PROVE TypeOK'
  OBVIOUS
<1> USE DEF TypeOK
<1>1. ASSUME NEW k \in Keys, PanelChange(k) PROVE TypeOK'
  <2>1. PICK f \in Fields, v \in Values :
          device' = [device EXCEPT
                       ![k] = [word |-> [@.word EXCEPT ![f] = v], version |-> @.version + 1]]
    BY <1>1 DEF PanelChange
  <2>2. [word |-> [device[k].word EXCEPT ![f] = v], version |-> device[k].version + 1] \in Entry
    BY DEF Entry, Word
  <2>3. device' \in [Keys -> Entry]
    BY <2>1, <2>2
  <2>4. QED
    BY <1>1, <2>3 DEF PanelChange, clientVars, pollVars, writerVars
<1>2. ASSUME NEW p \in Polls, PollStart(p) PROVE TypeOK'
  BY <1>2 DEF PollStart, deviceVars, clientVars, writerVars
<1>3. ASSUME NEW p \in Polls, PollOverlay(p) PROVE TypeOK'
  BY <1>3 DEF PollOverlay, deviceVars, clientVars, writerVars
<1>4. ASSUME NEW p \in Polls, PollReadPage(p) PROVE TypeOK'
  <2>1. PICK k \in pending[p] :
          /\ result' = [result EXCEPT ![p][k] = View(k, device[k])]
          /\ pending' = [pending EXCEPT ![p] = @ \ {k}]
    BY <1>4 DEF PollReadPage
  <2>2. k \in Keys /\ View(k, device[k]) \in Cached
    BY ViewType DEF Cached
  <2>3. result' \in [Polls -> [Keys -> Cached]]
    BY <2>1, <2>2
  <2>4. pending' \in [Polls -> SUBSET Keys]
    BY <2>1
  <2>5. QED
    BY <1>4, <2>3, <2>4 DEF PollReadPage, deviceVars, clientVars, writerVars
<1>5. ASSUME NEW p \in Polls, PollReadDone(p) PROVE TypeOK'
  BY <1>5 DEF PollReadDone, deviceVars, clientVars, writerVars
<1>6. ASSUME NEW p \in Polls, PollMerge(p) PROVE TypeOK'
  <2>1. cachedResult' \in [Keys -> Cached]
    BY <1>6 DEF PollMerge, Merged
  <2>2. derived' \in [Keys -> Cached]
    BY <1>6, <2>1 DEF PollMerge, Cached
  <2>3. QED
    BY <1>6, <2>1, <2>2, NoSnapshotType DEF PollMerge, PollReturn, deviceVars, writerVars
<1>7. ASSUME NEW p \in Polls, PollAbort(p) PROVE TypeOK'
  BY <1>7, NoSnapshotType DEF PollAbort, PollReturn, deviceVars, clientVars, writerVars
<1>8. ASSUME NEW w \in Writers, NEW k \in Keys, Request(w, k) PROVE TypeOK'
  BY <1>8 DEF Request, deviceVars, clientVars, pollVars
<1>9. ASSUME NEW w \in Writers, Acquire(w) PROVE TypeOK'
  <2>1. word' \in [Writers -> Entry] /\ writerPc' \in [Writers -> {"idle", "lock", "read", "write", "confirm"}]
    <3>1. CASE Base[key[w]] # "live" /\ cachedResult[key[w]] # Missing
      <4>1. cachedResult[key[w]] \in Entry
        BY <3>1 DEF Cached
      <4>2. word' = [word EXCEPT ![w] = cachedResult[key[w]]]
        BY <1>9, <3>1, BaseAssumption DEF Acquire
      <4>3. writerPc' = [writerPc EXCEPT ![w] = "write"]
        BY <1>9, <3>1 DEF Acquire
      <4>4. QED
        BY <4>1, <4>2, <4>3
    <3>2. CASE ~(Base[key[w]] # "live" /\ cachedResult[key[w]] # Missing)
      <4>1. \/ word' = [word EXCEPT ![w] = ZeroEntry] /\ writerPc' = [writerPc EXCEPT ![w] = "write"]
            \/ word' = word /\ writerPc' = [writerPc EXCEPT ![w] = "read"]
        BY <1>9, <3>2 DEF Acquire
      <4>2. QED
        BY <4>1, ZeroEntryType
    <3>3. QED
      BY <3>1, <3>2
  <2>2. QED
    BY <1>9, <2>1 DEF Acquire, deviceVars, pollVars
<1>10. ASSUME NEW w \in Writers, ReadBase(w) PROVE TypeOK'
  BY <1>10 DEF ReadBase, deviceVars, clientVars, pollVars
<1>11. ASSUME NEW w \in Writers, NEW f \in Fields, NEW v \in Values, DeviceWrite(w, f, v)
       PROVE TypeOK'
  <2>1. [word |-> [word[w].word EXCEPT ![f] = v], version |-> device[key[w]].version + 1] \in Entry
    BY DEF Entry, Word
  <2>2. QED
    BY <1>11, <2>1 DEF DeviceWrite, clientVars, pollVars
<1>12. ASSUME NEW w \in Writers, Commit(w) PROVE TypeOK'
  <2>1. View(key[w], word[w]) \in Cached /\ word[w].version \in Nat
    BY ViewType DEF Cached, Entry
  <2>2. cachedResult' \in [Keys -> Cached] /\ committed' \in [Keys -> Nat]
    BY <1>12, <2>1 DEF Commit
  <2>3. rmwGeneration' \in Nat /\ rmwKeyGeneration' \in [Keys -> Nat]
    BY <1>12 DEF Commit
  <2>4. cacheLock' \in Writers \cup {NoOne} /\ word' \in [Writers -> Entry]
    BY <1>12, ZeroEntryType DEF Commit, RmwReturn
  <2>5. QED
    BY <1>12, <2>2, <2>3, <2>4 DEF Commit, RmwReturn, pollVars
<1>13. ASSUME NEW w \in Writers, RmwAbort(w) PROVE TypeOK'
  BY <1>13, ZeroEntryType DEF RmwAbort, RmwReturn, deviceVars, pollVars
<1>14. ASSUME Close PROVE TypeOK'
  BY <1>14, NoSnapshotType DEF Close, deviceVars, pollVars, writerVars
<1>15. ASSUME UNCHANGED vars PROVE TypeOK'
  BY <1>15 DEF vars, deviceVars, clientVars, pollVars, writerVars
<1>16. QED
  BY <1>1, <1>2, <1>3, <1>4, <1>5, <1>6, <1>7, <1>8, <1>9, <1>10, <1>11, <1>12, <1>13,
     <1>14, <1>15 DEF Next, PollStep, RmwStep

(* Every reachable state has the types the code gives its variables.       *)
THEOREM TypeCorrect == Spec => []TypeOK
BY InitType, NextType, PTL DEF Spec

-----------------------------------------------------------------------------
(* The inductive invariant                                                 *)

(* A word older than the device stays so when the register changes.        *)
LEMMA BehindGrows ==
    ASSUME NEW k \in Keys, NEW e \in Entry, Behind(k, e),
           device[k].version \in Nat, device'[k].version \in Nat,
           \/ device'[k] = device[k]
           \/ device'[k].version = device[k].version + 1
    PROVE  /\ 1 <= e.version
           /\ e.version <= device'[k].version
           /\ e.version = device'[k].version => e = View(k, device'[k])
<1>1. e.version \in Nat
  BY DEF Entry
<1>2. CASE device'[k] = device[k]
  BY <1>2 DEF Behind
<1>3. CASE device'[k].version = device[k].version + 1
  BY <1>1, <1>3 DEF Behind
<1>4. QED
  BY <1>2, <1>3

LEMMA InitIInv == Init => IInv
<1> SUFFICES ASSUME Init PROVE IInv
  OBVIOUS
<1>1. TypeOK
  BY InitType
<1>2. \A k \in Keys : device[k].version = 1
  BY DEF Init
<1>3. DeviceInv
  BY <1>2 DEF Init, DeviceInv
<1>4. CacheInv /\ CommitSurvives
  BY DEF Init, CacheInv, CommitSurvives, NoSnapshot
<1>5. PollInv
  BY DEF Init, PollInv, SnapshotOK, NoSnapshot
<1>6. WriterInv
  BY DEF Init, WriterInv, WriterOK
<1>7. QED
  BY <1>1, <1>3, <1>4, <1>5, <1>6 DEF IInv

(* A change of registers that leaves the client alone: the panel's, or the *)
(* main write of an RMW.                                                   *)
LEMMA ChangeKeeps ==
    ASSUME IInv, TypeOK',
           \A k \in Keys : \/ device'[k] = device[k]
                           \/ device'[k].version = device[k].version + 1,
           UNCHANGED committed, UNCHANGED clientVars, UNCHANGED pollVars
    PROVE  DeviceInv' /\ CacheInv' /\ CommitSurvives' /\ PollInv'
<1>1. \A k \in Keys : /\ device[k].version \in Nat /\ device'[k].version \in Nat
                      /\ committed[k] \in Nat
  BY DEF IInv, TypeOK, Entry
<1>2. DeviceInv'
  <2> SUFFICES ASSUME NEW k \in Keys
               PROVE  1 <= device'[k].version /\ committed[k] <= device'[k].version
    BY DEF DeviceInv
  <2>1. 1 <= device[k].version /\ committed[k] <= device[k].version
    BY DEF IInv, DeviceInv
  <2>2. CASE device'[k] = device[k]
    BY <2>1, <2>2
  <2>3. CASE device'[k].version = device[k].version + 1
    BY <1>1, <2>1, <2>3
  <2>4. QED
    BY <2>2, <2>3
<1>3. CacheInv'
  <2> SUFFICES ASSUME NEW k \in Keys, cachedResult[k] # Missing
               PROVE  Behind(k, cachedResult[k])'
    BY DEF IInv, CacheInv, clientVars
  <2>1. cachedResult[k] \in Entry /\ Behind(k, cachedResult[k]) /\ cachedResult'[k] = cachedResult[k]
    BY DEF IInv, TypeOK, CacheInv, Cached, clientVars
  <2>2. QED
    BY <1>1, <2>1, BehindGrows DEF Behind, View
<1>4. CommitSurvives'
  BY DEF IInv, CommitSurvives, clientVars
<1>5. PollInv'
  <2> SUFFICES ASSUME NEW p \in Polls, NEW k \in Keys, result[p][k] # Missing
               PROVE  Behind(k, result[p][k])'
    BY DEF IInv, PollInv, SnapshotOK, clientVars, pollVars
  <2>1. result[p][k] \in Entry /\ Behind(k, result[p][k]) /\ result'[p][k] = result[p][k]
    BY DEF IInv, TypeOK, PollInv, SnapshotOK, Cached, pollVars
  <2>2. QED
    BY <1>1, <2>1, BehindGrows DEF Behind, View
<1>6. QED
  BY <1>2, <1>3, <1>4, <1>5

(* What no step of a poll but the merge touches.                           *)
LEMMA PollFrame ==
    ASSUME IInv, UNCHANGED deviceVars, UNCHANGED clientVars, UNCHANGED writerVars
    PROVE  DeviceInv' /\ CacheInv' /\ CommitSurvives' /\ WriterInv'
<1>1. DeviceInv'
  BY DEF IInv, DeviceInv, deviceVars
<1>2. CacheInv'
  BY DEF IInv, CacheInv, Behind, View, deviceVars, clientVars
<1>3. CommitSurvives'
  BY DEF IInv, CommitSurvives, deviceVars, clientVars
<1>4. WriterInv'
  BY DEF IInv, WriterInv, WriterOK, deviceVars, clientVars, writerVars
<1>5. QED
  BY <1>1, <1>2, <1>3, <1>4

(* A poll that keeps its locals keeps its part of the invariant while the  *)
(* registers, the stamps and the generation stay.                          *)
LEMMA OtherPoll ==
    ASSUME IInv, NEW p \in Polls, UNCHANGED deviceVars,
           UNCHANGED <<rmwGeneration, rmwKeyGeneration>>,
           pollPc'[p] = pollPc[p], pollGeneration'[p] = pollGeneration[p],
           result'[p] = result[p]
    PROVE  /\ pollGeneration'[p] <= rmwGeneration'
           /\ \A k \in Keys : SnapshotOK(p, k)'
BY DEF IInv, PollInv, SnapshotOK, Behind, View, deviceVars

(* A poll that is not past the overlay promises nothing about freshness.   *)
LEMMA IdlePoll ==
    ASSUME NEW p \in Polls, pollPc'[p] \in {"idle", "measure"},
           result'[p] = NoSnapshot
    PROVE  \A k \in Keys : SnapshotOK(p, k)'
BY DEF SnapshotOK, NoSnapshot

LEMMA PollStartKeeps ==
    ASSUME IInv, NEW p \in Polls, PollStart(p)
    PROVE  DeviceInv' /\ CacheInv' /\ CommitSurvives' /\ PollInv' /\ WriterInv'
<1>1. UNCHANGED deviceVars /\ UNCHANGED clientVars /\ UNCHANGED writerVars
  BY DEF PollStart
<1>2. PollInv'
  <2>1. SUFFICES ASSUME NEW q \in Polls
                 PROVE  /\ pollGeneration'[q] <= rmwGeneration'
                        /\ \A k \in Keys : SnapshotOK(q, k)'
    BY DEF PollInv
  <2>2. CASE q = p
    <3>1. pollPc'[p] = "measure" /\ pollGeneration'[p] = rmwGeneration /\ result' = result
      BY DEF PollStart, IInv, TypeOK
    <3>2. rmwGeneration \in Nat /\ rmwGeneration' = rmwGeneration
      BY <1>1 DEF clientVars, IInv, TypeOK
    <3>3. ASSUME NEW k \in Keys PROVE SnapshotOK(p, k)'
      BY <1>1, <3>1 DEF IInv, PollInv, SnapshotOK, Behind, View, deviceVars
    <3>4. QED
      BY <2>2, <3>1, <3>2, <3>3
  <2>3. CASE q # p
    BY <1>1, <2>3, OtherPoll DEF PollStart, IInv, TypeOK, clientVars
  <2>4. QED
    BY <2>2, <2>3
<1>3. QED
  BY <1>1, <1>2, PollFrame

(* The snapshot starts as a copy of a cache that keeps every commit.       *)
LEMMA PollOverlayKeeps ==
    ASSUME IInv, NEW p \in Polls, PollOverlay(p)
    PROVE  DeviceInv' /\ CacheInv' /\ CommitSurvives' /\ PollInv' /\ WriterInv'
<1>1. UNCHANGED deviceVars /\ UNCHANGED clientVars /\ UNCHANGED writerVars
  BY DEF PollOverlay
<1>2. PollInv'
  <2>1. SUFFICES ASSUME NEW q \in Polls
                 PROVE  /\ pollGeneration'[q] <= rmwGeneration'
                        /\ \A k \in Keys : SnapshotOK(q, k)'
    BY DEF PollInv
  <2>2. CASE q = p
    <3>1. result'[p] = cachedResult /\ pollGeneration' = pollGeneration
      BY DEF PollOverlay, IInv, TypeOK
    <3>2. pollGeneration'[p] <= rmwGeneration'
      BY <1>1, <3>1 DEF IInv, PollInv, clientVars
    <3>3. ASSUME NEW k \in Keys PROVE SnapshotOK(p, k)'
      <4>1. result'[p][k] # Missing => Behind(k, result[p][k])'
        BY <1>1, <3>1 DEF IInv, CacheInv, Behind, View, deviceVars
      <4>2. rmwKeyGeneration'[k] > 0 =>
              result'[p][k] # Missing /\ committed'[k] <= result'[p][k].version
        BY <1>1, <3>1 DEF IInv, CommitSurvives, deviceVars, clientVars
      <4>3. QED
        BY <4>1, <4>2 DEF SnapshotOK, Behind, View
    <3>4. QED
      BY <2>2, <3>2, <3>3
  <2>3. CASE q # p
    BY <1>1, <2>3, OtherPoll DEF PollOverlay, IInv, TypeOK, clientVars
  <2>4. QED
    BY <2>2, <2>3
<1>3. QED
  BY <1>1, <1>2, PollFrame

(* A page brings the device's own words, and those are never older than a  *)
(* commit.                                                                 *)
LEMMA PollReadPageKeeps ==
    ASSUME IInv, NEW p \in Polls, PollReadPage(p)
    PROVE  DeviceInv' /\ CacheInv' /\ CommitSurvives' /\ PollInv' /\ WriterInv'
<1>1. UNCHANGED deviceVars /\ UNCHANGED clientVars /\ UNCHANGED writerVars
  BY DEF PollReadPage
<1>2. PICK x \in pending[p] : result' = [result EXCEPT ![p][x] = View(x, device[x])]
  BY DEF PollReadPage
<1>3. pollPc' = pollPc /\ pollGeneration' = pollGeneration
  BY DEF PollReadPage
<1>4. PollInv'
  <2>1. SUFFICES ASSUME NEW q \in Polls
                 PROVE  /\ pollGeneration'[q] <= rmwGeneration'
                        /\ \A k \in Keys : SnapshotOK(q, k)'
    BY DEF PollInv
  <2>2. CASE q = p
    <3>1. pollGeneration'[p] <= rmwGeneration'
      BY <1>1, <1>3 DEF IInv, PollInv, clientVars
    <3>2. ASSUME NEW k \in Keys PROVE SnapshotOK(p, k)'
      <4>1. CASE k = x
        <5>1. result'[p][k] = View(k, device[k])
          BY <1>2, <4>1 DEF IInv, TypeOK
        <5>2. device[k] \in Entry /\ device'[k] = device[k] /\ committed'[k] = committed[k]
          BY <1>1 DEF deviceVars, IInv, TypeOK
        <5>3. /\ result'[p][k] # Missing
              /\ result'[p][k].version = device[k].version
          BY <5>1, <5>2, ViewType, EntryPresent
        <5>4. 1 <= device[k].version /\ committed[k] <= device[k].version
          BY DEF IInv, DeviceInv
        <5>5. device[k].version \in Nat
          BY <5>2 DEF Entry
        <5>6. Behind(k, result[p][k])'
          BY <5>1, <5>2, <5>3, <5>4, <5>5 DEF Behind, View
        <5>7. QED
          BY <5>2, <5>3, <5>4, <5>6 DEF SnapshotOK, Behind, View
      <4>2. CASE k # x
        <5>1. result'[p][k] = result[p][k]
          BY <1>2, <4>2 DEF IInv, TypeOK
        <5>2. QED
          BY <1>1, <1>3, <5>1
             DEF IInv, PollInv, SnapshotOK, Behind, View, deviceVars, clientVars
      <4>3. QED
        BY <4>1, <4>2
    <3>3. QED
      BY <2>2, <3>1, <3>2
  <2>3. CASE q # p
    <3>1. result'[q] = result[q]
      BY <1>2, <2>3 DEF IInv, TypeOK
    <3>2. QED
      BY <1>1, <1>3, <3>1, OtherPoll DEF clientVars
  <2>4. QED
    BY <2>2, <2>3
<1>5. QED
  BY <1>1, <1>4, PollFrame

LEMMA PollReadDoneKeeps ==
    ASSUME IInv, NEW p \in Polls, PollReadDone(p)
    PROVE  DeviceInv' /\ CacheInv' /\ CommitSurvives' /\ PollInv' /\ WriterInv'
<1>1. UNCHANGED deviceVars /\ UNCHANGED clientVars /\ UNCHANGED writerVars
  BY DEF PollReadDone
<1>2. pollGeneration' = pollGeneration /\ result' = result
  BY DEF PollReadDone
<1>3. PollInv'
  <2>1. SUFFICES ASSUME NEW q \in Polls
                 PROVE  /\ pollGeneration'[q] <= rmwGeneration'
                        /\ \A k \in Keys : SnapshotOK(q, k)'
    BY DEF PollInv
  <2>2. pollPc'[q] \in {"pages", "merge"} => pollPc[q] \in {"pages", "merge"}
    BY DEF PollReadDone, IInv, TypeOK
  <2>3. QED
    BY <1>1, <1>2, <2>2 DEF IInv, PollInv, SnapshotOK, Behind, View, deviceVars, clientVars
<1>4. QED
  BY <1>1, <1>3, PollFrame

(* A poll that ends keeps nothing.                                         *)
LEMMA PollReturnKeeps ==
    ASSUME IInv, NEW p \in Polls, PollReturn(p), UNCHANGED deviceVars,
           UNCHANGED <<rmwGeneration, rmwKeyGeneration>>
    PROVE  PollInv'
<1>1. SUFFICES ASSUME NEW q \in Polls
               PROVE  /\ pollGeneration'[q] <= rmwGeneration'
                      /\ \A k \in Keys : SnapshotOK(q, k)'
  BY DEF PollInv
<1>2. CASE q = p
  <2>1. pollPc'[p] = "idle" /\ pollGeneration'[p] = 0 /\ result'[p] = NoSnapshot
    BY DEF PollReturn, IInv, TypeOK
  <2>2. rmwGeneration' \in Nat
    BY DEF IInv, TypeOK
  <2>3. QED
    BY <1>2, <2>1, <2>2, IdlePoll
<1>3. CASE q # p
  BY <1>3, OtherPoll DEF PollReturn, IInv, TypeOK
<1>4. QED
  BY <1>2, <1>3

LEMMA PollAbortKeeps ==
    ASSUME IInv, NEW p \in Polls, PollAbort(p)
    PROVE  DeviceInv' /\ CacheInv' /\ CommitSurvives' /\ PollInv' /\ WriterInv'
<1>1. UNCHANGED deviceVars /\ UNCHANGED clientVars /\ UNCHANGED writerVars
  BY DEF PollAbort
<1>2. PollReturn(p)
  BY DEF PollAbort
<1>3. QED
  BY <1>1, <1>2, PollFrame, PollReturnKeeps DEF clientVars

(* A merged key carries a stamp no poll generation is below, so the poll   *)
(* began after its last commit.                                            *)
LEMMA PollMergeKeeps ==
    ASSUME IInv, NEW p \in Polls, PollMerge(p)
    PROVE  DeviceInv' /\ CacheInv' /\ CommitSurvives' /\ PollInv' /\ WriterInv'
<1>1. UNCHANGED deviceVars /\ UNCHANGED <<rmwGeneration, rmwKeyGeneration>>
  BY DEF PollMerge
<1>2. \A k \in Keys :
         cachedResult'[k] = IF k \in Merged(p) THEN result[p][k] ELSE cachedResult[k]
  BY DEF PollMerge
<1>3. DeviceInv'
  BY <1>1 DEF IInv, DeviceInv, deviceVars
<1>4. CacheInv'
  <2>1. SUFFICES ASSUME NEW k \in Keys
                 PROVE  /\ cachedResult'[k] # Missing => Behind(k, cachedResult[k])'
                        /\ rmwKeyGeneration'[k] <= rmwGeneration'
    BY DEF CacheInv
  <2>2. cachedResult'[k] = result[p][k] \/ cachedResult'[k] = cachedResult[k]
    BY <1>2
  <2>3. /\ result[p][k] # Missing => Behind(k, result[p][k])
        /\ cachedResult[k] # Missing => Behind(k, cachedResult[k])
        /\ rmwKeyGeneration[k] <= rmwGeneration
    BY DEF IInv, PollInv, SnapshotOK, CacheInv
  <2>4. QED
    BY <1>1, <2>2, <2>3 DEF Behind, View, deviceVars
<1>5. CommitSurvives'
  <2>1. SUFFICES ASSUME NEW k \in Keys, rmwKeyGeneration[k] > 0
                 PROVE  cachedResult'[k] # Missing /\ cachedResult'[k].version >= committed[k]
    BY <1>1 DEF CommitSurvives, deviceVars
  <2>2. CASE k \in Merged(p)
    <3>1. rmwKeyGeneration[k] \in Nat /\ pollGeneration[p] \in Nat
      BY DEF IInv, TypeOK
    <3>2. result[p][k] # Missing /\ ~(rmwKeyGeneration[k] > pollGeneration[p])
      BY <2>2 DEF Merged, Skipped
    <3>3. 0 < rmwKeyGeneration[k] /\ rmwKeyGeneration[k] <= pollGeneration[p]
      BY <2>1, <3>1, <3>2
    <3>4. committed[k] <= result[p][k].version
      BY <3>3 DEF PollMerge, IInv, PollInv, SnapshotOK
    <3>5. committed[k] \in Nat /\ result[p][k].version \in Nat
      BY <3>2 DEF IInv, TypeOK, Cached, Entry
    <3>6. QED
      BY <1>2, <2>2, <3>2, <3>4, <3>5
  <2>3. CASE k \notin Merged(p)
    BY <1>2, <2>1, <2>3 DEF IInv, CommitSurvives
  <2>4. QED
    BY <2>2, <2>3
<1>6. PollInv'
  BY <1>1, PollReturnKeeps DEF PollMerge
<1>7. WriterInv'
  BY <1>1 DEF PollMerge, IInv, WriterInv, WriterOK, deviceVars, writerVars
<1>8. QED
  BY <1>3, <1>4, <1>5, <1>6, <1>7

(* What no step of an RMW but the write and the commit touches.            *)
LEMMA RmwFrame ==
    ASSUME IInv, UNCHANGED deviceVars, UNCHANGED pollVars,
           UNCHANGED <<cachedResult, rmwGeneration, rmwKeyGeneration>>
    PROVE  DeviceInv' /\ CacheInv' /\ CommitSurvives' /\ PollInv'
<1>1. DeviceInv'
  BY DEF IInv, DeviceInv, deviceVars
<1>2. CacheInv'
  BY DEF IInv, CacheInv, Behind, View, deviceVars
<1>3. CommitSurvives'
  BY DEF IInv, CommitSurvives, deviceVars
<1>4. PollInv'
  BY DEF IInv, PollInv, SnapshotOK, Behind, View, deviceVars, pollVars
<1>5. QED
  BY <1>1, <1>2, <1>3, <1>4

(* While one RMW holds the lock, every other one is before it or idle.     *)
LEMMA OthersWait ==
    ASSUME IInv, NEW w \in Writers, NEW x \in Writers, x # w,
           cacheLock \in {w, NoOne}, writerPc'[x] = writerPc[x]
    PROVE  WriterOK(x)'
<1>1. x # NoOne
  BY TaskAssumption
<1>2. writerPc[x] \notin {"read", "write", "confirm"}
  BY <1>1 DEF IInv, WriterInv, WriterOK
<1>3. QED
  BY <1>2 DEF WriterOK

LEMMA PanelChangeKeeps ==
    ASSUME IInv, TypeOK', NEW k \in Keys, PanelChange(k)
    PROVE  DeviceInv' /\ CacheInv' /\ CommitSurvives' /\ PollInv' /\ WriterInv'
<1>1. UNCHANGED committed /\ UNCHANGED clientVars /\ UNCHANGED pollVars /\ UNCHANGED writerVars
  BY DEF PanelChange
<1>2. \A j \in Keys : \/ device'[j] = device[j]
                      \/ device'[j].version = device[j].version + 1
  BY DEF PanelChange, IInv, TypeOK
<1>3. WriterInv'
  <2>1. SUFFICES ASSUME NEW w \in Writers PROVE WriterOK(w)'
    BY DEF WriterInv
  <2>2. WriterOK(w) /\ key[w] \in Keys
    BY DEF IInv, WriterInv, TypeOK
  <2>3. word[w].version \in Nat /\ device[key[w]].version \in Nat /\ committed[key[w]] \in Nat
    BY <2>2 DEF IInv, TypeOK, Entry
  <2>4. CASE device'[key[w]] = device[key[w]]
    BY <1>1, <2>2, <2>4 DEF WriterOK, clientVars, writerVars
  <2>5. CASE device'[key[w]].version = device[key[w]].version + 1
    BY <1>1, <2>2, <2>3, <2>5 DEF WriterOK, clientVars, writerVars
  <2>6. QED
    BY <1>2, <2>2, <2>4, <2>5
<1>4. QED
  BY <1>1, <1>2, <1>3, ChangeKeeps

LEMMA RequestKeeps ==
    ASSUME IInv, NEW w \in Writers, NEW k \in Keys, Request(w, k)
    PROVE  DeviceInv' /\ CacheInv' /\ CommitSurvives' /\ PollInv' /\ WriterInv'
<1>1. WriterInv'
  <2>1. SUFFICES ASSUME NEW x \in Writers PROVE WriterOK(x)'
    BY DEF WriterInv
  <2>2. CASE x = w
    BY <2>2 DEF Request, IInv, TypeOK, WriterOK
  <2>3. CASE x # w
    <3>1. writerPc'[x] = writerPc[x] /\ key'[x] = key[x] /\ word'[x] = word[x]
      BY <2>3 DEF Request, IInv, TypeOK
    <3>2. QED
      BY <3>1 DEF Request, IInv, WriterInv, WriterOK, deviceVars, clientVars
  <2>4. QED
    BY <2>2, <2>3
<1>2. QED
  BY <1>1, RmwFrame DEF Request, clientVars

(* The base is the cached word, which keeps every commit, or 0, which only *)
(* a register without a commit is given.                                   *)
LEMMA AcquireKeeps ==
    ASSUME IInv, NEW w \in Writers, Acquire(w)
    PROVE  DeviceInv' /\ CacheInv' /\ CommitSurvives' /\ PollInv' /\ WriterInv'
<1>1. WriterInv'
  <2>1. SUFFICES ASSUME NEW x \in Writers PROVE WriterOK(x)'
    BY DEF WriterInv
  <2> DEFINE k == key[w]
  <2>2. k \in Keys /\ key' = key /\ UNCHANGED deviceVars /\ rmwKeyGeneration' = rmwKeyGeneration
    BY DEF Acquire, IInv, TypeOK
  <2>3. cacheLock = NoOne /\ cacheLock' = w
    BY DEF Acquire
  <2>4. CASE x = w
    <3>1. CASE Base[k] # "live" /\ cachedResult[k] # Missing
      <4>1. word'[w] = cachedResult[k] /\ writerPc'[w] = "write"
        BY <3>1, BaseAssumption DEF Acquire, IInv, TypeOK
      <4>2. Behind(k, cachedResult[k]) /\ View(k, device[k]) = device[k]
        BY <2>2, <3>1 DEF IInv, CacheInv, View
      <4>3. 0 < rmwKeyGeneration[k] => committed[k] <= cachedResult[k].version
        <5>1. committed[k] \in Nat /\ cachedResult[k].version \in Nat /\ rmwKeyGeneration[k] \in Nat
          BY <2>2, <3>1 DEF IInv, TypeOK, Cached, Entry
        <5>2. QED
          BY <2>2, <5>1 DEF IInv, CommitSurvives
      <4>4. QED
        BY <2>2, <2>3, <2>4, <4>1, <4>2, <4>3 DEF Behind, WriterOK, deviceVars
    <3>2. CASE Base[k] = "zero" /\ cachedResult[k] = Missing
      <4>1. word'[w] = ZeroEntry /\ writerPc'[w] = "write"
        BY <3>2, BaseAssumption DEF Acquire, IInv, TypeOK
      <4>2. word'[w].version = 0 /\ 1 <= device[k].version
        BY <2>2, <4>1 DEF ZeroEntry, IInv, DeviceInv
      <4>3. ~(0 < rmwKeyGeneration[k])
        BY <2>2, <3>2 DEF IInv, TypeOK, CommitSurvives
      <4>4. device[k].version \in Nat
        BY <2>2 DEF IInv, TypeOK, Entry
      <4>5. QED
        BY <2>2, <2>3, <2>4, <4>1, <4>2, <4>3, <4>4 DEF WriterOK, deviceVars
    <3>3. CASE Base[k] = "live" \/ (Base[k] = "cached" /\ cachedResult[k] = Missing)
      <4>1. writerPc'[w] = "read"
        BY <3>3 DEF Acquire, IInv, TypeOK
      <4>2. QED
        BY <2>3, <2>4, <4>1 DEF WriterOK
    <3>4. QED
      BY <2>2, <3>1, <3>2, <3>3, BaseAssumption
  <2>5. CASE x # w
    <3>1. writerPc'[x] = writerPc[x]
      BY <2>5 DEF Acquire, IInv, TypeOK
    <3>2. QED
      BY <2>3, <2>5, <3>1, OthersWait
  <2>6. QED
    BY <2>4, <2>5
<1>2. QED
  BY <1>1, RmwFrame DEF Acquire

LEMMA ReadBaseKeeps ==
    ASSUME IInv, NEW w \in Writers, ReadBase(w)
    PROVE  DeviceInv' /\ CacheInv' /\ CommitSurvives' /\ PollInv' /\ WriterInv'
<1>1. WriterInv'
  <2>1. SUFFICES ASSUME NEW x \in Writers PROVE WriterOK(x)'
    BY DEF WriterInv
  <2>2. UNCHANGED deviceVars /\ UNCHANGED clientVars /\ key' = key /\ cacheLock = w
    BY DEF ReadBase, IInv, WriterInv, WriterOK
  <2>3. CASE x = w
    <3>1. word'[w] = device[key[w]] /\ writerPc'[w] = "write" /\ key[w] \in Keys
      BY DEF ReadBase, IInv, TypeOK
    <3>2. committed[key[w]] <= device[key[w]].version /\ device[key[w]].version \in Nat
      BY <3>1 DEF IInv, DeviceInv, TypeOK, Entry
    <3>3. QED
      BY <2>2, <2>3, <3>1, <3>2 DEF WriterOK, deviceVars, clientVars
  <2>4. CASE x # w
    <3>1. writerPc'[x] = writerPc[x]
      BY <2>4 DEF ReadBase, IInv, TypeOK
    <3>2. QED
      BY <2>2, <2>4, <3>1, OthersWait
  <2>5. QED
    BY <2>3, <2>4
<1>2. QED
  BY <1>1, RmwFrame DEF ReadBase, clientVars

LEMMA DeviceWriteKeeps ==
    ASSUME IInv, TypeOK', NEW w \in Writers, NEW f \in Fields, NEW v \in Values,
           DeviceWrite(w, f, v)
    PROVE  DeviceInv' /\ CacheInv' /\ CommitSurvives' /\ PollInv' /\ WriterInv'
<1>1. UNCHANGED committed /\ UNCHANGED clientVars /\ UNCHANGED pollVars
  BY DEF DeviceWrite
<1>2. \A j \in Keys : \/ device'[j] = device[j]
                      \/ device'[j].version = device[j].version + 1
  BY DEF DeviceWrite, IInv, TypeOK
<1>3. WriterInv'
  <2>1. SUFFICES ASSUME NEW x \in Writers PROVE WriterOK(x)'
    BY DEF WriterInv
  <2>2. key' = key /\ cacheLock = w /\ cacheLock' = w /\ key[w] \in Keys
    BY DEF DeviceWrite, IInv, WriterInv, WriterOK, TypeOK, clientVars
  <2>3. CASE x = w
    <3>1. /\ device'[key[w]] = word'[w]
          /\ word'[w].version = device[key[w]].version + 1
          /\ writerPc'[w] = "confirm"
      BY <2>2 DEF DeviceWrite, IInv, TypeOK
    <3>2. 1 <= device[key[w]].version /\ committed[key[w]] <= device[key[w]].version
      BY <2>2 DEF IInv, DeviceInv
    <3>3. device[key[w]].version \in Nat /\ committed[key[w]] \in Nat
      BY <2>2 DEF IInv, TypeOK, Entry
    <3>4. QED
      BY <1>1, <2>2, <2>3, <3>1, <3>2, <3>3 DEF WriterOK
  <2>4. CASE x # w
    <3>1. writerPc'[x] = writerPc[x]
      BY <2>4 DEF DeviceWrite, IInv, TypeOK
    <3>2. QED
      BY <2>2, <2>4, <3>1, OthersWait
  <2>5. QED
    BY <2>3, <2>4
<1>4. QED
  BY <1>1, <1>2, <1>3, ChangeKeeps

(* The stamp of a commit is above the generation of every poll under way,  *)
(* which therefore may not merge the key any more.                         *)
LEMMA CommitKeeps ==
    ASSUME IInv, NEW w \in Writers, Commit(w)
    PROVE  DeviceInv' /\ CacheInv' /\ CommitSurvives' /\ PollInv' /\ WriterInv'
<1> DEFINE k == key[w]
<1>1. k \in Keys /\ word[w] \in Entry /\ View(k, word[w]).version = word[w].version
  BY ViewType DEF IInv, TypeOK
<1>2. cacheLock = w /\ WriterOK(w) /\ writerPc[w] = "confirm"
  BY DEF Commit, IInv, WriterInv, WriterOK
<1>3. /\ device' = device /\ UNCHANGED pollVars
      /\ rmwGeneration' = rmwGeneration + 1 /\ rmwGeneration \in Nat
  BY DEF Commit, IInv, TypeOK
<1>4. /\ cachedResult'[k] = View(k, word[w])
      /\ committed'[k] = word[w].version
      /\ rmwKeyGeneration'[k] = rmwGeneration + 1
  BY <1>1 DEF Commit, IInv, TypeOK
<1>5. ASSUME NEW j \in Keys, j # k
      PROVE  /\ cachedResult'[j] = cachedResult[j]
             /\ committed'[j] = committed[j]
             /\ rmwKeyGeneration'[j] = rmwKeyGeneration[j]
  BY <1>1, <1>5 DEF Commit, IInv, TypeOK
<1>6. DeviceInv'
  <2>1. SUFFICES ASSUME NEW j \in Keys
                 PROVE  1 <= device[j].version /\ committed'[j] <= device[j].version
    BY <1>3 DEF DeviceInv
  <2>2. 1 <= device[j].version /\ committed[j] <= device[j].version
    BY DEF IInv, DeviceInv
  <2>3. word[w].version <= device[k].version
    BY <1>2 DEF WriterOK
  <2>4. QED
    BY <1>4, <1>5, <2>2, <2>3
<1>7. CacheInv'
  <2>1. SUFFICES ASSUME NEW j \in Keys
                 PROVE  /\ cachedResult'[j] # Missing => Behind(j, cachedResult[j])'
                        /\ rmwKeyGeneration'[j] <= rmwGeneration'
    BY DEF CacheInv
  <2>2. CASE j = k
    <3>1. /\ 1 <= word[w].version /\ word[w].version <= device[k].version
          /\ word[w].version = device[k].version => View(k, word[w]) = View(k, device[k])
      BY <1>2 DEF WriterOK
    <3>2. /\ 1 <= cachedResult'[k].version /\ cachedResult'[k].version <= device[k].version
          /\ cachedResult'[k].version = device[k].version => cachedResult'[k] = View(k, device[k])
      BY <1>1, <1>4, <3>1
    <3>3. View(k, device[k])' = View(k, device[k]) /\ k' = k
      BY <1>3 DEF View, Commit
    <3>4. Behind(j, cachedResult[j])'
      BY <1>3, <2>2, <3>2, <3>3 DEF Behind
    <3>5. QED
      BY <1>3, <1>4, <2>2, <3>4
  <2>3. CASE j # k
    <3>1. /\ cachedResult[j] # Missing => Behind(j, cachedResult[j])
          /\ rmwKeyGeneration[j] <= rmwGeneration /\ rmwKeyGeneration[j] \in Nat
      BY DEF IInv, CacheInv, TypeOK
    <3>2. QED
      BY <1>3, <1>5, <2>3, <3>1 DEF Behind, View
  <2>4. QED
    BY <2>2, <2>3
<1>8. CommitSurvives'
  <2>1. SUFFICES ASSUME NEW j \in Keys, rmwKeyGeneration'[j] > 0
                 PROVE  cachedResult'[j] # Missing /\ cachedResult'[j].version >= committed'[j]
    BY DEF CommitSurvives
  <2>2. CASE j = k
    <3>1. View(k, word[w]) # Missing
      BY <1>1, ViewType, EntryPresent
    <3>2. word[w].version \in Nat
      BY <1>1 DEF Entry
    <3>3. QED
      BY <1>1, <1>4, <2>2, <3>1, <3>2
  <2>3. CASE j # k
    BY <1>5, <2>1, <2>3 DEF IInv, CommitSurvives
  <2>4. QED
    BY <2>2, <2>3
<1>9. PollInv'
  <2>1. SUFFICES ASSUME NEW p \in Polls, NEW j \in Keys
                 PROVE  pollGeneration[p] <= rmwGeneration' /\ SnapshotOK(p, j)'
    BY <1>1, <1>3 DEF PollInv, pollVars
  <2>2. pollGeneration[p] <= rmwGeneration /\ pollGeneration[p] \in Nat /\ SnapshotOK(p, j)
    BY DEF IInv, PollInv, TypeOK
  <2>3. pollGeneration[p] <= rmwGeneration'
    BY <1>3, <2>2
  <2>4. result[p][j] # Missing => Behind(j, result[p][j])'
    BY <1>3, <2>2 DEF SnapshotOK, Behind, View, pollVars
  <2>5. CASE j = k
    <3>1. ~(rmwKeyGeneration'[j] <= pollGeneration[p])
      BY <1>3, <1>4, <2>2, <2>5
    <3>2. QED
      BY <1>3, <2>3, <2>4, <3>1 DEF SnapshotOK, pollVars
  <2>6. CASE j # k
    BY <1>3, <1>5, <2>2, <2>3, <2>4, <2>6 DEF SnapshotOK, pollVars
  <2>7. QED
    BY <2>5, <2>6
<1>10. WriterInv'
  <2>1. SUFFICES ASSUME NEW x \in Writers PROVE WriterOK(x)'
    BY DEF WriterInv
  <2>2. CASE x = w
    BY <2>2 DEF Commit, RmwReturn, IInv, TypeOK, WriterOK
  <2>3. CASE x # w
    <3>1. writerPc'[x] = writerPc[x]
      BY <2>3 DEF Commit, RmwReturn, IInv, TypeOK
    <3>2. QED
      BY <1>2, <2>3, <3>1, OthersWait
  <2>4. QED
    BY <2>2, <2>3
<1>11. QED
  BY <1>6, <1>7, <1>8, <1>9, <1>10

LEMMA RmwAbortKeeps ==
    ASSUME IInv, NEW w \in Writers, RmwAbort(w)
    PROVE  DeviceInv' /\ CacheInv' /\ CommitSurvives' /\ PollInv' /\ WriterInv'
<1>1. WriterInv'
  <2>1. SUFFICES ASSUME NEW x \in Writers PROVE WriterOK(x)'
    BY DEF WriterInv
  <2>2. CASE x = w
    BY <2>2 DEF RmwAbort, RmwReturn, IInv, TypeOK, WriterOK
  <2>3. CASE x # w
    <3>1. /\ writerPc'[x] = writerPc[x] /\ word'[x] = word[x] /\ key'[x] = key[x]
          /\ cacheLock = x => cacheLock' = x
      BY <2>3 DEF RmwAbort, RmwReturn, IInv, TypeOK
    <3>2. UNCHANGED deviceVars /\ rmwKeyGeneration' = rmwKeyGeneration
      BY DEF RmwAbort
    <3>3. QED
      BY <3>1, <3>2 DEF IInv, WriterInv, WriterOK, deviceVars
  <2>4. QED
    BY <2>2, <2>3
<1>2. QED
  BY <1>1, RmwFrame DEF RmwAbort

LEMMA CloseKeeps ==
    ASSUME IInv, Close
    PROVE  DeviceInv' /\ CacheInv' /\ CommitSurvives' /\ PollInv' /\ WriterInv'
<1>1. /\ UNCHANGED deviceVars /\ UNCHANGED pollVars /\ UNCHANGED writerVars
      /\ rmwGeneration' = rmwGeneration + 1 /\ rmwGeneration \in Nat
  BY DEF Close, IInv, TypeOK
<1>2. \A k \in Keys : cachedResult'[k] = Missing /\ rmwKeyGeneration'[k] = 0
  BY DEF Close, NoSnapshot
<1>3. DeviceInv'
  BY <1>1 DEF IInv, DeviceInv, deviceVars
<1>4. CacheInv' /\ CommitSurvives'
  BY <1>1, <1>2 DEF CacheInv, CommitSurvives
<1>5. PollInv'
  <2>1. SUFFICES ASSUME NEW p \in Polls
                 PROVE  /\ pollGeneration[p] <= rmwGeneration'
                        /\ \A k \in Keys : SnapshotOK(p, k)'
    BY <1>1 DEF PollInv, pollVars
  <2>2. pollGeneration[p] <= rmwGeneration /\ pollGeneration[p] \in Nat
    BY DEF IInv, PollInv, TypeOK
  <2>3. QED
    BY <1>1, <1>2, <2>2
       DEF IInv, PollInv, SnapshotOK, Behind, View, deviceVars, pollVars
<1>6. WriterInv'
  <2>1. SUFFICES ASSUME NEW x \in Writers PROVE WriterOK(x)'
    BY DEF WriterInv
  <2>2. WriterOK(x) /\ key[x] \in Keys
    BY DEF IInv, WriterInv, TypeOK
  <2>3. cacheLock' = cacheLock
    BY DEF Close
  <2>4. QED
    BY <1>1, <1>2, <2>2, <2>3 DEF WriterOK, deviceVars, writerVars
<1>7. QED
  BY <1>3, <1>4, <1>5, <1>6

LEMMA NextIInv == IInv /\ [Next]_vars => IInv'
<1> SUFFICES ASSUME IInv, [Next]_vars PROVE IInv'
  OBVIOUS
<1>1. TypeOK'
  BY NextType DEF IInv
<1> SUFFICES DeviceInv' /\ CacheInv' /\ CommitSurvives' /\ PollInv' /\ WriterInv'
  BY <1>1 DEF IInv
<1>2. CASE \E k \in Keys : PanelChange(k)
  BY <1>1, <1>2, PanelChangeKeeps
<1>3. CASE \E p \in Polls : PollStart(p) \/ PollStep(p) \/ PollAbort(p)
  BY <1>3, PollStartKeeps, PollOverlayKeeps, PollReadPageKeeps, PollReadDoneKeeps,
     PollMergeKeeps, PollAbortKeeps DEF PollStep
<1>4. CASE \E w \in Writers, k \in Keys : Request(w, k)
  BY <1>4, RequestKeeps
<1>5. CASE \E w \in Writers : RmwStep(w) \/ RmwAbort(w)
  BY <1>1, <1>5, AcquireKeeps, ReadBaseKeeps, DeviceWriteKeeps, CommitKeeps, RmwAbortKeeps
     DEF RmwStep
<1>6. CASE Close
  BY <1>6, CloseKeeps
<1>7. CASE UNCHANGED vars
  <2>1. /\ UNCHANGED deviceVars /\ UNCHANGED clientVars
        /\ UNCHANGED pollVars /\ UNCHANGED writerVars
    BY <1>7 DEF vars
  <2>2. PollInv'
    BY <2>1 DEF IInv, PollInv, SnapshotOK, Behind, View, deviceVars, clientVars, pollVars
  <2>3. QED
    BY <2>1, <2>2, PollFrame
<1>8. QED
  BY <1>2, <1>3, <1>4, <1>5, <1>6, <1>7 DEF Next

LEMMA IInvAlways == Spec => []IInv
BY InitIInv, NextIInv, PTL DEF Spec

(* A poll that took its snapshot before an RMW committed never puts the    *)
(* older word back into the cache.                                         *)
THEOREM CommitSafe == Spec => []CommitSurvives
<1>1. IInv => CommitSurvives
  BY DEF IInv
<1>2. QED
  BY <1>1, IInvAlways, PTL

(* Two RMWs of one register never lose each other's field.                 *)
THEOREM SiblingsSafe == Spec => SiblingsKept
<1>1. ASSUME IInv,
             NEW w \in Writers, NEW f \in Fields, NEW v \in Values, DeviceWrite(w, f, v),
             rmwKeyGeneration[key[w]] > 0, device[key[w]].version = committed[key[w]],
             NEW g \in Fields \ {f}
      PROVE  device'[key[w]].word[g] = device[key[w]].word[g]
  <2> DEFINE k == key[w]
  <2>1. k \in Keys /\ word[w] \in Entry
    BY <1>1 DEF IInv, TypeOK
  <2>2. writerPc[w] = "write" /\ WriterOK(w)
    BY <1>1 DEF DeviceWrite, IInv, WriterInv
  <2>3. /\ word[w].version <= device[k].version /\ committed[k] <= word[w].version
        /\ word[w].version \in Nat /\ device[k].version \in Nat /\ committed[k] \in Nat
        /\ rmwKeyGeneration[k] \in Nat
    BY <1>1, <2>1, <2>2 DEF WriterOK, IInv, TypeOK, Entry
  <2>4. word[w] = device[k]
    BY <1>1, <2>2, <2>3 DEF WriterOK
  <2>5. device'[k].word = [word[w].word EXCEPT ![f] = v]
    BY <1>1, <2>1 DEF DeviceWrite, IInv, TypeOK
  <2>6. word[w].word \in [Fields -> Values]
    BY <2>1 DEF Entry, Word
  <2>7. QED
    BY <1>1, <2>4, <2>5, <2>6
<1> DEFINE Kept == \A w \in Writers, f \in Fields, v \in Values :
                     LET k == key[w] IN
                     (/\ DeviceWrite(w, f, v)
                      /\ rmwKeyGeneration[k] > 0
                      /\ device[k].version = committed[k])
                     => \A g \in Fields \ {f} : device'[k].word[g] = device[k].word[g]
<1>2. IInv => Kept
  BY <1>1
<1>3. IInv => [Kept]_vars
  BY <1>2
<1>4. QED
  BY <1>3, IInvAlways, PTL DEF SiblingsKept

(* A derived entry never tells of another word than the cached one after a *)
(* merge: a key whose word was skipped is computed anew from the cache, and *)
(* every other word of the snapshot is merged.                             *)
THEOREM DerivedAlwaysFollows == Spec => DerivedFollows
<1>1. ASSUME NEW p \in Polls, NEW k \in DerivedSources, PollMerge(p), result[p][k] # Missing
      PROVE  derived'[k] = cachedResult'[k]
  <2>1. k \in Keys
    BY DerivedAssumption
  <2>2. derived'[k] = IF k \in Skipped(p) THEN cachedResult'[k] ELSE result[p][k]
    BY <1>1, <2>1 DEF PollMerge
  <2>3. k \notin Skipped(p) => cachedResult'[k] = result[p][k]
    BY <1>1, <2>1 DEF PollMerge, Merged
  <2>4. QED
    BY <2>2, <2>3
<1> DEFINE Follows == \A p \in Polls, k \in DerivedSources :
                        PollMerge(p) /\ result[p][k] # Missing => derived'[k] = cachedResult'[k]
<1>2. [Follows]_vars
  BY <1>1
<1>3. QED
  BY <1>2, PTL DEF DerivedFollows

-----------------------------------------------------------------------------
(* RmwCache implements WordFreshness: the cache keeps the freshness        *)
(* contract through every interleaving of polls, RMWs, panel changes and   *)
(* close().  The inductive invariant says of each step which step of the   *)
(* contract it is.                                                         *)

LEMMA InitContract == Init => Contract!Init
<1> SUFFICES ASSUME Init PROVE Contract!Init
  OBVIOUS
<1>1. \A k \in Keys : device[k].version = 1 /\ cachedResult[k] = Missing /\ rmwKeyGeneration[k] = 0
  BY DEF Init, NoSnapshot
<1>2. QED
  BY <1>1 DEF Contract!Init

(* A step that leaves the registers, the cache and the stamps alone        *)
(* stutters.                                                               *)
LEMMA StutterContract ==
    ASSUME UNCHANGED <<device, cachedResult, rmwKeyGeneration, committed>>
    PROVE  UNCHANGED Contract!vars
BY DEF Contract!vars

(* One more change of one register is a change of the contract.            *)
LEMMA ChangeContract ==
    ASSUME NEW j \in Keys,
           device'[j].version = device[j].version + 1,
           \A k \in Keys \ {j} : device'[k] = device[k],
           UNCHANGED <<cachedResult, rmwKeyGeneration, committed>>
    PROVE  Contract!Change(j)
BY DEF Contract!Change

(* A merge is a refresh: what it changes comes from the snapshot, and only *)
(* for keys whose stamp the poll is not behind.                            *)
LEMMA MergeContract ==
    ASSUME IInv, IInv', NEW p \in Polls, PollMerge(p)
    PROVE  Contract!Refresh
<1>1. UNCHANGED <<device, committed, rmwKeyGeneration>>
  BY DEF PollMerge, deviceVars
<1>2. ASSUME NEW k \in Keys, cachedResult'[k] # Missing
      PROVE  /\ cachedResult'[k].version \in Nat
             /\ 1 <= cachedResult'[k].version /\ cachedResult'[k].version <= device[k].version
             /\ rmwKeyGeneration[k] > 0 => committed[k] <= cachedResult'[k].version
  <2>1. cachedResult'[k] \in Entry /\ committed[k] \in Nat
    BY <1>2 DEF IInv, TypeOK, Cached
  <2>2. cachedResult'[k].version \in Nat
    BY <2>1 DEF Entry
  <2>3. 1 <= cachedResult'[k].version /\ cachedResult'[k].version <= device'[k].version
    BY <1>2 DEF IInv, CacheInv, Behind
  <2>4. rmwKeyGeneration'[k] > 0 => cachedResult'[k].version >= committed'[k]
    BY DEF IInv, CommitSurvives
  <2>5. QED
    BY <1>1, <2>1, <2>2, <2>3, <2>4
<1>3. ASSUME NEW k \in Keys, cachedResult'[k] = Missing
      PROVE  cachedResult[k] = Missing
  BY <1>3 DEF PollMerge, Merged
<1>4. QED
  BY <1>1, <1>2, <1>3 DEF Contract!Refresh

(* A commit takes note of a word newer than every earlier commit.          *)
LEMMA CommitContract ==
    ASSUME IInv, NEW w \in Writers, Commit(w)
    PROVE  \E v \in 1..device[key[w]].version : Contract!Commit(key[w], v)
<1> DEFINE k == key[w]
<1>1. k \in Keys /\ word[w] \in Entry /\ View(k, word[w]) \in Entry
      /\ View(k, word[w]).version = word[w].version
  BY ViewType DEF IInv, TypeOK
<1>2. /\ 1 <= word[w].version /\ word[w].version <= device[k].version
      /\ committed[k] < word[w].version
  BY DEF Commit, IInv, WriterInv, WriterOK
<1>3. word[w].version \in Nat /\ device[k].version \in Nat /\ rmwGeneration \in Nat
  BY <1>1 DEF IInv, TypeOK, Entry
<1>4. /\ cachedResult'[k] = View(k, word[w]) /\ cachedResult'[k] # Missing
      /\ committed'[k] = word[w].version
      /\ rmwKeyGeneration'[k] > 0
  BY <1>1, <1>3, EntryPresent DEF Commit, IInv, TypeOK
<1>5. ASSUME NEW j \in Keys, j # k
      PROVE  /\ cachedResult'[j] = cachedResult[j]
             /\ committed'[j] = committed[j]
             /\ rmwKeyGeneration'[j] = rmwKeyGeneration[j]
  BY <1>1, <1>5 DEF Commit, IInv, TypeOK
<1>6. device' = device
  BY DEF Commit
<1>7. PICK v \in 1..device[k].version : v = word[w].version
  BY <1>2, <1>3
<1>8. (IF rmwKeyGeneration[k] > 0 THEN committed[k] ELSE 0) < v
  BY <1>2, <1>3, <1>7
<1>9. [j \in Keys |-> IF cachedResult'[j] = Missing THEN 0 ELSE cachedResult'[j].version]
      = [[j \in Keys |-> IF cachedResult[j] = Missing THEN 0 ELSE cachedResult[j].version]
           EXCEPT ![k] = v]
  <2>1. k \in Keys /\ cachedResult'[k] # Missing /\ cachedResult'[k].version = v
    BY <1>1, <1>4, <1>7
  <2>2. ASSUME NEW j \in Keys
        PROVE  (IF cachedResult'[j] = Missing THEN 0 ELSE cachedResult'[j].version)
               = IF j = k THEN v
                 ELSE IF cachedResult[j] = Missing THEN 0 ELSE cachedResult[j].version
    BY <1>5, <2>1
  <2>3. QED
    BY <2>1, <2>2
<1>10. [j \in Keys |-> IF rmwKeyGeneration'[j] > 0 THEN committed'[j] ELSE 0]
       = [[j \in Keys |-> IF rmwKeyGeneration[j] > 0 THEN committed[j] ELSE 0] EXCEPT ![k] = v]
  BY <1>1, <1>4, <1>5, <1>7
<1>11. Contract!Commit(k, v)
  BY <1>1, <1>6, <1>8, <1>9, <1>10 DEF Contract!Commit
<1>12. QED
  BY <1>11

LEMMA CloseContract == Close => Contract!Forget
BY DEF Close, deviceVars, NoSnapshot, Contract!Forget

LEMMA NextContract ==
    ASSUME IInv, IInv', [Next]_vars
    PROVE  [Contract!Next]_(Contract!vars)
<1>1. ASSUME NEW k \in Keys, PanelChange(k) PROVE Contract!Next
  <2>1. device'[k].version = device[k].version + 1 /\ \A j \in Keys \ {k} : device'[j] = device[j]
    BY <1>1 DEF PanelChange, IInv, TypeOK
  <2>2. QED
    BY <1>1, <2>1, ChangeContract DEF PanelChange, clientVars, Contract!Next
<1>2. ASSUME NEW w \in Writers, NEW f \in Fields, NEW v \in Values, DeviceWrite(w, f, v)
      PROVE  Contract!Next
  <2>1. /\ key[w] \in Keys
        /\ device'[key[w]].version = device[key[w]].version + 1
        /\ \A j \in Keys \ {key[w]} : device'[j] = device[j]
    BY <1>2 DEF DeviceWrite, IInv, TypeOK
  <2>2. QED
    BY <1>2, <2>1, ChangeContract DEF DeviceWrite, clientVars, Contract!Next
<1>3. ASSUME NEW p \in Polls, PollMerge(p) PROVE Contract!Next
  BY <1>3, MergeContract DEF Contract!Next
<1>4. ASSUME NEW w \in Writers, Commit(w) PROVE Contract!Next
  <2>1. key[w] \in Keys
    BY DEF IInv, TypeOK
  <2>2. QED
    BY <1>4, <2>1, CommitContract DEF Contract!Next
<1>5. CASE Close
  BY <1>5, CloseContract DEF Contract!Next
<1>6. ASSUME \/ \E p \in Polls : \/ PollStart(p) \/ PollOverlay(p) \/ PollReadPage(p)
                                \/ PollReadDone(p) \/ PollAbort(p)
             \/ \E w \in Writers, k \in Keys : Request(w, k)
             \/ \E w \in Writers : Acquire(w) \/ ReadBase(w) \/ RmwAbort(w)
             \/ UNCHANGED vars
      PROVE  UNCHANGED Contract!vars
  <2>1. UNCHANGED <<device, cachedResult, rmwKeyGeneration, committed>>
    BY <1>6 DEF PollStart, PollOverlay, PollReadPage, PollReadDone, PollAbort, Request,
                Acquire, ReadBase, RmwAbort, vars, deviceVars, clientVars
  <2>2. QED
    BY <2>1, StutterContract
<1>7. QED
  BY <1>1, <1>2, <1>3, <1>4, <1>5, <1>6 DEF Next, PollStep, RmwStep

(* The cache implements the freshness contract.                            *)
THEOREM Refinement == Spec => KeepsContract
<1>1. Init => Contract!Init
  BY InitContract
<1>2. IInv /\ IInv' /\ [Next]_vars => [Contract!Next]_(Contract!vars)
  BY NextContract
<1>3. QED
  BY <1>1, <1>2, IInvAlways, PTL DEF Spec, KeepsContract, Contract!Spec
=============================================================================
