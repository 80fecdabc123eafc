---------------------------- MODULE WordFreshness ----------------------------
(***************************************************************************)
(* What the client's cache promises of a packed register, without saying   *)
(* how: how old the cached word may be.  Each register has had some number *)
(* of changes; the cache holds the word of one of those versions, or       *)
(* nothing (0); and a floor says how far back the cache may fall: to the   *)
(* last change the client itself committed since it was last closed.       *)
(***************************************************************************)
EXTENDS Naturals

CONSTANT Keys

VARIABLES registerVersion, cacheVersion, floor

vars == <<registerVersion, cacheVersion, floor>>

Init ==
    /\ registerVersion = [k \in Keys |-> 1]
    /\ cacheVersion = [k \in Keys |-> 0]
    /\ floor = [k \in Keys |-> 0]

(* The register gets a new word, from anyone.                              *)
Change(k) ==
    /\ registerVersion' = [registerVersion EXCEPT ![k] = @ + 1]
    /\ UNCHANGED <<cacheVersion, floor>>

(* The client takes note of a word it has written: never of one older than *)
(* an earlier such word.                                                   *)
Commit(k, v) ==
    /\ floor[k] < v
    /\ cacheVersion' = [cacheVersion EXCEPT ![k] = v]
    /\ floor' = [floor EXCEPT ![k] = v]
    /\ UNCHANGED registerVersion

(* The cache takes words read from the device: words the device has had,   *)
(* none from before the floor.  The word may be older than the cached one. *)
Refresh ==
    /\ cacheVersion' \in [Keys -> Nat]
    /\ \A k \in Keys : cacheVersion'[k] # cacheVersion[k] =>
         /\ 1 <= cacheVersion'[k] /\ cacheVersion'[k] <= registerVersion[k]
         /\ floor[k] <= cacheVersion'[k]
    /\ UNCHANGED <<registerVersion, floor>>

(* The client is closed: no cache, and no promise.                         *)
Forget ==
    /\ cacheVersion' = [k \in Keys |-> 0]
    /\ floor' = [k \in Keys |-> 0]
    /\ UNCHANGED registerVersion

Next ==
    \/ \E k \in Keys : Change(k)
    \/ \E k \in Keys : \E v \in 1..registerVersion[k] : Commit(k, v)
    \/ Refresh
    \/ Forget

Spec == Init /\ [][Next]_vars
=============================================================================
