--------------------------- MODULE TempSetpoints ----------------------------
(***************************************************************************)
(* async_set_temp_setpoint (client.py), which sets the heating and then    *)
(* the intelligent setpoint, called by several tasks.  Each half holds     *)
(* _cache_lock, but nothing holds it over both: what keeps the two equal   *)
(* is the order in which asyncio.Lock serves its waiters, and that a call  *)
(* is back in the line in the very step that releases the lock.            *)
(*                                                                         *)
(* The low-byte RMW of one half, with its base word, its cache entry and   *)
(* the polls, is the subject of RmwCache; here it writes one value.        *)
(***************************************************************************)
EXTENDS Naturals

CONSTANTS
    Setters,           \* tasks that call async_set_temp_setpoint
    Raws,              \* values asked for
    Byte,              \* 256: SETPOINT_LOW_BYTE_MASK + 1
    MaxSets,           \* bound: calls
    MaxTurns           \* bound: changes at the panel and power cycles

ASSUME RawAssumption == Raws \subseteq Nat
ASSUME ByteWidthAssumption == Byte \in Nat \ {0}

VARIABLES
    setpoint,          \* the low bytes of the two registers
    saved,             \* the same in the EEPROM
    half, phase,       \* which half a call is at, and how far with it
    raw, applies,      \* its arguments, 0 and FALSE when there is none
    place, arrivals,   \* its place in the line for _cache_lock, 0 likewise
    disturbed,         \* the pair may differ: a panel, or half a call, did it
    lastApplied,       \* the last call to end had apply=True
    sets, turns

tempDeviceVars == <<setpoint, saved>>
tempCallVars == <<half, phase, raw, applies, place, arrivals>>
tempHistoryVars == <<disturbed, lastApplied, sets, turns>>
tempVars == <<tempDeviceVars, tempCallVars, tempHistoryVars>>

Kinds == {"heating", "intelligent"}
Pair == [Kinds -> 0..(Byte - 1)]

TempInit ==
    /\ setpoint \in Pair
    /\ saved \in Pair
    /\ half = [c \in Setters |-> "none"]
    /\ phase = [c \in Setters |-> "waiting"]
    /\ raw = [c \in Setters |-> 0]
    /\ applies = [c \in Setters |-> FALSE]
    /\ place = [c \in Setters |-> 0]
    /\ arrivals = 0
    /\ disturbed = TRUE /\ lastApplied = FALSE
    /\ sets = 0 /\ turns = 0

Calling(c) == half[c] # "none"
Halfway(c) == half[c] = "intelligent" \/ (half[c] = "heating" /\ phase[c] # "waiting")
SomeoneHalfway == \E c \in Setters : Halfway(c)

(* The lock goes to the first in line, and is kept to the end of a half.   *)
Served(c) == Calling(c) /\ \A d \in Setters \ {c} : Calling(d) => place[c] < place[d]

(* Mutant: the value is not masked.                                        *)
Unmasked(c) == raw[c]

(* value & SETPOINT_LOW_BYTE_MASK                                          *)
LowByteOf(c) == raw[c] % Byte

-----------------------------------------------------------------------------
(* The controller                                                          *)

PanelSets(k, v) ==
    /\ turns < MaxTurns
    /\ turns' = turns + 1
    /\ setpoint' = [setpoint EXCEPT ![k] = v]
    /\ disturbed' = TRUE
    /\ UNCHANGED <<saved, tempCallVars, lastApplied, sets>>

(* The EEPROM save of any other write saves this configuration too.        *)
OtherSave ==
    /\ saved' = setpoint
    /\ UNCHANGED <<setpoint, tempCallVars, tempHistoryVars>>

PowerCycle ==
    /\ turns < MaxTurns
    /\ turns' = turns + 1
    /\ setpoint' = saved
    /\ disturbed' = (disturbed \/ ~lastApplied \/ SomeoneHalfway)
    /\ UNCHANGED <<saved, tempCallVars, lastApplied, sets>>

-----------------------------------------------------------------------------
(* async_set_temp_setpoint: async_set_setpoint twice                       *)

GetInLine(c) ==
    /\ arrivals' = arrivals + 1
    /\ place' = [place EXCEPT ![c] = arrivals']

SetPair(c, v, apply) ==
    /\ half[c] = "none"
    /\ sets < MaxSets
    /\ sets' = sets + 1
    /\ half' = [half EXCEPT ![c] = "heating"]
    /\ phase' = [phase EXCEPT ![c] = "waiting"]
    /\ raw' = [raw EXCEPT ![c] = v]
    /\ applies' = [applies EXCEPT ![c] = apply]
    /\ GetInLine(c)
    /\ UNCHANGED <<tempDeviceVars, disturbed, lastApplied, turns>>

CallEnds(c) ==
    /\ half' = [half EXCEPT ![c] = "none"]
    /\ raw' = [raw EXCEPT ![c] = 0]
    /\ applies' = [applies EXCEPT ![c] = FALSE]
    /\ place' = [place EXCEPT ![c] = 0]
    /\ UNCHANGED arrivals

(* Mutant: a lock that serves its waiters in any order.                    *)
HalfWriteUnordered(c) ==
    /\ Calling(c) /\ \A d \in Setters : phase[d] = "waiting"
    /\ setpoint' = [setpoint EXCEPT ![half[c]] = LowByteOf(c)]
    /\ phase' = [phase EXCEPT ![c] = "written"]
    /\ disturbed' = IF half[c] = "heating" /\ ~SomeoneHalfway THEN FALSE ELSE disturbed
    /\ UNCHANGED <<saved, half, raw, applies, place, arrivals, lastApplied, sets, turns>>

(* The first in line has read its register, and its write arrives.  A pair *)
(* begun while no other one is half done makes good what was amiss.        *)
HalfWrite(c) ==
    /\ Served(c) /\ phase[c] = "waiting"
    /\ setpoint' = [setpoint EXCEPT ![half[c]] = LowByteOf(c)]
    /\ phase' = [phase EXCEPT ![c] = "written"]
    /\ disturbed' = IF half[c] = "heating" /\ ~SomeoneHalfway THEN FALSE ELSE disturbed
    /\ UNCHANGED <<saved, half, raw, applies, place, arrivals, lastApplied, sets, turns>>

(* Mutant: the first half is told to apply.                                *)
PersistsFirst(c) == half[c] = "heating" /\ applies[c]

(* Only the second half is told to apply, and saves both.                  *)
Persists(c) == half[c] = "intelligent" /\ applies[c]

HalfSave(c) ==
    /\ Calling(c) /\ Persists(c) /\ phase[c] = "written"
    /\ saved' = setpoint
    /\ phase' = [phase EXCEPT ![c] = "saved"]
    /\ UNCHANGED <<setpoint, half, raw, applies, place, arrivals, tempHistoryVars>>

(* One half has been confirmed and committed: the lock is released, and    *)
(* without an await between them the other half asks for it again.         *)
HalfDone(c) ==
    /\ Calling(c)
    /\ phase[c] = IF Persists(c) THEN "saved" ELSE "written"
    /\ phase' = [phase EXCEPT ![c] = "waiting"]
    /\ \/ /\ half[c] = "heating"
          /\ half' = [half EXCEPT ![c] = "intelligent"]
          /\ GetInLine(c)
          /\ UNCHANGED <<raw, applies, lastApplied>>
       \/ /\ half[c] = "intelligent"
          /\ lastApplied' = applies[c]
          /\ CallEnds(c)
    /\ UNCHANGED <<tempDeviceVars, disturbed, sets, turns>>

(* A request fails, or the task is cancelled, also while it waits: the     *)
(* call raises, and is out of the line.                                    *)
PairFails(c) ==
    /\ Calling(c)
    /\ phase' = [phase EXCEPT ![c] = "waiting"]
    /\ CallEnds(c)
    /\ disturbed' = (disturbed \/ Halfway(c))
    /\ UNCHANGED <<tempDeviceVars, lastApplied, sets, turns>>

TempNext ==
    \/ \E k \in Kinds, v \in 0..(Byte - 1) : PanelSets(k, v)
    \/ OtherSave \/ PowerCycle
    \/ \E c \in Setters :
        \/ \E v \in Raws, apply \in BOOLEAN : SetPair(c, v, apply)
        \/ HalfWrite(c) \/ HalfSave(c) \/ HalfDone(c) \/ PairFails(c)

TempSpec == TempInit /\ [][TempNext]_tempVars

-----------------------------------------------------------------------------
(* Properties                                                              *)

(* A setpoint never reaches into the high byte, with its telemetry.        *)
TempTypeOK ==
    /\ setpoint \in Pair /\ saved \in Pair
    /\ half \in [Setters -> Kinds \cup {"none"}]
    /\ phase \in [Setters -> {"waiting", "written", "saved"}]
    /\ raw \in [Setters -> Raws \cup {0}] /\ applies \in [Setters -> BOOLEAN]
    /\ place \in [Setters -> Nat] /\ arrivals \in Nat
    /\ disturbed \in BOOLEAN /\ lastApplied \in BOOLEAN
    /\ sets \in Nat /\ turns \in Nat

Quiet == ~SomeoneHalfway

(* "the values are written sequentially to keep them in sync": however     *)
(* many tasks set the pair at once, and whichever of them is cancelled     *)
(* while it waits, the two setpoints are equal when none is half done,     *)
(* unless the panel or a call that raised halfway has come between.        *)
PairInSync == Quiet /\ ~disturbed => setpoint["heating"] = setpoint["intelligent"]

(* The heating setpoint is written without apply: the EEPROM save of the   *)
(* second half stores both.  When the last call to end had apply=True the  *)
(* EEPROM holds an equal pair, whatever other calls have saved meanwhile,  *)
(* so also the setpoints after a power cycle are in sync.                  *)
SavedInSync ==
    Quiet /\ ~disturbed /\ lastApplied => saved["heating"] = saved["intelligent"]

=============================================================================
