--------------------------- MODULE GuardedWrites ----------------------------
(***************************************************************************)
(* The guarded writes of client.py: the filtration mode with the manual    *)
(* pump and the cell boost, and the backwash of the filter valve.  A call  *)
(* looks at _cached_result when it is made, holds no lock, and writes one  *)
(* or two requests later, while polls replace the cache, other tasks       *)
(* write, and the controller goes its own way.  None of these writes       *)
(* touches the cache, and no generation guards what they write: see        *)
(* RmwCache for the writes and the merges where one does.                  *)
(***************************************************************************)
EXTENDS Naturals

CONSTANTS
    Users,         \* tasks that make the calls
    Unread,        \* no entry in _cached_result
    Modes,         \* the names encode_filtration_mode knows, "manual" is one
    UnknownMode,   \* one that it does not know
    ValveModes,    \* "auto", "always_on", "always_off" and the internal ones
    Seconds,       \* what the two registers of the cleaning hold
    MaxUses,       \* bound: calls
    MaxEvents      \* bound: changes at the controller or its panel, and close()

Switch == {"off", "on"}
Controller == [mode : Modes, pump : Switch, boost : Switch,
               valve : ValveModes, interval : Seconds, remaining : Seconds]
ModeRegisters == {"mode", "boost"}
ValveRegisters == {"valve", "interval"}
Polled == ModeRegisters \cup ValveRegisters

ASSUME ModesAssumption == "manual" \in Modes /\ UnknownMode \notin Modes
ASSUME ValveAssumption == "auto" \in ValveModes
ASSUME SecondsAssumption == Seconds \subseteq Nat /\ 0 \in Seconds
ASSUME UnreadAssumption == 
    Unread \notin Modes /\ Unread \notin Switch /\ Unread \notin ValveModes /\ Unread \notin Seconds

VARIABLES
    reg,           \* the registers of the controller
    cached,        \* _cached_result
    polling, found,        \* a poll under way, and what it has read
    outdated,      \* history: the entries of the cache that tell an old value
    foundOutdated, \* history: the same of what the poll has found
    at, goal,      \* what a task is about to write, and the value
    meddled,       \* history: registers that are not known to be what the
                   \* guard of the task has seen, or that it has written
    uses, events

pollVars == <<cached, polling, found>>
useVars == <<at, goal>>
pollHistory == <<outdated, foundOutdated>>
guardedVars == <<reg, pollVars, pollHistory, useVars, meddled, uses, events>>

NoEntries == [f \in Polled |-> Unread]

(* No backwash is under way at the start.                                  *)
GuardedInit ==
    /\ reg \in Controller /\ reg.remaining = 0
    /\ cached = NoEntries
    /\ polling = FALSE /\ found = NoEntries
    /\ outdated = {} /\ foundOutdated = {}
    /\ at = [c \in Users |-> "idle"]
    /\ goal = [c \in Users |-> Unread]
    /\ meddled = [c \in Users |-> {}]
    /\ uses = 0 /\ events = 0

-----------------------------------------------------------------------------
(* A register changes: entries of the cache, or of what a poll has found,  *)
(* become outdated.                                                        *)
Becomes(f, v) ==
    /\ reg' = [reg EXCEPT ![f] = v]
    /\ outdated' = IF v # reg[f] /\ f \in Polled /\ cached[f] # Unread
                   THEN outdated \cup {f} ELSE outdated
    /\ foundOutdated' = IF v # reg[f] /\ f \in Polled /\ found[f] # Unread
                        THEN foundOutdated \cup {f} ELSE foundOutdated

(* What it is to the calls under way.  No call minds the countdown.        *)
Meddled(f, v) ==
    [c \in Users |-> IF at[c] # "idle" /\ v # reg[f] /\ f # "remaining"
                     THEN meddled[c] \cup {f} ELSE meddled[c]]

(* The panel, or the firmware on its own.                                  *)
EventAt(f, v) ==
    /\ events < MaxEvents
    /\ events' = events + 1
    /\ Becomes(f, v)
    /\ meddled' = Meddled(f, v)
    /\ UNCHANGED <<pollVars, useVars, uses>>

-----------------------------------------------------------------------------
(* async_read_all: the requests one by one, the merge at the end.          *)

(* What a poll finds starts as a copy of the cache.                        *)
PollStarts ==
    /\ ~polling
    /\ polling' = TRUE
    /\ found' = cached
    /\ foundOutdated' = outdated
    /\ UNCHANGED <<reg, cached, outdated, useVars, meddled, uses, events>>

(* A page that was not flagged is not read: its entries stay.              *)
PollFinds(f) ==
    /\ polling
    /\ found' = [found EXCEPT ![f] = reg[f]]
    /\ foundOutdated' = foundOutdated \ {f}
    /\ UNCHANGED <<reg, cached, polling, outdated, useVars, meddled, uses, events>>

PollForgets ==
    /\ polling' = FALSE /\ found' = NoEntries
    /\ foundOutdated' = {}

PollMerges ==
    /\ polling
    /\ cached' = [f \in Polled |-> IF found[f] = Unread THEN cached[f] ELSE found[f]]
    /\ outdated' = {f \in Polled : IF found[f] = Unread THEN f \in outdated
                                                       ELSE f \in foundOutdated}
    /\ PollForgets
    /\ UNCHANGED <<reg, useVars, meddled, uses, events>>

PollFails ==
    /\ polling
    /\ PollForgets
    /\ UNCHANGED <<reg, cached, outdated, useVars, meddled, uses, events>>

(* close() empties the cache, also under a poll, which may still fill it.  *)
CacheEmptied ==
    /\ events < MaxEvents
    /\ events' = events + 1
    /\ cached' = NoEntries
    /\ outdated' = {}
    /\ UNCHANGED <<reg, polling, found, foundOutdated, useVars, meddled, uses>>

Poll(registers) ==
    \/ PollStarts
    \/ \E f \in registers : PollFinds(f)
    \/ PollMerges \/ PollFails \/ CacheEmptied

-----------------------------------------------------------------------------
(* The entries that a guard cannot go by.                                  *)
Unreliable == outdated \cup {f \in Polled : cached[f] = Unread}

(* A call: its guards are evaluated, and it is about to make a request.    *)
Use(c, what, v) ==
    /\ at[c] = "idle"
    /\ uses < MaxUses
    /\ uses' = uses + 1
    /\ at' = [at EXCEPT ![c] = what]
    /\ goal' = [goal EXCEPT ![c] = v]
    /\ meddled' = [meddled EXCEPT ![c] = Unreliable]
    /\ UNCHANGED <<reg, pollVars, pollHistory, events>>

UseEnds(c) ==
    /\ at' = [at EXCEPT ![c] = "idle"]
    /\ goal' = [goal EXCEPT ![c] = Unread]

(* Its last write arrives.                                                 *)
LastWrite(c, f, v) ==
    /\ Becomes(f, v)
    /\ meddled' = [Meddled(f, v) EXCEPT ![c] = {}]
    /\ UseEnds(c)
    /\ UNCHANGED <<pollVars, uses, events>>

(* A request fails before it reaches the controller, or after, or the call *)
(* is cancelled: nothing that was written before is taken back.            *)
UseFails(c) ==
    /\ at[c] # "idle"
    /\ UseEnds(c)
    /\ meddled' = [meddled EXCEPT ![c] = {}]
    /\ UNCHANGED <<reg, pollVars, pollHistory, uses, events>>

-----------------------------------------------------------------------------
(* async_set_filtration_mode, async_set_manual_filtration,                 *)
(* async_set_cell_boost                                                    *)

(* The mode, switched or the boost that has run its time.                  *)
FiltrationEvent ==
    \/ \E m \in Modes : EventAt("mode", m)
    \/ \E f \in {"pump", "boost"}, s \in Switch : EventAt(f, s)

(* Mutant: the boost is not looked at.                                     *)
ToggleableBoosted == cached["mode"] = "manual"

(* The guards of async_set_manual_filtration.                              *)
Toggleable == cached["mode"] = "manual" /\ cached["boost"] # "on"

(* Mutant: the pump is left as it is.                                      *)
LeavesManualNever(m) == FALSE

(* The last poll saw manual mode, and the new mode is another one.         *)
LeavesManual(m) == m # "manual" /\ cached["mode"] = "manual"

(* The pump first, unless the boost forbids it: then the call raises.      *)
ExitManual(c, m) ==
    /\ LeavesManual(m) /\ Toggleable
    /\ Use(c, "stopping", m)

(* Without a manual mode to leave the name is encoded at once, and the     *)
(* call raises if that is not possible.                                    *)
SetMode(c, m) ==
    /\ ~LeavesManual(m) /\ m \in Modes
    /\ Use(c, "moding", m)

SetManualFiltration(c, s) ==
    /\ Toggleable
    /\ Use(c, "toggling", s)

SetCellBoost(c, s) == Use(c, "boosting", s)

-----------------------------------------------------------------------------
(* Mutant: the name of the mode is written unseen.                         *)
StopPumpUnencoded(c) ==
    /\ at[c] = "stopping"
    /\ Becomes("pump", "off")
    /\ meddled' = [Meddled("pump", "off") EXCEPT ![c] = meddled[c] \ {"pump"}]
    /\ at' = [at EXCEPT ![c] = "moding"]
    /\ UNCHANGED <<pollVars, goal, uses, events>>

(* The manual exit: only when the pump is off is the name of the new mode  *)
(* encoded, and an unknown one raises.                                     *)
StopPump(c) ==
    /\ at[c] = "stopping"
    /\ Becomes("pump", "off")
    /\ meddled' = [Meddled("pump", "off") EXCEPT ![c] =
                    IF goal[c] \in Modes THEN meddled[c] \ {"pump"} ELSE {}]
    /\ IF goal[c] \in Modes THEN at' = [at EXCEPT ![c] = "moding"] /\ UNCHANGED goal
                            ELSE UseEnds(c)
    /\ UNCHANGED <<pollVars, uses, events>>

WriteMode(c) == at[c] = "moding" /\ LastWrite(c, "mode", goal[c])
TogglePump(c) == at[c] = "toggling" /\ LastWrite(c, "pump", goal[c])
WriteBoost(c) == at[c] = "boosting" /\ LastWrite(c, "boost", goal[c])

FiltrationNext ==
    \/ FiltrationEvent
    \/ Poll(ModeRegisters)
    \/ \E c \in Users :
        \/ \E m \in Modes \cup {UnknownMode} : ExitManual(c, m) \/ SetMode(c, m)
        \/ \E s \in Switch : SetManualFiltration(c, s) \/ SetCellBoost(c, s)
        \/ StopPump(c) \/ WriteMode(c) \/ TogglePump(c) \/ WriteBoost(c)
        \/ UseFails(c)

-----------------------------------------------------------------------------
(* async_start_backwash, async_stop_backwash, async_set_filtvalve_mode,    *)
(* async_set_config_option for the length of the cleaning                  *)

(* The panel; the countdown; the backwashes that the firmware starts.      *)
ValveEvent ==
    \/ \E v \in ValveModes : EventAt("valve", v)
    \/ \E s \in Seconds : EventAt("interval", s)
    \/ reg["remaining"] > 0 /\ \E s \in Seconds : s < reg["remaining"] /\ EventAt("remaining", s)
    \/ reg["valve"] = "auto" /\ EventAt("remaining", reg["interval"])

(* Mutant: the mode of the valve is not looked at.                         *)
ValveNeverAuto == TRUE

(* _raise_if_filtvalve_auto                                                *)
ValveNotAuto == cached["valve"] # "auto"

(* Mutant: an interval of 0 is not told from another.                      *)
AnyInterval(s) == TRUE

HasInterval(s) == s # 0

StartBackwash(c) ==
    /\ ValveNotAuto
    /\ cached["interval"] # Unread /\ HasInterval(cached["interval"])
    /\ Use(c, "starting", cached["interval"])

(* The interval is not in the cache: it is read first.                     *)
StartBackwashCold(c) ==
    /\ ValveNotAuto
    /\ cached["interval"] = Unread
    /\ Use(c, "asking", Unread)

AskInterval(c) ==
    /\ at[c] = "asking"
    /\ IF HasInterval(reg["interval"])
       THEN /\ at' = [at EXCEPT ![c] = "starting"]
            /\ goal' = [goal EXCEPT ![c] = reg["interval"]]
            /\ meddled' = [meddled EXCEPT ![c] = @ \ {"interval"}]
       ELSE UseEnds(c) /\ meddled' = [meddled EXCEPT ![c] = {}]
    /\ UNCHANGED <<reg, pollVars, pollHistory, uses, events>>

StopBackwash(c) == ValveNotAuto /\ Use(c, "closing", 0)
SetFiltvalveMode(c, v) == Use(c, "valving", v)
SetInterval(c, s) == Use(c, "setting", s)

(* In AUTO mode the firmware ignores what is written to the countdown.     *)
WriteRemaining(c) ==
    /\ at[c] \in {"starting", "closing"}
    /\ LastWrite(c, "remaining", IF reg["valve"] = "auto" THEN reg["remaining"] ELSE goal[c])

WriteValveMode(c) == at[c] = "valving" /\ LastWrite(c, "valve", goal[c])
WriteInterval(c) == at[c] = "setting" /\ LastWrite(c, "interval", goal[c])

BackwashNext ==
    \/ ValveEvent
    \/ Poll(ValveRegisters)
    \/ \E c \in Users :
        \/ StartBackwash(c) \/ StartBackwashCold(c) \/ AskInterval(c) \/ StopBackwash(c)
        \/ \E v \in ValveModes : SetFiltvalveMode(c, v)
        \/ \E s \in Seconds : SetInterval(c, s)
        \/ WriteRemaining(c) \/ WriteValveMode(c) \/ WriteInterval(c)
        \/ UseFails(c)

GuardedNext == FiltrationNext \/ BackwashNext

GuardedSpec == GuardedInit /\ [][GuardedNext]_guardedVars

-----------------------------------------------------------------------------
(* Properties                                                              *)

Contents(f) ==
    CASE f = "mode" -> Modes
      [] f \in {"pump", "boost"} -> Switch
      [] f = "valve" -> ValveModes
      [] f \in {"interval", "remaining"} -> Seconds

(* Types: the registers hold values of theirs, the cache and what a poll   *)
(* has found are registers or nothing.  (That an unknown mode is not       *)
(* written is all this says of one: see UnknownModesRaiseFirst.)           *)
GuardedTypeOK ==
    /\ reg \in Controller
    /\ DOMAIN cached = Polled /\ \A f \in Polled : cached[f] \in Contents(f) \cup {Unread}
    /\ polling \in BOOLEAN
    /\ DOMAIN found = Polled /\ \A f \in Polled : found[f] \in Contents(f) \cup {Unread}
    /\ outdated \subseteq Polled /\ foundOutdated \subseteq Polled
    /\ at \in [Users -> {"idle", "stopping", "moding", "toggling", "boosting",
                         "asking", "starting", "closing", "valving", "setting"}]
    /\ DOMAIN goal = Users
    /\ \A c \in Users : meddled[c] \subseteq DOMAIN reg
    /\ uses \in Nat /\ events \in Nat

(* The pump that runs in manual mode is off when a call takes the          *)
(* controller out of it, whatever polls and other calls do meanwhile, if   *)
(* the cache was right about the mode when the call was made and nobody    *)
(* has set the mode or switched the pump since.                            *)
LeavesManualStopped ==
    [][\A c \in Users :
        at[c] = "moding" /\ at'[c] = "idle" /\ meddled[c] \cap {"mode", "pump"} = {} =>
            (reg["mode"] = "manual" /\ reg'["mode"] # "manual" => reg["pump"] = "off")]_guardedVars

(* A switch of the pump, by itself or on the way out of manual mode, finds *)
(* the controller in manual mode and with no boost that would ignore it,   *)
(* unless one of the two has changed since the last poll read it.          *)
SwitchReachesPump ==
    \A c \in Users :
        at[c] \in {"stopping", "toggling"} /\ meddled[c] \cap {"mode", "boost"} = {}
            => reg["mode"] = "manual" /\ reg["boost"] = "off"

(* async_start_backwash never ends a backwash, as a 0 in the countdown     *)
(* would, wherever its interval comes from and however old that is.        *)
StartNeverStops ==
    [][\A c \in Users :
        at[c] = "starting" /\ at'[c] = "idle" /\ reg["remaining"] > 0
            => reg'["remaining"] > 0]_guardedVars

(* A backwash is started for the time that is configured, and the write    *)
(* that starts or ends one is not ignored, unless the interval or the mode *)
(* has changed since a poll, or since the call itself, has read it, or the *)
(* mode has never been read: with nothing cached the AUTO guard lets every *)
(* call pass, although the docstrings say that it raises.                  *)
BackwashAsConfigured ==
    \A c \in Users :
        /\ at[c] = "starting" /\ "interval" \notin meddled[c] => goal[c] = reg["interval"]
        /\ at[c] \in {"starting", "closing"} /\ "valve" \notin meddled[c] => reg["valve"] # "auto"

(* README: "Unknown mode/speed names, or an out-of-range timer slot, raise *)
(* `ValueError` before any I/O happens."  So no request that reaches the   *)
(* controller is one of a call that was given an unknown mode.             *)
UnknownModesRaiseFirst ==
    [][\A c \in Users : StopPump(c) \/ WriteMode(c) => goal[c] # UnknownMode]_guardedVars

=============================================================================
