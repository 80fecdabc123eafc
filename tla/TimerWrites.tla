----------------------------- MODULE TimerWrites -----------------------------
(***************************************************************************)
(* Writes to the timer blocks of the controller (client.py): write_timer,  *)
(* async_set_relay_mode on top of it, and async_set_relay_state, called    *)
(* concurrently, under no lock, with requests that the controller rejects  *)
(* or that fail.                                                           *)
(*                                                                         *)
(* A block is a function from its fields to their contents.  write_timer   *)
(* reads a whole block and writes it back with some fields replaced;       *)
(* async_set_relay_state writes single registers of it: the function code  *)
(* and the timer enable word.  On the controller a block has three copies: *)
(* the registers, the EEPROM, and the configuration the modules run.       *)
(*                                                                         *)
(* The schedule of a timer (start, interval, period) is one field here.    *)
(***************************************************************************)
EXTENDS Naturals, FiniteSets

CONSTANTS
    Blocks,      \* the timer blocks, one for each relay
    Fields,      \* "enable" and "function" among them
    ValuesOf,    \* the contents of each field
    Enabled, AlwaysOn, AlwaysOff,  \* TimerRelayMode, contents of "enable"
    Code,        \* the function code that makes the relay drivable
    Requests,    \* the fields a write_timer asks for
    Callers,     \* tasks
    Panel,       \* the blocks that the panel changes
    Unread,      \* no entry in _cached_timers
    MaxCalls,    \* bound: calls
    MaxPanel     \* bound: changes at the panel

Values == UNION {ValuesOf[f] : f \in Fields}
Content == {c \in [Fields -> Values] : \A f \in Fields : c[f] \in ValuesOf[f]}
Modes == ValuesOf["enable"]
PartialContent ==
    UNION {{r \in [F -> Values] : \A f \in F : r[f] \in ValuesOf[f]} : F \in SUBSET Fields}

ASSUME FieldAssumption == {"enable", "function"} \subseteq Fields
ASSUME ModeAssumption == {Enabled, AlwaysOn, AlwaysOff} \subseteq Modes
ASSUME CodeAssumption == Code \in ValuesOf["function"]
ASSUME RequestAssumption == Requests \subseteq PartialContent
ASSUME PanelAssumption == Panel \subseteq Blocks
ASSUME UnreadAssumption == Unread \notin Modes
ASSUME BoundAssumption == MaxCalls \in Nat /\ MaxPanel \in Nat

VARIABLES
    block, saved, running,  \* the controller: registers, EEPROM, modules
    cachedMode,    \* the "enable" of each entry of self._cached_timers
    readMode,      \* what a read_all_timers under way has read
    pc, target, request, held, dropsResult,  \* one call's locals
    answer,        \* how a task's last call has ended
    touched,       \* fields of the target that others have changed under a call
    calls, panels  \* counted for the bounds

deviceVars == <<block, saved, running>>
cacheVars == <<cachedMode, readMode>>
callVars == <<pc, target, request, held, dropsResult, answer>>
vars == <<deviceVars, cacheVars, callVars, touched, calls, panels>>

NotRead == [b \in Blocks |-> Unread]
Nothing == [f \in {} |-> Enabled]

(* The content of a block with the requested fields replaced.              *)
With(c, r) == [f \in Fields |-> IF f \in DOMAIN r THEN r[f] ELSE c[f]]
Differing(c, d) == {f \in Fields : c[f] # d[f]}

(* Mutant: address and value of the writes are swapped.                    *)
DriveSwapped(on) ==
    IF on THEN [f \in {"enable", "function"} |-> IF f = "enable" THEN Code ELSE AlwaysOn]
          ELSE [f \in {"enable"} |-> AlwaysOff]

(* What async_set_relay_state asks for.                                    *)
Drive(on) ==
    IF on THEN [f \in {"enable", "function"} |-> IF f = "enable" THEN AlwaysOn ELSE Code]
          ELSE [f \in {"enable"} |-> AlwaysOff]

Init ==
    /\ block \in [Blocks -> Content]
    /\ saved = block
    /\ running = block
    /\ cachedMode = NotRead
    /\ readMode = NotRead
    /\ pc = [w \in Callers |-> "idle"]
    /\ target \in [Callers -> Blocks]
    /\ request = [w \in Callers |-> Nothing]
    /\ held = [w \in Callers |-> Nothing]
    /\ dropsResult = [w \in Callers |-> FALSE]
    /\ answer = [w \in Callers |-> "none"]
    /\ touched = [w \in Callers |-> {}]
    /\ calls = 0
    /\ panels = 0

-----------------------------------------------------------------------------
(* The controller                                                          *)

(* The calls that work on a block while fields of it change.               *)
Touch(b, fields) ==
    [w \in Callers |-> IF pc[w] # "idle" /\ target[w] = b THEN touched[w] \cup fields
                                                          ELSE touched[w]]

PanelChange(b, f, v) ==
    /\ panels < MaxPanel
    /\ panels' = panels + 1
    /\ block[b][f] # v
    /\ block' = [block EXCEPT ![b][f] = v]
    /\ saved' = [saved EXCEPT ![b][f] = v]
    /\ running' = [running EXCEPT ![b][f] = v]
    /\ touched' = Touch(b, {f})
    /\ UNCHANGED <<cacheVars, callVars, calls>>

(* A write of this client reaches the registers.                           *)
Put(w, content, written) ==
    LET b == target[w] IN
    /\ block' = [block EXCEPT ![b] = content]
    /\ touched' = [Touch(b, Differing(block[b], content)) EXCEPT ![w] = touched[w] \ written]

-----------------------------------------------------------------------------
(* read_all_timers, as far as the modes go: the blocks it reads, or takes  *)
(* from the cache, replace theirs in the cache when it is done.            *)

ReadTimer(b) ==
    /\ readMode[b] = Unread
    /\ \E m \in {block[b]["enable"], cachedMode[b]} \ {Unread} :
        readMode' = [readMode EXCEPT ![b] = m]
    /\ UNCHANGED <<deviceVars, cachedMode, callVars, touched, calls, panels>>

TimersDone ==
    /\ \E b \in Blocks : readMode[b] # Unread
    /\ cachedMode' = [b \in Blocks |-> IF readMode[b] # Unread THEN readMode[b] ELSE cachedMode[b]]
    /\ readMode' = NotRead
    /\ UNCHANGED <<deviceVars, callVars, touched, calls, panels>>

(* No connection, or the task is cancelled.                                *)
TimersRaise ==
    /\ readMode # NotRead
    /\ readMode' = NotRead
    /\ UNCHANGED <<deviceVars, cachedMode, callVars, touched, calls, panels>>

-----------------------------------------------------------------------------
(* The calls                                                               *)

Begin(w, b, r, drops, first) ==
    /\ pc[w] = "idle"
    /\ calls < MaxCalls
    /\ calls' = calls + 1
    /\ pc' = [pc EXCEPT ![w] = first]
    /\ target' = [target EXCEPT ![w] = b]
    /\ request' = [request EXCEPT ![w] = r]
    /\ dropsResult' = [dropsResult EXCEPT ![w] = drops]
    /\ answer' = [answer EXCEPT ![w] = "none"]
    /\ touched' = [touched EXCEPT ![w] = {}]
    /\ UNCHANGED <<deviceVars, cacheVars, held, panels>>

(* The call is over, with TRUE, an update or None ("done"), with FALSE     *)
(* ("refused") or with an exception ("raised").                            *)
Return(w, how) ==
    /\ pc' = [pc EXCEPT ![w] = "idle"]
    /\ request' = [request EXCEPT ![w] = Nothing]
    /\ held' = [held EXCEPT ![w] = Nothing]
    /\ dropsResult' = [dropsResult EXCEPT ![w] = FALSE]
    /\ answer' = [answer EXCEPT ![w] = how]
    /\ UNCHANGED target

TimerCall(w, b) == \E r \in Requests : Begin(w, b, r, FALSE, "read")

(* async_set_relay_mode: write_timer of the enable word, whose result is   *)
(* not looked at.                                                          *)
ModeCall(w, b) ==
    \E m \in {Enabled, AlwaysOn, AlwaysOff} :
        Begin(w, b, [f \in {"enable"} |-> m], TRUE, "read")

(* async_set_relay_state, past its guard.                                  *)
StateCall(w, b) ==
    /\ cachedMode[b] # Enabled
    /\ \E on \in BOOLEAN :
        Begin(w, b, Drive(on), FALSE, IF on THEN "function" ELSE "enable")

(* NeoPoolInvalidStateError: the cached timer says AUTO.                   *)
StateRefused(w, b) ==
    /\ pc[w] = "idle"
    /\ cachedMode[b] = Enabled
    /\ calls < MaxCalls
    /\ calls' = calls + 1
    /\ answer' = [answer EXCEPT ![w] = "raised"]
    /\ UNCHANGED <<deviceVars, cacheVars, pc, target, request, held, dropsResult, touched, panels>>

(* A task in the middle of write_timer, or of async_set_relay_mode.        *)
InTimer(w) == pc[w] \in {"read", "write", "save"} \/ (pc[w] = "exec" /\ held[w] # Nothing)

(* Mutant: write_timer starts from the cached mode.                        *)
BlockReadCached(w) ==
    LET b == target[w]
        mode == IF cachedMode[b] # Unread THEN cachedMode[b] ELSE block[b]["enable"]
    IN
    /\ pc[w] = "read"
    /\ pc' = [pc EXCEPT ![w] = "write"]
    /\ held' = [held EXCEPT ![w] = With([block[b] EXCEPT !["enable"] = mode], request[w])]
    /\ touched' = [touched EXCEPT ![w] = {}]
    /\ UNCHANGED <<deviceVars, cacheVars, target, request, dropsResult, answer, calls, panels>>

(* write_timer: the block is read and the requested fields replaced.       *)
BlockRead(w) ==
    /\ pc[w] = "read"
    /\ pc' = [pc EXCEPT ![w] = "write"]
    /\ held' = [held EXCEPT ![w] = With(block[target[w]], request[w])]
    /\ touched' = [touched EXCEPT ![w] = {}]
    /\ UNCHANGED <<deviceVars, cacheVars, target, request, dropsResult, answer, calls, panels>>

(* The whole block is written back.                                        *)
BlockWrite(w) ==
    /\ pc[w] = "write"
    /\ pc' = [pc EXCEPT ![w] = "save"]
    /\ Put(w, held[w], Fields)
    /\ UNCHANGED <<saved, running, cacheVars, target, request, held, dropsResult, answer,
                   calls, panels>>

(* async_set_relay_state: one register, and the next.                      *)
FieldWrite(w, f) ==
    /\ pc[w] = f
    /\ pc' = [pc EXCEPT ![w] = IF f = "function" THEN "enable" ELSE "exec"]
    /\ Put(w, [block[target[w]] EXCEPT ![f] = request[w][f]], {f})
    /\ UNCHANGED <<saved, running, cacheVars, target, request, held, dropsResult, answer,
                   calls, panels>>

EepromSave(w) ==
    /\ pc[w] = "save"
    /\ pc' = [pc EXCEPT ![w] = "exec"]
    /\ saved' = block
    /\ UNCHANGED <<block, running, cacheVars, target, request, held, dropsResult, answer,
                   touched, calls, panels>>

(* EXEC takes effect; its answer, or the task in the pause after it, may   *)
(* still get lost.                                                         *)
Exec(w) ==
    /\ pc[w] = "exec"
    /\ running' = block
    /\ \E how \in {"done", "raised"} : Return(w, how)
    /\ UNCHANGED <<block, saved, cacheVars, touched, calls, panels>>

(* Mutant: write_timer logs the rejection and goes on to return TRUE.      *)
RejectedLogged(w) ==
    /\ pc[w] # "idle"
    /\ Return(w, IF ~InTimer(w) THEN "raised" ELSE "done")
    /\ UNCHANGED <<deviceVars, cacheVars, touched, calls, panels>>

(* The controller rejects a request: write_timer logs it and returns       *)
(* FALSE, which async_set_relay_mode does not look at; a request of        *)
(* async_set_relay_state raises.                                           *)
Rejected(w) ==
    /\ pc[w] # "idle"
    /\ Return(w, IF ~InTimer(w) THEN "raised" ELSE IF dropsResult[w] THEN "done" ELSE "refused")
    /\ UNCHANGED <<deviceVars, cacheVars, touched, calls, panels>>

(* No answer, no connection, or the task is cancelled.                     *)
Raised(w) ==
    /\ pc[w] # "idle"
    /\ Return(w, "raised")
    /\ UNCHANGED <<deviceVars, cacheVars, touched, calls, panels>>

(* close(), for what is modelled here.                                     *)
CloseTimers ==
    /\ cachedMode # NotRead
    /\ cachedMode' = NotRead
    /\ UNCHANGED <<deviceVars, readMode, callVars, touched, calls, panels>>

CallStep(w) ==
    \/ \E b \in Blocks : TimerCall(w, b) \/ ModeCall(w, b) \/ StateCall(w, b) \/ StateRefused(w, b)
    \/ BlockRead(w) \/ BlockWrite(w) \/ EepromSave(w) \/ Exec(w)
    \/ \E f \in {"function", "enable"} : FieldWrite(w, f)
    \/ Rejected(w) \/ Raised(w)

Next ==
    \/ \E b \in Panel, f \in Fields : \E v \in ValuesOf[f] : PanelChange(b, f, v)
    \/ (\E b \in Blocks : ReadTimer(b)) \/ TimersDone \/ TimersRaise \/ CloseTimers
    \/ \E w \in Callers : CallStep(w)

Spec == Init /\ [][Next]_vars

-----------------------------------------------------------------------------
(* Properties                                                              *)

TypeOK ==
    /\ block \in [Blocks -> Content]
    /\ saved \in [Blocks -> Content]
    /\ running \in [Blocks -> Content]
    /\ cachedMode \in [Blocks -> Modes \cup {Unread}]
    /\ readMode \in [Blocks -> Modes \cup {Unread}]
    /\ pc \in [Callers -> {"idle", "read", "write", "function", "enable", "save", "exec"}]
    /\ target \in [Callers -> Blocks]
    /\ request \in [Callers -> PartialContent]
    /\ held \in [Callers -> PartialContent]
    /\ dropsResult \in [Callers -> BOOLEAN]
    /\ answer \in [Callers -> {"none", "done", "refused", "raised"}]
    /\ touched \in [Callers -> SUBSET Fields]
    /\ calls \in Nat /\ panels \in Nat

(* write_timer disturbs a field nobody asked it to write only when someone *)
(* else has changed that very field between its read and its write: other  *)
(* calls on the block, the panel, and whatever _cached_timers holds cost   *)
(* nothing else.                                                           *)
RestKept ==
    [][\A w \in Callers : BlockWrite(w) =>
         \A f \in Fields \ (DOMAIN request[w] \cup touched[w]) :
             block'[target[w]][f] = block[target[w]][f]]_vars

(* A call that ends well has put what it was asked for into the running    *)
(* configuration (and a write_timer into the EEPROM), except for fields    *)
(* that others have changed under it: for write_timer and                  *)
(* async_set_relay_state, whatever requests are rejected or fail.          *)
Applied(w) ==
    \A f \in DOMAIN request[w] \ touched[w] :
        /\ running'[target[w]][f] = request[w][f]
        /\ InTimer(w) => saved'[target[w]][f] = request[w][f]

SuccessApplied ==
    [][\A w \in Callers :
         pc[w] # "idle" /\ answer'[w] = "done" /\ ~dropsResult[w] => Applied(w)]_vars

(* README: a NeoPoolModbusError is raised when "a write (including its     *)
(* EEPROM/EXEC follow-ups) is rejected".  So async_set_relay_mode returns  *)
(* its update only for a mode that has been applied.                       *)
ModeHonest ==
    [][\A w \in Callers :
         pc[w] # "idle" /\ answer'[w] = "done" /\ dropsResult[w] => Applied(w)]_vars

(* The docstring of async_set_relay_state: "calling this while the relay   *)
(* is in ENABLED (auto / timer-driven) mode raises                         *)
(* NeoPoolInvalidStateError".  Where the client has a cached timer to      *)
(* judge by, its guard lets no call through while the block says ENABLED   *)
(* and the controller runs it so.                                          *)
GuardHonest ==
    [][\A w \in Callers, b \in Blocks :
         StateCall(w, b) /\ cachedMode[b] # Unread =>
           ~(block[b]["enable"] = Enabled /\ running[b]["enable"] = Enabled)]_vars

=============================================================================
