--------------------------- MODULE TimerSchedule ----------------------------
(***************************************************************************)
(* The schedule of one timer, as write_timer edits it (client.py) and as   *)
(* decoders.py converts it: the controller stores a start and the length   *)
(* of the run as 32-bit numbers of two registers each, callers edit the    *)
(* start and the stop, in seconds since midnight.                          *)
(*                                                                         *)
(* TimerWrites has the rest of write_timer: its other fields, the EEPROM,  *)
(* the errors.  Here the schedule is in detail.                            *)
(***************************************************************************)
EXTENDS Integers, Sequences

CONSTANTS
    Base,              \* 65536: what one register holds
    Day,               \* 86400: _SECONDS_PER_DAY
    FirstBlocks,       \* the contents of the timer block at the start
    Editors,           \* tasks that call write_timer
    Edits,             \* the timer_data they pass, functions of the field names
    MaxEdits,          \* bound: calls
    MaxPanelEdits      \* bound: schedules set at the panel

Times == 0..(Day - 1)
Lengths == 0..Day
Block == [1..15 -> 0..(Base - 1)]

ASSUME DayAssumption == Day \in Nat \ {0}
ASSUME BaseAssumption == Base \in Nat \ {0} /\ Day < Base * Base
ASSUME EditAssumption ==
    \A r \in Edits :
        /\ DOMAIN r \subseteq {"on", "stop", "interval", "enable"}
        /\ "on" \in DOMAIN r => r["on"] \in Times
        /\ "stop" \in DOMAIN r => r["stop"] \in Times
        /\ "interval" \in DOMAIN r => r["interval"] \in Lengths
        /\ "enable" \in DOMAIN r => r["enable"] \in 0..(Base - 1)

-----------------------------------------------------------------------------
(* decoders.py.  Register i of the code is element i + 1 here.             *)

U32(lsb, msb) == msb * Base + lsb

(* Mutant: the low half is not masked.                                     *)
LowUnmasked(v) == v

Low(v) == v % Base
High(v) == (v \div Base) % Base

(* derive_timer_stop and get_timer_interval                                *)
TimerStop(on, interval) == (on + interval) % Day

(* Mutant: a stop before the start is not taken to be on the next day.     *)
TimerIntervalSameDay(start, stop) == IF stop >= start THEN stop - start ELSE 0

TimerInterval(start, stop) ==
    IF stop >= start THEN stop - start ELSE (Day - start) + stop

ParseTimerBlock(regs) ==
    [enable |-> regs[1],
     on |-> U32(regs[2], regs[3]),
     off |-> U32(regs[4], regs[5]),
     period |-> U32(regs[6], regs[7]),
     interval |-> U32(regs[8], regs[9]),
     countdown |-> U32(regs[10], regs[11]),
     function |-> regs[12],
     work_time |-> U32(regs[14], regs[15])]

(* Mutant: the unused register after the function code is left out.        *)
BuildTimerBlockShort(d) ==
    <<d.enable, Low(d.on), High(d.on), Low(d.off), High(d.off),
      Low(d.period), High(d.period), Low(d.interval), High(d.interval),
      Low(d.countdown), High(d.countdown), d.function,
      Low(d.work_time), High(d.work_time), 0>>

BuildTimerBlock(d) ==
    <<d.enable, Low(d.on), High(d.on), Low(d.off), High(d.off),
      Low(d.period), High(d.period), Low(d.interval), High(d.interval),
      Low(d.countdown), High(d.countdown), d.function, 0,
      Low(d.work_time), High(d.work_time)>>

Asked(r, f, default) == IF f \in DOMAIN r THEN r[f] ELSE default

(* A new start or stop becomes a new interval, which holds the other one;  *)
(* an interval that is asked for itself wins.                              *)
EditedInterval(d, r) ==
    IF "interval" \in DOMAIN r THEN r["interval"]
    ELSE IF DOMAIN r \cap {"on", "stop"} = {} THEN d.interval
    ELSE TimerInterval(Asked(r, "on", d.on),
                       Asked(r, "stop", TimerStop(d.on, d.interval)))

Edited(d, r) ==
    [d EXCEPT !.enable = Asked(r, "enable", d.enable),
              !.on = Asked(r, "on", d.on),
              !.interval = EditedInterval(d, r)]

-----------------------------------------------------------------------------
(* What is wanted of the timer, in terms of start and stop alone.          *)

(* allDay: the run is a whole day, which start = stop does not say.        *)
Schedules == [on : Times, stop : Times, allDay : BOOLEAN]

ScheduleOf(on, interval) ==
    [on |-> on, stop |-> TimerStop(on, interval), allDay |-> interval = Day]

(* write_timer's docstring: "Editing on alone holds the current stop and   *)
(* recomputes the interval; editing stop alone holds on; passing both sets *)
(* the exact pair."                                                        *)
WantedOf(w, r) ==
    IF "interval" \in DOMAIN r THEN ScheduleOf(Asked(r, "on", w.on), r["interval"])
    ELSE IF DOMAIN r \cap {"on", "stop"} = {} THEN w
    ELSE [on |-> Asked(r, "on", w.on), stop |-> Asked(r, "stop", w.stop), allDay |-> FALSE]

(* The seconds of the day from a start up to a stop, over midnight or not. *)
WantedSeconds(w) ==
    {s \in Times :
        \/ w.allDay
        \/ w.on <= s /\ s < w.stop
        \/ w.stop < w.on /\ (w.on <= s \/ s < w.stop)}

(* The seconds at which a timer with these registers runs.                 *)
RunningSeconds(regs) ==
    LET d == ParseTimerBlock(regs) IN
    {s \in Times : \E i \in 0..(Day - 1) : i < d.interval /\ s = (d.on + i) % Day}

-----------------------------------------------------------------------------
VARIABLES
    block,         \* the registers of the timer
    step, edit,    \* what a task is at, and its timer_data
    held,          \* the registers that it has read
    basis,         \* history: what was wanted when it read them
    wanted,        \* history: what the timer should do
    edits, panelEdits

schedVars == <<block, step, edit, held, basis, wanted, edits, panelEdits>>

NoEdit == [f \in {} |-> 0]
NoBlock == <<>>
NoBasis == [on |-> 0, stop |-> 0, allDay |-> FALSE]

SchedInit ==
    /\ block \in FirstBlocks
    /\ wanted = ScheduleOf(ParseTimerBlock(block).on, ParseTimerBlock(block).interval)
    /\ step = [c \in Editors |-> "idle"]
    /\ edit = [c \in Editors |-> NoEdit]
    /\ held = [c \in Editors |-> NoBlock]
    /\ basis = [c \in Editors |-> NoBasis]
    /\ edits = 0 /\ panelEdits = 0

ASSUME FirstBlockAssumption ==
    \A b \in FirstBlocks :
        /\ b \in Block
        /\ ParseTimerBlock(b).on \in Times
        /\ ParseTimerBlock(b).interval \in Lengths

PanelSchedules(on, interval) ==
    /\ panelEdits < MaxPanelEdits
    /\ panelEdits' = panelEdits + 1
    /\ block' = [block EXCEPT ![2] = Low(on), ![3] = High(on),
                              ![8] = Low(interval), ![9] = High(interval)]
    /\ wanted' = ScheduleOf(on, interval)
    /\ UNCHANGED <<step, edit, held, basis, edits>>

WriteTimer(c, r) ==
    /\ step[c] = "idle"
    /\ edits < MaxEdits
    /\ edits' = edits + 1
    /\ step' = [step EXCEPT ![c] = "reading"]
    /\ edit' = [edit EXCEPT ![c] = r]
    /\ UNCHANGED <<block, held, basis, wanted, panelEdits>>

ReadBlock(c) ==
    /\ step[c] = "reading"
    /\ step' = [step EXCEPT ![c] = "writing"]
    /\ held' = [held EXCEPT ![c] = block]
    /\ basis' = [basis EXCEPT ![c] = wanted]
    /\ UNCHANGED <<block, edit, wanted, edits, panelEdits>>

EndEdit(c) ==
    /\ step' = [step EXCEPT ![c] = "idle"]
    /\ edit' = [edit EXCEPT ![c] = NoEdit]
    /\ held' = [held EXCEPT ![c] = NoBlock]
    /\ basis' = [basis EXCEPT ![c] = NoBasis]
    /\ UNCHANGED <<edits, panelEdits>>

(* The whole block is written, on what was read: what others have done     *)
(* since is undone, and the timer does what was wanted then, edited.       *)
WriteBlock(c) ==
    /\ step[c] = "writing"
    /\ block' = BuildTimerBlock(Edited(ParseTimerBlock(held[c]), edit[c]))
    /\ wanted' = WantedOf(basis[c], edit[c])
    /\ EndEdit(c)

(* The read or the write is rejected, or fails without reaching the        *)
(* controller.                                                             *)
WriteTimerFails(c) ==
    /\ step[c] # "idle"
    /\ UNCHANGED <<block, wanted>>
    /\ EndEdit(c)

SchedNext ==
    \/ \E on \in Times, interval \in Lengths : PanelSchedules(on, interval)
    \/ \E c \in Editors :
        \/ \E r \in Edits : WriteTimer(c, r)
        \/ ReadBlock(c) \/ WriteBlock(c) \/ WriteTimerFails(c)

SchedSpec == SchedInit /\ [][SchedNext]_schedVars

-----------------------------------------------------------------------------
(* Properties                                                              *)

(* Every register holds a register's worth.                                *)
SchedTypeOK ==
    /\ block \in Block
    /\ step \in [Editors -> {"idle", "reading", "writing"}]
    /\ edit \in [Editors -> Edits \cup {NoEdit}]
    /\ held \in [Editors -> Block \cup {NoBlock}]
    /\ basis \in [Editors -> Schedules]
    /\ wanted \in Schedules
    /\ edits \in Nat /\ panelEdits \in Nat

(* The timer runs in exactly the seconds between the start and the stop    *)
(* that are wanted: however edits of one end follow one another, over      *)
(* midnight and back, the other end stays where it was, though neither it  *)
(* nor the interval between is ever computed by the caller.                *)
RunsAsWanted == RunningSeconds(block) = WantedSeconds(wanted)

(* Whatever a call does not ask for it writes back as it has read it: the  *)
(* conversions from and to registers undo each other.                      *)
OthersAsRead ==
    [][\A c \in Editors :
        step[c] = "writing" /\ step'[c] = "idle" /\ block' # block =>
            LET before == ParseTimerBlock(held[c])
                after == ParseTimerBlock(block')
            IN \A f \in {"enable", "off", "period", "countdown", "function", "work_time"} \ DOMAIN edit[c] :
                after[f] = before[f]]_schedVars

=============================================================================
