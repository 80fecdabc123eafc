------------------------ MODULE TimerScheduleProofs -------------------------
(***************************************************************************)
(* Theorems about TimerSchedule, for every length of the day and width of  *)
(* a register, any timer_data and any number of calls.  The argument: the  *)
(* stop that is computed from a start and a length, and the length that is *)
(* computed from a start and a stop, undo each other, up to a whole day;   *)
(* and so do the two halves that registers hold of a number.               *)
(***************************************************************************)
EXTENDS TimerSchedule, TLAPS

Double == 0..(Base * Base - 1)
RegisterValues == 0..(Base - 1)

-----------------------------------------------------------------------------
(* Numbers and their halves                                                *)

LEMMA Remainder ==
    ASSUME NEW a \in Nat, NEW b \in Nat, b > 0
    PROVE  a % b \in 0..(b - 1) /\ a = b * (a \div b) + (a % b) /\ a \div b \in Nat
OBVIOUS

LEMMA RemainderBelow ==
    ASSUME NEW a \in Nat, NEW b \in Nat, a < b
    PROVE  a % b = a
OBVIOUS

LEMMA RemainderAbove ==
    ASSUME NEW a \in Nat, NEW b \in Nat, b <= a, a < b + b
    PROVE  a % b = a - b
OBVIOUS

LEMMA Product ==
    ASSUME NEW a \in Nat, NEW b \in Nat, NEW c \in Nat, a <= b
    PROVE  a * c <= b * c /\ a * c \in Nat /\ b * c \in Nat
OBVIOUS

(* Two registers hold a number below Base * Base.                          *)
LEMMA U32Type ==
    ASSUME NEW l \in RegisterValues, NEW m \in RegisterValues
    PROVE  U32(l, m) \in Double
<1>1. Base \in Nat /\ Base > 0 /\ m \in Nat /\ m <= Base - 1 /\ Base - 1 \in Nat
  BY BaseAssumption DEF RegisterValues
<1>2. m * Base <= (Base - 1) * Base /\ m * Base \in Nat
  BY <1>1, Product
<1>3. (Base - 1) * Base = Base * Base - Base
  BY <1>1
<1>4. l \in Nat /\ l <= Base - 1 /\ Base * Base \in Nat
  BY <1>1 DEF RegisterValues
<1>5. QED
  BY <1>1, <1>2, <1>3, <1>4 DEF U32, Double

LEMMA HalvesType ==
    ASSUME NEW v \in Nat
    PROVE  Low(v) \in RegisterValues /\ High(v) \in RegisterValues
<1>1. Base \in Nat /\ Base > 0
  BY BaseAssumption
<1>2. v \div Base \in Nat /\ v % Base \in 0..(Base - 1)
  BY <1>1, Remainder
<1>3. (v \div Base) % Base \in 0..(Base - 1)
  BY <1>1, <1>2, Remainder
<1>4. QED
  BY <1>2, <1>3 DEF Low, High, RegisterValues

LEMMA Halves ==
    ASSUME NEW v \in Double
    PROVE  U32(Low(v), High(v)) = v
<1> DEFINE q == v \div Base
<1>1. Base \in Nat /\ Base > 0 /\ v \in Nat /\ v < Base * Base
  BY BaseAssumption DEF Double
<1>2. v % Base \in 0..(Base - 1) /\ v = Base * q + (v % Base) /\ q \in Nat
  BY <1>1, Remainder
<1> HIDE DEF q
<1>3. q < Base
  <2>1. SUFFICES ASSUME Base <= q PROVE FALSE
    BY <1>1, <1>2
  <2>2. Base * Base <= q * Base /\ q * Base = Base * q
    BY <1>1, <1>2, <2>1, Product
  <2>3. Base * q <= v
    BY <1>1, <1>2
  <2>4. QED
    BY <1>1, <1>2, <2>2, <2>3
<1>4. q % Base = q
  BY <1>1, <1>2, <1>3, RemainderBelow
<1>5. High(v) = q /\ Low(v) = v % Base
  BY <1>4 DEF High, Low, q
<1>6. q * Base = Base * q
  BY <1>1, <1>2
<1>7. QED
  BY <1>1, <1>2, <1>5, <1>6 DEF U32

LEMMA TimesDouble == Times \subseteq Double /\ Lengths \subseteq Double /\ Double \subseteq Nat
<1>1. Base * Base \in Nat /\ Day \in Nat /\ Day < Base * Base
  BY BaseAssumption, DayAssumption
<1>2. QED
  BY <1>1 DEF Times, Lengths, Double

-----------------------------------------------------------------------------
(* Starts, stops and lengths                                               *)

LEMMA StopType ==
    ASSUME NEW on \in Times, NEW n \in Lengths
    PROVE  /\ TimerStop(on, n) \in Times
           /\ TimerStop(on, n) = IF on + n < Day THEN on + n ELSE on + n - Day
<1>1. Day \in Nat /\ Day > 0 /\ on \in 0..(Day - 1) /\ n \in 0..Day
  BY DayAssumption DEF Times, Lengths
<1>2. (on + n) % Day = IF on + n < Day THEN on + n ELSE on + n - Day
  BY <1>1, RemainderBelow, RemainderAbove
<1>3. QED
  BY <1>1, <1>2 DEF TimerStop, Times

LEMMA IntervalType ==
    ASSUME NEW on \in Times, NEW stop \in Times
    PROVE  TimerInterval(on, stop) \in Lengths /\ TimerInterval(on, stop) < Day
BY DayAssumption DEF TimerInterval, Times, Lengths

(* The stop that a new length leads to is the one it was computed for.     *)
LEMMA StopOfInterval ==
    ASSUME NEW on \in Times, NEW stop \in Times
    PROVE  ScheduleOf(on, TimerInterval(on, stop)) = [on |-> on, stop |-> stop, allDay |-> FALSE]
<1>1. TimerInterval(on, stop) \in Lengths /\ TimerInterval(on, stop) < Day
  BY IntervalType
<1>2. TimerStop(on, TimerInterval(on, stop)) = stop
  <2>1. TimerStop(on, TimerInterval(on, stop)) =
          LET n == TimerInterval(on, stop) IN IF on + n < Day THEN on + n ELSE on + n - Day
    BY <1>1, StopType
  <2>2. QED
    BY <2>1, DayAssumption DEF TimerInterval, Times
<1>3. TimerInterval(on, stop) # Day
  BY <1>1, DayAssumption DEF Lengths
<1>4. QED
  BY <1>2, <1>3 DEF ScheduleOf

(* A timer that runs for a length from a start runs in the seconds between *)
(* the start and the stop.                                                 *)
LEMMA RunsBetween ==
    ASSUME NEW regs, NEW on \in Times, NEW n \in Lengths,
           ParseTimerBlock(regs).on = on, ParseTimerBlock(regs).interval = n
    PROVE  RunningSeconds(regs) = WantedSeconds(ScheduleOf(on, n))
<1> DEFINE stop == TimerStop(on, n)
<1>1. Day \in Nat /\ Day > 0 /\ on \in 0..(Day - 1) /\ n \in 0..Day
  BY DayAssumption DEF Times, Lengths
<1>2. /\ stop \in 0..(Day - 1)
      /\ stop = IF on + n < Day THEN on + n ELSE on + n - Day
  BY StopType DEF Times
<1>3. ASSUME NEW i \in 0..(Day - 1)
      PROVE  (on + i) % Day = IF on + i < Day THEN on + i ELSE on + i - Day
  BY <1>1, RemainderBelow, RemainderAbove
<1>4. RunningSeconds(regs) =
        {s \in Times : \E i \in 0..(Day - 1) : i < n /\ s = (on + i) % Day}
  BY DEF RunningSeconds
<1>5. WantedSeconds(ScheduleOf(on, n)) =
        {s \in Times : n = Day \/ (on <= s /\ s < stop) \/ (stop < on /\ (on <= s \/ s < stop))}
  BY DEF WantedSeconds, ScheduleOf
<1> HIDE DEF stop
<1>6. ASSUME NEW s \in Times
      PROVE  (\E i \in 0..(Day - 1) : i < n /\ s = (on + i) % Day)
               <=> (n = Day \/ (on <= s /\ s < stop) \/ (stop < on /\ (on <= s \/ s < stop)))
  <2>1. s \in 0..(Day - 1)
    BY DEF Times
  <2>2. ASSUME NEW i \in 0..(Day - 1), i < n, s = (on + i) % Day
        PROVE  n = Day \/ (on <= s /\ s < stop) \/ (stop < on /\ (on <= s \/ s < stop))
    <3>1. s = IF on + i < Day THEN on + i ELSE on + i - Day
      BY <1>3, <2>2
    <3>2. QED
      BY <1>1, <1>2, <2>1, <2>2, <3>1
  <2>3. ASSUME n = Day \/ (on <= s /\ s < stop) \/ (stop < on /\ (on <= s \/ s < stop))
        PROVE  \E i \in 0..(Day - 1) : i < n /\ s = (on + i) % Day
    <3> DEFINE i == IF on <= s THEN s - on ELSE Day - on + s
    <3>1. i \in 0..(Day - 1) /\ (IF on + i < Day THEN on + i ELSE on + i - Day) = s
      BY <1>1, <2>1
    <3>2. i < n
      BY <1>1, <1>2, <2>1, <2>3
    <3> HIDE DEF i
    <3>3. QED
      BY <1>3, <3>1, <3>2
  <2>4. QED
    BY <2>2, <2>3
<1>7. QED
  BY <1>4, <1>5, <1>6

-----------------------------------------------------------------------------
(* Blocks                                                                  *)

(* The registers of a timer that does what is wanted.                      *)
Fits(b, w) ==
    LET d == ParseTimerBlock(b) IN
    /\ b \in Block
    /\ d.on \in Times /\ d.interval \in Lengths
    /\ w = ScheduleOf(d.on, d.interval)

TimerData ==
    [enable : RegisterValues, on : Double, off : Double, period : Double, interval : Double,
     countdown : Double, function : RegisterValues, work_time : Double]

LEMMA Parsed ==
    ASSUME NEW b \in Block
    PROVE  ParseTimerBlock(b) \in TimerData
<1>1. \A i \in 1..15 : b[i] \in RegisterValues
  BY DEF Block, RegisterValues
<1>2. /\ b[1] \in RegisterValues /\ b[12] \in RegisterValues
      /\ b[2] \in RegisterValues /\ b[3] \in RegisterValues
      /\ b[4] \in RegisterValues /\ b[5] \in RegisterValues
      /\ b[6] \in RegisterValues /\ b[7] \in RegisterValues
      /\ b[8] \in RegisterValues /\ b[9] \in RegisterValues
      /\ b[10] \in RegisterValues /\ b[11] \in RegisterValues
      /\ b[14] \in RegisterValues /\ b[15] \in RegisterValues
  BY <1>1
<1>3. /\ U32(b[2], b[3]) \in Double /\ U32(b[4], b[5]) \in Double
      /\ U32(b[6], b[7]) \in Double /\ U32(b[8], b[9]) \in Double
      /\ U32(b[10], b[11]) \in Double /\ U32(b[14], b[15]) \in Double
  BY <1>2, U32Type
<1>4. QED
  BY <1>2, <1>3 DEF ParseTimerBlock, TimerData

(* What is built from timer data is a block, and parses to the same data.  *)
LEMMA BuiltBlock ==
    ASSUME NEW d \in TimerData
    PROVE  BuildTimerBlock(d) \in Block /\ ParseTimerBlock(BuildTimerBlock(d)) = d
<1> DEFINE b == BuildTimerBlock(d)
<1>1. /\ d.enable \in RegisterValues /\ d.function \in RegisterValues
      /\ d.on \in Double /\ d.off \in Double /\ d.period \in Double
      /\ d.interval \in Double /\ d.countdown \in Double /\ d.work_time \in Double
  BY DEF TimerData
<1>2. \A v \in Double : Low(v) \in RegisterValues /\ High(v) \in RegisterValues
  BY HalvesType, TimesDouble
<1>3. 0 \in RegisterValues
  BY BaseAssumption DEF RegisterValues
<1>4. b \in Block
  <2>1. DOMAIN b = 1..15 /\ b = [i \in 1..15 |-> b[i]]
    BY DEF BuildTimerBlock
  <2>2. \A i \in 1..15 : b[i] \in RegisterValues
    BY <1>1, <1>2, <1>3 DEF BuildTimerBlock
  <2>3. QED
    BY <2>1, <2>2 DEF Block, RegisterValues
<1>5. /\ b[1] = d.enable /\ b[12] = d.function
      /\ b[2] = Low(d.on) /\ b[3] = High(d.on)
      /\ b[4] = Low(d.off) /\ b[5] = High(d.off)
      /\ b[6] = Low(d.period) /\ b[7] = High(d.period)
      /\ b[8] = Low(d.interval) /\ b[9] = High(d.interval)
      /\ b[10] = Low(d.countdown) /\ b[11] = High(d.countdown)
      /\ b[14] = Low(d.work_time) /\ b[15] = High(d.work_time)
  BY DEF BuildTimerBlock
<1> HIDE DEF b
<1>6. ParseTimerBlock(b) =
        [enable |-> d.enable, on |-> d.on, off |-> d.off, period |-> d.period,
         interval |-> d.interval, countdown |-> d.countdown, function |-> d.function,
         work_time |-> d.work_time]
  BY <1>1, <1>5, Halves DEF ParseTimerBlock
<1>7. ParseTimerBlock(b) = d
  BY <1>6 DEF TimerData
<1>8. QED
  BY <1>4, <1>7 DEF b

LEMMA ScheduleType ==
    ASSUME NEW on \in Times, NEW n \in Lengths
    PROVE  ScheduleOf(on, n) \in Schedules
BY StopType DEF ScheduleOf, Schedules

(* A block that fits what was wanted fits, when it is edited, what is      *)
(* wanted after the edit; and it is otherwise what it was.                 *)
LEMMA EditFits ==
    ASSUME NEW b, NEW w, Fits(b, w), NEW r \in Edits
    PROVE  LET d == ParseTimerBlock(b) IN
           /\ Edited(d, r) \in TimerData
           /\ Fits(BuildTimerBlock(Edited(d, r)), WantedOf(w, r))
<1> DEFINE d == ParseTimerBlock(b)
           on == Asked(r, "on", d.on)
           e == Edited(d, r)
<1>1. /\ d \in TimerData /\ d.on \in Times /\ d.interval \in Lengths
      /\ w = ScheduleOf(d.on, d.interval)
  BY Parsed DEF Fits
<1>2. TimerStop(d.on, d.interval) \in Times
  BY <1>1, StopType
<1> HIDE DEF d
<1>3. /\ "on" \in DOMAIN r => r["on"] \in Times
      /\ "stop" \in DOMAIN r => r["stop"] \in Times
      /\ "interval" \in DOMAIN r => r["interval"] \in Lengths
      /\ "enable" \in DOMAIN r => r["enable"] \in RegisterValues
  BY EditAssumption DEF RegisterValues
<1>4. on \in Times /\ Asked(r, "stop", TimerStop(d.on, d.interval)) \in Times
  BY <1>1, <1>2, <1>3 DEF Asked
<1>5. EditedInterval(d, r) \in Lengths
  BY <1>1, <1>3, <1>4, IntervalType DEF EditedInterval
<1>6. Asked(r, "enable", d.enable) \in RegisterValues
  BY <1>1, <1>3 DEF Asked, TimerData
<1>7. e \in TimerData /\ e.on = on /\ e.interval = EditedInterval(d, r)
  BY <1>1, <1>4, <1>5, <1>6, TimesDouble DEF Edited, TimerData
<1>8. WantedOf(w, r) = ScheduleOf(on, EditedInterval(d, r))
  <2>1. CASE "interval" \in DOMAIN r
    BY <1>1, <2>1 DEF WantedOf, EditedInterval, Asked, ScheduleOf
  <2>2. CASE "interval" \notin DOMAIN r /\ DOMAIN r \cap {"on", "stop"} = {}
    BY <1>1, <2>2 DEF WantedOf, EditedInterval, Asked
  <2>3. CASE "interval" \notin DOMAIN r /\ DOMAIN r \cap {"on", "stop"} # {}
    <3> DEFINE stop == Asked(r, "stop", TimerStop(d.on, d.interval))
    <3>1. WantedOf(w, r) = [on |-> on, stop |-> stop, allDay |-> FALSE]
      BY <1>1, <2>3 DEF WantedOf, Asked, ScheduleOf
    <3>2. EditedInterval(d, r) = TimerInterval(on, stop)
      BY <2>3 DEF EditedInterval
    <3>3. stop \in Times
      BY <1>4
    <3> HIDE DEF stop
    <3>4. QED
      BY <1>4, <3>1, <3>2, <3>3, StopOfInterval
  <2>4. QED
    BY <2>1, <2>2, <2>3
<1>9. Fits(BuildTimerBlock(e), WantedOf(w, r))
  BY <1>4, <1>5, <1>7, <1>8, BuiltBlock DEF Fits
<1>10. QED
  BY <1>7, <1>9 DEF d

LEMMA PanelFits ==
    ASSUME NEW b \in Block, NEW on \in Times, NEW n \in Lengths
    PROVE  Fits([b EXCEPT ![2] = Low(on), ![3] = High(on), ![8] = Low(n), ![9] = High(n)],
                ScheduleOf(on, n))
<1> DEFINE c == [b EXCEPT ![2] = Low(on), ![3] = High(on), ![8] = Low(n), ![9] = High(n)]
<1>1. on \in Double /\ n \in Double /\ on \in Nat /\ n \in Nat
  BY TimesDouble
<1>2. /\ Low(on) \in RegisterValues /\ High(on) \in RegisterValues
      /\ Low(n) \in RegisterValues /\ High(n) \in RegisterValues
  BY <1>1, HalvesType
<1>3. c \in Block /\ c[2] = Low(on) /\ c[3] = High(on) /\ c[8] = Low(n) /\ c[9] = High(n)
  BY <1>2 DEF Block, RegisterValues
<1> HIDE DEF c
<1>4. ParseTimerBlock(c).on = on /\ ParseTimerBlock(c).interval = n
  BY <1>1, <1>3, Halves DEF ParseTimerBlock
<1>5. Fits(c, ScheduleOf(on, n))
  BY <1>3, <1>4 DEF Fits
<1>6. QED
  BY <1>5 DEF c

-----------------------------------------------------------------------------
(* The invariant                                                           *)

IInv ==
    /\ SchedTypeOK
    /\ Fits(block, wanted)
    /\ \A c \in Editors :
        /\ step[c] # "idle" => edit[c] \in Edits
        /\ step[c] = "writing" => Fits(held[c], basis[c])

LEMMA FitsType ==
    ASSUME NEW b, NEW w, Fits(b, w)
    PROVE  b \in Block /\ w \in Schedules
BY ScheduleType DEF Fits

LEMMA InitIInv == SchedInit => IInv
<1> SUFFICES ASSUME SchedInit PROVE IInv
  OBVIOUS
<1>1. Fits(block, wanted)
  BY FirstBlockAssumption DEF SchedInit, Fits
<1>2. NoBasis \in Schedules
  BY DayAssumption DEF NoBasis, Schedules, Times
<1>3. SchedTypeOK
  BY <1>1, <1>2, FitsType DEF SchedInit, SchedTypeOK
<1>4. QED
  BY <1>1, <1>3 DEF SchedInit, IInv

LEMMA EndEditStep ==
    ASSUME IInv, NEW c \in Editors, EndEdit(c), Fits(block, wanted)'
    PROVE  IInv'
<1>1. NoBasis \in Schedules
  BY DayAssumption DEF NoBasis, Schedules, Times
<1>2. block' \in Block /\ wanted' \in Schedules
  BY FitsType
<1>3. SchedTypeOK'
  BY <1>1, <1>2 DEF EndEdit, IInv, SchedTypeOK
<1>4. \A d \in Editors :
        /\ step'[d] # "idle" => edit'[d] \in Edits
        /\ step'[d] = "writing" => Fits(held'[d], basis'[d])
  BY DEF EndEdit, IInv, SchedTypeOK
<1>5. QED
  BY <1>3, <1>4 DEF IInv

LEMMA Inductive == IInv /\ [SchedNext]_schedVars => IInv'
<1> SUFFICES ASSUME IInv, [SchedNext]_schedVars PROVE IInv'
  OBVIOUS
<1>1. ASSUME NEW on \in Times, NEW n \in Lengths, PanelSchedules(on, n) PROVE IInv'
  <2>1. Fits(block, wanted)'
    BY <1>1, PanelFits DEF PanelSchedules, IInv, SchedTypeOK
  <2>2. SchedTypeOK'
    BY <1>1, <2>1, FitsType DEF PanelSchedules, IInv, SchedTypeOK
  <2>3. QED
    BY <1>1, <2>1, <2>2 DEF PanelSchedules, IInv
<1>2. ASSUME NEW c \in Editors, NEW r \in Edits, WriteTimer(c, r) PROVE IInv'
  <2>1. SchedTypeOK'
    BY <1>2 DEF WriteTimer, IInv, SchedTypeOK
  <2>2. QED
    BY <1>2, <2>1 DEF WriteTimer, IInv, SchedTypeOK
<1>3. ASSUME NEW c \in Editors, ReadBlock(c) PROVE IInv'
  <2>1. SchedTypeOK'
    BY <1>3 DEF ReadBlock, IInv, SchedTypeOK
  <2>2. QED
    BY <1>3, <2>1 DEF ReadBlock, IInv, SchedTypeOK
<1>4. ASSUME NEW c \in Editors, WriteBlock(c) PROVE IInv'
  <2>1. Fits(held[c], basis[c]) /\ edit[c] \in Edits
    BY <1>4 DEF WriteBlock, IInv
  <2>2. Fits(block, wanted)'
    BY <1>4, <2>1, EditFits DEF WriteBlock
  <2>3. QED
    BY <1>4, <2>2, EndEditStep DEF WriteBlock
<1>5. ASSUME NEW c \in Editors, WriteTimerFails(c) PROVE IInv'
  <2>1. Fits(block, wanted)'
    BY <1>5 DEF WriteTimerFails, IInv
  <2>2. QED
    BY <1>5, <2>1, EndEditStep DEF WriteTimerFails
<1>6. CASE UNCHANGED schedVars
  BY <1>6 DEF schedVars, IInv, SchedTypeOK
<1>7. QED
  BY <1>1, <1>2, <1>3, <1>4, <1>5, <1>6 DEF SchedNext

(* What a timer does and what its registers say never drift apart.         *)
THEOREM ScheduleInvariant == SchedSpec => []IInv
BY InitIInv, Inductive, PTL DEF SchedSpec

(* SchedTypeOK is an invariant: every register is given a register's worth.*)
THEOREM ScheduleTypes == SchedSpec => []SchedTypeOK
<1>1. IInv => SchedTypeOK
  BY DEF IInv
<1>2. QED
  BY <1>1, ScheduleInvariant, PTL

(* RunsAsWanted is an invariant: of every day, in every width of register. *)
THEOREM TimerRunsAsWanted == SchedSpec => []RunsAsWanted
<1>1. IInv => RunsAsWanted
  BY RunsBetween DEF IInv, Fits, RunsAsWanted
<1>2. QED
  BY <1>1, ScheduleInvariant, PTL

(* OthersAsRead: no write changes what it was not asked to, but for what   *)
(* others have changed since it has read the block.                        *)
THEOREM OthersStayAsRead == SchedSpec => OthersAsRead
<1> DEFINE P == \A c \in Editors :
        step[c] = "writing" /\ step'[c] = "idle" /\ block' # block =>
            LET before == ParseTimerBlock(held[c])
                after == ParseTimerBlock(block')
            IN \A f \in {"enable", "off", "period", "countdown", "function", "work_time"} \ DOMAIN edit[c] :
                after[f] = before[f]
<1>1. IInv /\ [SchedNext]_schedVars => [P]_schedVars
  <2> SUFFICES ASSUME IInv, SchedNext, NEW c \in Editors,
                      step[c] = "writing", step'[c] = "idle", block' # block,
                      NEW f \in {"enable", "off", "period", "countdown", "function", "work_time"},
                      f \notin DOMAIN edit[c]
               PROVE  ParseTimerBlock(block')[f] = ParseTimerBlock(held[c])[f]
    OBVIOUS
  <2>1. WriteBlock(c)
    BY DEF SchedNext, PanelSchedules, WriteTimer, ReadBlock, WriteBlock, WriteTimerFails,
           EndEdit, IInv, SchedTypeOK
  <2>2. Fits(held[c], basis[c]) /\ edit[c] \in Edits
    BY DEF IInv
  <2>3. Edited(ParseTimerBlock(held[c]), edit[c]) \in TimerData
    BY <2>2, EditFits
  <2>4. ParseTimerBlock(block') = Edited(ParseTimerBlock(held[c]), edit[c])
    BY <2>1, <2>3, BuiltBlock DEF WriteBlock
  <2>5. ParseTimerBlock(held[c]) \in TimerData
    BY <2>2, Parsed DEF Fits
  <2>6. QED
    BY <2>4, <2>5 DEF Edited, TimerData, Asked
<1>2. SchedSpec => [][P]_schedVars
  BY <1>1, ScheduleInvariant, PTL DEF SchedSpec
<1>3. QED
  BY <1>2 DEF OthersAsRead

=============================================================================
