------------------------ MODULE GuardedWritesProofs -------------------------
(***************************************************************************)
(* Theorems about GuardedWrites, for every set of users, modes, valve      *)
(* modes and lengths, and any number of calls and events.  The argument:   *)
(* an entry of the cache, and of what a poll has found, is the register    *)
(* unless it is outdated; and what a call has learned from it stays true   *)
(* of every register that nobody has meddled with.                         *)
(***************************************************************************)
EXTENDS GuardedWrites, TLAPS

Registers == {"mode", "pump", "boost", "valve", "interval", "remaining"}

(* Entries that are not outdated are the registers.                        *)
UpToDate(entries, old) ==
    \A f \in Polled : entries[f] # Unread /\ f \notin old => entries[f] = reg[f]

PollInv ==
    /\ UpToDate(cached, outdated)
    /\ UpToDate(found, foundOutdated)
    /\ ~polling => found = NoEntries

(* What a call is about to write, and what it goes by.                     *)
GoalOK(what, v) ==
    /\ what = "moding" => v \in Modes
    /\ what \in {"toggling", "boosting"} => v \in Switch
    /\ what \in {"starting", "closing", "setting"} => v \in Seconds
    /\ what = "starting" => v # 0
    /\ what = "valving" => v \in ValveModes

TrustOK(r, what, v, unknown) ==
    /\ what \in {"stopping", "toggling"} /\ "mode" \notin unknown /\ "boost" \notin unknown
        => r["mode"] = "manual" /\ r["boost"] = "off"
    /\ what = "moding" /\ "mode" \notin unknown /\ "pump" \notin unknown
        => (r["mode"] = "manual" /\ v # "manual" => r["pump"] = "off")
    /\ what \in {"asking", "starting", "closing"} /\ "valve" \notin unknown
        => r["valve"] # "auto"
    /\ what = "starting" /\ "interval" \notin unknown => v = r["interval"]

CallInv ==
    \A c \in Users : GoalOK(at[c], goal[c]) /\ TrustOK(reg, at[c], goal[c], meddled[c])

TypeInv == GuardedTypeOK /\ meddled \in [Users -> SUBSET Registers]

IInv == TypeInv /\ PollInv /\ CallInv

-----------------------------------------------------------------------------
(* The registers                                                           *)

LEMMA RegisterNames ==
    ASSUME GuardedTypeOK
    PROVE  DOMAIN reg = Registers /\ \A f \in Registers : reg[f] \in Contents(f)
BY DEF GuardedTypeOK, Controller, Registers, Contents

LEMMA RegisterWritten ==
    ASSUME GuardedTypeOK, NEW f \in Registers, NEW v \in Contents(f), Becomes(f, v)
    PROVE  /\ reg' \in Controller
           /\ \A g \in Registers : reg'[g] = IF g = f THEN v ELSE reg[g]
<1>1. reg' = [reg EXCEPT ![f] = v] /\ reg \in Controller
  BY DEF Becomes, GuardedTypeOK
<1>2. CASE f = "mode"
  BY <1>1, <1>2 DEF Contents, Controller, Registers
<1>3. CASE f = "pump"
  BY <1>1, <1>3 DEF Contents, Controller, Registers
<1>4. CASE f = "boost"
  BY <1>1, <1>4 DEF Contents, Controller, Registers
<1>5. CASE f = "valve"
  BY <1>1, <1>5 DEF Contents, Controller, Registers
<1>6. CASE f = "interval"
  BY <1>1, <1>6 DEF Contents, Controller, Registers
<1>7. CASE f = "remaining"
  BY <1>1, <1>7 DEF Contents, Controller, Registers
<1>8. QED
  BY <1>2, <1>3, <1>4, <1>5, <1>6, <1>7 DEF Registers

(* A register that changes leaves no entry that is wrongly trusted.        *)
LEMMA BecomesPoll ==
    ASSUME GuardedTypeOK, PollInv, NEW f \in Registers, NEW v \in Contents(f), Becomes(f, v),
           UNCHANGED pollVars
    PROVE  PollInv' /\ outdated' \subseteq Polled /\ foundOutdated' \subseteq Polled
<1>1. \A g \in Registers : reg'[g] = IF g = f THEN v ELSE reg[g]
  BY RegisterWritten
<1>2. Polled \subseteq Registers
  BY DEF Polled, ModeRegisters, ValveRegisters, Registers
<1>3. UpToDate(cached, outdated)'
  BY <1>1, <1>2 DEF PollInv, UpToDate, Becomes, pollVars
<1>4. UpToDate(found, foundOutdated)'
  BY <1>1, <1>2 DEF PollInv, UpToDate, Becomes, pollVars
<1>5. outdated' \subseteq Polled /\ foundOutdated' \subseteq Polled
  BY DEF Becomes, GuardedTypeOK
<1>6. QED
  BY <1>3, <1>4, <1>5 DEF PollInv, pollVars, NoEntries

LEMMA MeddledType ==
    ASSUME TypeInv, NEW f \in Registers, NEW v
    PROVE  Meddled(f, v) \in [Users -> SUBSET Registers]
BY DEF TypeInv, Meddled

(* A call that takes no part in a change can rely on no less than before.  *)
LEMMA BecomesCall ==
    ASSUME TypeInv, NEW f \in Registers, NEW v \in Contents(f), Becomes(f, v),
           NEW c \in Users, TrustOK(reg, at[c], goal[c], meddled[c])
    PROVE  TrustOK(reg', at[c], goal[c], Meddled(f, v)[c])
<1>1. \A g \in Registers : reg'[g] = IF g = f THEN v ELSE reg[g]
  BY RegisterWritten DEF TypeInv
<1>2. CASE at[c] = "idle"
  BY <1>2 DEF TrustOK
<1>3. CASE v = reg[f] \/ f = "remaining"
  <2>1. Meddled(f, v)[c] = meddled[c]
    BY <1>3 DEF Meddled
  <2>2. QED
    BY <1>1, <1>3, <2>1 DEF TrustOK, Registers
<1>4. CASE at[c] # "idle" /\ v # reg[f] /\ f # "remaining"
  <2>1. Meddled(f, v)[c] = meddled[c] \cup {f}
    BY <1>4 DEF Meddled
  <2>2. QED
    BY <1>1, <1>4, <2>1 DEF TrustOK, Registers
<1>5. QED
  BY <1>2, <1>3, <1>4

-----------------------------------------------------------------------------
(* One lemma per form of step                                              *)

LEMMA EventStep ==
    ASSUME IInv, NEW f \in Registers, NEW v \in Contents(f), EventAt(f, v)
    PROVE  IInv'
<1> USE DEF EventAt
<1>1. reg' \in Controller /\ meddled' \in [Users -> SUBSET Registers]
  BY RegisterWritten, MeddledType DEF IInv, TypeInv
<1>2. PollInv' /\ outdated' \subseteq Polled /\ foundOutdated' \subseteq Polled
  BY BecomesPoll DEF IInv, TypeInv
<1>3. DOMAIN reg' = Registers
  BY <1>1 DEF Controller, Registers
<1>4. TypeInv'
  BY <1>1, <1>2, <1>3 DEF IInv, TypeInv, GuardedTypeOK, pollVars, useVars
<1>5. CallInv'
  <2> SUFFICES ASSUME NEW c \in Users
               PROVE  GoalOK(at[c], goal[c])' /\ TrustOK(reg, at[c], goal[c], meddled[c])'
    BY DEF CallInv
  <2>1. TrustOK(reg', at[c], goal[c], Meddled(f, v)[c])
    BY BecomesCall DEF IInv, CallInv
  <2>2. QED
    BY <2>1 DEF IInv, CallInv, useVars
<1>6. QED
  BY <1>2, <1>4, <1>5 DEF IInv

(* Steps of a poll can only spoil the types of the entries.                *)
LEMMA EntryType ==
    ASSUME TypeInv, UNCHANGED <<reg, useVars, meddled, uses>>, events' \in Nat,
           polling' \in BOOLEAN,
           DOMAIN cached' = Polled, \A f \in Polled : cached'[f] \in Contents(f) \cup {Unread},
           DOMAIN found' = Polled, \A f \in Polled : found'[f] \in Contents(f) \cup {Unread},
           outdated' \subseteq Polled, foundOutdated' \subseteq Polled
    PROVE  TypeInv'
BY DEF TypeInv, GuardedTypeOK, useVars

LEMMA PollStep ==
    ASSUME IInv, NEW R \in SUBSET Polled, Poll(R)
    PROVE  IInv'
<1> USE DEF IInv
<1>1. reg' = reg /\ at' = at /\ goal' = goal /\ meddled' = meddled
  BY DEF Poll, PollStarts, PollFinds, PollMerges, PollFails, CacheEmptied, useVars
<1>2. CallInv'
  BY <1>1 DEF CallInv
<1>3. NoEntries \in [Polled -> {Unread}]
  BY DEF NoEntries
<1>4. CASE PollStarts
  <2>1. TypeInv'
    BY <1>4, EntryType DEF PollStarts, TypeInv, GuardedTypeOK
  <2>2. PollInv'
    BY <1>4 DEF PollStarts, PollInv, UpToDate
  <2>3. QED
    BY <1>2, <2>1, <2>2
<1>5. ASSUME NEW f \in R, PollFinds(f) PROVE TypeInv' /\ PollInv'
  <2>1. f \in Registers
    BY DEF Registers, Polled, ModeRegisters, ValveRegisters
  <2>2. reg[f] \in Contents(f)
    BY <2>1, RegisterNames DEF TypeInv
  <2>3. found' = [g \in Polled |-> IF g = f THEN reg[f] ELSE found[g]]
    BY <1>5 DEF PollFinds, TypeInv, GuardedTypeOK
  <2>4. TypeInv'
    BY <1>5, <2>2, <2>3 DEF PollFinds, TypeInv, GuardedTypeOK, useVars
  <2>5. PollInv'
    BY <1>5, <2>3 DEF PollFinds, PollInv, UpToDate, useVars
  <2>6. QED
    BY <2>4, <2>5
<1>6. CASE PollMerges
  <2>1. TypeInv'
    <3>1. DOMAIN cached' = Polled /\ \A f \in Polled : cached'[f] \in Contents(f) \cup {Unread}
      BY <1>6 DEF PollMerges, TypeInv, GuardedTypeOK
    <3>2. DOMAIN found' = Polled /\ \A f \in Polled : found'[f] \in Contents(f) \cup {Unread}
      BY <1>3, <1>6 DEF PollMerges, PollForgets
    <3>3. outdated' \subseteq Polled /\ foundOutdated' \subseteq Polled
      BY <1>6 DEF PollMerges, PollForgets, TypeInv, GuardedTypeOK
    <3>4. QED
      BY <1>6, <3>1, <3>2, <3>3, EntryType DEF PollMerges, PollForgets, TypeInv, GuardedTypeOK
  <2>2. PollInv'
    <3>1. UpToDate(cached, outdated)'
      BY <1>1, <1>6 DEF PollMerges, PollInv, UpToDate
    <3>2. UpToDate(found, foundOutdated)' /\ found' = NoEntries
      BY <1>6 DEF PollMerges, PollForgets, UpToDate, NoEntries
    <3>3. QED
      BY <3>1, <3>2 DEF PollInv
  <2>3. QED
    BY <1>2, <2>1, <2>2
<1>7. CASE PollFails
  <2>1. TypeInv'
    <3>1. DOMAIN found' = Polled /\ \A f \in Polled : found'[f] \in Contents(f) \cup {Unread}
      BY <1>3, <1>7 DEF PollFails, PollForgets
    <3>2. QED
      BY <1>7, <3>1, EntryType DEF PollFails, PollForgets, TypeInv, GuardedTypeOK
  <2>2. PollInv'
    <3>1. UpToDate(cached, outdated)'
      BY <1>1, <1>7 DEF PollFails, PollInv, UpToDate
    <3>2. UpToDate(found, foundOutdated)' /\ found' = NoEntries
      BY <1>7 DEF PollFails, PollForgets, UpToDate, NoEntries
    <3>3. QED
      BY <3>1, <3>2 DEF PollInv
  <2>3. QED
    BY <1>2, <2>1, <2>2
<1>8. CASE CacheEmptied
  <2>1. TypeInv'
    <3>1. DOMAIN cached' = Polled /\ \A f \in Polled : cached'[f] \in Contents(f) \cup {Unread}
      BY <1>3, <1>8 DEF CacheEmptied
    <3>2. QED
      BY <1>8, <3>1, EntryType DEF CacheEmptied, TypeInv, GuardedTypeOK
  <2>2. PollInv'
    <3>1. UpToDate(cached, outdated)'
      BY <1>8 DEF CacheEmptied, UpToDate, NoEntries
    <3>2. UpToDate(found, foundOutdated)'
      BY <1>1, <1>8 DEF CacheEmptied, PollInv, UpToDate
    <3>3. QED
      BY <1>8, <3>1, <3>2 DEF CacheEmptied, PollInv
  <2>3. QED
    BY <1>2, <2>1, <2>2
<1>9. QED
  BY <1>2, <1>4, <1>5, <1>6, <1>7, <1>8 DEF Poll, TypeInv, PollInv

Points == {"idle", "stopping", "moding", "toggling", "boosting",
           "asking", "starting", "closing", "valving", "setting"}

(* A call is made, with a goal and a trust that its guards justify.        *)
LEMMA UseStep ==
    ASSUME IInv, NEW c \in Users, NEW what \in Points, NEW v, Use(c, what, v),
           GoalOK(what, v), TrustOK(reg, what, v, Unreliable)
    PROVE  IInv'
<1> USE DEF IInv, Use
<1>1. Unreliable \subseteq Registers
  BY DEF Unreliable, TypeInv, GuardedTypeOK, Registers, Polled, ModeRegisters, ValveRegisters
<1>2. PollInv'
  BY DEF PollInv, UpToDate, pollVars, pollHistory
<1>3. TypeInv'
  <2>1. DOMAIN reg = Registers
    BY RegisterNames DEF TypeInv
  <2>2. /\ at' \in [Users -> Points] /\ DOMAIN goal' = Users
        /\ meddled' \in [Users -> SUBSET Registers] /\ uses' \in Nat
    BY <1>1 DEF TypeInv, GuardedTypeOK, Points
  <2>3. QED
    BY <2>1, <2>2 DEF TypeInv, GuardedTypeOK, Points, pollVars, pollHistory
<1>4. CallInv'
  BY DEF CallInv, TypeInv, GuardedTypeOK
<1>5. QED
  BY <1>2, <1>3, <1>4

(* It ends in a failure.                                                   *)
LEMMA FailStep ==
    ASSUME IInv, NEW c \in Users, UseFails(c)
    PROVE  IInv'
<1> USE DEF IInv, UseFails, UseEnds
<1>1. PollInv'
  BY DEF PollInv, UpToDate, pollVars, pollHistory
<1>2. TypeInv'
  BY DEF TypeInv, GuardedTypeOK, pollVars, pollHistory
<1>3. CallInv'
  BY DEF CallInv, TypeInv, GuardedTypeOK, GoalOK, TrustOK
<1>4. QED
  BY <1>1, <1>2, <1>3

LEMMA LastWriteStep ==
    ASSUME IInv, NEW c \in Users, NEW f \in Registers, NEW v \in Contents(f),
           LastWrite(c, f, v)
    PROVE  IInv'
<1> USE DEF LastWrite
<1>1. reg' \in Controller /\ Meddled(f, v) \in [Users -> SUBSET Registers]
  BY RegisterWritten, MeddledType DEF IInv, TypeInv
<1>2. PollInv' /\ outdated' \subseteq Polled /\ foundOutdated' \subseteq Polled
  BY BecomesPoll DEF IInv, TypeInv
<1>3. DOMAIN reg' = Registers
  BY <1>1 DEF Controller, Registers
<1>4. TypeInv'
  BY <1>1, <1>2, <1>3 DEF IInv, TypeInv, GuardedTypeOK, pollVars, UseEnds
<1>5. CallInv'
  <2> SUFFICES ASSUME NEW d \in Users
               PROVE  GoalOK(at[d], goal[d])' /\ TrustOK(reg, at[d], goal[d], meddled[d])'
    BY DEF CallInv
  <2>1. CASE d = c
    BY <2>1 DEF IInv, TypeInv, GuardedTypeOK, UseEnds, GoalOK, TrustOK
  <2>2. CASE d # c
    <3>1. TrustOK(reg', at[d], goal[d], Meddled(f, v)[d])
      BY BecomesCall DEF IInv, CallInv
    <3>2. at'[d] = at[d] /\ goal'[d] = goal[d] /\ meddled'[d] = Meddled(f, v)[d]
      BY <1>1, <2>2 DEF IInv, TypeInv, GuardedTypeOK, UseEnds
    <3>3. QED
      BY <3>1, <3>2 DEF IInv, CallInv
  <2>3. QED
    BY <2>1, <2>2
<1>6. QED
  BY <1>2, <1>4, <1>5 DEF IInv

LEMMA StopPumpStep ==
    ASSUME IInv, NEW c \in Users, StopPump(c)
    PROVE  IInv'
<1> "pump" \in Registers /\ "off" \in Contents("pump")
  BY DEF Registers, Contents, Switch
<1> USE DEF StopPump
<1>1. reg' \in Controller /\ Meddled("pump", "off") \in [Users -> SUBSET Registers]
  BY RegisterWritten, MeddledType DEF IInv, TypeInv
<1>2. PollInv' /\ outdated' \subseteq Polled /\ foundOutdated' \subseteq Polled
  BY BecomesPoll DEF IInv, TypeInv
<1>3. DOMAIN reg' = Registers
  BY <1>1 DEF Controller, Registers
<1>4. TypeInv'
  <2>1. meddled' \in [Users -> SUBSET Registers]
    BY <1>1 DEF IInv, TypeInv
  <2>2. at' \in [Users -> Points] /\ DOMAIN goal' = Users
    BY DEF IInv, TypeInv, GuardedTypeOK, Points, UseEnds
  <2>3. QED
    BY <1>1, <1>2, <1>3, <2>1, <2>2
    DEF IInv, TypeInv, GuardedTypeOK, Points, pollVars
<1>5. CallInv'
  <2> SUFFICES ASSUME NEW d \in Users
               PROVE  GoalOK(at[d], goal[d])' /\ TrustOK(reg, at[d], goal[d], meddled[d])'
    BY DEF CallInv
  <2>1. CASE d = c /\ goal[c] \in Modes
    <3>1. at'[d] = "moding" /\ goal'[d] = goal[c]
      BY <2>1 DEF IInv, TypeInv, GuardedTypeOK
    <3>2. reg'["pump"] = "off"
      BY RegisterWritten DEF IInv, TypeInv, Registers
    <3>3. QED
      BY <2>1, <3>1, <3>2 DEF GoalOK, TrustOK
  <2>2. CASE d = c /\ goal[c] \notin Modes
    BY <2>2 DEF IInv, TypeInv, GuardedTypeOK, UseEnds, GoalOK, TrustOK
  <2>3. CASE d # c
    <3>1. TrustOK(reg', at[d], goal[d], Meddled("pump", "off")[d])
      BY BecomesCall DEF IInv, CallInv
    <3>2. at'[d] = at[d] /\ goal'[d] = goal[d] /\ meddled'[d] = Meddled("pump", "off")[d]
      BY <1>1, <2>3 DEF IInv, TypeInv, GuardedTypeOK, UseEnds
    <3>3. QED
      BY <3>1, <3>2 DEF IInv, CallInv
  <2>4. QED
    BY <2>1, <2>2, <2>3
<1>6. QED
  BY <1>2, <1>4, <1>5 DEF IInv

LEMMA AskIntervalStep ==
    ASSUME IInv, NEW c \in Users, AskInterval(c)
    PROVE  IInv'
<1> USE DEF IInv, AskInterval
<1>1. PollInv'
  BY DEF PollInv, UpToDate, pollVars, pollHistory
<1>2. at' \in [Users -> Points] /\ DOMAIN goal' = Users
  BY DEF TypeInv, GuardedTypeOK, Points, UseEnds
<1>3. meddled' \in [Users -> SUBSET Registers]
  BY DEF TypeInv
<1>4. TypeInv'
  BY <1>2, <1>3, RegisterNames DEF TypeInv, GuardedTypeOK, Points, pollVars, pollHistory
<1>5. CallInv'
  <2>1. reg["interval"] \in Seconds
    BY RegisterNames DEF TypeInv, Registers, Contents
  <2>2. CASE HasInterval(reg["interval"])
    BY <2>1, <2>2 DEF CallInv, TypeInv, GuardedTypeOK, GoalOK, TrustOK, HasInterval
  <2>3. CASE ~HasInterval(reg["interval"])
    BY <2>3 DEF CallInv, TypeInv, GuardedTypeOK, GoalOK, TrustOK, UseEnds
  <2>4. QED
    BY <2>2, <2>3
<1>6. QED
  BY <1>1, <1>4, <1>5

-----------------------------------------------------------------------------
(* The steps of the two families of calls                                  *)

(* The entries that a guard goes by are the registers, if they are not     *)
(* unreliable.                                                             *)
LEMMA Reliable ==
    ASSUME IInv, NEW f \in Polled, f \notin Unreliable
    PROVE  cached[f] # Unread /\ cached[f] = reg[f]
BY DEF IInv, PollInv, UpToDate, Unreliable

LEMMA FiltrationStep ==
    ASSUME IInv, FiltrationNext
    PROVE  IInv'
<1> USE DEF Registers, Contents
<1>1. "mode" \in Polled /\ "boost" \in Polled /\ ModeRegisters \subseteq Polled
  BY DEF Polled, ModeRegisters
<1>2. CASE FiltrationEvent
  BY <1>2, EventStep DEF FiltrationEvent
<1>3. CASE Poll(ModeRegisters)
  BY <1>1, <1>3, PollStep
<1> SUFFICES ASSUME NEW c \in Users,
                    \/ \E m \in Modes \cup {UnknownMode} : ExitManual(c, m) \/ SetMode(c, m)
                    \/ \E s \in Switch : SetManualFiltration(c, s) \/ SetCellBoost(c, s)
                    \/ StopPump(c) \/ WriteMode(c) \/ TogglePump(c) \/ WriteBoost(c)
                    \/ UseFails(c)
             PROVE  IInv'
  BY <1>2, <1>3 DEF FiltrationNext
<1>4. reg["boost"] \in Switch
  BY RegisterNames DEF IInv, TypeInv
<1>5. Toggleable /\ "mode" \notin Unreliable /\ "boost" \notin Unreliable
        => reg["mode"] = "manual" /\ reg["boost"] = "off"
  BY <1>1, <1>4, Reliable DEF Toggleable, Switch
<1>6. ASSUME NEW m \in Modes \cup {UnknownMode}, ExitManual(c, m) PROVE IInv'
  BY <1>5, <1>6, UseStep DEF ExitManual, GoalOK, TrustOK, Points
<1>7. ASSUME NEW m, SetMode(c, m) PROVE IInv'
  <2>1. "mode" \notin Unreliable => m = "manual" \/ reg["mode"] # "manual"
    BY <1>1, <1>7, Reliable DEF SetMode, LeavesManual
  <2>2. QED
    BY <1>7, <2>1, UseStep DEF SetMode, GoalOK, TrustOK, Points
<1>8. ASSUME NEW s \in Switch, SetManualFiltration(c, s) PROVE IInv'
  BY <1>5, <1>8, UseStep DEF SetManualFiltration, GoalOK, TrustOK, Points
<1>9. ASSUME NEW s \in Switch, SetCellBoost(c, s) PROVE IInv'
  BY <1>9, UseStep DEF SetCellBoost, GoalOK, TrustOK, Points
<1>10. CASE StopPump(c)
  BY <1>10, StopPumpStep
<1>11. CASE WriteMode(c)
  BY <1>11, LastWriteStep DEF WriteMode, IInv, CallInv, GoalOK
<1>12. CASE TogglePump(c)
  BY <1>12, LastWriteStep DEF TogglePump, IInv, CallInv, GoalOK
<1>13. CASE WriteBoost(c)
  BY <1>13, LastWriteStep DEF WriteBoost, IInv, CallInv, GoalOK
<1>14. QED
  BY <1>6, <1>7, <1>8, <1>9, <1>10, <1>11, <1>12, <1>13, FailStep

LEMMA BackwashStep ==
    ASSUME IInv, BackwashNext
    PROVE  IInv'
<1> USE DEF Registers, Contents
<1>1. "valve" \in Polled /\ "interval" \in Polled /\ ValveRegisters \subseteq Polled
  BY DEF Polled, ValveRegisters
<1>2. reg["interval"] \in Seconds /\ reg["remaining"] \in Seconds
  BY RegisterNames DEF IInv, TypeInv
<1>3. CASE ValveEvent
  BY <1>2, <1>3, EventStep DEF ValveEvent
<1>4. CASE Poll(ValveRegisters)
  BY <1>1, <1>4, PollStep
<1> SUFFICES ASSUME NEW c \in Users,
                    \/ StartBackwash(c) \/ StartBackwashCold(c) \/ AskInterval(c)
                    \/ StopBackwash(c)
                    \/ \E v \in ValveModes : SetFiltvalveMode(c, v)
                    \/ \E s \in Seconds : SetInterval(c, s)
                    \/ WriteRemaining(c) \/ WriteValveMode(c) \/ WriteInterval(c)
                    \/ UseFails(c)
             PROVE  IInv'
  BY <1>3, <1>4 DEF BackwashNext
<1>5. ValveNotAuto /\ "valve" \notin Unreliable => reg["valve"] # "auto"
  BY <1>1, Reliable DEF ValveNotAuto
<1>6. CASE StartBackwash(c)
  <2>1. cached["interval"] \in Seconds
    BY <1>1, <1>6 DEF StartBackwash, IInv, TypeInv, GuardedTypeOK
  <2>2. "interval" \notin Unreliable => cached["interval"] = reg["interval"]
    BY <1>1, Reliable
  <2>3. QED
    BY <1>5, <1>6, <2>1, <2>2, UseStep DEF StartBackwash, HasInterval, GoalOK, TrustOK, Points
<1>7. CASE StartBackwashCold(c)
  BY <1>5, <1>7, UseStep DEF StartBackwashCold, GoalOK, TrustOK, Points
<1>8. CASE StopBackwash(c)
  BY <1>5, <1>8, UseStep, SecondsAssumption DEF StopBackwash, GoalOK, TrustOK, Points
<1>9. ASSUME NEW v \in ValveModes, SetFiltvalveMode(c, v) PROVE IInv'
  BY <1>9, UseStep DEF SetFiltvalveMode, GoalOK, TrustOK, Points
<1>10. ASSUME NEW s \in Seconds, SetInterval(c, s) PROVE IInv'
  BY <1>10, UseStep DEF SetInterval, GoalOK, TrustOK, Points
<1>11. CASE WriteRemaining(c)
  <2>1. goal[c] \in Seconds
    BY <1>11 DEF WriteRemaining, IInv, CallInv, GoalOK
  <2>2. QED
    BY <1>2, <1>11, <2>1, LastWriteStep DEF WriteRemaining
<1>12. CASE WriteValveMode(c)
  BY <1>12, LastWriteStep DEF WriteValveMode, IInv, CallInv, GoalOK
<1>13. CASE WriteInterval(c)
  BY <1>13, LastWriteStep DEF WriteInterval, IInv, CallInv, GoalOK
<1>14. QED
  BY <1>6, <1>7, <1>8, <1>9, <1>10, <1>11, <1>12, <1>13, AskIntervalStep, FailStep

-----------------------------------------------------------------------------
(* Theorems                                                                *)

LEMMA InitIInv == GuardedInit => IInv
<1> SUFFICES ASSUME GuardedInit PROVE IInv
  OBVIOUS
<1> USE DEF GuardedInit
<1>1. NoEntries \in [Polled -> {Unread}]
  BY DEF NoEntries
<1>2. TypeInv
  BY <1>1 DEF TypeInv, GuardedTypeOK
<1>3. PollInv
  BY DEF PollInv, UpToDate, NoEntries
<1>4. CallInv
  BY DEF CallInv, GoalOK, TrustOK
<1>5. QED
  BY <1>2, <1>3, <1>4 DEF IInv

LEMMA StutterStep == IInv /\ UNCHANGED guardedVars => IInv'
<1> SUFFICES ASSUME IInv, UNCHANGED guardedVars PROVE IInv'
  OBVIOUS
<1> USE DEF guardedVars, pollVars, pollHistory, useVars
<1>1. TypeInv'
  BY DEF IInv, TypeInv, GuardedTypeOK
<1>2. PollInv'
  BY DEF IInv, PollInv, UpToDate, NoEntries
<1>3. CallInv'
  BY DEF IInv, CallInv
<1>4. QED
  BY <1>1, <1>2, <1>3 DEF IInv

LEMMA Inductive == IInv /\ [GuardedNext]_guardedVars => IInv'
BY FiltrationStep, BackwashStep, StutterStep DEF GuardedNext

(* Every guarded write of every call keeps the inductive invariant.        *)
THEOREM GuardedInvariant == GuardedSpec => []IInv
BY InitIInv, Inductive, PTL DEF GuardedSpec

(* GuardedTypeOK is an invariant: no register of the controller is ever    *)
(* given a value that it does not have.                                    *)
THEOREM GuardedTypesHold == GuardedSpec => []GuardedTypeOK
<1>1. IInv => GuardedTypeOK
  BY DEF IInv, TypeInv
<1>2. QED
  BY <1>1, GuardedInvariant, PTL

(* SwitchReachesPump is an invariant: what a switch of the pump goes by    *)
(* holds to the end, if nobody has changed the mode or the boost.          *)
THEOREM PumpIsReached == GuardedSpec => []SwitchReachesPump
<1>1. IInv => SwitchReachesPump
  BY DEF IInv, CallInv, TrustOK, SwitchReachesPump
<1>2. QED
  BY <1>1, GuardedInvariant, PTL

(* BackwashAsConfigured is an invariant: the countdown of a backwash is    *)
(* the configured one, and is not ignored, unless somebody changed either. *)
THEOREM BackwashIsConfigured == GuardedSpec => []BackwashAsConfigured
<1>1. IInv => BackwashAsConfigured
  BY DEF IInv, CallInv, TrustOK, BackwashAsConfigured
<1>2. QED
  BY <1>1, GuardedInvariant, PTL

-----------------------------------------------------------------------------
(* What the step may do in which a call ends                               *)

(* The steps of one task.                                                  *)
FiltrationCall(c) ==
    \/ \E m \in Modes \cup {UnknownMode} : ExitManual(c, m) \/ SetMode(c, m)
    \/ \E s \in Switch : SetManualFiltration(c, s) \/ SetCellBoost(c, s)
    \/ StopPump(c) \/ WriteMode(c) \/ TogglePump(c) \/ WriteBoost(c)
    \/ UseFails(c)

BackwashCall(c) ==
    \/ StartBackwash(c) \/ StartBackwashCold(c) \/ AskInterval(c) \/ StopBackwash(c)
    \/ \E v \in ValveModes : SetFiltvalveMode(c, v)
    \/ \E s \in Seconds : SetInterval(c, s)
    \/ WriteRemaining(c) \/ WriteValveMode(c) \/ WriteInterval(c)
    \/ UseFails(c)

LEMMA OneTask ==
    ASSUME [GuardedNext]_guardedVars
    PROVE  at' = at \/ \E c \in Users : FiltrationCall(c) \/ BackwashCall(c)
<1>2. FiltrationEvent => at' = at
  BY DEF FiltrationEvent, EventAt, useVars
<1>3. ValveEvent => at' = at
  BY DEF ValveEvent, EventAt, useVars
<1>4. \A R : Poll(R) => at' = at
  BY DEF Poll, PollStarts, PollFinds, PollMerges, PollFails, CacheEmptied, useVars
<1>5. UNCHANGED guardedVars => at' = at
  BY DEF guardedVars, useVars
<1>6. QED
  BY <1>2, <1>3, <1>4, <1>5
  DEF GuardedNext, FiltrationNext, BackwashNext, FiltrationCall, BackwashCall

(* A task moves nobody but itself.                                         *)
LEMMA OwnStep ==
    ASSUME NEW d \in Users, FiltrationCall(d) \/ BackwashCall(d), NEW c \in Users, c # d
    PROVE  at'[c] = at[c] \/ c \notin DOMAIN at
<1> USE DEF Use, UseEnds, LastWrite
<1>1. FiltrationCall(d) => at'[c] = at[c] \/ c \notin DOMAIN at
  BY DEF FiltrationCall, ExitManual, SetMode, SetManualFiltration, SetCellBoost,
         StopPump, WriteMode, TogglePump, WriteBoost, UseFails
<1>2. BackwashCall(d) => at'[c] = at[c] \/ c \notin DOMAIN at
  BY DEF BackwashCall, StartBackwash, StartBackwashCold, AskInterval, StopBackwash,
         SetFiltvalveMode, SetInterval, WriteRemaining, WriteValveMode, WriteInterval, UseFails
<1>3. QED
  BY <1>1, <1>2

(* A call that is about to write its mode, or its interval, ends with that *)
(* write or in a failure.                                                  *)
LEMMA Ending ==
    ASSUME IInv, [GuardedNext]_guardedVars, NEW c \in Users, at'[c] = "idle",
           at[c] \in {"moding", "starting"}
    PROVE  UseFails(c) \/ WriteMode(c) \/ WriteRemaining(c)
<1>1. PICK d \in Users : FiltrationCall(d) \/ BackwashCall(d)
  BY OneTask
<1>2. d = c
  BY <1>1, OwnStep DEF IInv, TypeInv, GuardedTypeOK
<1>3. FiltrationCall(c) => UseFails(c) \/ WriteMode(c)
  BY DEF FiltrationCall, ExitManual, SetMode, SetManualFiltration, SetCellBoost, Use,
         StopPump, TogglePump, WriteBoost
<1>4. BackwashCall(c) => UseFails(c) \/ WriteRemaining(c)
  BY DEF BackwashCall, StartBackwash, StartBackwashCold, AskInterval, StopBackwash,
         SetFiltvalveMode, SetInterval, Use, WriteValveMode, WriteInterval
<1>5. QED
  BY <1>1, <1>2, <1>3, <1>4

(* LeavesManualStopped: no step of any execution takes the controller out  *)
(* of manual mode with the pump on, unless it was switched meanwhile.      *)
THEOREM ManualIsLeftStopped == GuardedSpec => LeavesManualStopped
<1> DEFINE P == \A c \in Users :
        at[c] = "moding" /\ at'[c] = "idle" /\ meddled[c] \cap {"mode", "pump"} = {} =>
            (reg["mode"] = "manual" /\ reg'["mode"] # "manual" => reg["pump"] = "off")
<1>1. IInv /\ [GuardedNext]_guardedVars => [P]_guardedVars
  <2> SUFFICES ASSUME IInv, [GuardedNext]_guardedVars, NEW c \in Users,
                      at[c] = "moding", at'[c] = "idle",
                      "mode" \notin meddled[c], "pump" \notin meddled[c],
                      reg["mode"] = "manual", reg'["mode"] # "manual"
               PROVE  reg["pump"] = "off"
    OBVIOUS
  <2>1. WriteMode(c)
    BY Ending DEF UseFails, WriteRemaining
  <2>2. goal[c] \in Modes
    BY DEF IInv, CallInv, GoalOK
  <2>3. reg'["mode"] = goal[c]
    BY <2>1, <2>2, RegisterWritten
    DEF WriteMode, LastWrite, Registers, Contents, IInv, TypeInv
  <2>4. QED
    BY <2>3 DEF IInv, CallInv, TrustOK
<1>2. GuardedSpec => [][P]_guardedVars
  BY <1>1, GuardedInvariant, PTL DEF GuardedSpec
<1>3. QED
  BY <1>2 DEF LeavesManualStopped

(* StartNeverStops: no step of any execution in which async_start_backwash *)
(* ends takes the countdown of a running backwash to 0.                    *)
THEOREM StartStopsNothing == GuardedSpec => StartNeverStops
<1> DEFINE P == \A c \in Users :
        at[c] = "starting" /\ at'[c] = "idle" /\ reg["remaining"] > 0 => reg'["remaining"] > 0
<1>1. IInv /\ [GuardedNext]_guardedVars => [P]_guardedVars
  <2> SUFFICES ASSUME IInv, [GuardedNext]_guardedVars, NEW c \in Users,
                      at[c] = "starting", at'[c] = "idle", reg["remaining"] > 0
               PROVE  reg'["remaining"] > 0
    OBVIOUS
  <2>1. CASE UseFails(c)
    BY <2>1 DEF UseFails
  <2>2. CASE WriteRemaining(c)
    <3>1. goal[c] \in Seconds /\ goal[c] # 0 /\ reg["remaining"] \in Seconds
      BY RegisterNames DEF IInv, CallInv, GoalOK, TypeInv, Registers, Contents
    <3>2. \E v \in {reg["remaining"], goal[c]} : Becomes("remaining", v)
      BY <2>2 DEF WriteRemaining, LastWrite
    <3>3. reg'["remaining"] \in {reg["remaining"], goal[c]}
      BY <3>1, <3>2, RegisterWritten DEF Registers, Contents, IInv, TypeInv
    <3>4. \A n \in Nat : n # 0 => n > 0
      OBVIOUS
    <3>5. goal[c] > 0
      BY <3>1, <3>4, SecondsAssumption
    <3>6. CASE reg'["remaining"] = reg["remaining"]
      BY <3>6, Zenon
    <3>7. CASE reg'["remaining"] = goal[c]
      BY <3>5, <3>7, Zenon
    <3>8. QED
      BY <3>3, <3>6, <3>7
  <2>3. QED
    BY <2>1, <2>2, Ending DEF WriteMode
<1>2. GuardedSpec => [][P]_guardedVars
  BY <1>1, GuardedInvariant, PTL DEF GuardedSpec
<1>3. QED
  BY <1>2 DEF StartNeverStops

=============================================================================
