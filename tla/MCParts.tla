------------------------------ MODULE MCParts ------------------------------
(* Five components that share no register, no lock and no cached word are  *)
(* checked in one run, side by side: each behaviour is one of one part,    *)
(* while the others rest at a fixed state.  So the states of the run are   *)
(* the sum of the parts', not their product.  The guarded writes count as  *)
(* two parts, the filtration mode and the filter valve.                    *)
EXTENDS Fc20Filter, TempSetpoints, TimerSchedule, GuardedWrites, PumpState, TLC

CONSTANTS U, F, Z, O, c1, c2, c3

VARIABLE part

Parts == {"fc20", "setpoints", "schedule", "filtration", "valve", "pump"}

MCBytes == {U, F, Z, O}
MCResponses ==
    [g \in {"socket", "rtu"} |->
        IF g = "socket" THEN {<<U, F, Z, Z, O>>, <<O, O, Z, Z, U, F>>} ELSE {<<U, O, U, F, O>>}]
MCBroadcasts == {<<U, F, O, O, O>>}

MCEdits ==
    [{"on"} -> 0..2] \cup [{"stop"} -> 0..2]
        \cup {"on" :> 2 @@ "stop" :> 1, "interval" :> 3, "interval" :> 1 @@ "stop" :> 0,
              "enable" :> 1}
MCFirstBlocks ==
    {<<0, 1, 0, 1, 1, 1, 0, 1, 0, 0, 1, 1, 1, 0, 1>>,
     <<1, 0, 1, 0, 1, 1, 1, 1, 1, 1, 0, 0, 0, 1, 0>>}

FcRests == FcInit /\ framing = "rtu"
(* What the setpoints are at first is nothing that a call has set.         *)
TempStarts == TempInit /\ setpoint["heating"] = 0 /\ saved = setpoint
TempRests == TempStarts /\ setpoint["intelligent"] = 0
SchedRests == SchedInit /\ block[1] = 0
FiltrationRests == reg.mode = "auto" /\ reg.pump = "off" /\ reg.boost = "off"
ValveRests == reg.valve = "auto" /\ reg.interval = 0

(* One of the two outputs does for the pump at first.                      *)
PumpStarts == PumpInit /\ filtGpio # 2
PumpRests ==
    /\ PumpInit /\ running = "off" /\ filtState = "off" /\ filtGpio = 0 /\ pumpType = "single"
    /\ \A o \in Outputs : relayState[o] = "off"

PartsInit ==
    /\ part \in Parts
    /\ IF part = "fc20" THEN FcInit ELSE FcRests
    /\ IF part = "setpoints" THEN TempStarts ELSE TempRests
    /\ IF part = "schedule" THEN SchedInit ELSE SchedRests
    /\ IF part = "pump" THEN PumpStarts ELSE PumpRests
    /\ GuardedInit
    /\ IF part = "filtration" THEN reg.boost = "off" ELSE FiltrationRests
    /\ IF part = "valve" THEN reg.interval \in {0, 1} ELSE ValveRests

PartsNext ==
    \/ part = "fc20" /\ FcNext /\ UNCHANGED <<part, tempVars, schedVars, guardedVars, pumpVars>>
    \/ part = "setpoints" /\ TempNext /\ UNCHANGED <<part, fcVars, schedVars, guardedVars, pumpVars>>
    \/ part = "schedule" /\ SchedNext /\ UNCHANGED <<part, fcVars, tempVars, guardedVars, pumpVars>>
    \/ part = "filtration" /\ FiltrationNext /\ UNCHANGED <<part, fcVars, tempVars, schedVars, pumpVars>>
    \/ part = "valve" /\ BackwashNext /\ UNCHANGED <<part, fcVars, tempVars, schedVars, pumpVars>>
    \/ part = "pump" /\ PumpNext /\ UNCHANGED <<part, fcVars, tempVars, schedVars, guardedVars>>

PartsSpec ==
    PartsInit /\ [][PartsNext]_<<part, fcVars, tempVars, schedVars, guardedVars, pumpVars>>

(* Nothing tells the two tasks apart that all parts have.                  *)
MCSymmetry == Permutations({c1, c2})

=============================================================================
