------------------------------ MODULE PumpState ------------------------------
(***************************************************************************)
(* What a poll of client.py reports as "Filtration Pump".  No register     *)
(* says it for every pump: the relay of a pump with one speed is switched  *)
(* with it, a pump with several speeds stays powered and only              *)
(* MBF_PAR_FILTRATION_STATE says whether it runs.  The two, the output the *)
(* pump is on and the type of the pump are on three pages, which one poll  *)
(* reads one after the other, or takes from the cache.                     *)
(*                                                                         *)
(* Which pages a poll reads, beside the measurements, is left open: see    *)
(* PollCycle.  The type of the pump is in a word that RMWs change too, but *)
(* only in its other fields: see RmwCache.                                 *)
(***************************************************************************)
EXTENDS Naturals

CONSTANTS
    Outputs,       \* the relay outputs, 1..7
    MaxChanges     \* bound: changes of the installation

ASSUME OutputAssumption == Outputs \subseteq Nat \ {0}

States == {"on", "off"}
Types == {"single", "variable"}
ConfigPages == {"INSTALLER", "USER"}

VARIABLES
    running,       \* what the pump does
    relayState,    \* MBF_RELAY_STATE, the bits of the outputs
    filtState,     \* MBF_PAR_FILTRATION_STATE
    filtGpio,      \* MBF_PAR_FILT_GPIO, 0 when the pump is on no output
    pumpType,      \* the low bits of MBF_PAR_FILTRATION_CONF
    cachedPump,    \* these entries of _cached_result, and "Filtration Pump"
    pumpResult,        \* the same of the poll under way
    pumpStep, fresh,       \* what it has done, and the pages it reads
    wasRunning,    \* history: what the pump has done since it began
    steady,        \* history: output and type have not changed since
    pumpChanges

installVars == <<running, relayState, filtState, filtGpio, pumpType, pumpChanges>>
sightVars == <<wasRunning, steady>>
pumpVars == <<installVars, cachedPump, pumpResult, pumpStep, fresh, sightVars>>

NothingCached ==
    [relays |-> [o \in Outputs |-> "off"], state |-> "unknown", gpio |-> 0,
     type |-> "single", pump |-> "unknown"]

(* Which of the two registers is the one to go by.                         *)
Truthful(run, relays, state, gpio, type) ==
    IF type = "variable" THEN state = run
    ELSE gpio \in Outputs => relays[gpio] = run

PumpInit ==
    /\ running \in States /\ relayState \in [Outputs -> States] /\ filtState \in States
    /\ filtGpio \in Outputs \cup {0} /\ pumpType \in Types
    /\ Truthful(running, relayState, filtState, filtGpio, pumpType)
    /\ cachedPump = NothingCached /\ pumpResult = NothingCached
    /\ pumpStep = "none" /\ fresh = {}
    /\ wasRunning = {} /\ steady = TRUE
    /\ pumpChanges = 0

-----------------------------------------------------------------------------
(* The installation.  The register that is not to go by may hold anything: *)
(* a pump with one speed keeps its filtration state while a backwash has   *)
(* stopped it.                                                             *)
InstallationBecomes(run, relays, state, gpio, type) ==
    /\ pumpChanges < MaxChanges
    /\ pumpChanges' = pumpChanges + 1
    /\ Truthful(run, relays, state, gpio, type)
    /\ running' = run /\ relayState' = relays /\ filtState' = state
    /\ filtGpio' = gpio /\ pumpType' = type
    /\ wasRunning' = IF pumpStep = "none" THEN wasRunning ELSE wasRunning \cup {run}
    /\ UNCHANGED <<cachedPump, pumpResult, pumpStep, fresh>>

Switched(run, relays, state) ==
    /\ InstallationBecomes(run, relays, state, filtGpio, pumpType)
    /\ UNCHANGED steady

Reinstalled(run, relays, gpio, type) ==
    /\ <<gpio, type>> # <<filtGpio, pumpType>>
    /\ InstallationBecomes(run, relays, run, gpio, type)
    /\ steady' = FALSE

-----------------------------------------------------------------------------
(* _perform_read_all, as far as the pump is concerned                      *)

(* The relays are among the measurements, which every poll reads; the rest *)
(* of what it starts from is the cache.                                    *)
Measure(pages) ==
    /\ pumpStep = "none"
    /\ pumpStep' = "measured"
    /\ fresh' = pages
    /\ pumpResult' = [cachedPump EXCEPT !.relays = relayState]
    /\ wasRunning' = {running} /\ steady' = TRUE
    /\ UNCHANGED <<installVars, cachedPump>>

(* decode_named_relay_states                                               *)
Named(r) ==
    [r EXCEPT !.pump = IF r.gpio \in Outputs THEN r.relays[r.gpio] ELSE "unknown"]

ReadInstaller ==
    /\ pumpStep = "measured"
    /\ pumpStep' = "named"
    /\ pumpResult' = Named(IF "INSTALLER" \in fresh
                       THEN [pumpResult EXCEPT !.gpio = filtGpio, !.state = filtState]
                       ELSE pumpResult)
    /\ UNCHANGED <<installVars, cachedPump, fresh, sightVars>>

ReadUser ==
    /\ pumpStep = "named"
    /\ pumpStep' = "complete"
    /\ pumpResult' = IF "USER" \in fresh THEN [pumpResult EXCEPT !.type = pumpType] ELSE pumpResult
    /\ UNCHANGED <<installVars, cachedPump, fresh, sightVars>>

(* Mutant: the state is trusted for every pump.                            *)
StateDecidesAlways(r) ==
    "INSTALLER" \in fresh /\ r.gpio \in Outputs /\ r.state \in States

(* The filtration state is what counts: it has just been read, and the     *)
(* relay of such a pump says nothing.                                      *)
StateDecides(r) ==
    /\ "INSTALLER" \in fresh
    /\ r.gpio \in Outputs /\ r.state \in States
    /\ r.type = "variable"

(* The fixup, of the pump and of its bit in the relays.                    *)
Fixed(r) ==
    IF StateDecides(r)
    THEN [r EXCEPT !.pump = r.state, !.relays[r.gpio] = r.state]
    ELSE r

PollForgotten ==
    /\ pumpStep' = "none" /\ fresh' = {} /\ pumpResult' = NothingCached
    /\ wasRunning' = {} /\ steady' = TRUE

Merge ==
    /\ pumpStep = "complete"
    /\ cachedPump' = Fixed(pumpResult)
    /\ PollForgotten
    /\ UNCHANGED installVars

PumpPollFails ==
    /\ pumpStep # "none"
    /\ PollForgotten
    /\ UNCHANGED <<installVars, cachedPump>>

(* close(), whether a poll is under way or not.                            *)
PumpCacheEmptied ==
    /\ cachedPump' = NothingCached
    /\ UNCHANGED <<installVars, pumpResult, pumpStep, fresh, sightVars>>

PumpNext ==
    \/ \E run \in States, relays \in [Outputs -> States], state \in States :
        Switched(run, relays, state)
    \/ \E run \in States, relays \in [Outputs -> States], gpio \in Outputs \cup {0}, type \in Types :
        Reinstalled(run, relays, gpio, type)
    \/ \E pages \in SUBSET ConfigPages : Measure(pages)
    \/ ReadInstaller \/ ReadUser \/ Merge \/ PumpPollFails \/ PumpCacheEmptied

PumpSpec == PumpInit /\ [][PumpNext]_pumpVars

-----------------------------------------------------------------------------
(* Properties                                                              *)

(* The poll knows the output and the type of the pump, neither of which    *)
(* has changed under it, and has read the register to go by.               *)
Informed ==
    /\ steady
    /\ pumpResult.gpio = filtGpio /\ filtGpio \in Outputs
    /\ pumpResult.type = pumpType
    /\ pumpType = "single" \/ "INSTALLER" \in fresh

(* An informed poll reports what the pump has really done while it was     *)
(* under way, whatever the cache holds from before: a filtration state     *)
(* that a backwash has left behind, a relay that stays powered, the pages  *)
(* of earlier polls.                                                       *)
PumpIsTrue ==
    [][pumpStep = "complete" /\ pumpStep' = "none" /\ cachedPump' # cachedPump /\ Informed
        => cachedPump'.pump \in wasRunning]_pumpVars

=============================================================================
