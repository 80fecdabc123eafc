------------------------- MODULE TimerWritesProofs -------------------------
(***************************************************************************)
(* Theorems about TimerWrites, for every set of blocks, fields, callers    *)
(* and requests.  The argument: what a call has read, written and saved    *)
(* agrees with the registers on every field that nobody else has changed   *)
(* under it.                                                               *)
(***************************************************************************)
EXTENDS TimerWrites, TLAPS

(* What a call relies on at each of its points.                            *)
CallOK(w) ==
    LET b == target[w]
        done(c, F) == \A f \in F \ touched[w] : c[f] = request[w][f]
    IN
    /\ pc[w] \in {"idle", "read", "function", "enable"} => held[w] = Nothing
    /\ pc[w] \in {"write", "save"} => held[w] \in Content
    /\ pc[w] = "write" =>
         \A f \in Fields :
           /\ f \in DOMAIN request[w] => held[w][f] = request[w][f]
           /\ f \notin DOMAIN request[w] /\ f \notin touched[w] => held[w][f] = block[b][f]
    /\ pc[w] = "function" => DOMAIN request[w] = {"enable", "function"}
    /\ pc[w] = "enable" => "enable" \in DOMAIN request[w]
    /\ pc[w] = "enable" => done(block[b], DOMAIN request[w] \ {"enable"})
    /\ pc[w] \in {"save", "exec"} => done(block[b], DOMAIN request[w])
    /\ pc[w] = "exec" /\ held[w] # Nothing => done(saved[b], DOMAIN request[w])

CallInv == \A w \in Callers : CallOK(w)

(* A call under way has not ended.                                         *)
AnswerInv == \A w \in Callers : pc[w] # "idle" => answer[w] = "none"

IInv == TypeOK /\ CallInv /\ AnswerInv

-----------------------------------------------------------------------------
(* Contents and requests                                                   *)

(* A request names fields, with contents they can have.                    *)
LEMMA PartialFields ==
    ASSUME NEW r \in PartialContent
    PROVE  DOMAIN r \subseteq Fields /\ \A f \in DOMAIN r : r[f] \in ValuesOf[f]
BY DEF PartialContent

(* A function of some fields to contents they can have is a request.       *)
LEMMA IsPartial ==
    ASSUME NEW F \in SUBSET Fields, NEW r, r = [f \in F |-> r[f]],
           \A f \in F : r[f] \in ValuesOf[f]
    PROVE  r \in PartialContent
<1>1. \A f \in F : r[f] \in Values
  BY DEF Values
<1>2. r \in [F -> Values]
  BY <1>1
<1>3. QED
  BY <1>2 DEF PartialContent

LEMMA NothingPartial == Nothing \in PartialContent
<1>1. Nothing = [f \in {} |-> Nothing[f]] /\ {} \in SUBSET Fields
  BY DEF Nothing
<1>2. QED
  BY <1>1, IsPartial

LEMMA ContentPartial ==
    ASSUME NEW c \in Content
    PROVE  c \in PartialContent /\ c # Nothing
<1>1. c \in PartialContent
  BY IsPartial DEF Content
<1>2. DOMAIN c = Fields /\ DOMAIN Nothing = {}
  BY DEF Content, Nothing
<1>3. QED
  BY <1>1, <1>2, FieldAssumption

LEMMA ModePartial ==
    ASSUME NEW m \in {Enabled, AlwaysOn, AlwaysOff}
    PROVE  [f \in {"enable"} |-> m] \in PartialContent
<1>1. m \in ValuesOf["enable"]
  BY ModeAssumption DEF Modes
<1>2. QED
  BY <1>1, IsPartial, FieldAssumption

LEMMA DrivePartial ==
    ASSUME NEW on \in BOOLEAN
    PROVE  /\ Drive(on) \in PartialContent
           /\ DOMAIN Drive(on) = IF on THEN {"enable", "function"} ELSE {"enable"}
<1>1. AlwaysOn \in ValuesOf["enable"] /\ AlwaysOff \in ValuesOf["enable"]
  BY ModeAssumption DEF Modes
<1>2. CASE on
  <2> DEFINE r == [f \in {"enable", "function"} |-> IF f = "enable" THEN AlwaysOn ELSE Code]
  <2>1. \A f \in {"enable", "function"} : r[f] \in ValuesOf[f]
    BY <1>1, CodeAssumption
  <2>2. r \in PartialContent
    BY <2>1, IsPartial, FieldAssumption
  <2>3. QED
    BY <1>2, <2>2 DEF Drive
<1>3. CASE ~on
  BY <1>1, <1>3, IsPartial, FieldAssumption DEF Drive
<1>4. QED
  BY <1>2, <1>3

LEMMA WithContent ==
    ASSUME NEW c \in Content, NEW r \in PartialContent
    PROVE  /\ With(c, r) \in Content
           /\ \A f \in Fields : With(c, r)[f] = IF f \in DOMAIN r THEN r[f] ELSE c[f]
<1>1. \A f \in Fields : With(c, r)[f] \in ValuesOf[f]
  BY PartialFields DEF With, Content
<1>2. QED
  BY <1>1 DEF With, Content, Values

LEMMA FieldContent ==
    ASSUME NEW c \in Content, NEW f \in Fields, NEW v \in ValuesOf[f]
    PROVE  /\ [c EXCEPT ![f] = v] \in Content
           /\ \A g \in Fields : [c EXCEPT ![f] = v][g] = IF g = f THEN v ELSE c[g]
<1>1. v \in Values
  BY DEF Values
<1>2. QED
  BY <1>1 DEF Content

-----------------------------------------------------------------------------
(* Type correctness                                                        *)

LEMMA InitType == Init => TypeOK
<1> SUFFICES ASSUME Init PROVE TypeOK
  OBVIOUS
<1>1. NotRead \in [Blocks -> Modes \cup {Unread}]
  BY DEF NotRead
<1>2. request \in [Callers -> PartialContent] /\ held \in [Callers -> PartialContent]
  BY NothingPartial DEF Init
<1>3. QED
  BY <1>1, <1>2 DEF Init, TypeOK

LEMMA TouchType ==
    ASSUME TypeOK, NEW b \in Blocks, NEW F \in SUBSET Fields
    PROVE  Touch(b, F) \in [Callers -> SUBSET Fields]
BY DEF Touch, TypeOK

(* A call begins with a request.                                           *)
LEMMA BeginType ==
    ASSUME TypeOK, NEW w \in Callers, NEW b \in Blocks, NEW r \in PartialContent,
           NEW drops \in BOOLEAN, NEW first \in {"read", "function", "enable"},
           Begin(w, b, r, drops, first)
    PROVE  TypeOK'
BY DEF TypeOK, Begin, deviceVars, cacheVars

LEMMA ReturnType ==
    ASSUME TypeOK, NEW w \in Callers, NEW how \in {"done", "refused", "raised"}, Return(w, how),
           block' \in [Blocks -> Content], saved' \in [Blocks -> Content],
           running' \in [Blocks -> Content],
           UNCHANGED <<cacheVars, touched, calls, panels>>
    PROVE  TypeOK'
BY NothingPartial DEF TypeOK, Return, cacheVars

LEMMA PutType ==
    ASSUME TypeOK, NEW w \in Callers, NEW c \in Content, NEW F, Put(w, c, F)
    PROVE  block' \in [Blocks -> Content] /\ touched' \in [Callers -> SUBSET Fields]
<1>1. target[w] \in Blocks
  BY DEF TypeOK
<1>2. Touch(target[w], Differing(block[target[w]], c)) \in [Callers -> SUBSET Fields]
  BY <1>1, TouchType DEF Differing
<1>3. touched[w] \ F \in SUBSET Fields
  BY DEF TypeOK
<1>4. QED
  BY <1>1, <1>2, <1>3 DEF Put, TypeOK

LEMMA PanelType ==
    ASSUME TypeOK, NEW b \in Blocks, NEW f \in Fields, NEW v \in ValuesOf[f], PanelChange(b, f, v)
    PROVE  TypeOK'
<1>1. \A c \in Content : [c EXCEPT ![f] = v] \in Content
  BY FieldContent
<1>2. block' \in [Blocks -> Content] /\ saved' \in [Blocks -> Content]
        /\ running' \in [Blocks -> Content]
  BY <1>1 DEF TypeOK, PanelChange
<1>3. touched' \in [Callers -> SUBSET Fields]
  BY TouchType DEF PanelChange
<1>4. panels' \in Nat /\ UNCHANGED <<cacheVars, callVars, calls>>
  BY DEF PanelChange, TypeOK
<1>5. QED
  BY <1>2, <1>3, <1>4 DEF TypeOK, cacheVars, callVars

LEMMA CacheType ==
    ASSUME TypeOK, \/ \E b \in Blocks : ReadTimer(b)
                   \/ TimersDone
                   \/ TimersRaise
                   \/ CloseTimers
    PROVE  TypeOK'
<1>1. NotRead \in [Blocks -> Modes \cup {Unread}]
  BY DEF NotRead
<1>2. \A b \in Blocks : block[b]["enable"] \in Modes
  BY FieldAssumption DEF TypeOK, Content, Modes
<1>3. CASE \E b \in Blocks : ReadTimer(b)
  BY <1>2, <1>3 DEF TypeOK, ReadTimer, deviceVars, callVars
<1>4. CASE TimersDone
  BY <1>1, <1>4 DEF TypeOK, TimersDone, deviceVars, callVars
<1>5. CASE CloseTimers
  BY <1>1, <1>5 DEF TypeOK, CloseTimers, deviceVars, callVars
<1>6. CASE TimersRaise
  BY <1>1, <1>6 DEF TypeOK, TimersRaise, deviceVars, callVars
<1>7. QED
  BY <1>3, <1>4, <1>5, <1>6

(* The ways a call begins, one by one.                                     *)
LEMMA Begins ==
    ASSUME NEW w \in Callers, NEW b \in Blocks, TimerCall(w, b) \/ ModeCall(w, b) \/ StateCall(w, b)
    PROVE  \E r \in PartialContent, drops \in BOOLEAN, first \in {"read", "function", "enable"} :
             /\ Begin(w, b, r, drops, first)
             /\ first = "function" => DOMAIN r = {"enable", "function"}
             /\ first = "enable" => DOMAIN r = {"enable"}
<1>1. CASE TimerCall(w, b)
  BY <1>1, RequestAssumption DEF TimerCall
<1>2. CASE ModeCall(w, b)
  BY <1>2, ModePartial DEF ModeCall
<1>3. CASE StateCall(w, b)
  BY <1>3, DrivePartial DEF StateCall
<1>4. QED
  BY <1>1, <1>2, <1>3

LEMMA StepType ==
    ASSUME TypeOK, CallInv, NEW w \in Callers, CallStep(w)
    PROVE  TypeOK'
<1>1. CASE \E b \in Blocks : TimerCall(w, b) \/ ModeCall(w, b) \/ StateCall(w, b)
  BY <1>1, Begins, BeginType
<1>2. CASE \E b \in Blocks : StateRefused(w, b)
  BY <1>2 DEF StateRefused, TypeOK, deviceVars, cacheVars
<1>3. CASE BlockRead(w)
  <2>1. With(block[target[w]], request[w]) \in PartialContent
    BY WithContent, ContentPartial DEF TypeOK
  <2>2. QED
    BY <1>3, <2>1 DEF BlockRead, TypeOK, deviceVars, cacheVars
<1>4. CASE BlockWrite(w)
  <2>1. held[w] \in Content
    BY <1>4 DEF CallInv, CallOK, BlockWrite
  <2>2. block' \in [Blocks -> Content] /\ touched' \in [Callers -> SUBSET Fields]
    BY <1>4, <2>1, PutType DEF BlockWrite
  <2>3. pc' = [pc EXCEPT ![w] = "save"]
          /\ UNCHANGED <<saved, running, cacheVars, target, request, held, dropsResult, answer,
                         calls, panels>>
    BY <1>4 DEF BlockWrite
  <2>4. QED
    BY <2>2, <2>3 DEF TypeOK, cacheVars
<1>5. CASE \E f \in {"function", "enable"} : FieldWrite(w, f)
  <2>1. PICK f \in {"function", "enable"} : FieldWrite(w, f)
    BY <1>5
  <2>2. request[w] \in PartialContent /\ f \in DOMAIN request[w] /\ f \in Fields
    BY <2>1, FieldAssumption DEF FieldWrite, CallInv, CallOK, TypeOK
  <2>3. [block[target[w]] EXCEPT ![f] = request[w][f]] \in Content
    BY <2>2, PartialFields, FieldContent DEF TypeOK
  <2>4. block' \in [Blocks -> Content] /\ touched' \in [Callers -> SUBSET Fields]
    BY <2>1, <2>3, PutType DEF FieldWrite
  <2>5. pc' = [pc EXCEPT ![w] = IF f = "function" THEN "enable" ELSE "exec"]
          /\ UNCHANGED <<saved, running, cacheVars, target, request, held, dropsResult, answer,
                         calls, panels>>
    BY <2>1 DEF FieldWrite
  <2>6. QED
    BY <2>4, <2>5 DEF TypeOK, cacheVars
<1>6. CASE EepromSave(w)
  BY <1>6 DEF EepromSave, TypeOK, cacheVars
<1>7. CASE Exec(w)
  BY <1>7, ReturnType DEF Exec, TypeOK
<1>8. CASE Rejected(w) \/ Raised(w)
  <2>1. PICK how \in {"done", "refused", "raised"} : Return(w, how)
    BY <1>8 DEF Rejected, Raised
  <2>2. UNCHANGED <<deviceVars, cacheVars, touched, calls, panels>>
    BY <1>8 DEF Rejected, Raised
  <2>3. QED
    BY <2>1, <2>2, ReturnType DEF TypeOK, deviceVars
<1>9. QED
  BY <1>1, <1>2, <1>3, <1>4, <1>5, <1>6, <1>7, <1>8 DEF CallStep

LEMMA NextType ==
    ASSUME TypeOK, CallInv, [Next]_vars
    PROVE  TypeOK'
<1>1. CASE UNCHANGED vars
  BY <1>1 DEF vars, deviceVars, cacheVars, callVars, TypeOK
<1>2. CASE \E b \in Panel, f \in Fields : \E v \in ValuesOf[f] : PanelChange(b, f, v)
  BY <1>2, PanelType, PanelAssumption
<1>3. CASE (\E b \in Blocks : ReadTimer(b)) \/ TimersDone \/ TimersRaise \/ CloseTimers
  BY <1>3, CacheType
<1>4. CASE \E w \in Callers : CallStep(w)
  BY <1>4, StepType
<1>5. QED
  BY <1>1, <1>2, <1>3, <1>4 DEF Next

-----------------------------------------------------------------------------
(* The calls                                                               *)

(* A step that leaves a call's locals alone disturbs nothing the call      *)
(* relies on, when the fields it changes are counted as touched.           *)
LEMMA Undisturbed ==
    ASSUME TypeOK, NEW w \in Callers, CallOK(w),
           UNCHANGED <<pc[w], target[w], request[w], held[w]>>,
           pc[w] # "idle" =>
             /\ touched[w] \subseteq touched'[w]
             /\ \A f \in Fields \ touched'[w] :
                  /\ block'[target[w]][f] = block[target[w]][f]
                  /\ saved'[target[w]][f] \in {saved[target[w]][f], block[target[w]][f]}
    PROVE  CallOK(w)'
<1>1. DOMAIN request[w] \subseteq Fields
  BY PartialFields DEF TypeOK
<1>2. CASE pc[w] = "idle"
  BY <1>2 DEF CallOK
<1>3. CASE pc[w] # "idle"
  BY <1>1, <1>3 DEF CallOK
<1>4. QED
  BY <1>2, <1>3

LEMMA InitCalls == Init => CallInv
BY DEF Init, CallInv, CallOK

(* A write to the registers disturbs no other call.                        *)
LEMMA PutOthers ==
    ASSUME TypeOK, CallInv, NEW w \in Callers, NEW c \in Content, NEW F, Put(w, c, F),
           UNCHANGED <<saved, target, request, held>>,
           NEW v \in Callers, v # w, pc'[v] = pc[v]
    PROVE  CallOK(v)'
<1>1. CallOK(v)
  BY DEF CallInv
<1>2. touched'[v] = Touch(target[w], Differing(block[target[w]], c))[v]
  BY DEF Put, Touch
<1>3. ASSUME pc[v] # "idle" PROVE touched[v] \subseteq touched'[v]
  BY <1>2, <1>3 DEF Touch
<1>4. ASSUME pc[v] # "idle", NEW f \in Fields \ touched'[v]
      PROVE  block'[target[v]][f] = block[target[v]][f]
  <2>1. CASE target[v] = target[w]
    <3>1. f \notin Differing(block[target[w]], c)
      BY <1>2, <1>4, <2>1 DEF Touch
    <3>2. QED
      BY <2>1, <3>1 DEF Differing, Put, TypeOK
  <2>2. CASE target[v] # target[w]
    BY <2>2 DEF Put, TypeOK
  <2>3. QED
    BY <2>1, <2>2
<1>5. QED
  BY <1>1, <1>3, <1>4, Undisturbed

LEMMA PanelCalls ==
    ASSUME TypeOK, CallInv, NEW b \in Blocks, NEW f \in Fields, NEW v \in ValuesOf[f],
           PanelChange(b, f, v), NEW w \in Callers
    PROVE  CallOK(w)'
<1>1. CallOK(w) /\ UNCHANGED <<pc[w], target[w], request[w], held[w]>>
  BY DEF CallInv, PanelChange, callVars
<1>2. ASSUME pc[w] # "idle" PROVE touched[w] \subseteq touched'[w]
  BY <1>2 DEF PanelChange, Touch
<1>3. ASSUME pc[w] # "idle", NEW g \in Fields \ touched'[w]
      PROVE  /\ block'[target[w]][g] = block[target[w]][g]
             /\ saved'[target[w]][g] = saved[target[w]][g]
  <2>1. target[w] # b \/ g # f
    BY <1>3 DEF PanelChange, Touch
  <2>2. target[w] \in Blocks /\ g \in Fields
    BY DEF TypeOK
  <2>3. QED
    BY <2>1, <2>2 DEF PanelChange, TypeOK, Content
<1>4. QED
  BY <1>1, <1>2, <1>3, Undisturbed

(* Steps that write nothing to the registers and nothing to the EEPROM.    *)
LEMMA QuietOthers ==
    ASSUME TypeOK, CallInv, UNCHANGED <<block, saved>>, NEW w \in Callers,
           UNCHANGED <<pc[w], target[w], request[w], held[w], touched[w]>>
    PROVE  CallOK(w)'
BY Undisturbed DEF CallInv

LEMMA BeginCalls ==
    ASSUME TypeOK, CallInv, NEW w \in Callers, NEW b \in Blocks, NEW r \in PartialContent,
           NEW drops \in BOOLEAN, NEW first \in {"read", "function", "enable"},
           Begin(w, b, r, drops, first),
           first = "function" => DOMAIN r = {"enable", "function"},
           first = "enable" => DOMAIN r = {"enable"}
    PROVE  CallInv'
<1>1. CallOK(w)'
  <2>1. held'[w] = Nothing /\ pc'[w] = first /\ request'[w] = r
    BY DEF Begin, CallInv, CallOK, TypeOK
  <2>2. QED
    BY <2>1 DEF CallOK
<1>2. ASSUME NEW v \in Callers, v # w PROVE CallOK(v)'
  BY <1>2, QuietOthers DEF Begin, deviceVars, TypeOK
<1>3. QED
  BY <1>1, <1>2 DEF CallInv

LEMMA ReturnCalls ==
    ASSUME TypeOK, CallInv, NEW w \in Callers, NEW how, Return(w, how),
           UNCHANGED <<block, saved, touched>>
    PROVE  CallInv'
<1>1. CallOK(w)'
  BY DEF Return, CallOK, TypeOK
<1>2. ASSUME NEW v \in Callers, v # w PROVE CallOK(v)'
  BY <1>2, QuietOthers DEF Return, TypeOK
<1>3. QED
  BY <1>1, <1>2 DEF CallInv

LEMMA BlockReadCalls ==
    ASSUME TypeOK, CallInv, NEW w \in Callers, BlockRead(w)
    PROVE  CallInv'
<1> DEFINE c == With(block[target[w]], request[w])
<1>1. c \in Content
        /\ \A f \in Fields : c[f] = IF f \in DOMAIN request[w] THEN request[w][f]
                                                             ELSE block[target[w]][f]
  BY WithContent DEF TypeOK
<1>2. pc'[w] = "write" /\ held'[w] = c /\ UNCHANGED <<block, target, request>>
  BY DEF BlockRead, TypeOK, deviceVars
<1> HIDE DEF c
<1>3. CallOK(w)'
  BY <1>1, <1>2 DEF CallOK
<1>4. ASSUME NEW v \in Callers, v # w PROVE CallOK(v)'
  BY <1>4, QuietOthers DEF BlockRead, deviceVars, TypeOK
<1>5. QED
  BY <1>3, <1>4 DEF CallInv

LEMMA BlockWriteCalls ==
    ASSUME TypeOK, CallInv, NEW w \in Callers, BlockWrite(w)
    PROVE  CallInv'
<1>1. /\ held[w] \in Content
      /\ \A f \in DOMAIN request[w] : held[w][f] = request[w][f]
  BY PartialFields DEF CallInv, CallOK, BlockWrite, TypeOK
<1>2. pc'[w] = "save" /\ block'[target[w]] = held[w] /\ UNCHANGED <<target, request, held>>
  BY DEF BlockWrite, Put, TypeOK
<1>3. CallOK(w)'
  BY <1>1, <1>2 DEF CallOK
<1>4. ASSUME NEW v \in Callers, v # w PROVE CallOK(v)'
  <2>1. pc'[v] = pc[v] /\ UNCHANGED <<saved, target, request, held>> /\ Put(w, held[w], Fields)
    BY <1>4 DEF BlockWrite, TypeOK
  <2>2. QED
    BY <1>1, <1>4, <2>1, PutOthers
<1>5. QED
  BY <1>3, <1>4 DEF CallInv

LEMMA FieldWriteCalls ==
    ASSUME TypeOK, CallInv, NEW w \in Callers, NEW f \in {"function", "enable"}, FieldWrite(w, f)
    PROVE  CallInv'
<1> DEFINE c == [block[target[w]] EXCEPT ![f] = request[w][f]]
<1>1. request[w] \in PartialContent /\ f \in DOMAIN request[w] /\ f \in Fields
  BY FieldAssumption DEF FieldWrite, CallInv, CallOK, TypeOK
<1>2. /\ c \in Content
      /\ \A g \in Fields : c[g] = IF g = f THEN request[w][f] ELSE block[target[w]][g]
  <2>1. block[target[w]] \in Content /\ request[w][f] \in ValuesOf[f]
    BY <1>1, PartialFields DEF TypeOK
  <2>2. QED
    BY <1>1, <2>1, FieldContent
<1>3. Put(w, c, {f}) /\ UNCHANGED <<saved, target, request, held>>
  BY DEF FieldWrite
<1> HIDE DEF c
<1>4. block'[target[w]] = c /\ touched'[w] = touched[w] \ {f}
  <2>1. touched' \in [Callers -> SUBSET Fields] /\ block' \in [Blocks -> Content]
    BY <1>2, <1>3, PutType
  <2>2. QED
    BY <1>3 DEF Put, TypeOK, Touch
<1>5. pc[w] = f /\ pc'[w] = IF f = "function" THEN "enable" ELSE "exec"
  BY DEF FieldWrite, TypeOK
<1>6. held[w] = Nothing
  BY <1>5 DEF CallInv, CallOK
<1>7. \A g \in DOMAIN request[w] \ touched'[w] :
        (f = "function" /\ g = "enable") \/ c[g] = request[w][g]
  <2> SUFFICES ASSUME NEW g \in DOMAIN request[w] \ touched'[w], f = "enable" \/ g # "enable"
               PROVE  c[g] = request[w][g]
    BY <1>5
  <2>1. CASE g = f
    BY <1>1, <1>2, <2>1
  <2>2. CASE g # f
    <3>1. f = "enable"
      BY <1>5, <2>2 DEF CallInv, CallOK
    <3>2. g \in (DOMAIN request[w] \ {"enable"}) \ touched[w]
      BY <1>4, <2>2, <3>1
    <3>3. block[target[w]][g] = request[w][g]
      BY <1>5, <3>1, <3>2 DEF CallInv, CallOK
    <3>4. QED
      BY <1>1, <1>2, <2>2, <3>3, PartialFields
  <2>3. QED
    BY <2>1, <2>2
<1>8. CallOK(w)'
  BY <1>1, <1>3, <1>4, <1>5, <1>6, <1>7 DEF CallInv, CallOK
<1>9. ASSUME NEW v \in Callers, v # w PROVE CallOK(v)'
  <2>1. pc'[v] = pc[v]
    BY <1>9 DEF FieldWrite, TypeOK
  <2>2. QED
    BY <1>2, <1>3, <1>9, <2>1, PutOthers
<1>10. QED
  BY <1>8, <1>9 DEF CallInv

LEMMA EepromSaveCalls ==
    ASSUME TypeOK, CallInv, NEW w \in Callers, EepromSave(w)
    PROVE  CallInv'
<1>1. CallOK(w)'
  BY DEF EepromSave, CallInv, CallOK, TypeOK
<1>2. ASSUME NEW v \in Callers, v # w PROVE CallOK(v)'
  <2>1. CallOK(v) /\ UNCHANGED <<pc[v], target[v], request[v], held[v], touched[v]>>
    BY <1>2 DEF CallInv, EepromSave, TypeOK
  <2>2. \A f \in Fields : /\ block'[target[v]][f] = block[target[v]][f]
                         /\ saved'[target[v]][f] = block[target[v]][f]
    BY DEF EepromSave
  <2>3. QED
    BY <2>1, <2>2, Undisturbed
<1>3. QED
  BY <1>1, <1>2 DEF CallInv

LEMMA NextCalls ==
    ASSUME TypeOK, CallInv, [Next]_vars
    PROVE  CallInv'
<1>1. CASE UNCHANGED vars
  BY <1>1 DEF vars, deviceVars, cacheVars, callVars, CallInv, CallOK
<1>2. CASE \E b \in Panel, f \in Fields : \E v \in ValuesOf[f] : PanelChange(b, f, v)
  BY <1>2, PanelCalls, PanelAssumption DEF CallInv
<1>3. CASE (\E b \in Blocks : ReadTimer(b)) \/ TimersDone \/ TimersRaise \/ CloseTimers
  <2>1. UNCHANGED <<deviceVars, callVars, touched>>
    BY <1>3 DEF ReadTimer, TimersDone, TimersRaise, CloseTimers
  <2>2. QED
    BY <2>1, QuietOthers DEF deviceVars, callVars, CallInv
<1>4. ASSUME NEW w \in Callers, CallStep(w) PROVE CallInv'
  <2>1. CASE \E b \in Blocks : TimerCall(w, b) \/ ModeCall(w, b) \/ StateCall(w, b)
    BY <2>1, Begins, BeginCalls
  <2>2. CASE \E b \in Blocks : StateRefused(w, b)
    BY <2>2, QuietOthers DEF StateRefused, deviceVars, CallInv
  <2>3. CASE BlockRead(w) \/ BlockWrite(w) \/ EepromSave(w)
    BY <2>3, BlockReadCalls, BlockWriteCalls, EepromSaveCalls
  <2>4. CASE \E f \in {"function", "enable"} : FieldWrite(w, f)
    BY <2>4, FieldWriteCalls
  <2>5. CASE Exec(w) \/ Rejected(w) \/ Raised(w)
    BY <2>5, ReturnCalls DEF Exec, Rejected, Raised, deviceVars
  <2>6. QED
    BY <1>4, <2>1, <2>2, <2>3, <2>4, <2>5 DEF CallStep
<1>5. QED
  BY <1>1, <1>2, <1>3, <1>4 DEF Next

LEMMA NextAnswers ==
    ASSUME TypeOK, AnswerInv, [Next]_vars
    PROVE  AnswerInv'
<1>1. CASE UNCHANGED <<pc, answer>>
  BY <1>1 DEF AnswerInv
<1>2. ASSUME NEW w \in Callers, CallStep(w) PROVE AnswerInv'
  <2>1. CASE \E b \in Blocks : TimerCall(w, b) \/ ModeCall(w, b) \/ StateCall(w, b)
    BY <2>1, Begins DEF Begin, AnswerInv, TypeOK
  <2>2. CASE \E b \in Blocks : StateRefused(w, b)
    BY <2>2 DEF StateRefused, AnswerInv, TypeOK
  <2>3. CASE BlockRead(w) \/ BlockWrite(w) \/ EepromSave(w)
               \/ \E f \in {"function", "enable"} : FieldWrite(w, f)
    BY <2>3 DEF BlockRead, BlockWrite, EepromSave, FieldWrite, AnswerInv, TypeOK
  <2>4. CASE Exec(w) \/ Rejected(w) \/ Raised(w)
    BY <2>4 DEF Exec, Rejected, Raised, Return, AnswerInv, TypeOK
  <2>5. QED
    BY <1>2, <2>1, <2>2, <2>3, <2>4 DEF CallStep
<1>3. QED
  BY <1>1, <1>2 DEF Next, vars, callVars, PanelChange, ReadTimer, TimersDone, TimersRaise, CloseTimers

-----------------------------------------------------------------------------
(* Theorems                                                                *)

LEMMA Invariance == Spec => []IInv
<1>1. Init => IInv
  <2>1. Init => AnswerInv
    BY DEF Init, AnswerInv
  <2>2. QED
    BY <2>1, InitType, InitCalls DEF IInv
<1>2. IInv /\ [Next]_vars => IInv'
  BY NextType, NextCalls, NextAnswers DEF IInv
<1>3. QED
  BY <1>1, <1>2, PTL DEF Spec

(* Every variable keeps to its values: contents are complete blocks,       *)
(* whichever of a request's fields are replaced and in whichever order the *)
(* writes of different calls arrive.                                       *)
THEOREM TypeCorrect == Spec => []TypeOK
<1>1. IInv => TypeOK
  BY DEF IInv
<1>2. QED
  BY <1>1, Invariance, PTL

(* write_timer writes back a field nobody asked for as the controller has  *)
(* it, unless someone else has changed that field since it was read.       *)
THEOREM RestAlwaysKept == Spec => RestKept
<1>1. ASSUME IInv, NEW w \in Callers, BlockWrite(w),
             NEW f \in Fields \ (DOMAIN request[w] \cup touched[w])
      PROVE  block'[target[w]][f] = block[target[w]][f]
  <2>1. held[w][f] = block[target[w]][f]
    BY <1>1 DEF IInv, CallInv, CallOK, BlockWrite
  <2>2. block'[target[w]] = held[w]
    BY <1>1 DEF IInv, TypeOK, BlockWrite, Put
  <2>3. QED
    BY <2>1, <2>2
<1>2. IInv /\ [Next]_vars =>
        [\A w \in Callers : BlockWrite(w) =>
           \A f \in Fields \ (DOMAIN request[w] \cup touched[w]) :
             block'[target[w]][f] = block[target[w]][f]]_vars
  BY <1>1
<1>3. QED
  BY <1>2, Invariance, PTL DEF Spec, RestKept

(* A write_timer or an async_set_relay_state that ends well has put its    *)
(* fields into the running configuration, and a write_timer into the       *)
(* EEPROM, whichever requests of this or other calls have failed.          *)
THEOREM SuccessAlwaysApplied == Spec => SuccessApplied
<1> DEFINE Goal == \A w \in Callers :
             pc[w] # "idle" /\ answer'[w] = "done" /\ ~dropsResult[w] => Applied(w)
<1>1. ASSUME IInv, [Next]_vars, NEW w \in Callers,
             pc[w] # "idle", answer'[w] = "done", ~dropsResult[w]
      PROVE  Exec(w)
  <2>1. answer[w] = "none"
    BY <1>1 DEF IInv, AnswerInv
  <2>2. answer'[w] # answer[w]
    BY <1>1, <2>1
  <2>3. PICK v \in Callers : CallStep(v)
    BY <1>1, <2>2 DEF Next, vars, callVars, PanelChange, ReadTimer, TimersDone, TimersRaise, CloseTimers
  <2>4. ~\E b \in Blocks : TimerCall(v, b) \/ ModeCall(v, b) \/ StateCall(v, b) \/ StateRefused(v, b)
    BY <1>1, <2>2, Begins DEF Begin, StateRefused, IInv, TypeOK
  <2>5. Exec(v) \/ Rejected(v) \/ Raised(v)
    BY <2>2, <2>3, <2>4 DEF CallStep, BlockRead, BlockWrite, EepromSave, FieldWrite
  <2>6. v = w
    BY <1>1, <2>2, <2>5 DEF Exec, Rejected, Raised, Return, IInv, TypeOK
  <2>7. QED
    BY <1>1, <2>5, <2>6 DEF Rejected, Raised, Return, IInv, TypeOK
<1>2. ASSUME IInv, NEW w \in Callers, Exec(w) PROVE Applied(w)
  <2>1. running' = block /\ saved' = saved
    BY <1>2 DEF Exec
  <2>2. \A f \in DOMAIN request[w] \ touched[w] : block[target[w]][f] = request[w][f]
    BY <1>2 DEF Exec, IInv, CallInv, CallOK
  <2>3. InTimer(w) => \A f \in DOMAIN request[w] \ touched[w] : saved[target[w]][f] = request[w][f]
    BY <1>2 DEF Exec, InTimer, IInv, CallInv, CallOK
  <2>4. QED
    BY <2>1, <2>2, <2>3 DEF Applied
<1>3. IInv /\ [Next]_vars => [Goal]_vars
  BY <1>1, <1>2
<1>4. QED
  BY <1>3, Invariance, PTL DEF Spec, SuccessApplied
=============================================================================
