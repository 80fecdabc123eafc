------------------------ MODULE TempSetpointsProofs -------------------------
(***************************************************************************)
(* Theorems about TempSetpoints, for every set of tasks, any values and    *)
(* any number of calls.  The argument: the calls that are half done pass   *)
(* through the line in the order in which they wrote the heating setpoint, *)
(* so the one that is last in line has written it last, and ends last.     *)
(***************************************************************************)
EXTENDS TempSetpoints, TLAPS

(* The line for the lock.                                                  *)
LineInv ==
    /\ \A c \in Setters : Calling(c) => place[c] <= arrivals
    /\ \A c, d \in Setters : c # d /\ Calling(c) /\ Calling(d) => place[c] # place[d]
    /\ \A c \in Setters : phase[c] # "waiting" => Served(c)

(* The call that will be the last to write the intelligent setpoint, of    *)
(* those that have written the heating setpoint.                           *)
Latest(c) ==
    /\ Halfway(c)
    /\ half[c] = "intelligent" =>
        \A d \in Setters : Halfway(d) => half[d] = "intelligent" /\ place[d] <= place[c]

PairInv ==
    /\ \A c \in Setters : Latest(c) => setpoint["heating"] = LowByteOf(c)
    /\ \A c \in Setters : half[c] = "intelligent" /\ phase[c] # "waiting"
                            => setpoint["intelligent"] = LowByteOf(c)
    /\ \A c \in Setters : phase[c] = "saved" => saved = setpoint
    /\ Quiet => setpoint["heating"] = setpoint["intelligent"]

IInv == TempTypeOK /\ LineInv /\ (~disturbed => PairInv) /\ SavedInSync

-----------------------------------------------------------------------------

LEMMA Remainder ==
    ASSUME NEW a \in Nat, NEW b \in Nat, b > 0
    PROVE  a % b \in 0..(b - 1)
OBVIOUS

LEMMA LowByte ==
    ASSUME TempTypeOK, NEW c \in Setters
    PROVE  LowByteOf(c) \in 0..(Byte - 1)
<1>1. raw[c] \in Nat
  <2>1. raw[c] \in Raws \cup {0}
    BY DEF TempTypeOK
  <2>2. Raws \subseteq Nat /\ 0 \in Nat
    BY RawAssumption
  <2>3. QED
    BY <2>1, <2>2
<1>2. Byte \in Nat /\ Byte > 0
  BY ByteWidthAssumption
<1>3. QED
  BY <1>1, <1>2, Remainder DEF LowByteOf

(* Only one call holds the lock.                                           *)
LEMMA OneHolder ==
    ASSUME TempTypeOK, LineInv, NEW c \in Setters, NEW d \in Setters, Served(c), Served(d)
    PROVE  c = d
BY DEF TempTypeOK, LineInv, Served

-----------------------------------------------------------------------------
(* The controller                                                          *)

LEMMA PanelStep ==
    ASSUME IInv, NEW k \in Kinds, NEW v \in 0..(Byte - 1), PanelSets(k, v)
    PROVE  IInv'
BY DEF IInv, PanelSets, TempTypeOK, Pair, LineInv, Served, Calling, SavedInSync, tempCallVars

LEMMA OtherSaveStep ==
    ASSUME IInv, OtherSave
    PROVE  IInv'
<1> USE DEF IInv, OtherSave, tempCallVars, tempHistoryVars
<1>1. TempTypeOK'
  BY DEF TempTypeOK
<1>2. LineInv'
  BY DEF LineInv, Served, Calling
<1>3. PairInv => PairInv'
  BY DEF PairInv, Latest, Halfway, LowByteOf, Quiet, SomeoneHalfway
<1>4. SavedInSync'
  BY DEF PairInv, SavedInSync, Quiet, SomeoneHalfway, Halfway
<1>5. QED
  BY <1>1, <1>2, <1>3, <1>4

LEMMA PowerCycleStep ==
    ASSUME IInv, PowerCycle
    PROVE  IInv'
<1> USE DEF IInv, PowerCycle, tempCallVars
<1>1. TempTypeOK'
  BY DEF TempTypeOK
<1>2. LineInv'
  BY DEF LineInv, Served, Calling
<1>3. Quiet' = Quiet
  BY DEF Quiet, SomeoneHalfway, Halfway
<1>4. ~disturbed' => PairInv' /\ Quiet
  <2> SUFFICES ASSUME ~disturbed' PROVE PairInv' /\ Quiet
    OBVIOUS
  <2>1. ~disturbed /\ lastApplied /\ Quiet
    BY DEF Quiet, TempTypeOK
  <2>2. saved["heating"] = saved["intelligent"]
    BY <2>1 DEF SavedInSync
  <2>3. \A c \in Setters : ~Halfway(c)'
    BY <2>1 DEF Quiet, SomeoneHalfway, Halfway
  <2>4. \A c \in Setters : phase'[c] = "waiting"
    BY <2>3 DEF LineInv, Served, Calling, Halfway, TempTypeOK, Kinds
  <2>5. QED
    BY <2>1, <2>2, <2>3, <2>4 DEF PairInv, Latest
<1>5. SavedInSync'
  BY <1>3 DEF SavedInSync
<1>6. QED
  BY <1>1, <1>2, <1>4, <1>5

-----------------------------------------------------------------------------
(* The calls                                                               *)

LEMMA SetPairStep ==
    ASSUME IInv, NEW c \in Setters, NEW v \in Raws, NEW apply \in BOOLEAN, SetPair(c, v, apply)
    PROVE  IInv'
<1> USE DEF IInv, SetPair, GetInLine, tempDeviceVars
<1>1. TempTypeOK'
  BY DEF TempTypeOK, Kinds
<1>2. LineInv'
  <2>1. \A d \in Setters : Calling(d)' => d = c \/ (Calling(d) /\ place'[d] = place[d])
    BY DEF Calling, TempTypeOK
  <2>2. place'[c] = arrivals + 1 /\ arrivals' = arrivals + 1 /\ phase'[c] = "waiting"
    BY DEF TempTypeOK
  <2>3. \A d \in Setters : d # c => phase'[d] = phase[d]
    BY DEF TempTypeOK
  <2>4. \A d \in Setters : phase'[d] # "waiting" => Served(d)'
    <3> SUFFICES ASSUME NEW d \in Setters, phase'[d] # "waiting" PROVE Served(d)'
      OBVIOUS
    <3>1. d # c /\ Served(d)
      BY <2>2, <2>3 DEF LineInv
    <3>2. Calling(d)' /\ place'[d] = place[d] /\ place[d] <= arrivals
      BY <3>1 DEF LineInv, Served, Calling, TempTypeOK
    <3>3. QED
      BY <2>1, <2>2, <3>1, <3>2 DEF Served, TempTypeOK
  <2>5. QED
    BY <1>1, <2>1, <2>2, <2>4 DEF LineInv, TempTypeOK
<1>3. \A d \in Setters : Halfway(d)' = Halfway(d)
  BY DEF Halfway, TempTypeOK
<1>4. \A d \in Setters : Halfway(d) => /\ half'[d] = half[d] /\ phase'[d] = phase[d]
                                      /\ raw'[d] = raw[d] /\ place'[d] = place[d]
  BY DEF Halfway, TempTypeOK
<1>5. Quiet' = Quiet
  BY <1>3 DEF Quiet, SomeoneHalfway
<1>6. \A d \in Setters : Latest(d)' => Latest(d)
  BY <1>3, <1>4 DEF Latest
<1>7. PairInv => PairInv'
  <2> SUFFICES ASSUME PairInv PROVE PairInv'
    OBVIOUS
  <2>1. \A d \in Setters : Latest(d)' => setpoint'["heating"] = LowByteOf(d)'
    BY <1>4, <1>6 DEF PairInv, LowByteOf, Latest
  <2>2. \A d \in Setters : half'[d] = "intelligent" /\ phase'[d] # "waiting"
                            => setpoint'["intelligent"] = LowByteOf(d)'
    BY <1>3, <1>4 DEF PairInv, LowByteOf, Halfway
  <2>3. \A d \in Setters : phase'[d] = "saved" => saved' = setpoint'
    BY DEF PairInv, TempTypeOK
  <2>4. QED
    BY <1>5, <2>1, <2>2, <2>3 DEF PairInv
<1>8. SavedInSync'
  BY <1>5 DEF SavedInSync
<1>9. QED
  BY <1>1, <1>2, <1>7, <1>8

(* Nobody joins the line.                                                  *)
LEMMA NobodyJoins ==
    ASSUME TempTypeOK, LineInv, arrivals' = arrivals,
           \A d \in Setters : Calling(d)' => Calling(d) /\ place'[d] = place[d],
           \A d \in Setters : phase'[d] # "waiting" => Calling(d)' /\ Served(d)
    PROVE  LineInv'
BY DEF LineInv, Served

LEMMA HalfWriteStep ==
    ASSUME IInv, NEW c \in Setters, HalfWrite(c)
    PROVE  IInv'
<1> USE DEF IInv, HalfWrite
<1>1. LowByteOf(c) \in 0..(Byte - 1) /\ half[c] \in Kinds
  BY LowByte DEF TempTypeOK, Served, Calling
<1>2. setpoint' \in Pair /\ setpoint' = [k \in Kinds |-> IF k = half[c] THEN LowByteOf(c) ELSE setpoint[k]]
  BY <1>1 DEF TempTypeOK, Pair
<1>3. TempTypeOK'
  BY <1>2 DEF TempTypeOK
<1>4. phase'[c] = "written" /\ \A d \in Setters \ {c} : phase'[d] = phase[d]
  BY DEF TempTypeOK
<1>5. LineInv'
  BY <1>4, NobodyJoins DEF LineInv, Served, Calling
<1>6. \A d \in Setters \ {c} : phase[d] = "waiting"
  BY OneHolder DEF LineInv
<1>7. \A d \in Setters : Halfway(d)' <=> Halfway(d) \/ d = c
  BY <1>1, <1>4 DEF Halfway, Kinds
<1>8. ASSUME half[c] = "heating", ~disturbed' PROVE PairInv'
  <2>1. \A d \in Setters : Latest(d)' => d = c
    BY <1>4, <1>6, <1>7, <1>8 DEF Latest, Halfway
  <2>2. ~Quiet'
    BY <1>7 DEF Quiet, SomeoneHalfway
  <2>3. setpoint'["heating"] = LowByteOf(c)'
    BY <1>2, <1>8 DEF Kinds, LowByteOf
  <2>4. \A d \in Setters : half[d] = "intelligent" => phase'[d] = "waiting"
    BY <1>4, <1>6, <1>8
  <2>5. \A d \in Setters : phase'[d] # "saved"
    BY <1>4, <1>6
  <2>6. QED
    BY <2>1, <2>2, <2>3, <2>4, <2>5 DEF PairInv
<1>9. ASSUME half[c] = "intelligent", ~disturbed' PROVE PairInv'
  <2>1. PairInv /\ Halfway(c)
    BY <1>9 DEF Halfway
  <2>2. \A d \in Setters : Latest(d)' => Latest(d)
    BY <1>7, <2>1 DEF Latest
  <2>3. setpoint'["heating"] = setpoint["heating"] /\ setpoint'["intelligent"] = LowByteOf(c)
    BY <1>2, <1>9 DEF Kinds
  <2>4. ~Quiet'
    BY <1>7 DEF Quiet, SomeoneHalfway
  <2>5. \A d \in Setters : LowByteOf(d)' = LowByteOf(d)
    BY DEF LowByteOf
  <2>6. \A d \in Setters : phase'[d] # "waiting" => d = c
    BY <1>4, <1>6
  <2>7. \A d \in Setters : phase'[d] # "saved"
    BY <1>4, <1>6
  <2>8. QED
    BY <2>1, <2>2, <2>3, <2>4, <2>5, <2>6, <2>7 DEF PairInv
<1>10. SavedInSync'
  BY <1>7 DEF SavedInSync, Quiet, SomeoneHalfway
<1>11. QED
  BY <1>1, <1>3, <1>5, <1>8, <1>9, <1>10 DEF Kinds

LEMMA HalfSaveStep ==
    ASSUME IInv, NEW c \in Setters, HalfSave(c)
    PROVE  IInv'
<1> USE DEF IInv, HalfSave, tempHistoryVars
<1>1. TempTypeOK'
  BY DEF TempTypeOK
<1>2. phase'[c] = "saved" /\ \A d \in Setters \ {c} : phase'[d] = phase[d]
  BY DEF TempTypeOK
<1>3. LineInv'
  BY <1>2, NobodyJoins DEF LineInv, Served, Calling
<1>4. \A d \in Setters : Halfway(d)' = Halfway(d)
  BY <1>2 DEF Halfway
<1>5. Halfway(c) /\ ~Quiet'
  BY <1>4 DEF Quiet, SomeoneHalfway, Halfway, Persists
<1>6. PairInv => PairInv'
  <2>1. \A d \in Setters : Latest(d)' = Latest(d) /\ LowByteOf(d)' = LowByteOf(d)
    BY <1>4 DEF Latest, LowByteOf
  <2>2. \A d \in Setters : phase'[d] # "waiting" => phase[d] # "waiting"
    BY <1>2
  <2>3. QED
    BY <1>5, <2>1, <2>2 DEF PairInv
<1>7. SavedInSync'
  BY <1>5 DEF SavedInSync
<1>8. QED
  BY <1>1, <1>3, <1>6, <1>7

(* The first half is done: the call goes to the end of the line.           *)
LEMMA FirstHalfDoneStep ==
    ASSUME IInv, NEW c \in Setters, HalfDone(c), half[c] = "heating"
    PROVE  IInv'
<1> USE DEF IInv, HalfDone, GetInLine, tempDeviceVars
<1>1. phase[c] = "written" /\ Served(c)
  BY DEF Persists, LineInv
<1>2. \A d \in Setters \ {c} : phase[d] = "waiting"
  BY <1>1, OneHolder DEF LineInv
<1>3. /\ half' = [half EXCEPT ![c] = "intelligent"]
      /\ arrivals' = arrivals + 1 /\ place' = [place EXCEPT ![c] = arrivals + 1]
      /\ UNCHANGED <<raw, applies, lastApplied>>
  OBVIOUS
<1>4. TempTypeOK'
  BY <1>3 DEF TempTypeOK, Kinds
<1>5. \A d \in Setters : phase'[d] = "waiting"
  BY <1>2 DEF TempTypeOK
<1>6. /\ half'[c] = "intelligent" /\ place'[c] = arrivals + 1
      /\ \A d \in Setters \ {c} : half'[d] = half[d] /\ place'[d] = place[d]
  BY <1>3 DEF TempTypeOK
<1>7. LineInv'
  BY <1>3, <1>4, <1>5, <1>6 DEF LineInv, Calling, TempTypeOK
<1>8. \A d \in Setters : Halfway(d)' = Halfway(d)
  BY <1>1, <1>2, <1>5, <1>6 DEF Halfway
<1>9. Halfway(c) /\ ~Quiet'
  BY <1>1, <1>8 DEF Quiet, SomeoneHalfway, Halfway
<1>10. PairInv => PairInv'
  <2>1. \A d \in Setters : Latest(d)' => d = c
    <3> SUFFICES ASSUME NEW d \in Setters, Latest(d)', d # c PROVE FALSE
      OBVIOUS
    <3>1. half'[d] = "intelligent" /\ half[d] = "intelligent"
      BY <1>5, <1>6 DEF Latest, Halfway
    <3>2. place'[c] <= place'[d]
      BY <1>8, <1>9, <3>1 DEF Latest
    <3>3. place[d] <= arrivals /\ place[d] \in Nat /\ arrivals \in Nat
      BY <3>1 DEF LineInv, Calling, TempTypeOK
    <3>4. QED
      BY <1>6, <3>2, <3>3
  <2>2. Latest(c)
    BY <1>9 DEF Latest
  <2>3. LowByteOf(c)' = LowByteOf(c)
    BY <1>3 DEF LowByteOf
  <2>4. QED
    BY <1>5, <1>9, <2>1, <2>2, <2>3 DEF PairInv
<1>11. SavedInSync'
  BY <1>9 DEF SavedInSync
<1>12. QED
  BY <1>4, <1>7, <1>10, <1>11

(* A call ends.                                                            *)
LEMMA CallEndsLine ==
    ASSUME TempTypeOK, LineInv, NEW c \in Setters, CallEnds(c),
           phase' = [phase EXCEPT ![c] = "waiting"]
    PROVE  /\ half'[c] = "none" /\ phase'[c] = "waiting"
           /\ \A d \in Setters \ {c} : /\ half'[d] = half[d] /\ phase'[d] = phase[d]
                                      /\ raw'[d] = raw[d] /\ place'[d] = place[d]
           /\ half' \in [Setters -> Kinds \cup {"none"}]
           /\ phase' \in [Setters -> {"waiting", "written", "saved"}]
           /\ raw' \in [Setters -> Raws \cup {0}] /\ applies' \in [Setters -> BOOLEAN]
           /\ place' \in [Setters -> Nat] /\ arrivals' \in Nat
           /\ LineInv'
<1> USE DEF CallEnds
<1>1. /\ half'[c] = "none" /\ phase'[c] = "waiting"
      /\ \A d \in Setters \ {c} : /\ half'[d] = half[d] /\ phase'[d] = phase[d]
                                 /\ raw'[d] = raw[d] /\ place'[d] = place[d]
  BY DEF TempTypeOK
<1>2. /\ half' \in [Setters -> Kinds \cup {"none"}]
      /\ phase' \in [Setters -> {"waiting", "written", "saved"}]
      /\ raw' \in [Setters -> Raws \cup {0}] /\ applies' \in [Setters -> BOOLEAN]
      /\ place' \in [Setters -> Nat] /\ arrivals' \in Nat
  BY DEF TempTypeOK
<1>3. \A d \in Setters : Calling(d)' => Calling(d) /\ place'[d] = place[d]
  BY <1>1 DEF Calling
<1>4. \A d \in Setters : phase'[d] # "waiting" => Calling(d)' /\ Served(d)
  BY <1>1 DEF Calling, LineInv, Served
<1>5. LineInv'
  BY <1>3, <1>4, NobodyJoins
<1>6. QED
  BY <1>1, <1>2, <1>5

LEMMA CallDoneStep ==
    ASSUME IInv, NEW c \in Setters, HalfDone(c), half[c] = "intelligent"
    PROVE  IInv'
<1> USE DEF IInv, HalfDone, tempDeviceVars
<1>1. phase[c] # "waiting" /\ Served(c) /\ (applies[c] => phase[c] = "saved")
  BY DEF Persists, LineInv
<1>2. \A d \in Setters \ {c} : phase[d] = "waiting"
  BY <1>1, OneHolder DEF LineInv
<1>3. lastApplied' = applies[c] /\ CallEnds(c)
  OBVIOUS
<1>4. /\ half'[c] = "none" /\ LineInv'
      /\ \A d \in Setters \ {c} : /\ half'[d] = half[d] /\ phase'[d] = phase[d]
                                 /\ raw'[d] = raw[d] /\ place'[d] = place[d]
  BY <1>3, CallEndsLine
<1>5. TempTypeOK'
  BY <1>3, CallEndsLine DEF TempTypeOK
<1>6. \A d \in Setters : phase'[d] = "waiting"
  BY <1>2, <1>3, <1>4, CallEndsLine
<1>7. \A d \in Setters : Halfway(d)' <=> Halfway(d) /\ d # c
  BY <1>2, <1>4, <1>6 DEF Halfway
<1>8. Halfway(c)
  BY DEF Halfway
<1>9. \A d \in Setters : Latest(d)' => Latest(d)
  <2> SUFFICES ASSUME NEW d \in Setters, Latest(d)' PROVE Latest(d)
    OBVIOUS
  <2>1. Halfway(d) /\ d # c /\ half[d] = "intelligent"
    BY <1>2, <1>4, <1>7 DEF Latest, Halfway
  <2>2. place[c] < place[d]
    BY <1>1, <2>1 DEF Served, Calling
  <2>3. place[c] \in Nat /\ place[d] \in Nat
    BY DEF TempTypeOK
  <2>4. \A e \in Setters \ {c} : Halfway(e) => half[e] = "intelligent" /\ place[e] <= place[d]
    BY <1>4, <1>7, <2>1 DEF Latest
  <2>5. QED
    BY <2>1, <2>2, <2>3, <2>4 DEF Latest
<1>10. ASSUME PairInv, Quiet'
       PROVE  /\ setpoint["heating"] = setpoint["intelligent"]
              /\ applies[c] => saved["heating"] = saved["intelligent"]
  <2>1. \A d \in Setters : Halfway(d) => d = c
    BY <1>7, <1>10 DEF Quiet, SomeoneHalfway
  <2>2. Latest(c)
    BY <1>8, <2>1 DEF Latest, TempTypeOK
  <2>3. setpoint["heating"] = LowByteOf(c) /\ setpoint["intelligent"] = LowByteOf(c)
    BY <1>1, <1>10, <2>2 DEF PairInv
  <2>4. QED
    BY <1>1, <1>10, <2>3 DEF PairInv
<1>11. PairInv => PairInv'
  <2>1. \A d \in Setters : Latest(d)' => LowByteOf(d)' = LowByteOf(d)
    BY <1>4, <1>7 DEF Latest, LowByteOf
  <2>2. QED
    BY <1>6, <1>9, <1>10, <2>1 DEF PairInv
<1>12. SavedInSync'
  BY <1>3, <1>10 DEF SavedInSync
<1>13. QED
  BY <1>4, <1>5, <1>11, <1>12

LEMMA PairFailsStep ==
    ASSUME IInv, NEW c \in Setters, PairFails(c)
    PROVE  IInv'
<1> USE DEF IInv, PairFails, tempDeviceVars
<1>1. /\ half'[c] = "none" /\ phase'[c] = "waiting" /\ LineInv'
      /\ \A d \in Setters \ {c} : /\ half'[d] = half[d] /\ phase'[d] = phase[d]
                                 /\ raw'[d] = raw[d] /\ place'[d] = place[d]
  BY CallEndsLine
<1>2. disturbed' \in BOOLEAN
  BY DEF TempTypeOK
<1>3. TempTypeOK'
  BY <1>2, CallEndsLine DEF TempTypeOK
<1>4. ASSUME ~disturbed' PROVE PairInv' /\ SavedInSync'
  <2>1. PairInv /\ ~Halfway(c) /\ ~disturbed
    BY <1>4
  <2>2. \A d \in Setters : Halfway(d)' <=> Halfway(d)
    BY <1>1, <2>1 DEF Halfway
  <2>3. \A d \in Setters : Latest(d)' => Latest(d)
    BY <1>1, <2>1, <2>2 DEF Latest
  <2>4. \A d \in Setters : Latest(d)' => LowByteOf(d)' = LowByteOf(d)
    BY <1>1, <2>1, <2>2 DEF Latest, LowByteOf
  <2>5. \A d \in Setters : phase'[d] # "waiting" =>
            half'[d] = half[d] /\ phase'[d] = phase[d] /\ LowByteOf(d)' = LowByteOf(d)
    BY <1>1 DEF LowByteOf
  <2>6. Quiet' = Quiet
    BY <2>2 DEF Quiet, SomeoneHalfway
  <2>7. PairInv'
    BY <2>1, <2>3, <2>4, <2>5, <2>6 DEF PairInv
  <2>8. SavedInSync'
    BY <2>1, <2>6 DEF SavedInSync
  <2>9. QED
    BY <2>7, <2>8
<1>5. QED
  BY <1>1, <1>3, <1>4 DEF SavedInSync

-----------------------------------------------------------------------------
(* Theorems                                                                *)

LEMMA InitIInv == TempInit => IInv
<1> SUFFICES ASSUME TempInit PROVE IInv
  OBVIOUS
<1>1. TempTypeOK
  BY DEF TempInit, TempTypeOK
<1>2. LineInv
  BY DEF TempInit, LineInv, Calling
<1>3. QED
  BY <1>1, <1>2 DEF TempInit, IInv, SavedInSync

LEMMA StutterStep == IInv /\ UNCHANGED tempVars => IInv'
<1> SUFFICES ASSUME IInv, UNCHANGED tempVars PROVE IInv'
  OBVIOUS
<1> USE DEF IInv, tempVars, tempDeviceVars, tempCallVars, tempHistoryVars
<1>1. TempTypeOK'
  BY DEF TempTypeOK
<1>2. LineInv'
  BY DEF LineInv, Served, Calling
<1>3. PairInv => PairInv'
  BY DEF PairInv, Latest, Halfway, LowByteOf, Quiet, SomeoneHalfway
<1>4. SavedInSync'
  BY DEF SavedInSync, Quiet, SomeoneHalfway, Halfway
<1>5. QED
  BY <1>1, <1>2, <1>3, <1>4

LEMMA Inductive == IInv /\ [TempNext]_tempVars => IInv'
<1> SUFFICES ASSUME IInv, TempNext PROVE IInv'
  BY StutterStep
<1>1. ASSUME NEW c \in Setters, HalfDone(c) PROVE IInv'
  BY <1>1, FirstHalfDoneStep, CallDoneStep DEF HalfDone
<1>2. QED
  BY <1>1, PanelStep, OtherSaveStep, PowerCycleStep, SetPairStep, HalfWriteStep,
     HalfSaveStep, PairFailsStep DEF TempNext

(* The line and the pair stay in order, however many calls there are.      *)
THEOREM SetpointInvariant == TempSpec => []IInv
BY InitIInv, Inductive, PTL DEF TempSpec

(* TempTypeOK is an invariant: no value that is asked for reaches into the *)
(* high byte of a setpoint register.                                       *)
THEOREM SetpointTypes == TempSpec => []TempTypeOK
<1>1. IInv => TempTypeOK
  BY DEF IInv
<1>2. QED
  BY <1>1, SetpointInvariant, PTL

(* PairInSync is an invariant: a lock that serves its waiters in turn is   *)
(* enough to keep the two setpoints equal.                                 *)
THEOREM PairStaysInSync == TempSpec => []PairInSync
<1>1. IInv => PairInSync
  BY DEF IInv, PairInv, PairInSync
<1>2. QED
  BY <1>1, SetpointInvariant, PTL

(* SavedInSync is an invariant: so is the pair in the EEPROM, saved once.  *)
THEOREM SavedStaysInSync == TempSpec => []SavedInSync
<1>1. IInv => SavedInSync
  BY DEF IInv
<1>2. QED
  BY <1>1, SetpointInvariant, PTL

=============================================================================
