------------------------- MODULE RelayControlProofs -------------------------
(* Proofs about RelayControl, for every value of its constants.            *)
EXTENDS RelayControl, TLAPS

LEMMA OffFacts == Off \in State /\ Off.pwr = FALSE /\ Off.temp = NoTemp
BY DEF Off, State

(* The initial values satisfy the inductive invariant.                     *)
LEMMA InitIInv == Init => IInv
<1> SUFFICES ASSUME Init
             PROVE  IInv
  OBVIOUS
<1> USE DocsAssumption, ControlAssumption DEF Init, Fresh
<1>1. Off \in State
  BY OffFacts
<1>2. asked \in BOOLEAN
  BY DEF SetsPower
<1>3. TypeOK
  <2>1. powered \in BOOLEAN
    BY Zenon
  <2>2. setpoint \in Temps \cup {NoTemp}
    BY Zenon
  <2> QED
    BY <1>1, <1>2, <2>1, <2>2 DEF TypeOK
<1>4. Drained /\ Reported /\ ResetPowered /\ Demanded
  BY OffFacts DEF Drained, Reported, ResetPowered, Demanded
<1> QED
  BY <1>3, <1>4 DEF IInv

(* Every action keeps the types.                                           *)
LEMMA NextTyped == TypeOK /\ [Next]_vars => TypeOK'
<1> SUFFICES ASSUME TypeOK, [Next]_vars
             PROVE  TypeOK'
  OBVIOUS
<1> USE DocsAssumption, ControlAssumption
    DEF TypeOK, outside, pin, poller, pidVars, channels
<1>0. Off \in State
  BY OffFacts
<1>1. CASE SetConfig
  BY <1>1 DEF SetConfig, SetsPower
<1>2. CASE Signal
  BY <1>2 DEF Signal
<1>3. CASE Crash
  <2>1. powered' \in BOOLEAN
    BY <1>3, Zenon DEF Crash, Forget
  <2>2. setpoint' \in Temps \cup {NoTemp}
    BY <1>3, Zenon DEF Crash, Forget
  <2> QED
    BY <1>0, <1>3, <2>1, <2>2 DEF Crash, Forget
<1>4. CASE Restart
  BY <1>4 DEF Restart
<1>5. CASE PollGet
  BY <1>5 DEF PollGet
<1>6. CASE DecodePwr
  BY <1>6 DEF DecodePwr, State, Fields
<1>7. CASE DecodeTemp
  BY <1>7 DEF DecodeTemp, State, Fields
<1>8. CASE DecodeFails \/ DecodeDone
  BY <1>8 DEF DecodeFails, DecodeDone, AfterDecode, RunState, State
<1>9. CASE PollSend
  BY <1>9 DEF PollSend, ControlHasRoom
<1>10. CASE PidPwr
  BY <1>10 DEF PidPwr, State
<1>11. CASE PidTemp \/ PidSet
  BY <1>11 DEF PidTemp, PidSet, State
<1>12. CASE PidReading
  BY <1>12 DEF PidReading
<1>13. CASE PidOut
  BY <1>13 DEF PidOut, OutOK, OutFails, Done, Level
<1>14. CASE ResetLow
  BY <1>14 DEF ResetLow, OutOK, OutFails, Done
<1>15. CASE ResetHigh
  BY <1>15 DEF ResetHigh, OutOK, OutFails, Done
<1>16. CASE PidSignal
  BY <1>16 DEF PidSignal, OutOK, OutFails
<1>17. CASE PidFinish
  BY <1>17 DEF PidFinish, Finish
<1>18. CASE Exit
  <2>1. powered' \in BOOLEAN
    BY <1>18, Zenon DEF Exit, Forget
  <2>2. setpoint' \in Temps \cup {NoTemp}
    BY <1>18, Zenon DEF Exit, Forget
  <2> QED
    BY <1>0, <1>18, <2>1, <2>2 DEF Exit, Forget
<1>19. CASE UNCHANGED vars
  BY <1>19 DEF vars
<1> QED
  BY <1>1, <1>2, <1>3, <1>4, <1>5, <1>6, <1>7, <1>8, <1>9, <1>10, <1>11,
     <1>12, <1>13, <1>14, <1>15, <1>16, <1>17, <1>18, <1>19
  DEF Next, Steps, PollRunState, PidBusy

(***************************************************************************)
(* Drained: the actions of PollRunState that leave "idle" make it vacuous, *)
(* those of PidLoop that take a pointer copy the global, and no other      *)
(* action touches what it speaks of, except those that empty the memory.   *)
(***************************************************************************)
LEMMA NextDrained == TypeOK /\ Drained /\ [Next]_vars => Drained'
<1> SUFFICES ASSUME TypeOK, Drained, [Next]_vars
             PROVE  Drained'
  OBVIOUS
<1> USE ControlAssumption
    DEF TypeOK, Drained, outside, pin, poller, pidVars, channels
<1>1. CASE SetConfig \/ Signal \/ Restart
  BY <1>1 DEF SetConfig, Signal, Restart
<1>2. CASE Crash \/ Exit
  BY <1>2, OffFacts DEF Crash, Exit, Forget
<1>3. CASE PollGet \/ DecodePwr \/ DecodeTemp \/ DecodeFails \/ DecodeDone
  BY <1>3 DEF PollGet, DecodePwr, DecodeTemp, DecodeFails, DecodeDone, AfterDecode
<1>4. CASE PollSend
  <2>1. controlChan' # 0
    BY <1>4 DEF PollSend
  <2> QED
    BY <2>1
<1>5. CASE PidPwr
  <2>1. pid' = "apply" /\ pidControl'.pwr = controlState.pwr
    BY <1>5 DEF PidPwr, State
  <2> QED
    BY <1>5, <2>1 DEF PidPwr
<1>6. CASE PidTemp
  <2>1. pidControl'.pwr = pidControl.pwr /\ pidControl'.temp = controlState.temp
    BY <1>6 DEF PidTemp, State
  <2> QED
    BY <1>6, <2>1 DEF PidTemp
<1>7. CASE PidSet
  BY <1>7 DEF PidSet
<1>8. CASE PidReading \/ PidSignal \/ PidFinish
  BY <1>8 DEF PidReading, PidSignal, PidFinish
<1>9. CASE PidOut
  BY <1>9 DEF PidOut, Done
<1>10. CASE ResetLow \/ ResetHigh
  BY <1>10 DEF ResetLow, ResetHigh, Done
<1>11. CASE UNCHANGED vars
  BY <1>11 DEF vars
<1> QED
  BY <1>1, <1>2, <1>3, <1>4, <1>5, <1>6, <1>7, <1>8, <1>9, <1>10, <1>11
  DEF Next, Steps, PollRunState, PidBusy

(* Reported: only the decoding itself moves the global or powered.         *)
LEMMA NextReported == TypeOK /\ Reported /\ [Next]_vars => Reported'
<1> SUFFICES ASSUME TypeOK, Reported, [Next]_vars
             PROVE  Reported'
  OBVIOUS
<1> USE DEF Reported, outside, pin, poller, pidVars, channels
<1>1. CASE SetConfig \/ Signal \/ Restart
  BY <1>1 DEF SetConfig, Signal, Restart
<1>2. CASE Crash \/ Exit
  BY <1>2, OffFacts DEF Crash, Exit, Forget
<1>3. CASE PollGet \/ DecodePwr \/ DecodeTemp \/ DecodeFails
  BY <1>3 DEF PollGet, DecodePwr, DecodeTemp, DecodeFails
<1>4. CASE DecodeDone \/ PollSend
  BY <1>4 DEF DecodeDone, RunState, PollSend
<1>5. CASE PidPwr \/ PidTemp \/ PidSet \/ PidReading \/ PidSignal \/ PidFinish
  BY <1>5 DEF PidPwr, PidTemp, PidSet, PidReading, PidSignal, PidFinish
<1>6. CASE PidOut \/ ResetLow \/ ResetHigh
  BY <1>6 DEF PidOut, ResetLow, ResetHigh
<1>7. CASE UNCHANGED vars
  BY <1>7 DEF vars
<1> QED
  BY <1>1, <1>2, <1>3, <1>4, <1>5, <1>6, <1>7
  DEF Next, Steps, PollRunState, PidBusy

(* ResetPowered: PidOut enters ResetPin with the power on, and PidLoop     *)
(* takes no configuration before it has left it.                           *)
LEMMA NextResetPowered == TypeOK /\ ResetPowered /\ [Next]_vars => ResetPowered'
<1> SUFFICES ASSUME TypeOK, ResetPowered, [Next]_vars
             PROVE  ResetPowered'
  OBVIOUS
<1> USE DEF ResetPowered, outside, pin, poller, pidVars, channels
<1>1. CASE SetConfig \/ Signal \/ Restart \/ PollRunState
  BY <1>1 DEF SetConfig, Signal, Restart, PollRunState, PollGet, DecodePwr,
              DecodeTemp, DecodeFails, DecodeDone, PollSend
<1>2. CASE Crash \/ Exit
  BY <1>2 DEF Crash, Exit, Forget
<1>3. CASE PidPwr \/ PidTemp \/ PidSet \/ PidReading \/ PidSignal \/ PidFinish
  BY <1>3 DEF PidPwr, PidTemp, PidSet, PidReading, PidSignal, PidFinish
<1>4. CASE PidOut
  BY <1>4 DEF PidOut, Done, ResetsPin
<1>5. CASE ResetLow
  BY <1>5 DEF ResetLow, Done
<1>6. CASE ResetHigh
  BY <1>6 DEF ResetHigh, Done
<1>7. CASE UNCHANGED vars
  BY <1>7 DEF vars
<1> QED
  BY <1>1, <1>2, <1>3, <1>4, <1>5, <1>6, <1>7 DEF Next, Steps, PidBusy

(***************************************************************************)
(* Demanded: the power travels from config to body, to controlState, to    *)
(* pidControl and to the relay, and asked is never taken back.               *)
(***************************************************************************)
LEMMA NextDemanded ==
  TypeOK /\ ResetPowered /\ Demanded /\ [Next]_vars => Demanded'
<1> SUFFICES ASSUME TypeOK, ResetPowered, Demanded, [Next]_vars
             PROVE  Demanded'
  OBVIOUS
<1> USE DEF Demanded, outside, pin, poller, pidVars, channels
<1>1. CASE SetConfig
  BY <1>1 DEF SetConfig
<1>2. CASE Signal \/ Restart
  BY <1>2 DEF Signal, Restart
<1>3. CASE Crash \/ Exit
  BY <1>3, OffFacts DEF Crash, Exit, Forget
<1>4. CASE PollGet
  BY <1>4 DEF PollGet
<1>5. CASE DecodePwr
  <2>1. body # NoDoc /\ "pwr" \in DOMAIN body.set
    BY <1>5 DEF DecodePwr, TypeOK
  <2>2. controlState'.pwr = body.set["pwr"]
    BY <1>5 DEF DecodePwr, TypeOK, State
  <2>3. controlState'.pwr => asked
    BY <2>1, <2>2 DEF SetsPower
  <2> QED
    BY <1>5, <2>3 DEF DecodePwr
<1>6. CASE DecodeTemp
  <2>1. controlState'.pwr = controlState.pwr
    BY <1>6 DEF DecodeTemp, TypeOK, State
  <2> QED
    BY <1>6, <2>1 DEF DecodeTemp
<1>7. CASE DecodeFails \/ DecodeDone \/ PollSend
  BY <1>7 DEF DecodeFails, DecodeDone, PollSend
<1>8. CASE PidPwr
  <2>1. pidControl'.pwr = controlState.pwr
    BY <1>8 DEF PidPwr, TypeOK, State
  <2> QED
    BY <1>8, <2>1 DEF PidPwr
<1>9. CASE PidTemp
  <2>1. pidControl'.pwr = pidControl.pwr
    BY <1>9 DEF PidTemp, TypeOK, State
  <2> QED
    BY <1>9, <2>1 DEF PidTemp
<1>10. CASE PidSet \/ PidReading \/ PidFinish
  BY <1>10 DEF PidSet, PidReading, PidFinish
<1>11. CASE PidOut
  BY <1>11 DEF PidOut, OutOK, OutFails, Level
<1>12. CASE ResetLow
  BY <1>12 DEF ResetLow, OutOK, OutFails
<1>13. CASE ResetHigh
  <2>1. asked
    BY <1>13 DEF ResetHigh, ResetPowered
  <2> QED
    BY <1>13, <2>1 DEF ResetHigh
<1>14. CASE PidSignal
  BY <1>14 DEF PidSignal, OutOK, OutFails
<1>15. CASE UNCHANGED vars
  BY <1>15 DEF vars
<1> QED
  BY <1>1, <1>2, <1>3, <1>4, <1>5, <1>6, <1>7, <1>8, <1>9, <1>10, <1>11,
     <1>12, <1>13, <1>14, <1>15
  DEF Next, Steps, PollRunState, PidBusy

LEMMA NextIInv == IInv /\ [Next]_vars => IInv'
BY NextTyped, NextDrained, NextReported, NextResetPowered, NextDemanded DEF IInv

-----------------------------------------------------------------------------
(* The variables have their types.                                         *)
THEOREM TypeCorrect == Spec => []TypeOK
<1>1. Init => TypeOK
  BY InitIInv DEF IInv
<1> QED
  BY <1>1, NextTyped, PTL DEF Spec

(* The inductive invariant holds.                                          *)
THEOREM Invariant == Spec => []IInv
BY InitIInv, NextIInv, PTL DEF Spec

(* Once the pointers are drained, PidLoop runs on the global's contents,   *)
(* however often it was written while it was read (PollRunState, PidLoop). *)
THEOREM Converges == Spec => []ConfigConverges
<1>1. IInv => ConfigConverges
  <2> SUFFICES ASSUME TypeOK, pidControl.pwr = controlState.pwr,
                      pidControl.temp = controlState.temp
               PROVE  pidControl = controlState
    BY DEF IInv, Drained, ConfigConverges
  <2> QED
    BY DEF TypeOK, State
<1> QED
  BY <1>1, Invariant, PTL

(* Once drained, published readings tell the power PidLoop runs on         *)
(* (powered.SetTo in PollRunState, powered.IsSet in PublishEvents).        *)
THEOREM Reports == Spec => []RunStateReported
<1>1. IInv => RunStateReported
  BY DEF IInv, Drained, Reported, RunStateReported
<1> QED
  BY <1>1, Invariant, PTL

(* The relay is on only if the hub has served a document that says so,     *)
(* across failing pins, half-decoded documents, crashes and restarts.      *)
THEOREM OnDemand == Spec => []HeatsOnlyOnDemand
<1>1. IInv => HeatsOnlyOnDemand
  BY DEF IInv, Demanded, HeatsOnlyOnDemand
<1> QED
  BY <1>1, Invariant, PTL

(* A relay that is low while PidLoop's power is off stays low.             *)
THEOREM StaysOff == Spec => OffStaysOff
<1>1. IInv /\ [Next]_vars => [~pidControl.pwr /\ relay = "low" => relay' = "low"]_vars
  <2> SUFFICES ASSUME IInv, Next, ~pidControl.pwr, relay = "low"
               PROVE  relay' = "low"
    OBVIOUS
  <2> USE DEF pin
  <2>1. CASE SetConfig \/ Signal \/ Restart \/ PollRunState
    BY <2>1 DEF SetConfig, Signal, Restart, PollRunState, PollGet, DecodePwr,
                DecodeTemp, DecodeFails, DecodeDone, PollSend
  <2>2. CASE Crash \/ Exit
    BY <2>2 DEF Crash, Exit
  <2>3. CASE PidPwr \/ PidTemp \/ PidSet \/ PidReading \/ PidFinish
    BY <2>3 DEF PidPwr, PidTemp, PidSet, PidReading, PidFinish
  <2>4. CASE PidOut
    BY <2>4 DEF PidOut, OutOK, OutFails, Level
  <2>5. CASE ResetLow \/ PidSignal
    BY <2>5 DEF ResetLow, PidSignal, OutOK, OutFails
  <2>6. CASE ResetHigh
    BY <2>6 DEF ResetHigh, IInv, ResetPowered
  <2> QED
    BY <2>1, <2>2, <2>3, <2>4, <2>5, <2>6 DEF Next, Steps, PidBusy
<1> QED
  BY <1>1, Invariant, PTL DEF Spec, OffStaysOff
=============================================================================
