---------------------------- MODULE SmokerProofs ----------------------------
(* Smoker implements RelayControl, for every value of the constants, so    *)
(* that what RelayControlProofs proves holds with the pipeline around it.  *)
EXTENDS Smoker, TLAPS

(* Every step of Smoker is a step of RelayControl or leaves its variables. *)
LEMMA StepImplements == [Next]_vars => [RC!Next]_(RC!vars)
<1> SUFFICES ASSUME [Next]_vars
             PROVE  RC!Next \/ UNCHANGED RC!vars
  OBVIOUS
<1>1. UNCHANGED relayVars => UNCHANGED RC!vars
  BY DEF relayVars, RC!vars, RC!outside, RC!pin, RC!poller, RC!pidVars, RC!channels
<1>2. CASE Alone(RC!Steps)
  BY <1>2 DEF Alone, RC!Next
<1>3. CASE SensorBreaks
  BY <1>1, <1>3 DEF SensorBreaks
<1>4. CASE Ends
  BY <1>4 DEF Ends, RC!Next
<1>5. CASE Restart
  BY <1>5 DEF Restart, RC!Next
<1>6. CASE ReaderInit \/ ReadSensor \/ SendReading
  BY <1>1, <1>6 DEF ReaderInit, ReadSensor, SendReading
<1>7. CASE PidReading
  BY <1>7 DEF PidReading, RC!Next
<1>8. CASE OutsideSignal \/ ReaderTerm
  BY <1>8 DEF OutsideSignal, Alone, ReaderTerm, RC!Next
<1>9. CASE Fanout
  BY <1>1, <1>9 DEF Fanout, FanTake, FanPub, FanPid
<1>10. CASE PubTake \/ PostEnds
  BY <1>1, <1>10 DEF PubTake, PostEnds
<1>11. CASE UNCHANGED vars
  BY <1>1, <1>11 DEF vars
<1> QED
  BY <1>2, <1>3, <1>4, <1>5, <1>6, <1>7, <1>8, <1>9, <1>10, <1>11
  DEF Next, ReadLoop

(* The whole pipeline implements the relay's control: what holds of every  *)
(* arrival of readings holds of those that ReadLoop and Fanout bring.      *)
THEOREM ImplementsRelayControl == Spec => RC!Spec
<1>1. Init => RC!Init
  BY DEF Init
<1> QED
  BY <1>1, StepImplements, PTL DEF Spec, RC!Spec

(* Every step of Smoker that changes the sensor or ReadLoop is one of      *)
(* SensorFeed's.                                                           *)
LEMMA StepFeeds == [Next]_vars => [SF!Next]_(SF!vars)
<1> SUFFICES ASSUME [Next]_vars
             PROVE  SF!Next \/ UNCHANGED SF!vars
  OBVIOUS
<1> USE DEF SF!vars, SF!Next
<1>1. CASE Alone(RC!Steps) \/ OutsideSignal \/ Restart
  BY <1>1 DEF Alone, OutsideSignal, Restart, pipeline
<1>2. CASE SensorBreaks \/ Ends
  BY <1>2 DEF SensorBreaks, Ends
<1>3. CASE ReadLoop
  BY <1>3 DEF ReadLoop, ReaderInit, ReadSensor, SendReading, ReaderTerm
<1>4. CASE Fanout \/ PubTake \/ PostEnds \/ PidReading \/ UNCHANGED vars
  BY <1>4 DEF Fanout, FanTake, FanPub, FanPid, PubTake, PostEnds, PidReading, vars, pipeline
<1> QED
  BY <1>1, <1>2, <1>3, <1>4 DEF Next

(* The readings come as SensorFeed says, which Sensor implements.          *)
THEOREM UsesSensorFeed == Spec => SF!Spec
<1>1. Init => SF!Init
  BY DEF Init
<1> QED
  BY <1>1, StepFeeds, PTL DEF Spec, SF!Spec

(* The variables of the pipeline keep their types and capacities.          *)
THEOREM TypeCorrect == Spec => []TypeOK
<1> USE PipelineAssumption DEF TypeOK, SF!TypeOK
<1>1. Init => TypeOK
  BY DEF Init, SF!Init
<1>2. TypeOK /\ [Next]_vars => TypeOK'
  <2> SUFFICES ASSUME TypeOK, [Next]_vars PROVE TypeOK'
    OBVIOUS
  <2>1. CASE Alone(RC!Steps) \/ OutsideSignal \/ Restart \/ UNCHANGED vars
    BY <2>1 DEF Alone, OutsideSignal, Restart, vars, pipeline, channels
  <2>2. CASE SensorBreaks \/ Ends
    BY <2>2 DEF SensorBreaks, Ends, SF!Breaks, SF!Ends, channels
  <2>3. CASE ReaderInit \/ ReadSensor
    BY <2>3 DEF ReaderInit, ReadSensor, SF!InitSensor, SF!Read, SF!Retry, channels
  <2>4. CASE SendReading \/ ReaderTerm
    BY <2>4 DEF SendReading, ReaderTerm, SF!Send, SF!Term, channels
  <2>5. CASE Fanout \/ PubTake \/ PostEnds \/ PidReading
    BY <2>5 DEF Fanout, FanTake, FanPub, FanPid, PubTake, PostEnds, PidReading
  <2> QED
    BY <2>1, <2>2, <2>3, <2>4, <2>5 DEF Next, ReadLoop
<1> QED
  BY <1>1, <1>2, PTL DEF Spec

-----------------------------------------------------------------------------
(* RelayControl as RelayControlProofs has it: the same definitions.        *)
Relay == INSTANCE RelayControlProofs

LEMMA SameControl == RC!Spec => Relay!Spec
<1>1. RC!Init => Relay!Init
  BY Zenon DEF RC!Init, Relay!Init, RC!Fresh, Relay!Fresh, RC!Off, Relay!Off, RC!SetsPower,
               Relay!SetsPower
<1>2. RC!Crash \/ RC!Exit \/ RC!Restart \/ RC!Signal \/ RC!SetConfig
      => Relay!Crash \/ Relay!Exit \/ Relay!Restart \/ Relay!Signal \/ Relay!SetConfig
  BY Zenon DEF RC!Crash, Relay!Crash, RC!Exit, Relay!Exit, RC!Restart, Relay!Restart,
               RC!Signal, Relay!Signal, RC!SetConfig, Relay!SetConfig, RC!Forget,
               Relay!Forget, RC!Off, Relay!Off, RC!SetsPower, Relay!SetsPower, RC!outside,
               Relay!outside, RC!pin, Relay!pin, RC!poller, Relay!poller, RC!pidVars,
               Relay!pidVars, RC!channels, Relay!channels
<1>3. RC!PollRunState
      => Relay!PollRunState
  BY Zenon DEF RC!PollRunState, Relay!PollRunState, RC!PollGet, Relay!PollGet, RC!DecodePwr,
               Relay!DecodePwr, RC!DecodeTemp, Relay!DecodeTemp, RC!DecodeFails,
               Relay!DecodeFails, RC!DecodeDone, Relay!DecodeDone, RC!AfterDecode,
               Relay!AfterDecode, RC!RunState, Relay!RunState, RC!PollSend, Relay!PollSend,
               RC!ControlHasRoom, Relay!ControlHasRoom, RC!outside, Relay!outside, RC!pin,
               Relay!pin, RC!poller, Relay!poller, RC!pidVars, Relay!pidVars, RC!channels,
               Relay!channels
<1>4. RC!PidPwr \/ RC!PidReading \/ RC!PidSignal
      => Relay!PidPwr \/ Relay!PidReading \/ Relay!PidSignal
  BY Zenon DEF RC!PidPwr, Relay!PidPwr, RC!PidReading, Relay!PidReading, RC!PidSignal,
               Relay!PidSignal, RC!OutOK, Relay!OutOK, RC!OutFails, Relay!OutFails,
               RC!outside, Relay!outside, RC!pin, Relay!pin, RC!poller, Relay!poller,
               RC!pidVars, Relay!pidVars, RC!channels, Relay!channels
<1>5. RC!PidTemp \/ RC!PidSet \/ RC!PidFinish
      => Relay!PidTemp \/ Relay!PidSet \/ Relay!PidFinish
  BY Zenon DEF RC!PidTemp, Relay!PidTemp, RC!PidSet, Relay!PidSet, RC!PidFinish,
               Relay!PidFinish, RC!Finish, Relay!Finish, RC!outside, Relay!outside, RC!pin,
               Relay!pin, RC!poller, Relay!poller, RC!pidVars, Relay!pidVars, RC!channels,
               Relay!channels
<1>6. RC!PidOut \/ RC!ResetLow \/ RC!ResetHigh
      => Relay!PidOut \/ Relay!ResetLow \/ Relay!ResetHigh
  BY Zenon DEF RC!PidOut, Relay!PidOut, RC!ResetsPin, Relay!ResetsPin, RC!Level,
               Relay!Level, RC!OutOK, Relay!OutOK, RC!OutFails, Relay!OutFails, RC!Done,
               Relay!Done, RC!ResetLow, Relay!ResetLow, RC!ResetHigh, Relay!ResetHigh,
               RC!outside, Relay!outside, RC!pin, Relay!pin, RC!poller, Relay!poller,
               RC!pidVars, Relay!pidVars, RC!channels, Relay!channels
<1>7. UNCHANGED RC!vars => UNCHANGED Relay!vars
  BY DEF RC!vars, Relay!vars, RC!outside, Relay!outside, RC!pin, Relay!pin, RC!poller,
         Relay!poller, RC!pidVars, Relay!pidVars, RC!channels, Relay!channels
<1>8. [RC!Next]_(RC!vars) => [Relay!Next]_(Relay!vars)
  BY <1>2, <1>3, <1>4, <1>5, <1>6, <1>7
  DEF RC!Next, RC!Steps, RC!PidBusy, Relay!Next, Relay!Steps, Relay!PidBusy
<1> QED
  BY <1>1, <1>8, PTL DEF RC!Spec, Relay!Spec

(* In the whole pipeline too PidLoop ends up on the global's contents,     *)
(* readings report its power, heat is only on demand and off stays off.    *)
THEOREM KeepsRelay ==
  Spec => /\ [](RC!ConfigConverges /\ RC!RunStateReported /\ RC!HeatsOnlyOnDemand)
          /\ RC!OffStaysOff
<1>1. Relay!DocsAssumption /\ Relay!ControlAssumption
  BY PipelineAssumption, Zenon
  DEF RC!DocsAssumption, RC!ControlAssumption, RC!Fields,
      Relay!DocsAssumption, Relay!ControlAssumption, Relay!Fields
<1>2. Relay!Spec => []Relay!ConfigConverges
  BY <1>1, Relay!Converges
<1>3. Relay!Spec => []Relay!RunStateReported
  BY <1>1, Relay!Reports
<1>4. Relay!Spec => []Relay!HeatsOnlyOnDemand
  BY <1>1, Relay!OnDemand
<1>5. Relay!Spec => Relay!OffStaysOff
  BY <1>1, Relay!StaysOff
<1>6. /\ Relay!ConfigConverges => RC!ConfigConverges
      /\ Relay!RunStateReported => RC!RunStateReported
      /\ Relay!HeatsOnlyOnDemand => RC!HeatsOnlyOnDemand
  BY DEF RC!ConfigConverges, RC!RunStateReported, RC!HeatsOnlyOnDemand,
         Relay!ConfigConverges, Relay!RunStateReported, Relay!HeatsOnlyOnDemand
<1>7. UNCHANGED Relay!vars => UNCHANGED RC!vars
  BY DEF RC!vars, Relay!vars, RC!outside, Relay!outside, RC!pin, Relay!pin, RC!poller,
         Relay!poller, RC!pidVars, Relay!pidVars, RC!channels, Relay!channels
<1>8. [~pidControl.pwr /\ relay = "low" => relay' = "low"]_(Relay!vars)
      => [~pidControl.pwr /\ relay = "low" => relay' = "low"]_(RC!vars)
  BY <1>7
<1>9. Relay!OffStaysOff => RC!OffStaysOff
  BY <1>8, PTL DEF Relay!OffStaysOff, RC!OffStaysOff
<1> QED
  BY <1>2, <1>3, <1>4, <1>5, <1>6, <1>9, ImplementsRelayControl, SameControl, PTL
=============================================================================
