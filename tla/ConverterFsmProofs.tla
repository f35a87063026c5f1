------------------------- MODULE ConverterFsmProofs -------------------------
(***************************************************************************)
(* The safety of the converter's state machine for every choice of delays, *)
(* error sets, failure bound and current range: the invariants of          *)
(* ConverterFsm, the masking of the fuel cell errors after a stop, and the *)
(* refinement of the safety part of ChargeCycle.                           *)
(***************************************************************************)
EXTENDS ConverterFsm, TLAPS

\* From the launch to the stop, the last command the fuel cells got is start.
CommandFollowsCycle ==
  state = "STARTUP" \/ Connected => cellCommand = "start"

\* The inductive invariant.  The safety invariants hold each other up: a charge
\* starts in READY with the PWM off (EnergyFlow), the relay closed
\* (RelayFollowsCycle) and the cells told to run (CommandFollowsCycle).
IInv ==
  /\ TypeOK
  /\ CommandFollowsCycle
  /\ EnergyFlow
  /\ RelayFollowsCycle
  /\ NoChargeIntoFullBattery
  /\ CellSupervision
  /\ Lockout
  /\ RampStartsLow

\* TypeOK in four parts, by the kind of the variables.
FsmType ==
  /\ state \in States
  /\ nextState \in {"STANDBY", "READY", "SHUTDOWN", "NULL"}
  /\ state = "WAIT" => nextState # "NULL"
  /\ cellCommand \in {"none", "start", "stop"}

NumberType ==
  /\ waitTime \in Delays \cup {0}
  /\ elapsed \in 0 .. MaxElapsed
  /\ failureCount \in Nat
  /\ ref \in 0 .. RefMax

RegisterType == errors \in SUBSET Errors /\ enabled \in SUBSET Errors

SwitchType ==
  /\ batteryCharged \in BOOLEAN
  /\ relay \in BOOLEAN
  /\ manualRelay \in BOOLEAN
  /\ pwm \in BOOLEAN
  /\ cellsReady \in BOOLEAN
  /\ linkOk \in BOOLEAN

USE DEF States, fsm, syslog, contact, drive, cells

-----------------------------------------------------------------------------
(* The initial states.                                                     *)

\* The power-up state is safe: everything is off and isolated.
THEOREM InitInv == Init => IInv
<1> SUFFICES ASSUME Init PROVE IInv
  OBVIOUS
<1> USE DEF Init
<1>1. TypeOK
  <2>1. FsmType
    BY DEF FsmType
  <2>2. NumberType
    BY DelaysAssumption, RefAssumption DEF NumberType, Delays
  <2>3. RegisterType
    BY DEF RegisterType, Errors, SystemErrors
  <2>4. SwitchType
    BY DEF SwitchType
  <2> QED
    BY <2>1, <2>2, <2>3, <2>4 DEF TypeOK, FsmType, NumberType, RegisterType, SwitchType
<1>2. CommandFollowsCycle /\ EnergyFlow /\ RelayFollowsCycle
  BY DEF CommandFollowsCycle, EnergyFlow, RelayFollowsCycle, Connected, Waiting
<1>3. NoChargeIntoFullBattery /\ CellSupervision
  BY DEF NoChargeIntoFullBattery, CellSupervision, Connected, Off, Stopping, Waiting
<1>4. Lockout /\ RampStartsLow
  BY FailureAssumption, RefAssumption DEF Lockout, RampStartsLow
<1> QED
  BY <1>1, <1>2, <1>3, <1>4 DEF IInv

-----------------------------------------------------------------------------
(* Shutting down, which six of the handlers do.                            *)

\* Whatever becomes of the two registers, a shutdown leaves the PWM off, the
\* cells told to stop unless they were not running, and the invariant intact.
LEMMA ShutdownInv ==
  ASSUME IInv, Shutdown,
         errors \subseteq errors', errors' \subseteq Errors,
         batteryCharged' \in BOOLEAN,
         UNCHANGED <<failureCount, contact, cells>>
  PROVE  IInv'
<1> USE DEF Shutdown, StopCells, StopDrive, ChangeStateAfterWait,
           Connected, Off, Stopping, Waiting
<1>1. TypeOK'
  <2>1. FsmType'
    BY DEF IInv, TypeOK, FsmType
  <2>2. NumberType'
    BY DelaysAssumption, RefAssumption DEF IInv, TypeOK, NumberType, Delays
  <2>3. RegisterType'
    BY DEF IInv, TypeOK, RegisterType, Errors, SystemErrors
  <2>4. SwitchType'
    BY DEF IInv, TypeOK, SwitchType
  <2> QED
    BY <2>1, <2>2, <2>3, <2>4 DEF TypeOK, FsmType, NumberType, RegisterType, SwitchType
<1>2. pwm' = FALSE
  BY DEF IInv, TypeOK, EnergyFlow
<1>3. CommandFollowsCycle'
  BY DEF IInv, TypeOK, CommandFollowsCycle
<1>4. RelayFollowsCycle'
  BY DEF IInv, TypeOK, RelayFollowsCycle
<1>5. CellSupervision'
  BY DEF IInv, TypeOK, CellSupervision
<1>6. Lockout'
  BY FailureAssumption DEF IInv, TypeOK, Lockout
<1>7. RampStartsLow'
  BY RefAssumption DEF IInv, TypeOK, RampStartsLow
<1> QED
  BY <1>1, <1>2, <1>3, <1>4, <1>5, <1>6, <1>7
  DEF IInv, EnergyFlow, NoChargeIntoFullBattery

\* A handler that only adds errors keeps the invariant.
LEMMA ErrorsInv ==
  ASSUME IInv, errors \subseteq errors', errors' \subseteq Errors,
         UNCHANGED <<fsm, enabled, batteryCharged, failureCount, contact, drive,
                     cellCommand, cells>>
  PROVE  IInv'
<1>1. TypeOK'
  <2>1. FsmType'
    BY DEF IInv, TypeOK, FsmType
  <2>2. NumberType'
    BY DelaysAssumption, RefAssumption DEF IInv, TypeOK, NumberType, Delays
  <2>3. RegisterType'
    BY DEF IInv, TypeOK, RegisterType, Errors, SystemErrors
  <2>4. SwitchType'
    BY DEF IInv, TypeOK, SwitchType
  <2> QED
    BY <2>1, <2>2, <2>3, <2>4 DEF TypeOK, FsmType, NumberType, RegisterType, SwitchType
<1>2. Lockout'
  BY DEF IInv, TypeOK, Lockout, Waiting
<1> QED
  BY <1>1, <1>2
  DEF IInv, CommandFollowsCycle, EnergyFlow, RelayFollowsCycle, NoChargeIntoFullBattery,
      CellSupervision, RampStartsLow, Connected, Off, Stopping, Waiting

\* Syslog::setError only adds errors.
LEMMA WithErrorsAdds ==
  ASSUME IInv, NEW E
  PROVE  errors \subseteq WithErrors(E) /\ WithErrors(E) \subseteq Errors
  BY DEF WithErrors, IInv, TypeOK

-----------------------------------------------------------------------------
(* The steps.                                                              *)

\* POWERUP_State::run leaves for STANDBY with everything still off.
LEMMA PowerupInv ==
  ASSUME IInv, RunPowerup, UNCHANGED cells
  PROVE  IInv'
<1> USE DEF RunPowerup, ChangeStateAfterWait,
           Connected, Off, Stopping, Waiting
<1>1. TypeOK'
  <2>1. FsmType'
    BY DEF IInv, TypeOK, FsmType
  <2>2. NumberType'
    BY DelaysAssumption, RefAssumption DEF IInv, TypeOK, NumberType, Delays
  <2>3. RegisterType'
    BY DEF IInv, TypeOK, RegisterType, Errors, SystemErrors
  <2>4. SwitchType'
    BY DEF IInv, TypeOK, SwitchType
  <2> QED
    BY <2>1, <2>2, <2>3, <2>4 DEF TypeOK, FsmType, NumberType, RegisterType, SwitchType
<1>2. CommandFollowsCycle'
  BY DEF IInv, TypeOK, CommandFollowsCycle
<1>3. EnergyFlow'
  BY DEF IInv, TypeOK, EnergyFlow, CommandFollowsCycle, RelayFollowsCycle
<1>4. RelayFollowsCycle'
  BY DEF IInv, TypeOK, RelayFollowsCycle
<1>5. NoChargeIntoFullBattery'
  BY DEF IInv, TypeOK, NoChargeIntoFullBattery, EnergyFlow
<1>6. CellSupervision'
  BY DEF IInv, TypeOK, CellSupervision
<1>7. Lockout'
  BY FailureAssumption DEF IInv, TypeOK, Lockout
<1>8. RampStartsLow'
  BY RefAssumption DEF IInv, TypeOK, RampStartsLow
<1> QED
  BY <1>1, <1>2, <1>3, <1>4, <1>5, <1>6, <1>7, <1>8 DEF IInv

\* STARTUP_State::run connects the cells only with their errors unmasked.
LEMMA StartupInv ==
  ASSUME IInv, RunStartup, UNCHANGED cells
  PROVE  IInv'
<1> USE DEF RunStartup, Shutdown, StopCells, ChangeStateAfterWait, StartupOverdue,
           Connected, Off, Stopping, Waiting
<1>1. TypeOK'
  <2>1. FsmType'
    BY DEF IInv, TypeOK, FsmType
  <2>2. NumberType'
    BY DelaysAssumption, RefAssumption DEF IInv, TypeOK, NumberType, Delays
  <2>3. RegisterType'
    BY DEF IInv, TypeOK, RegisterType, Errors, SystemErrors
  <2>4. SwitchType'
    BY DEF IInv, TypeOK, SwitchType
  <2> QED
    BY <2>1, <2>2, <2>3, <2>4 DEF TypeOK, FsmType, NumberType, RegisterType, SwitchType
<1>2. CommandFollowsCycle'
  BY DEF IInv, TypeOK, CommandFollowsCycle
<1>3. EnergyFlow'
  BY DEF IInv, TypeOK, EnergyFlow, CommandFollowsCycle, RelayFollowsCycle
<1>4. RelayFollowsCycle'
  BY DEF IInv, TypeOK, RelayFollowsCycle
<1>5. NoChargeIntoFullBattery'
  BY DEF IInv, TypeOK, NoChargeIntoFullBattery, EnergyFlow
<1>6. CellSupervision'
  BY DEF IInv, TypeOK, CellSupervision
<1>7. Lockout'
  BY FailureAssumption DEF IInv, TypeOK, Lockout
<1>8. RampStartsLow'
  BY RefAssumption DEF IInv, TypeOK, RampStartsLow
<1> QED
  BY <1>1, <1>2, <1>3, <1>4, <1>5, <1>6, <1>7, <1>8 DEF IInv

\* CHARGING_START_State::run keeps the ramp within the range, whatever ends it.
LEMMA ChargingStartInv ==
  ASSUME IInv, RunChargingStart, UNCHANGED cells
  PROVE  IInv'
<1> USE DEF RunChargingStart, Ramp, StopCells, ChangeState, ChangeStateAfterWait,
           Connected, Off, Stopping, Waiting
<1>1. TypeOK'
  <2>1. FsmType'
    BY DEF IInv, TypeOK, FsmType
  <2>2. NumberType'
    BY DelaysAssumption, RefAssumption DEF IInv, TypeOK, NumberType, Delays
  <2>3. RegisterType'
    BY DEF IInv, TypeOK, RegisterType, Errors, SystemErrors
  <2>4. SwitchType'
    BY DEF IInv, TypeOK, SwitchType
  <2> QED
    BY <2>1, <2>2, <2>3, <2>4 DEF TypeOK, FsmType, NumberType, RegisterType, SwitchType
<1>2. CommandFollowsCycle'
  BY DEF IInv, TypeOK, CommandFollowsCycle
<1>3. EnergyFlow'
  BY DEF IInv, TypeOK, EnergyFlow, CommandFollowsCycle, RelayFollowsCycle
<1>4. RelayFollowsCycle'
  BY DEF IInv, TypeOK, RelayFollowsCycle
<1>5. NoChargeIntoFullBattery'
  BY DEF IInv, TypeOK, NoChargeIntoFullBattery, EnergyFlow
<1>6. CellSupervision'
  BY DEF IInv, TypeOK, CellSupervision
<1>7. Lockout'
  BY FailureAssumption DEF IInv, TypeOK, Lockout
<1>8. RampStartsLow'
  BY RefAssumption DEF IInv, TypeOK, RampStartsLow
<1> QED
  BY <1>1, <1>2, <1>3, <1>4, <1>5, <1>6, <1>7, <1>8 DEF IInv

\* SHUTDOWN_State::run isolates the cells; a failure that is counted locks with
\* the error that made it one.
LEMMA ShutdownStateInv ==
  ASSUME IInv, RunShutdown, UNCHANGED cells
  PROVE  IInv'
<1> USE DEF RunShutdown, OpenRelay, ChangeStateAfterWait,
           Connected, Off, Stopping, Waiting
<1>1. TypeOK'
  <2>1. FsmType'
    BY DEF IInv, TypeOK, FsmType
  <2>2. NumberType'
    BY DelaysAssumption, RefAssumption DEF IInv, TypeOK, NumberType, Delays
  <2>3. RegisterType'
    BY DEF IInv, TypeOK, RegisterType, Errors, SystemErrors
  <2>4. SwitchType'
    BY DEF IInv, TypeOK, SwitchType
  <2> QED
    BY <2>1, <2>2, <2>3, <2>4 DEF TypeOK, FsmType, NumberType, RegisterType, SwitchType
<1>2. CommandFollowsCycle'
  BY DEF IInv, TypeOK, CommandFollowsCycle
<1>3. EnergyFlow'
  BY DEF IInv, TypeOK, EnergyFlow, CommandFollowsCycle, RelayFollowsCycle
<1>4. RelayFollowsCycle'
  BY DEF IInv, TypeOK, RelayFollowsCycle
<1>5. NoChargeIntoFullBattery'
  BY DEF IInv, TypeOK, NoChargeIntoFullBattery, EnergyFlow
<1>6. CellSupervision'
  BY DEF IInv, TypeOK, CellSupervision
<1>7. Lockout'
  BY FailureAssumption DEF IInv, TypeOK, Lockout
<1>8. RampStartsLow'
  BY RefAssumption DEF IInv, TypeOK, RampStartsLow
<1> QED
  BY <1>1, <1>2, <1>3, <1>4, <1>5, <1>6, <1>7, <1>8 DEF IInv

\* WAIT_State::run goes to the state that the wait was started for.
LEMMA WaitInv ==
  ASSUME IInv, RunWait, UNCHANGED cells
  PROVE  IInv'
<1> USE DEF RunWait, ChangeState,
           Connected, Off, Stopping, Waiting
<1>1. TypeOK'
  <2>1. FsmType'
    BY DEF IInv, TypeOK, FsmType
  <2>2. NumberType'
    BY DelaysAssumption, RefAssumption DEF IInv, TypeOK, NumberType, Delays
  <2>3. RegisterType'
    BY DEF IInv, TypeOK, RegisterType, Errors, SystemErrors
  <2>4. SwitchType'
    BY DEF IInv, TypeOK, SwitchType
  <2> QED
    BY <2>1, <2>2, <2>3, <2>4 DEF TypeOK, FsmType, NumberType, RegisterType, SwitchType
<1>2. CommandFollowsCycle'
  BY DEF IInv, TypeOK, CommandFollowsCycle
<1>3. EnergyFlow'
  BY DEF IInv, TypeOK, EnergyFlow, CommandFollowsCycle, RelayFollowsCycle
<1>4. RelayFollowsCycle'
  BY DEF IInv, TypeOK, RelayFollowsCycle
<1>5. NoChargeIntoFullBattery'
  BY DEF IInv, TypeOK, NoChargeIntoFullBattery, EnergyFlow
<1>6. CellSupervision'
  BY DEF IInv, TypeOK, CellSupervision
<1>7. Lockout'
  BY FailureAssumption DEF IInv, TypeOK, Lockout
<1>8. RampStartsLow'
  BY RefAssumption DEF IInv, TypeOK, RampStartsLow
<1> QED
  BY <1>1, <1>2, <1>3, <1>4, <1>5, <1>6, <1>7, <1>8 DEF IInv

\* STANDBY_State::startup launches without an error, or clears the errors of a
\* failure that was not the last one.
LEMMA StandbyStartupInv ==
  ASSUME IInv, StandbyStartup, UNCHANGED cells
  PROVE  IInv'
<1> USE DEF StandbyStartup, MayRelaunch, ChangeState, ChangeStateAfterWait,
           Connected, Off, Stopping, Waiting
<1>1. TypeOK'
  <2>1. FsmType'
    BY DEF IInv, TypeOK, FsmType
  <2>2. NumberType'
    BY DelaysAssumption, RefAssumption DEF IInv, TypeOK, NumberType, Delays
  <2>3. RegisterType'
    BY DEF IInv, TypeOK, RegisterType, Errors, SystemErrors
  <2>4. SwitchType'
    BY DEF IInv, TypeOK, SwitchType
  <2> QED
    BY <2>1, <2>2, <2>3, <2>4 DEF TypeOK, FsmType, NumberType, RegisterType, SwitchType
<1>2. CommandFollowsCycle'
  BY DEF IInv, TypeOK, CommandFollowsCycle
<1>3. EnergyFlow'
  BY DEF IInv, TypeOK, EnergyFlow, CommandFollowsCycle, RelayFollowsCycle
<1>4. RelayFollowsCycle'
  BY DEF IInv, TypeOK, RelayFollowsCycle
<1>5. NoChargeIntoFullBattery'
  BY DEF IInv, TypeOK, NoChargeIntoFullBattery, EnergyFlow
<1>6. CellSupervision'
  BY DEF IInv, TypeOK, CellSupervision
<1>7. Lockout'
  BY FailureAssumption DEF IInv, TypeOK, Lockout
<1>8. RampStartsLow'
  BY RefAssumption DEF IInv, TypeOK, RampStartsLow
<1> QED
  BY <1>1, <1>2, <1>3, <1>4, <1>5, <1>6, <1>7, <1>8 DEF IInv

\* READY_State::startCharging starts the PWM on connected, running cells.
LEMMA ReadyStartChargingInv ==
  ASSUME IInv, ReadyStartCharging, UNCHANGED cells
  PROVE  IInv'
<1> USE DEF ReadyStartCharging, ChangeState,
           Connected, Off, Stopping, Waiting
<1>1. TypeOK'
  <2>1. FsmType'
    BY DEF IInv, TypeOK, FsmType
  <2>2. NumberType'
    BY DelaysAssumption, RefAssumption DEF IInv, TypeOK, NumberType, Delays
  <2>3. RegisterType'
    BY DEF IInv, TypeOK, RegisterType, Errors, SystemErrors
  <2>4. SwitchType'
    BY DEF IInv, TypeOK, SwitchType
  <2> QED
    BY <2>1, <2>2, <2>3, <2>4 DEF TypeOK, FsmType, NumberType, RegisterType, SwitchType
<1>2. CommandFollowsCycle'
  BY DEF IInv, TypeOK, CommandFollowsCycle
<1>3. EnergyFlow'
  BY DEF IInv, TypeOK, EnergyFlow, CommandFollowsCycle, RelayFollowsCycle
<1>4. RelayFollowsCycle'
  BY DEF IInv, TypeOK, RelayFollowsCycle
<1>5. NoChargeIntoFullBattery'
  BY DEF IInv, TypeOK, NoChargeIntoFullBattery, EnergyFlow
<1>6. CellSupervision'
  BY DEF IInv, TypeOK, CellSupervision
<1>7. Lockout'
  BY FailureAssumption DEF IInv, TypeOK, Lockout
<1>8. RampStartsLow'
  BY RefAssumption DEF IInv, TypeOK, RampStartsLow
<1> QED
  BY <1>1, <1>2, <1>3, <1>4, <1>5, <1>6, <1>7, <1>8 DEF IInv

\* The inductive step.
THEOREM StepInv == IInv /\ [Next]_vars => IInv'
<1> SUFFICES ASSUME IInv, [Next]_vars PROVE IInv'
  OBVIOUS
<1>1. CASE PwmEvent
  <2>1. CASE RunSupervised /\ UNCHANGED cells
    BY <2>1, ShutdownInv DEF RunSupervised, IInv, TypeOK
  <2> QED
    BY <1>1, <2>1, PowerupInv, StartupInv, ChargingStartInv, ShutdownStateInv, WaitInv
    DEF PwmEvent
<1>2. CASE Measurement
  <2>1. ASSUME NEW over, NEW level, VoltageOutSample(over, level) PROVE IInv'
    <3> USE <2>1 DEF VoltageOutSample
    <3>1. errors \subseteq errors' /\ errors' \subseteq Errors
      BY WithErrorsAdds
    <3>2. CASE level = "high"
      BY <3>1, <3>2, ShutdownInv
    <3>3. CASE level # "high" /\ UNCHANGED batteryCharged
      BY <3>1, <3>3, ErrorsInv
    <3>4. CASE level # "high" /\ batteryCharged' = FALSE
      <4> USE <3>1, <3>4
      <4>1. TypeOK'
        <5>1. FsmType'
          BY DEF IInv, TypeOK, FsmType
        <5>2. NumberType'
          BY DelaysAssumption, RefAssumption DEF IInv, TypeOK, NumberType, Delays
        <5>3. RegisterType'
          BY DEF IInv, TypeOK, RegisterType, Errors, SystemErrors
        <5>4. SwitchType'
          BY DEF IInv, TypeOK, SwitchType
        <5> QED
          BY <5>1, <5>2, <5>3, <5>4 DEF TypeOK, FsmType, NumberType, RegisterType, SwitchType
      <4>2. Lockout'
        BY DEF IInv, TypeOK, Lockout, Waiting
      <4> QED
        BY <4>1, <4>2
        DEF IInv, CommandFollowsCycle, EnergyFlow, RelayFollowsCycle,
            NoChargeIntoFullBattery, CellSupervision, RampStartsLow,
            Connected, Off, Stopping, Waiting
    <3> QED
      BY <3>2, <3>3, <3>4 DEF IInv, TypeOK
  <2>2. ASSUME NEW e, ProtectionSample(e) PROVE IInv'
    BY <2>2, WithErrorsAdds, ErrorsInv DEF ProtectionSample
  <2>3. ASSUME NEW F, CheckErrors(F) PROVE IInv'
    BY <2>3, WithErrorsAdds, ErrorsInv DEF CheckErrors
  <2>4. CASE WatchdogTimeout
    BY <2>4, WithErrorsAdds, ErrorsInv DEF WatchdogTimeout
  <2> QED
    BY <1>2, <2>1, <2>2, <2>3, <2>4 DEF Measurement
<1>3. CASE Command
  <2>1. ASSUME NEW level, RpdoCharge(level) PROVE IInv'
    <3> USE <2>1 DEF RpdoCharge
    <3>1. CASE batteryCharged' = TRUE /\ Shutdown
      BY <3>1, ShutdownInv DEF IInv, TypeOK
    <3>2. CASE level = "low"
      <4> USE <3>2
      <4>1. TypeOK'
        <5>1. FsmType'
          BY DEF IInv, TypeOK, FsmType
        <5>2. NumberType'
          BY DelaysAssumption, RefAssumption DEF IInv, TypeOK, NumberType, Delays
        <5>3. RegisterType'
          BY DEF IInv, TypeOK, RegisterType, Errors, SystemErrors
        <5>4. SwitchType'
          BY DEF IInv, TypeOK, SwitchType
        <5> QED
          BY <5>1, <5>2, <5>3, <5>4 DEF TypeOK, FsmType, NumberType, RegisterType, SwitchType
      <4> QED
        BY <4>1
      DEF IInv, CommandFollowsCycle, EnergyFlow, RelayFollowsCycle,
          NoChargeIntoFullBattery, CellSupervision, Lockout, RampStartsLow,
          Connected, Off, Stopping, Waiting
    <3> QED
      BY <3>1, <3>2
  <2>2. CASE RpdoFatal
    BY <2>2, WithErrorsAdds, ShutdownInv DEF RpdoFatal, IInv, TypeOK
  <2>3. CASE RpdoChargeDisabled
    BY <2>3, ShutdownInv DEF RpdoChargeDisabled, IInv, TypeOK
  <2>4. CASE RpdoChargeEnabled \/ SdoStartup
    BY <2>4, StandbyStartupInv, ReadyStartChargingInv DEF RpdoChargeEnabled, SdoStartup
  <2>5. CASE SdoResetFaults
    <3> USE <2>5 DEF SdoResetFaults
    <3>1. TypeOK'
      <4>1. FsmType'
        BY DEF IInv, TypeOK, FsmType
      <4>2. NumberType'
        BY DelaysAssumption, RefAssumption DEF IInv, TypeOK, NumberType, Delays
      <4>3. RegisterType'
        BY DEF IInv, TypeOK, RegisterType, Errors, SystemErrors
      <4>4. SwitchType'
        BY DEF IInv, TypeOK, SwitchType
      <4> QED
        BY <4>1, <4>2, <4>3, <4>4 DEF TypeOK, FsmType, NumberType, RegisterType, SwitchType
    <3> QED
      BY <3>1, FailureAssumption
    DEF IInv, CommandFollowsCycle, EnergyFlow, RelayFollowsCycle,
        NoChargeIntoFullBattery, CellSupervision, Lockout, RampStartsLow,
        Connected, Off, Stopping, Waiting
  <2>6. ASSUME NEW closed \in BOOLEAN, SdoRelay(closed) PROVE IInv'
    BY <2>6
    DEF SdoRelay, IInv, TypeOK, CommandFollowsCycle, EnergyFlow, RelayFollowsCycle,
        NoChargeIntoFullBattery, CellSupervision, Lockout, RampStartsLow,
        Connected, Off, Stopping, Waiting
  <2>7. CASE ResetDevice
    <3> USE <2>7 DEF ResetDevice, OpenRelay
    <3>1. TypeOK'
      <4>1. FsmType'
        BY DEF IInv, TypeOK, FsmType
      <4>2. NumberType'
        BY DelaysAssumption, RefAssumption DEF IInv, TypeOK, NumberType, Delays
      <4>3. RegisterType'
        BY DEF IInv, TypeOK, RegisterType, Errors, SystemErrors
      <4>4. SwitchType'
        BY DEF IInv, TypeOK, SwitchType
      <4> QED
        BY <4>1, <4>2, <4>3, <4>4 DEF TypeOK, FsmType, NumberType, RegisterType, SwitchType
    <3>2. CellSupervision'
      BY DEF CellSupervision, Connected, Off, Stopping, Waiting
    <3>3. Lockout' /\ RampStartsLow'
      BY FailureAssumption, RefAssumption DEF Lockout, RampStartsLow
    <3> QED
      BY <3>1, <3>2, <3>3
      DEF IInv, CommandFollowsCycle, EnergyFlow, RelayFollowsCycle,
          NoChargeIntoFullBattery, Connected, Waiting
  <2> QED
    BY <1>3, <2>1, <2>2, <2>3, <2>4, <2>5, <2>6, <2>7 DEF Command
<1>4. CASE Tick
  BY <1>4, DelaysAssumption
  DEF Tick, IInv, TypeOK, CommandFollowsCycle, EnergyFlow, RelayFollowsCycle,
      NoChargeIntoFullBattery, CellSupervision, Lockout, RampStartsLow,
      Connected, Off, Stopping, Waiting
<1>5. CASE CellsReport \/ UNCHANGED vars
  BY <1>5
  DEF CellsReport, vars, IInv, TypeOK, CommandFollowsCycle, EnergyFlow, RelayFollowsCycle,
      NoChargeIntoFullBattery, CellSupervision, Lockout, RampStartsLow,
      Connected, Off, Stopping, Waiting
<1> QED
  BY <1>1, <1>2, <1>3, <1>4, <1>5 DEF Next

\* In every behaviour of the converter the inductive invariant holds.
THEOREM InvHolds == Spec => []IInv
<1> QED
  BY InitInv, StepInv, PTL DEF Spec

\* The variables keep their types and no wait is without a state to go to.
THEOREM TypeCorrect == Spec => []TypeOK
  BY InvHolds, PTL DEF IInv

\* The PWM runs only while charging from connected cells that were told to run.
THEOREM EnergyFlowHolds == Spec => []EnergyFlow
  BY InvHolds, PTL DEF IInv

\* The relay follows the cycle unless the service tool moves it.
THEOREM RelayFollowsCycleHolds == Spec => []RelayFollowsCycle
  BY InvHolds, PTL DEF IInv

\* A charged battery is not charged.
THEOREM NoChargeIntoFullBatteryHolds == Spec => []NoChargeIntoFullBattery
  BY InvHolds, PTL DEF IInv

\* Connected cells are supervised, stopped cells are not.
THEOREM CellSupervisionHolds == Spec => []CellSupervision
  BY InvHolds, PTL DEF IInv

\* MAX_FAILURE_COUNT failed launches lock the converter.
THEOREM LockoutHolds == Spec => []Lockout
  BY InvHolds, PTL DEF IInv

\* Every ramp of the charging current starts at the minimum.
THEOREM RampStartsLowHolds == Spec => []RampStartsLow
  BY InvHolds, PTL DEF IInv

-----------------------------------------------------------------------------
(* The masking of the fuel cell errors.                                    *)

\* Only an error that is not masked is registered.
LEMMA OnlyEnabledErrors ==
  ASSUME IInv, NEW E, errors' = WithErrors(E), (errors' \ errors) \cap FcErrors # {}
  PROVE  state = "STARTUP" \/ Connected
<1>1. enabled \cap FcErrors # {}
  BY DEF WithErrors
<1>2. ~(Off \/ Stopping)
  BY <1>1 DEF IInv, CellSupervision
<1> QED
  BY <1>2 DEF IInv, TypeOK, Connected, Off, Stopping, Waiting

\* The fuel cell errors are registered from the launch to the stop and at no
\* other time.
THEOREM NoCellErrorAfterStopHolds == Spec => NoCellErrorAfterStop
<1>1. IInv /\ [Next]_vars =>
        [(errors' \ errors) \cap FcErrors # {} => state = "STARTUP" \/ Connected]_vars
  <2> SUFFICES ASSUME IInv, Next, (errors' \ errors) \cap FcErrors # {}
               PROVE  state = "STARTUP" \/ Connected
    OBVIOUS
  <2>1. CASE PwmEvent
    BY <2>1
    DEF PwmEvent, RunPowerup, RunStartup, RunSupervised, RunChargingStart,
        RunShutdown, RunWait
  <2>2. CASE Measurement
    BY <2>2, OnlyEnabledErrors
    DEF Measurement, VoltageOutSample, ProtectionSample, CheckErrors, WatchdogTimeout
  <2>3. CASE Command
    <3>1. CASE RpdoFatal
      BY <3>1, OnlyEnabledErrors DEF RpdoFatal
    <3>2. CASE ResetDevice
      BY <3>2, ErrorsAssumption DEF ResetDevice, SystemErrors
    <3> QED
      BY <2>3, <3>1, <3>2
      DEF Command, RpdoCharge, RpdoChargeEnabled, StandbyStartup, ReadyStartCharging,
          RpdoChargeDisabled, SdoStartup, SdoResetFaults, SdoRelay
  <2> QED
    BY <2>1, <2>2, <2>3 DEF Next, Tick, CellsReport
<1> QED
  BY <1>1, InvHolds, PTL DEF Spec, NoCellErrorAfterStop

-----------------------------------------------------------------------------
(* The refinement of the cycle.                                            *)

\* A shutdown is a step of the cycle, or none if there is nothing to stop.
LEMMA ShutdownRefines ==
  ASSUME IInv, Shutdown, UNCHANGED contact
  PROVE  Cycle!Stop \/ UNCHANGED Cycle!vars
<1> USE DEF Shutdown, StopCells, StopDrive, ChangeStateAfterWait,
           IInv, TypeOK, EnergyFlow, Phase, Connected, Off, Stopping, Waiting
<1>1. CASE state \in {"STARTUP", "READY", "CHARGING_START", "CHARGING"}
  BY <1>1 DEF Cycle!Stop
<1>2. CASE state \notin {"STARTUP", "READY", "CHARGING_START", "CHARGING"}
  BY <1>2 DEF Cycle!vars
<1> QED
  BY <1>1, <1>2

\* A launch, or the clearing of the errors before one.
LEMMA StandbyStartupRefines ==
  ASSUME IInv, StandbyStartup
  PROVE  Cycle!Launch \/ UNCHANGED Cycle!vars
  BY DEF StandbyStartup, ChangeState, ChangeStateAfterWait, Phase, Off, Stopping, Waiting,
         Cycle!Launch, Cycle!vars

\* Every step of the state machine is a step of the cycle or stutters.
LEMMA StepRefines == IInv /\ [Next]_vars => [Cycle!Next]_(Cycle!vars)
<1> SUFFICES ASSUME IInv, [Next]_vars PROVE Cycle!Next \/ UNCHANGED Cycle!vars
  OBVIOUS
<1> USE DEF Phase, Off, Stopping, Waiting
<1>1. CASE PwmEvent
  <2>1. CASE RunPowerup
    BY <2>1 DEF RunPowerup, ChangeStateAfterWait, Cycle!vars
  <2>2. CASE RunStartup
    <3> USE <2>2 DEF RunStartup
    <3>1. CASE errors' # {}
      BY <3>1 DEF Shutdown, StopCells, ChangeStateAfterWait, IInv, TypeOK, EnergyFlow,
                  Cycle!Next, Cycle!Stop
    <3>2. CASE errors' = {} /\ cellsReady
      BY <3>2 DEF ChangeStateAfterWait, Cycle!Next, Cycle!Connect
    <3>3. CASE errors' = {} /\ ~cellsReady
      BY <3>3 DEF IInv, TypeOK, Cycle!vars
    <3> QED
      BY <3>1, <3>2, <3>3 DEF IInv, TypeOK
  <2>3. CASE RunSupervised
    BY <2>3, ShutdownRefines DEF RunSupervised, Cycle!Next
  <2>4. CASE RunChargingStart
    <3> USE <2>4 DEF RunChargingStart
    <3>1. CASE errors # {}
      BY <3>1 DEF StopCells, ChangeStateAfterWait, Cycle!Next, Cycle!Stop
    <3>2. CASE errors = {}
      BY <3>2 DEF ChangeState, Cycle!vars
    <3> QED
      BY <3>1, <3>2
  <2>5. CASE RunShutdown
    BY <2>5 DEF RunShutdown, OpenRelay, ChangeStateAfterWait, Cycle!Next, Cycle!Isolate
  <2>6. CASE RunWait
    BY <2>6 DEF RunWait, ChangeState, IInv, TypeOK, EnergyFlow, Cycle!vars
  <2> QED
    BY <1>1, <2>1, <2>2, <2>3, <2>4, <2>5, <2>6 DEF PwmEvent
<1>2. CASE Measurement
  <2>1. ASSUME NEW over, NEW level, VoltageOutSample(over, level)
        PROVE  Cycle!Next \/ UNCHANGED Cycle!vars
    BY <2>1, ShutdownRefines DEF VoltageOutSample, Cycle!Next, Cycle!vars
  <2> QED
    BY <1>2, <2>1
    DEF Measurement, ProtectionSample, CheckErrors, WatchdogTimeout, Cycle!vars
<1>3. CASE Command
  <2>1. ASSUME NEW level, RpdoCharge(level)
        PROVE  Cycle!Next \/ UNCHANGED Cycle!vars
    BY <2>1, ShutdownRefines DEF RpdoCharge, Cycle!Next, Cycle!vars
  <2>2. CASE RpdoFatal \/ RpdoChargeDisabled
    BY <2>2, ShutdownRefines DEF RpdoFatal, RpdoChargeDisabled, Cycle!Next
  <2>3. CASE StandbyStartup
    BY <2>3, StandbyStartupRefines DEF Cycle!Next
  <2>4. CASE ReadyStartCharging
    BY <2>4 DEF ReadyStartCharging, ChangeState, Cycle!Next, Cycle!Charge
  <2>5. CASE \E closed \in BOOLEAN : SdoRelay(closed)
    BY <2>5 DEF SdoRelay, Cycle!Next, Cycle!MoveRelay
  <2>6. CASE ResetDevice
    BY <2>6 DEF ResetDevice, OpenRelay, Cycle!Next, Cycle!Reset
  <2>7. CASE SdoResetFaults
    BY <2>7 DEF SdoResetFaults, Cycle!vars
  <2> QED
    BY <1>3, <2>1, <2>2, <2>3, <2>4, <2>5, <2>6, <2>7
    DEF Command, RpdoChargeEnabled, SdoStartup
<1>4. CASE Tick \/ CellsReport \/ UNCHANGED vars
  BY <1>4 DEF Tick, CellsReport, vars, Cycle!vars
<1> QED
  BY <1>1, <1>2, <1>3, <1>4 DEF Next

\* The state machine implements the safety part of the cycle.
THEOREM CycleSafetyHolds == Spec => CycleSafety
<1>1. Init => Cycle!Init
  BY DEF Init, Cycle!Init, Phase, Off, Stopping, Waiting
<1> QED
  BY <1>1, StepRefines, InvHolds, PTL DEF Spec, CycleSafety, Cycle!Safety
=============================================================================
