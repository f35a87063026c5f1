---------------------------- MODULE ConverterFsm ----------------------------
(***************************************************************************)
(* The finite state machine of the fuel cell converter (fuelcell/fsm), the *)
(* power stage it drives (fuelcell/converter), the error register it reads *)
(* (sys/syslog) and everything that calls it: the PWM event interrupt, the *)
(* ADC interrupts, the CAN commands of the battery management system (BMS) *)
(* and of a service tool (ucanopen), the clock tasks and the watchdog.     *)
(*                                                                         *)
(* A handler is one step: the step is the whole C++ function with every    *)
(* call it makes.  Interrupt handlers do run to completion on the C28x     *)
(* unless they open a critical section, and handlers called from the main  *)
(* loop can be preempted; ConverterPreempt splits those.                   *)
(***************************************************************************)
EXTENDS Naturals

CONSTANTS
  FcErrors,          \* fuel cell errors, masked by Controller::disableErrors
  ProtectionErrors,  \* errors raised by measurements: OVP_IN, OVP_OUT, ...
  POWERUP_TO_STANDBY_DELAY,
  ERROR_ENABLING_DELAY,
  FUELCELL_STARTUP_MAX_DURATION,
  STARTUP_TO_READY_DELAY,
  DELAY_BEFORE_SHUTDOWN,
  DELAY_AFTER_SHUTDOWN,
  RELAUNCH_DELAY,
  MAX_FAILURE_COUNT,
  RefMin,            \* config().currentInMin, in steps of the current ramp
  RefMax,            \* config().currentInMax, in steps of the current ramp
  MaxElapsed         \* bound: the time in a state is counted up to here

Delays == {POWERUP_TO_STANDBY_DELAY, STARTUP_TO_READY_DELAY,
           DELAY_BEFORE_SHUTDOWN, DELAY_AFTER_SHUTDOWN, RELAUNCH_DELAY}

SystemErrors == {"RS_CONNECTION_LOST", "CAN_CONNECTION_LOST",
                 "BMS_FATAL_ERROR", "FUELCELL_STARTUP_FAILED"}

Errors == FcErrors \cup ProtectionErrors \cup SystemErrors

ASSUME ErrorsAssumption ==
  FcErrors \cap (ProtectionErrors \cup SystemErrors) = {}

ASSUME DelaysAssumption ==
  /\ MaxElapsed \in Nat
  /\ \A d \in Delays \cup {ERROR_ENABLING_DELAY, FUELCELL_STARTUP_MAX_DURATION} :
       d \in Nat /\ d < MaxElapsed

ASSUME FailureAssumption == MAX_FAILURE_COUNT \in Nat \ {0}

ASSUME RefAssumption == RefMin \in Nat /\ RefMax \in Nat /\ 0 < RefMin /\ RefMin < RefMax

VARIABLES
  state,          \* Converter::m_state
  nextState,      \* WAIT_State::m_nextState
  waitTime,       \* WAIT_State::m_waitTime
  elapsed,        \* now() - IState::s_timestamp (= now() - m_waitStart in WAIT)
  errors,         \* Syslog: the error register
  enabled,        \* Syslog: enabledErrorMask
  batteryCharged, \* Syslog: the warning BATTERY_CHARGED
  failureCount,   \* failed launches in a row
  relay,          \* REL_PIN: the fuel cells are connected to the converter
  manualRelay,    \* history: the last relay command came from the service tool
  pwm,            \* Pwm::m_state = PWM_ON
  ref,            \* CHARGING_START_State::m_currentInRef
  cellCommand,    \* the last command signalled to the fuel cells since boot
  cellsReady,     \* all fuel cells report running and the voltage is steady
  linkOk          \* Controller::isConnectionOk()

fsm     == <<state, nextState, waitTime, elapsed>>
syslog  == <<errors, enabled, batteryCharged>>
contact == <<relay, manualRelay>>
drive   == <<pwm, ref>>
cells   == <<cellsReady, linkOk>>
vars    == <<fsm, syslog, failureCount, contact, drive, cellCommand, cells>>

States == {"POWERUP", "STANDBY", "STARTUP", "READY", "CHARGING_START",
           "CHARGING", "SHUTDOWN", "WAIT"}

\* The variables keep their types; a state never waits for a state that is not
\* there: WAIT_State::run would take a null next state for a shutdown.
TypeOK ==
  /\ state \in States
  /\ nextState \in {"STANDBY", "READY", "SHUTDOWN", "NULL"}
  /\ state = "WAIT" => nextState # "NULL"
  /\ waitTime \in Delays \cup {0}
  /\ elapsed \in 0 .. MaxElapsed
  /\ errors \in SUBSET Errors
  /\ enabled \in SUBSET Errors
  /\ batteryCharged \in BOOLEAN
  /\ failureCount \in Nat
  /\ relay \in BOOLEAN
  /\ manualRelay \in BOOLEAN
  /\ pwm \in BOOLEAN
  /\ ref \in 0 .. RefMax
  /\ cellCommand \in {"none", "start", "stop"}
  /\ cellsReady \in BOOLEAN
  /\ linkOk \in BOOLEAN

\* main() up to the main loop: the fuel cell errors are masked and the link to
\* the fuel cells is presumed lost until isConnectionOk() says otherwise.
Init ==
  /\ state = "POWERUP" /\ nextState = "NULL" /\ waitTime = 0 /\ elapsed = 0
  /\ errors = {"RS_CONNECTION_LOST"}
  /\ enabled = Errors \ FcErrors
  /\ batteryCharged = FALSE
  /\ failureCount = 0
  /\ relay = FALSE /\ manualRelay = FALSE
  /\ pwm = FALSE /\ ref = 0
  /\ cellCommand = "none"
  /\ cellsReady \in BOOLEAN /\ linkOk = FALSE

-----------------------------------------------------------------------------
(* The calls the handlers are made of.                                     *)

\* Mutant: the mask is not applied.
WithErrors_Unmasked(E) == errors \cup E

\* Syslog::setError: a masked error leaves the register alone.
WithErrors(E) == errors \cup (E \cap enabled)

ChangeState(s) ==
  /\ state' = s /\ elapsed' = 0
  /\ UNCHANGED <<nextState, waitTime>>

\* Mutant: the state to go to after the wait is not recorded.
ChangeStateAfterWait_NextLost(next, delay) ==
  /\ state' = "WAIT" /\ waitTime' = delay
  /\ elapsed' = 0 /\ UNCHANGED nextState

ChangeStateAfterWait(next, delay) ==
  /\ state' = "WAIT" /\ nextState' = next /\ waitTime' = delay
  /\ elapsed' = 0

\* Mutants: the errors stay unmasked; the command is not signalled.
StopCells_Unmasked == cellCommand' = "stop" /\ UNCHANGED enabled
StopCells_NoSignal == enabled' = enabled \ FcErrors /\ UNCHANGED cellCommand

\* Controller::stop: mask the fuel cell errors and signal the stop command.
StopCells ==
  /\ enabled' = enabled \ FcErrors
  /\ cellCommand' = "stop"

\* Mutants: the PWM goes on; the ramp is left where it was.
StopDrive_PwmKept == UNCHANGED drive
StopDrive_RefKept == pwm' = FALSE /\ UNCHANGED ref

\* Converter::stop, with CHARGING_START_State::resetState.
StopDrive ==
  /\ pwm' = FALSE
  /\ ref' = IF state = "CHARGING_START" THEN 0 ELSE ref

\* Mutant: the relay is left alone.
OpenRelay_Missing == UNCHANGED contact

\* Converter::turnRelayOff
OpenRelay == relay' = FALSE /\ manualRelay' = FALSE

\* IState::shutdown of every state, and emergencyShutdown, which forwards to it.
\* The caller says what becomes of the error register and the relay.
Shutdown ==
  \/ /\ state \in {"STARTUP", "READY"}
     /\ StopCells
     /\ ChangeStateAfterWait("SHUTDOWN", DELAY_BEFORE_SHUTDOWN)
     /\ UNCHANGED drive
  \/ /\ state \in {"CHARGING_START", "CHARGING"}
     /\ StopDrive
     /\ StopCells
     /\ ChangeStateAfterWait("SHUTDOWN", DELAY_BEFORE_SHUTDOWN)
  \/ /\ state = "WAIT"
     /\ StopDrive
     /\ UNCHANGED <<fsm, enabled, cellCommand>>
  \/ /\ state \in {"POWERUP", "STANDBY", "SHUTDOWN"}
     /\ UNCHANGED <<fsm, enabled, cellCommand, drive>>

\* Mutant: one relaunch too many.
MayRelaunch_OffByOne == failureCount <= MAX_FAILURE_COUNT

MayRelaunch == failureCount < MAX_FAILURE_COUNT

\* STANDBY_State::startup: launch the fuel cells, or after a failure clear the
\* error register and wait before a further launch is accepted.
StandbyStartup ==
  /\ state = "STANDBY" /\ ~batteryCharged
  /\ \/ /\ errors = {}
        /\ cellCommand' = "start"
        /\ ChangeState("STARTUP")
        /\ UNCHANGED <<errors, batteryCharged>>
     \/ /\ errors # {} /\ MayRelaunch
        /\ errors' = {} /\ batteryCharged' = FALSE
        /\ ChangeStateAfterWait("STANDBY", RELAUNCH_DELAY)
        /\ UNCHANGED cellCommand
  /\ UNCHANGED <<enabled, failureCount, contact, drive>>

\* READY_State::startCharging; Converter::start switches an idle PWM on.
ReadyStartCharging ==
  /\ state = "READY" /\ errors = {} /\ ~batteryCharged
  /\ pwm' = TRUE
  /\ ChangeState("CHARGING_START")
  /\ UNCHANGED <<syslog, failureCount, contact, ref, cellCommand>>

-----------------------------------------------------------------------------
(* IState::run, called by the PWM event interrupt in every PWM period.     *)

\* Mutant: the state is left only without errors.
RunPowerup_NoErrors ==
  /\ state = "POWERUP" /\ linkOk /\ errors = {}
  /\ ChangeStateAfterWait("STANDBY", POWERUP_TO_STANDBY_DELAY)
  /\ UNCHANGED <<syslog, failureCount, contact, drive, cellCommand>>

RunPowerup ==
  /\ state = "POWERUP" /\ linkOk
  /\ errors' = errors \ {"RS_CONNECTION_LOST"}
  /\ ChangeStateAfterWait("STANDBY", POWERUP_TO_STANDBY_DELAY)
  /\ UNCHANGED <<enabled, batteryCharged, failureCount, contact, drive, cellCommand>>

\* Mutant: a launch may take for ever.
StartupOverdue_Never == FALSE

StartupOverdue == ~cellsReady /\ elapsed > FUELCELL_STARTUP_MAX_DURATION

\* STARTUP_State::run closes the relay before it looks at the error register.
RunStartup ==
  LET unmasked == IF cellsReady \/ elapsed > ERROR_ENABLING_DELAY
                  THEN enabled \cup FcErrors ELSE enabled
      failed == IF StartupOverdue THEN {"FUELCELL_STARTUP_FAILED"} ELSE {}
  IN /\ state = "STARTUP"
     /\ errors' = errors \cup (failed \cap unmasked)
     /\ failureCount' = IF cellsReady THEN 0 ELSE failureCount
     /\ relay' = (relay \/ cellsReady)
     /\ manualRelay' = (manualRelay /\ ~cellsReady)
     /\ \/ errors' # {} /\ Shutdown
        \/ /\ errors' = {} /\ cellsReady
           /\ enabled' = unmasked
           /\ ChangeStateAfterWait("READY", STARTUP_TO_READY_DELAY)
           /\ UNCHANGED <<drive, cellCommand>>
        \/ /\ errors' = {} /\ ~cellsReady
           /\ enabled' = unmasked
           /\ UNCHANGED <<fsm, drive, cellCommand>>
     /\ UNCHANGED batteryCharged

\* Mutant: READY_State::run does not look at the errors.
RunSupervised_ReadyBlind ==
  /\ state = "CHARGING" /\ errors # {}
  /\ Shutdown
  /\ UNCHANGED <<errors, batteryCharged, failureCount, contact>>

\* READY_State::run and CHARGING_State::run.
RunSupervised ==
  /\ state \in {"READY", "CHARGING"} /\ errors # {}
  /\ Shutdown
  /\ UNCHANGED <<errors, batteryCharged, failureCount, contact>>

\* One step of the current ramp, clamped to the configured range.
Ramp(r) == IF r + 1 < RefMin THEN RefMin ELSE IF r + 1 > RefMax THEN RefMax ELSE r + 1

\* CHARGING_START_State::run: after a shutdown the ramp still makes its step,
\* from the reference the shutdown has just reset.
RunChargingStart ==
  /\ state = "CHARGING_START"
  /\ \/ /\ errors # {}
        /\ pwm' = FALSE /\ ref' = Ramp(0)
        /\ StopCells
        /\ ChangeStateAfterWait("SHUTDOWN", DELAY_BEFORE_SHUTDOWN)
     \/ /\ errors = {} /\ Ramp(ref) < RefMax
        /\ ref' = Ramp(ref)
        /\ UNCHANGED <<fsm, pwm, enabled, cellCommand>>
     \/ /\ errors = {} /\ Ramp(ref) >= RefMax
        /\ ref' = 0
        /\ ChangeState("CHARGING")
        /\ UNCHANGED <<pwm, enabled, cellCommand>>
  /\ UNCHANGED <<errors, batteryCharged, failureCount, contact>>

RunShutdown ==
  /\ state = "SHUTDOWN"
  /\ OpenRelay
  /\ failureCount' = IF errors # {} THEN failureCount + 1 ELSE failureCount
  /\ ChangeStateAfterWait("STANDBY", DELAY_AFTER_SHUTDOWN)
  /\ UNCHANGED <<syslog, drive, cellCommand>>

RunWait ==
  /\ state = "WAIT"
  /\ IF elapsed > waitTime THEN ChangeState(nextState) ELSE UNCHANGED fsm
  /\ pwm' = (pwm /\ errors = {})
  /\ UNCHANGED <<syslog, failureCount, contact, ref, cellCommand>>

\* Converter::onPwmEventInterrupt
PwmEvent ==
  /\ \/ RunPowerup \/ RunStartup \/ RunSupervised
     \/ RunChargingStart \/ RunShutdown \/ RunWait
  /\ UNCHANGED cells

-----------------------------------------------------------------------------
(* Measurements: the ADC interrupts and the temperature task.              *)

\* Converter::onAdcVoltageOutInterrupt: the raw sample trips the protection,
\* the filtered voltage tells a charged battery.
VoltageOutSample(over, level) ==
  /\ over \in SUBSET (ProtectionErrors \cap {"OVP_OUT"})
  /\ errors' = WithErrors(over)
  /\ \/ level = "high" /\ batteryCharged' = TRUE /\ Shutdown
     \/ /\ level # "high"
        /\ batteryCharged' = (batteryCharged /\ level # "low")
        /\ UNCHANGED <<fsm, enabled, drive, cellCommand>>
  /\ UNCHANGED <<failureCount, contact, cells>>

\* onAdcVoltageIn, onAdcCurrentIn (first and second) and
\* processTemperatureMeasurements only raise their error.
ProtectionSample(e) ==
  /\ errors' = WithErrors({e})
  /\ UNCHANGED <<fsm, enabled, batteryCharged, failureCount, contact, drive,
                 cellCommand, cells>>

\* Controller::checkErrors, a clock task: F is the set of fuel cell errors whose
\* condition has lasted longer than ERROR_PROPAGATION_DELAY.
CheckErrors(F) ==
  /\ errors' = WithErrors(F \cup IF linkOk THEN {} ELSE {"RS_CONNECTION_LOST"})
  /\ UNCHANGED <<fsm, enabled, batteryCharged, failureCount, contact, drive,
                 cellCommand, cells>>

\* taskWatchdogTimeout: no BMS command within the watchdog period.
WatchdogTimeout ==
  /\ errors' = WithErrors({"CAN_CONNECTION_LOST"})
  /\ UNCHANGED <<fsm, enabled, batteryCharged, failureCount, contact, drive,
                 cellCommand, cells>>

-----------------------------------------------------------------------------
(* CAN commands, served by the main loop.                                  *)

\* Mutant: the warning does not stop the charge.
RpdoCharge_NoShutdown(level) ==
  /\ batteryCharged' = (level = "high")
  /\ UNCHANGED <<fsm, errors, enabled, failureCount, contact, drive, cellCommand, cells>>

\* RpdoService::_respondToProcessedRpdo1: the state of charge.
RpdoCharge(level) ==
  /\ \/ level = "high" /\ batteryCharged' = TRUE /\ Shutdown
     \/ /\ level = "low" /\ batteryCharged' = FALSE
        /\ UNCHANGED <<fsm, enabled, drive, cellCommand>>
  /\ UNCHANGED <<errors, failureCount, contact, cells>>

\* _respondToProcessedRpdo2 and _respondToProcessedRpdo3 with the fatal bit set.
RpdoFatal ==
  /\ Shutdown
  /\ errors' = WithErrors({"BMS_FATAL_ERROR"})
  /\ UNCHANGED <<batteryCharged, failureCount, contact, cells>>

\* The same with chargeEn set: startCharging, which in STANDBY is startup.
RpdoChargeEnabled ==
  /\ StandbyStartup \/ ReadyStartCharging
  /\ UNCHANGED cells

\* The same with chargeEn clear, and the service command SHUTDOWN.
RpdoChargeDisabled ==
  /\ Shutdown
  /\ UNCHANGED <<errors, batteryCharged, failureCount, contact, cells>>

\* The service command STARTUP.
SdoStartup == StandbyStartup /\ UNCHANGED cells

\* The service command RESET FAULTS.
SdoResetFaults ==
  /\ errors' = {} /\ batteryCharged' = FALSE /\ failureCount' = 0
  /\ UNCHANGED <<fsm, enabled, contact, drive, cellCommand, cells>>

\* The service commands RELAY ON and RELAY OFF, accepted in every state.
SdoRelay(closed) ==
  /\ relay' = closed /\ manualRelay' = TRUE
  /\ UNCHANGED <<fsm, syslog, failureCount, drive, cellCommand, cells>>

\* The service command RESET DEVICE, or a loss of power: main() runs again.
\* For CONNECTION_WAIT after that isConnectionOk() is false.
ResetDevice ==
  /\ state' = "POWERUP" /\ nextState' = "NULL" /\ waitTime' = 0 /\ elapsed' = 0
  /\ errors' = {"RS_CONNECTION_LOST"} /\ enabled' = Errors \ FcErrors
  /\ batteryCharged' = FALSE /\ failureCount' = 0
  /\ OpenRelay
  /\ pwm' = FALSE /\ ref' = 0
  /\ cellCommand' = "none" /\ linkOk' = FALSE
  /\ UNCHANGED cellsReady

-----------------------------------------------------------------------------
(* Time and the fuel cells.                                                *)

\* SystemClock::onInterrupt, seen from the state machine.
Tick ==
  /\ elapsed < MaxElapsed
  /\ elapsed' = elapsed + 1
  /\ UNCHANGED <<state, nextState, waitTime, syslog, failureCount, contact, drive,
                 cellCommand, cells>>

\* The fuel cells report what they like; frames arrive or fail to.
CellsReport ==
  /\ cellsReady' \in BOOLEAN /\ linkOk' \in BOOLEAN
  /\ UNCHANGED <<fsm, syslog, failureCount, contact, drive, cellCommand>>

Levels == {"low", "middle", "high"}

Measurement ==
  \/ \E over \in SUBSET {"OVP_OUT"}, level \in Levels : VoltageOutSample(over, level)
  \/ \E e \in ProtectionErrors \ {"OVP_OUT"} : ProtectionSample(e)
  \/ \E F \in SUBSET FcErrors : CheckErrors(F)
  \/ WatchdogTimeout

Command ==
  \/ \E level \in {"low", "high"} : RpdoCharge(level)
  \/ RpdoFatal \/ RpdoChargeEnabled \/ RpdoChargeDisabled
  \/ SdoStartup \/ SdoResetFaults
  \/ \E closed \in BOOLEAN : SdoRelay(closed)
  \/ ResetDevice

Next == PwmEvent \/ Measurement \/ Command \/ Tick \/ CellsReport

\* The PWM event interrupt and the clock interrupt are enabled once, before the
\* main loop, and Pwm::stop only blocks the outputs: both go on for ever.
Fairness == WF_vars(PwmEvent) /\ WF_vars(Tick)

Spec == Init /\ [][Next]_vars /\ Fairness

-----------------------------------------------------------------------------
(* Where the cycle stands.                                                 *)

Waiting(next) == state = "WAIT" /\ nextState = next

\* The launch has succeeded and nothing has stopped it since.
Connected == state \in {"READY", "CHARGING_START", "CHARGING"} \/ Waiting("READY")

\* A shutdown is under way.
Stopping == state = "SHUTDOWN" \/ Waiting("SHUTDOWN")

\* Between a completed shutdown (or the power-up) and the next launch.
Off == state \in {"POWERUP", "STANDBY"} \/ Waiting("STANDBY")

Phase ==
  CASE Off -> "off"
    [] Stopping -> "stopping"
    [] state = "STARTUP" -> "starting"
    [] state \in {"CHARGING_START", "CHARGING"} -> "charging"
    [] OTHER -> "ready"

\* The converter implements the cycle it promises: in particular every launch
\* ends in a connection or a stop, and every stop ends isolated, whatever the
\* order in which commands, interrupts, errors and timeouts arrive.
Cycle == INSTANCE ChargeCycle WITH phase <- Phase

\* Every step of the converter is a step of the cycle: no interleaving of
\* commands, interrupts and errors launches connected cells, connects them
\* before they run or isolates them before they were told to stop.
CycleSafety == Cycle!Safety

\* And the cycle goes on: a launch ends, and a shutdown ends isolated.
ImplementsCycle == Cycle!Spec

-----------------------------------------------------------------------------
(* Safety.                                                                 *)

\* The power stage switches only while the state machine is charging, with the
\* fuel cells told to run and connected (unless the service tool moved the
\* relay).  The relay and the PWM are driven by different states, and every way
\* out of the charging states has to stop both the PWM and the fuel cells.
EnergyFlow ==
  pwm => /\ state \in {"CHARGING_START", "CHARGING"}
         /\ cellCommand = "start"
         /\ relay \/ manualRelay

\* The fuel cells are isolated whenever no launch has succeeded, and connected
\* as long as a successful launch lasts, unless the service tool intervened.
RelayFollowsCycle ==
  \/ manualRelay
  \/ /\ Off \/ state = "STARTUP" => ~relay
     /\ Connected => relay

\* A charged battery is never charged: BATTERY_CHARGED is set from a CAN
\* message and from an interrupt, and each has to stop a charge under way.
NoChargeIntoFullBattery == batteryCharged => ~pwm

\* The fuel cells are supervised as long as they are connected, and their
\* errors are masked from the stop command to the next launch.
CellSupervision ==
  /\ Connected => FcErrors \subseteq enabled
  /\ Off \/ Stopping => enabled \cap FcErrors = {}

\* After MAX_FAILURE_COUNT failed launches the converter is locked: an error
\* stands, so that it cannot be launched until the service tool resets the
\* faults, although startup() itself clears the errors of earlier failures.
Lockout ==
  /\ failureCount <= MAX_FAILURE_COUNT
  /\ failureCount = MAX_FAILURE_COUNT =>
       errors # {} /\ (state = "STANDBY" \/ Waiting("STANDBY"))

\* The current ramp of the next charge starts from the minimum: whatever ended
\* the last one left no higher reference behind.
RampStartsLow == state # "CHARGING_START" => ref <= RefMin

\* Controller::stop: "fuel cell errors must not be registered after stop".
NoCellErrorAfterStop ==
  [][(errors' \ errors) \cap FcErrors # {} => state = "STARTUP" \/ Connected]_vars

-----------------------------------------------------------------------------
(* Liveness.                                                               *)

\* An error that stands isolates the fuel cells: the relay opens, unless the
\* errors are reset or the service tool holds the relay.
ErrorIsolates == relay /\ errors # {} ~> ~relay \/ manualRelay \/ errors = {}

\* The converter leaves the power-up state once the link to the cells is up.
LinkEndsPowerup == <>[]linkOk => <>(state # "POWERUP")
=============================================================================
