-------------------------- MODULE ConverterPreempt --------------------------
(***************************************************************************)
(* The converter's handlers, one machine-level effect at a time.           *)
(*                                                                         *)
(* ConverterFsm takes a handler for a step.  On the target it is not: the  *)
(* main loop is preempted by every interrupt, and an interrupt handler by  *)
(* the interrupts of the other groups as soon as it has left a critical    *)
(* section, because CriticalSection's destructor enables the interrupts    *)
(* whether they were enabled before or not.  Three threads are modelled:   *)
(*   "main"  the commands and tasks of the main loop,                      *)
(*   "pwm"   Converter::onPwmEventInterrupt,                               *)
(*   "vout"  Converter::onAdcVoltageOutInterrupt.                          *)
(* todo[t] is what thread t has still to do, as a sequence of operations   *)
(* <<name, argument>>; a call is expanded when it is reached, with the     *)
(* state object it is dispatched to.                                       *)
(***************************************************************************)
EXTENDS Naturals, Sequences

VARIABLES
  state,           \* Converter::m_state
  nextState,       \* WAIT_State::m_nextState
  waitFresh,       \* the wait was started by a handler that is still running
  errors,          \* Syslog: "CELL" and "OTHER" stand for the masked and the
                   \* other errors
  cellsEnabled,    \* Syslog: the fuel cell errors are not masked
  batteryCharged,  \* Syslog: the warning BATTERY_CHARGED
  relay,           \* REL_PIN
  pwmOn,           \* Pwm::m_state = PWM_ON
  gates,           \* the trip zone lets the PWM signals out
  nearMax,         \* CHARGING_START_State: one more step ends the ramp
  cellCommand,     \* the last command signalled to the fuel cells
  stack,           \* the threads that are running, each preempting the one before
  todo,            \* what each thread has still to do
  interruptible    \* INTM is clear

fsm    == <<state, nextState, waitFresh>>
syslog == <<errors, cellsEnabled, batteryCharged>>
plant  == <<relay, pwmOn, gates, nearMax, cellCommand>>
cpu    == <<stack, todo, interruptible>>
vars   == <<fsm, syslog, plant, cpu>>

Threads    == {"main", "pwm", "vout"}
Interrupts == {"pwm", "vout"}

States == {"STANDBY", "STARTUP", "READY", "CHARGING_START", "CHARGING",
           "SHUTDOWN", "WAIT"}

\* Every variable has its type, and an interrupt does not preempt itself.
TypeOK ==
  /\ state \in States /\ nextState \in {"STANDBY", "READY", "SHUTDOWN"}
  /\ errors \subseteq {"CELL", "OTHER"}
  /\ cellCommand \in {"start", "stop"}
  /\ \A b \in {waitFresh, cellsEnabled, batteryCharged, relay, pwmOn, gates, nearMax,
               interruptible} : b \in BOOLEAN
  /\ stack \in Seq(Threads) /\ Len(stack) <= 3
  /\ \A i, j \in 1 .. Len(stack) : stack[i] = stack[j] => i = j
  /\ \A t \in Threads : todo[t] # <<>> => \E i \in 1 .. Len(stack) : stack[i] = t

\* After the power-up: waiting in STANDBY, the fuel cells stopped.
Init ==
  /\ state = "STANDBY" /\ nextState = "STANDBY" /\ waitFresh = FALSE
  /\ errors = {} /\ cellsEnabled = FALSE /\ batteryCharged = FALSE
  /\ relay = FALSE /\ pwmOn = FALSE /\ gates = FALSE /\ nearMax = FALSE
  /\ cellCommand = "stop"
  /\ stack = <<>> /\ todo = [t \in Threads |-> <<>>]
  /\ interruptible = TRUE

-----------------------------------------------------------------------------
(* The methods of the state objects, as sequences of operations.           *)

\* changeStateAfterWait
GoAfterWait(s) == <<<<"setNext", s>>, <<"goTo", "WAIT">>>>

\* Controller::stop
StopCells == <<<<"mask", "">>, <<"signal", "stop">>>>

\* Mutant: the state is set, the outputs are not blocked.
PwmStop_StateOnly == <<<<"pwmOff", "">>>>

\* Pwm::stop: the trip is forced before the state is set.
PwmStop == <<<<"forceTrip", "">>, <<"pwmOff", "">>>>

\* Pwm::start: the state is set before the trip is cleared.
PwmStart == <<<<"pwmOn", "">>, <<"clearTrip", "">>>>

\* shutdown() and emergencyShutdown() of the state object s.
ShutdownOf(s) ==
  CASE s \in {"STARTUP", "READY"} -> StopCells \o GoAfterWait("SHUTDOWN")
    [] s = "CHARGING_START" ->
         PwmStop \o StopCells \o <<<<"resetRamp", "">>>> \o GoAfterWait("SHUTDOWN")
    [] s = "CHARGING" -> PwmStop \o StopCells \o GoAfterWait("SHUTDOWN")
    [] s = "WAIT" -> PwmStop
    [] OTHER -> <<>>

\* startCharging() of the state object s.
StartChargingOf(s) ==
  CASE s = "STANDBY" -> <<<<"ifLaunch", "">>>>
    [] s = "READY" -> <<<<"ifMayCharge", "">>>>
    [] OTHER -> <<>>

\* run() of the state object s.
RunOf(s) ==
  CASE s = "STARTUP" -> <<<<"ifLate", "">>, <<"ifRunning", "">>, <<"ifErrors", s>>>>
    [] s = "READY" -> <<<<"ifErrors", s>>>>
    [] s = "CHARGING_START" -> <<<<"ifErrors", s>>, <<"ramp", "">>>>
    [] s = "CHARGING" -> <<<<"ifErrors", s>>>>
    [] s = "SHUTDOWN" -> <<<<"relay", "off">>>> \o GoAfterWait("STANDBY")
    [] s = "WAIT" -> <<<<"ifExpired", "">>, <<"ifErrors", s>>>>
    [] OTHER -> <<>>

-----------------------------------------------------------------------------
(* One operation of the running thread.                                    *)

Current == stack[Len(stack)]
Op(name) == stack # <<>> /\ todo[Current] # <<>> /\ Head(todo[Current])[1] = name
Arg == Head(todo[Current])[2]

\* The operation is done, and ops take its place.
Do(ops) ==
  /\ todo' = [todo EXCEPT ![Current] = ops \o Tail(@)]
  /\ UNCHANGED <<stack, interruptible>>

\* The same at the end of a critical section.
DoCritical ==
  /\ todo' = [todo EXCEPT ![Current] = Tail(@)]
  /\ interruptible' = TRUE
  /\ UNCHANGED stack

\* Converter::shutdown, startCharging and run: the state object is the one that
\* is current now; it remains the object of the call whatever happens later.
Call ==
  /\ Op("call")
  /\ Do(CASE Arg = "shutdown" -> ShutdownOf(state)
          [] Arg = "startCharging" -> StartChargingOf(state)
          [] Arg = "run" -> RunOf(state))
  /\ UNCHANGED <<fsm, syslog, plant>>

GoTo ==
  /\ Op("goTo") /\ Do(<<>>)
  /\ state' = Arg
  /\ UNCHANGED <<nextState, waitFresh, syslog, plant>>

SetNext ==
  /\ Op("setNext") /\ Do(<<>>)
  /\ nextState' = Arg /\ waitFresh' = TRUE
  /\ UNCHANGED <<state, syslog, plant>>

\* Controller::disableErrors and enableErrors, Syslog::setError, resetError and
\* setWarning are critical sections.
Mask ==
  /\ Op("mask") /\ DoCritical
  /\ cellsEnabled' = FALSE
  /\ UNCHANGED <<fsm, errors, batteryCharged, plant>>

Unmask ==
  /\ Op("unmask") /\ DoCritical
  /\ cellsEnabled' = TRUE
  /\ UNCHANGED <<fsm, errors, batteryCharged, plant>>

SetError ==
  /\ Op("setError") /\ DoCritical
  /\ errors' = errors \cup (IF Arg = "OTHER" \/ cellsEnabled THEN {Arg} ELSE {})
  /\ UNCHANGED <<fsm, cellsEnabled, batteryCharged, plant>>

ResetErrors ==
  /\ Op("resetErrors") /\ DoCritical
  /\ errors' = {} /\ batteryCharged' = FALSE
  /\ UNCHANGED <<fsm, cellsEnabled, plant>>

Warning ==
  /\ Op("warning") /\ DoCritical
  /\ batteryCharged' = (Arg = "set")
  /\ UNCHANGED <<fsm, errors, cellsEnabled, plant>>

Signal ==
  /\ Op("signal") /\ Do(<<>>)
  /\ cellCommand' = Arg
  /\ UNCHANGED <<fsm, syslog, relay, pwmOn, gates, nearMax>>

\* Mutant: the relay is never opened.
Relay_Stuck ==
  /\ Op("relay") /\ Do(<<>>)
  /\ relay' = (relay \/ Arg = "on")
  /\ UNCHANGED <<fsm, syslog, pwmOn, gates, nearMax, cellCommand>>

\* Converter::turnRelayOn and turnRelayOff
Relay ==
  /\ Op("relay") /\ Do(<<>>)
  /\ relay' = (Arg = "on")
  /\ UNCHANGED <<fsm, syslog, pwmOn, gates, nearMax, cellCommand>>

Drive ==
  /\ \/ Op("pwmOn") /\ pwmOn' = TRUE /\ UNCHANGED <<gates, nearMax>>
     \/ Op("pwmOff") /\ pwmOn' = FALSE /\ UNCHANGED <<gates, nearMax>>
     \/ Op("clearTrip") /\ gates' = TRUE /\ UNCHANGED <<pwmOn, nearMax>>
     \/ Op("forceTrip") /\ gates' = FALSE /\ UNCHANGED <<pwmOn, nearMax>>
     \/ Op("resetRamp") /\ nearMax' = FALSE /\ UNCHANGED <<pwmOn, gates>>
  /\ Do(<<>>)
  /\ UNCHANGED <<fsm, syslog, relay, cellCommand>>

-----------------------------------------------------------------------------
(* The conditions: what was read may be stale when it is acted upon.       *)

Branch(ops) == Do(ops) /\ UNCHANGED <<fsm, syslog, plant>>

\* STANDBY_State::startup
IfLaunch ==
  /\ Op("ifLaunch")
  /\ \/ batteryCharged /\ Branch(<<>>)
     \/ ~batteryCharged /\ errors = {}
        /\ Branch(<<<<"signal", "start">>, <<"goTo", "STARTUP">>>>)
     \/ ~batteryCharged /\ errors # {}
        /\ \E again \in BOOLEAN :  \* failureCount < MAX_FAILURE_COUNT
             Branch(IF again THEN <<<<"resetErrors", "">>>> \o GoAfterWait("STANDBY")
                             ELSE <<>>)

\* READY_State::startCharging, then Converter::start.
IfMayCharge ==
  /\ Op("ifMayCharge")
  /\ Branch(IF errors = {} /\ ~batteryCharged
            THEN <<<<"ifPwmOff", "">>, <<"goTo", "CHARGING_START">>>> ELSE <<>>)

\* Converter::start looks at the errors again.
IfPwmOff ==
  /\ Op("ifPwmOff")
  /\ Branch(IF errors = {} /\ ~batteryCharged /\ ~pwmOn THEN PwmStart ELSE <<>>)

\* STARTUP_State::run: the cells may be late, they may be running, and the
\* launch may be overdue.
IfLate ==
  /\ Op("ifLate")
  /\ \E late \in BOOLEAN : Branch(IF late THEN <<<<"unmask", "">>>> ELSE <<>>)

IfRunning ==
  /\ Op("ifRunning")
  /\ \/ Branch(<<<<"unmask", "">>, <<"relay", "on">>>> \o GoAfterWait("READY"))
     \/ Branch(<<<<"setError", "OTHER">>>>)
     \/ Branch(<<>>)

\* Mutant: CHARGING_State::run does not look at the errors.
IfErrors_ChargingBlind ==
  /\ Op("ifErrors")
  /\ Branch(IF errors # {} /\ Arg # "CHARGING" THEN ShutdownOf(Arg) ELSE <<>>)

\* run() shuts down through its own state object, not through the current one.
IfErrors ==
  /\ Op("ifErrors")
  /\ Branch(IF errors # {} THEN ShutdownOf(Arg) ELSE <<>>)

\* WAIT_State::run.  The shortest delay is 2 s: a wait does not expire under a
\* handler that was running when it began.
IfExpired ==
  /\ Op("ifExpired")
  /\ \/ ~waitFresh /\ Branch(<<<<"goTo", nextState>>>>)
     \/ Branch(<<>>)

\* CHARGING_START_State::run, after its look at the errors.
RampStep ==
  /\ Op("ramp")
  /\ \/ nearMax
        /\ Do(<<<<"resetRamp", "">>, <<"goTo", "CHARGING">>>>)
        /\ UNCHANGED nearMax
     \/ ~nearMax /\ nearMax' \in BOOLEAN /\ Do(<<>>)
  /\ UNCHANGED <<fsm, syslog, relay, pwmOn, gates, cellCommand>>

-----------------------------------------------------------------------------
(* The threads.                                                            *)

Start(t, ops) ==
  /\ stack' = Append(stack, t)
  /\ todo' = [todo EXCEPT ![t] = ops]
  /\ interruptible' = (t = "main")
  /\ UNCHANGED <<fsm, syslog, plant>>

\* The main loop responds to the RPDOs (chargeEn, the fatal bit, the state of
\* charge), to RESET FAULTS, and checks the fuel cells.
MainLoop ==
  /\ stack = <<>>
  /\ \E ops \in {<<<<"call", "startCharging">>>>, <<<<"call", "shutdown">>>>,
                 <<<<"call", "shutdown">>, <<"setError", "OTHER">>>>,
                 <<<<"warning", "set">>, <<"call", "shutdown">>>>,
                 <<<<"warning", "reset">>>>, <<<<"resetErrors", "">>>>,
                 <<<<"setError", "CELL">>>>} :
       Start("main", ops)

\* Mutant: the group of an interrupt under way is not blocked.
CanInterrupt_Reentrant(t) == interruptible

\* An interrupt is taken while interrupts are enabled; its own group is blocked
\* until it returns.
CanInterrupt(t) == interruptible /\ \A i \in 1 .. Len(stack) : stack[i] # t

PwmEvent ==
  /\ CanInterrupt("pwm")
  /\ Start("pwm", <<<<"call", "run">>>>)

VoltageOut ==
  /\ CanInterrupt("vout")
  /\ \E ops \in {<<<<"setError", "OTHER">>>>, <<<<"warning", "reset">>>>,
                 <<<<"warning", "set">>, <<"call", "shutdown">>>>} :
       Start("vout", ops)

\* The handler returns; interrupts were enabled when it was entered.
Return ==
  /\ stack # <<>> /\ todo[Current] = <<>>
  /\ stack' = SubSeq(stack, 1, Len(stack) - 1)
  /\ interruptible' = TRUE
  /\ waitFresh' = (waitFresh /\ Len(stack) > 1)
  /\ UNCHANGED <<state, nextState, syslog, plant, todo>>

Execute ==
  \/ Call \/ GoTo \/ SetNext
  \/ Mask \/ Unmask \/ SetError \/ ResetErrors \/ Warning
  \/ Signal \/ Relay \/ Drive
  \/ IfLaunch \/ IfMayCharge \/ IfPwmOff \/ IfLate \/ IfRunning \/ IfErrors
  \/ IfExpired \/ RampStep
  \/ Return

Next == Execute \/ MainLoop \/ PwmEvent \/ VoltageOut

Step(t) == stack # <<>> /\ Current = t /\ Execute

\* The interrupts leave time for the main loop, and a pending PWM event
\* interrupt stays pending until it is taken.
Fairness == SF_vars(PwmEvent) /\ \A t \in Threads : SF_vars(Step(t))

Spec == Init /\ [][Next]_vars /\ Fairness

-----------------------------------------------------------------------------
(* Properties.                                                             *)

Quiet == stack = <<>>

\* Between two handlers the PWM signals are out only in a state whose run()
\* watches over them, whatever preempted what: the trip is cleared by the main
\* loop and forced by the interrupts.
GatesWatched == Quiet /\ gates => state \in {"CHARGING_START", "CHARGING"}

\* The relay follows the state between two handlers, although the handler that
\* closes it and the one that decides the shutdown may interleave.
RelayFollowsState ==
  Quiet =>
    /\ state \in {"STANDBY", "STARTUP"} => ~relay
    /\ state \in {"READY", "CHARGING_START", "CHARGING"} => relay

\* An error that stands blocks the PWM, whichever handler was overtaken.
ErrorBlocksGates == errors # {} ~> ~gates \/ errors = {}

\* fuelcell_controller.h:151: "fuel cell errors must not be registered after
\* stop".  They are: the shutdown of a launch masks them, and the run() of
\* STARTUP that it preempts, or that preempts it, unmasks them.
NoCellErrorAfterStop ==
  [][cellCommand = "stop" /\ "CELL" \in errors' => "CELL" \in errors]_vars
=============================================================================
