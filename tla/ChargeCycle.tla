----------------------------- MODULE ChargeCycle -----------------------------
(***************************************************************************)
(* What the converter's state machine promises to its surroundings: one    *)
(* cycle of the plant.  The fuel cells are launched with the converter     *)
(* isolated, connected once they run, loaded only while connected, told to *)
(* stop before they are isolated, and isolated before the next launch.     *)
(* ConverterFsm implements it; the states in which the real machine waits, *)
(* its error register and its timers are hidden.                           *)
(***************************************************************************)

VARIABLES
  phase,        \* "off", "starting", "ready", "charging" or "stopping"
  relay,        \* the fuel cells are connected to the converter
  manualRelay,  \* the last relay command came from the service tool
  pwm,          \* the power stage switches
  cellCommand   \* the last command signalled to the fuel cells since boot

vars == <<phase, relay, manualRelay, pwm, cellCommand>>

Init ==
  /\ phase = "off" /\ relay = FALSE /\ manualRelay = FALSE
  /\ pwm = FALSE /\ cellCommand = "none"

Launch ==
  /\ phase = "off" /\ phase' = "starting"
  /\ cellCommand' = "start"
  /\ UNCHANGED <<relay, manualRelay, pwm>>

Connect ==
  /\ phase = "starting" /\ phase' = "ready"
  /\ relay' = TRUE /\ manualRelay' = FALSE
  /\ UNCHANGED <<pwm, cellCommand>>

Charge ==
  /\ phase = "ready" /\ phase' = "charging"
  /\ pwm' = TRUE
  /\ UNCHANGED <<relay, manualRelay, cellCommand>>

\* A launch that succeeds while an error stands closes the relay and stops.
Stop ==
  /\ phase \in {"starting", "ready", "charging"} /\ phase' = "stopping"
  /\ pwm' = FALSE /\ cellCommand' = "stop"
  /\ \/ UNCHANGED <<relay, manualRelay>>
     \/ phase = "starting" /\ relay' = TRUE /\ manualRelay' = FALSE

Isolate ==
  /\ phase = "stopping" /\ phase' = "off"
  /\ relay' = FALSE /\ manualRelay' = FALSE
  /\ UNCHANGED <<pwm, cellCommand>>

\* The service tool may move the relay at any time.
MoveRelay ==
  /\ relay' \in BOOLEAN /\ manualRelay' = TRUE
  /\ UNCHANGED <<phase, pwm, cellCommand>>

Reset ==
  /\ phase' = "off" /\ relay' = FALSE /\ manualRelay' = FALSE
  /\ pwm' = FALSE /\ cellCommand' = "none"

Next == Launch \/ Connect \/ Charge \/ Stop \/ Isolate \/ MoveRelay \/ Reset

\* A launch ends, one way or the other, and a shutdown completes.
Settle == phase = "starting" /\ (Connect \/ Stop)

Safety == Init /\ [][Next]_vars

Spec == Safety /\ WF_vars(Settle) /\ WF_vars(Isolate)
=============================================================================
