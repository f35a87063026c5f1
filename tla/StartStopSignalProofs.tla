------------------------ MODULE StartStopSignalProofs ------------------------
(***************************************************************************)
(* The safety of the start and stop signals for every period, frame length *)
(* and restart delay that satisfy TimingAssumption.                        *)
(*                                                                         *)
(* The argument rests on time: a stop is served within a frame period or   *)
(* the length of a frame, both shorter than the restart delay, so that no  *)
(* start is ever signalled while a stop is pending (StopIsYoung).  Without *)
(* that, acknowledging a stop would swallow the start that followed it.    *)
(***************************************************************************)
EXTENDS StartStopSignal, TLAPS

\* The last frame went out with the beginning of the period.
PeriodBegan ==
  /\ pc # "idle" => sinceTx = TPDO_PERIOD
  /\ txActive => IF pc \in {"idle", "composed"} THEN sinceTx <= txAge ELSE txAge = 0

\* A pending stop is no older than the current period, or than the frame that
\* keeps the transceiver busy beyond it.
StopIsYoung ==
  /\ sigStop \/ pc \in {"ackStop", "ackBoth"} =>
       /\ wanted = "stop"
       /\ sinceStop <= sinceTx \/ (sinceTx = TPDO_PERIOD /\ sinceStop <= FRAME_MAX)
  /\ txActive /\ sigStop /\ pc \in {"idle", "composed"} => sinceStop <= txAge
  /\ sigStop /\ pc \in {"ackBoth", "ackStart"} => sinceStop = 0

\* What the flags say of the last call and of the frame in hand.
FlagsMeanCalls ==
  /\ sigStart => wanted # "none"
  /\ sigStart /\ wanted = "stop" => sigStop \/ pc = "ackBoth"
  /\ pc = "ackStart" => sigStart /\ (wanted = "start" \/ sigStop)
  /\ late = "looked" =>
       pc = "composed" /\ (wanted = "start" => sigStart) /\ (wanted = "stop" => sigStop)
  /\ pc = "composed" => (cmd = "start" => sigStart) /\ (cmd = "stop" => sigStop)

Reached == lastSent = wanted \/ late = "missed"

\* The last call is pending, in the frame in hand, or sent.
StartOnItsWay ==
  wanted = "start" =>
    /\ pc \in {"idle", "composed"} /\ ~sigStart => Reached
    /\ pc = "composed" /\ sigStart => cmd = "start" \/ late = "looked"
    /\ pc \in {"sent", "ackStart"} => Reached

StopOnItsWay ==
  wanted = "stop" =>
    /\ pc \in {"idle", "composed"} /\ ~sigStop => Reached
    /\ pc = "composed" /\ sigStop => cmd = "stop" \/ late = "looked"
    /\ pc \in {"sent", "ackStop", "ackBoth"} => Reached

\* The cells have stopped, or missed a frame, once a stop has left the line.
StopOnTheLine ==
  lastSent = "stop" =>
    \/ ~txActive /\ (cells = "stopped" \/ frameLost)
    \/ txActive /\ txCmd = "stop"
    \/ txActive /\ txCmd = "none" /\ (cells = "stopped" \/ frameLost)

IInv ==
  /\ TypeOK
  /\ PeriodBegan /\ StopIsYoung /\ FlagsMeanCalls
  /\ StartOnItsWay /\ StopOnItsWay /\ StopOnTheLine

\* TypeOK in four parts, by the kind of the variables.
CommandType ==
  wanted \in Commands /\ cmd \in Commands /\ lastSent \in Commands /\ txCmd \in Commands

TimeType ==
  /\ sinceStop \in 0 .. RESTART_DELAY
  /\ sinceTx \in 0 .. TPDO_PERIOD
  /\ txAge \in 0 .. FRAME_MAX

SwitchType ==
  /\ sigStart \in BOOLEAN /\ sigStop \in BOOLEAN
  /\ txActive \in BOOLEAN /\ frameLost \in BOOLEAN

PlaceType ==
  /\ late \in {"no", "looked", "missed"}
  /\ pc \in {"idle", "composed", "sent", "ackStop", "ackBoth", "ackStart"}
  /\ cells \in {"running", "stopped"}
  /\ pc = "idle" => cmd = "none"

-----------------------------------------------------------------------------
\* The invariant holds when CPU2 enters its main loop with no flag set.
LEMMA InitInv == Init => IInv
<1> SUFFICES ASSUME Init PROVE IInv
  OBVIOUS
<1> USE TimingAssumption DEF Init
<1>1. TypeOK
  <2>1. CommandType
    BY DEF CommandType, Commands
  <2>2. TimeType
    BY DEF TimeType
  <2>3. SwitchType
    BY DEF SwitchType
  <2>4. PlaceType
    BY DEF PlaceType
  <2>5. QED
    BY <2>1, <2>2, <2>3, <2>4 DEF TypeOK, CommandType, TimeType, SwitchType, PlaceType
<1>2. PeriodBegan /\ StopIsYoung /\ FlagsMeanCalls
  BY DEF PeriodBegan, StopIsYoung, FlagsMeanCalls
<1>3. StartOnItsWay /\ StopOnItsWay /\ StopOnTheLine
  BY DEF StartOnItsWay, StopOnItsWay, StopOnTheLine
<1>4. QED
  BY <1>1, <1>2, <1>3 DEF IInv

\* Every step of either CPU, of the line and of time keeps the invariant.
LEMMA StepInv == IInv /\ [Next]_vars => IInv'
<1> SUFFICES ASSUME IInv, [Next]_vars PROVE IInv'
  OBVIOUS
<1> USE TimingAssumption
<1>1. CASE Start
  <2>1. TypeOK'
    <3>1. CommandType'
      BY <1>1 DEF IInv, TypeOK, CommandType, Commands, Start, Lateness, cpu1,
         flags, cpu2, line, history
    <3>2. TimeType'
      BY <1>1 DEF IInv, TypeOK, TimeType, Start, Lateness, cpu1, flags, cpu2,
         line, history
    <3>3. SwitchType'
      BY <1>1 DEF IInv, TypeOK, SwitchType, Start, Lateness, cpu1, flags, cpu2,
         line, history
    <3>4. PlaceType'
      BY <1>1 DEF IInv, TypeOK, PlaceType, Start, Lateness, cpu1, flags, cpu2,
         line, history
    <3>5. QED
      BY <3>1, <3>2, <3>3, <3>4 DEF TypeOK, CommandType, TimeType, SwitchType, PlaceType
  <2>2. PeriodBegan'
    BY <1>1 DEF IInv, TypeOK, Commands, PeriodBegan, Start, Lateness, cpu1,
       flags, cpu2, line, history
  <2>3. StopIsYoung'
    BY <1>1 DEF IInv, TypeOK, Commands, StopIsYoung, PeriodBegan, Start,
       Lateness, cpu1, flags, cpu2, line, history
  <2>4. FlagsMeanCalls'
    BY <1>1 DEF IInv, TypeOK, Commands, FlagsMeanCalls, PeriodBegan,
       StopIsYoung, Start, Lateness, cpu1, flags, cpu2, line, history
  <2>5. StartOnItsWay'
    BY <1>1 DEF IInv, TypeOK, Commands, StartOnItsWay, Reached, PeriodBegan,
       StopIsYoung, FlagsMeanCalls, Start, Lateness, cpu1, flags, cpu2, line,
       history
  <2>6. StopOnItsWay'
    BY <1>1 DEF IInv, TypeOK, Commands, StopOnItsWay, Reached, PeriodBegan,
       StopIsYoung, FlagsMeanCalls, Start, Lateness, cpu1, flags, cpu2, line,
       history
  <2>7. StopOnTheLine'
    BY <1>1 DEF IInv, TypeOK, Commands, StopOnTheLine, Start, Lateness, cpu1,
       flags, cpu2, line, history
  <2>8. QED
    BY <2>1, <2>2, <2>3, <2>4, <2>5, <2>6, <2>7 DEF IInv
<1>2. CASE Stop
  <2>1. TypeOK'
    <3>1. CommandType'
      BY <1>2 DEF IInv, TypeOK, CommandType, Commands, Stop, Lateness, cpu1,
         flags, cpu2, line, history
    <3>2. TimeType'
      BY <1>2 DEF IInv, TypeOK, TimeType, Stop, Lateness, cpu1, flags, cpu2,
         line, history
    <3>3. SwitchType'
      BY <1>2 DEF IInv, TypeOK, SwitchType, Stop, Lateness, cpu1, flags, cpu2,
         line, history
    <3>4. PlaceType'
      BY <1>2 DEF IInv, TypeOK, PlaceType, Stop, Lateness, cpu1, flags, cpu2,
         line, history
    <3>5. QED
      BY <3>1, <3>2, <3>3, <3>4 DEF TypeOK, CommandType, TimeType, SwitchType, PlaceType
  <2>2. PeriodBegan'
    BY <1>2 DEF IInv, TypeOK, Commands, PeriodBegan, Stop, Lateness, cpu1,
       flags, cpu2, line, history
  <2>3. StopIsYoung'
    BY <1>2 DEF IInv, TypeOK, Commands, StopIsYoung, PeriodBegan, Stop,
       Lateness, cpu1, flags, cpu2, line, history
  <2>4. FlagsMeanCalls'
    BY <1>2 DEF IInv, TypeOK, Commands, FlagsMeanCalls, PeriodBegan,
       StopIsYoung, Stop, Lateness, cpu1, flags, cpu2, line, history
  <2>5. StartOnItsWay'
    BY <1>2 DEF IInv, TypeOK, Commands, StartOnItsWay, Reached, PeriodBegan,
       StopIsYoung, FlagsMeanCalls, Stop, Lateness, cpu1, flags, cpu2, line,
       history
  <2>6. StopOnItsWay'
    BY <1>2 DEF IInv, TypeOK, Commands, StopOnItsWay, Reached, PeriodBegan,
       StopIsYoung, FlagsMeanCalls, Stop, Lateness, cpu1, flags, cpu2, line,
       history
  <2>7. StopOnTheLine'
    BY <1>2 DEF IInv, TypeOK, Commands, StopOnTheLine, Stop, Lateness, cpu1,
       flags, cpu2, line, history
  <2>8. QED
    BY <2>1, <2>2, <2>3, <2>4, <2>5, <2>6, <2>7 DEF IInv
<1>3. CASE Compose
  <2>1. TypeOK'
    <3>1. CommandType'
      BY <1>3 DEF IInv, TypeOK, CommandType, Commands, Compose, cpu1, flags,
         cpu2, line, history
    <3>2. TimeType'
      BY <1>3 DEF IInv, TypeOK, TimeType, Compose, cpu1, flags, cpu2, line,
         history
    <3>3. SwitchType'
      BY <1>3 DEF IInv, TypeOK, SwitchType, Compose, cpu1, flags, cpu2, line,
         history
    <3>4. PlaceType'
      BY <1>3 DEF IInv, TypeOK, PlaceType, Compose, cpu1, flags, cpu2, line,
         history
    <3>5. QED
      BY <3>1, <3>2, <3>3, <3>4 DEF TypeOK, CommandType, TimeType, SwitchType, PlaceType
  <2>2. PeriodBegan'
    BY <1>3 DEF IInv, TypeOK, Commands, PeriodBegan, Compose, cpu1, flags,
       cpu2, line, history
  <2>3. StopIsYoung'
    BY <1>3 DEF IInv, TypeOK, Commands, StopIsYoung, PeriodBegan, Compose,
       cpu1, flags, cpu2, line, history
  <2>4. FlagsMeanCalls'
    BY <1>3 DEF IInv, TypeOK, Commands, FlagsMeanCalls, PeriodBegan,
       StopIsYoung, Compose, cpu1, flags, cpu2, line, history
  <2>5. StartOnItsWay'
    BY <1>3 DEF IInv, TypeOK, Commands, StartOnItsWay, Reached, PeriodBegan,
       StopIsYoung, FlagsMeanCalls, Compose, cpu1, flags, cpu2, line, history
  <2>6. StopOnItsWay'
    BY <1>3 DEF IInv, TypeOK, Commands, StopOnItsWay, Reached, PeriodBegan,
       StopIsYoung, FlagsMeanCalls, Compose, cpu1, flags, cpu2, line, history
  <2>7. StopOnTheLine'
    BY <1>3 DEF IInv, TypeOK, Commands, StopOnTheLine, Compose, cpu1, flags,
       cpu2, line, history
  <2>8. QED
    BY <2>1, <2>2, <2>3, <2>4, <2>5, <2>6, <2>7 DEF IInv
<1>4. CASE Send
  <2>1. TypeOK'
    <3>1. CommandType'
      BY <1>4 DEF IInv, TypeOK, CommandType, Commands, Send, cpu1, flags, cpu2,
         line, history
    <3>2. TimeType'
      BY <1>4 DEF IInv, TypeOK, TimeType, Send, cpu1, flags, cpu2, line,
         history
    <3>3. SwitchType'
      BY <1>4 DEF IInv, TypeOK, SwitchType, Send, cpu1, flags, cpu2, line,
         history
    <3>4. PlaceType'
      BY <1>4 DEF IInv, TypeOK, PlaceType, Send, cpu1, flags, cpu2, line,
         history
    <3>5. QED
      BY <3>1, <3>2, <3>3, <3>4 DEF TypeOK, CommandType, TimeType, SwitchType, PlaceType
  <2>2. PeriodBegan'
    BY <1>4 DEF IInv, TypeOK, Commands, PeriodBegan, Send, cpu1, flags, cpu2,
       line, history
  <2>3. StopIsYoung'
    BY <1>4 DEF IInv, TypeOK, Commands, StopIsYoung, PeriodBegan, Send, cpu1,
       flags, cpu2, line, history
  <2>4. FlagsMeanCalls'
    BY <1>4 DEF IInv, TypeOK, Commands, FlagsMeanCalls, PeriodBegan,
       StopIsYoung, Send, cpu1, flags, cpu2, line, history
  <2>5. StartOnItsWay'
    BY <1>4 DEF IInv, TypeOK, Commands, StartOnItsWay, Reached, PeriodBegan,
       StopIsYoung, FlagsMeanCalls, Send, cpu1, flags, cpu2, line, history
  <2>6. StopOnItsWay'
    BY <1>4 DEF IInv, TypeOK, Commands, StopOnItsWay, Reached, PeriodBegan,
       StopIsYoung, FlagsMeanCalls, Send, cpu1, flags, cpu2, line, history
  <2>7. StopOnTheLine'
    BY <1>4 DEF IInv, TypeOK, Commands, StopOnTheLine, Send, cpu1, flags, cpu2,
       line, history
  <2>8. QED
    BY <2>1, <2>2, <2>3, <2>4, <2>5, <2>6, <2>7 DEF IInv
<1>5. CASE Recheck
  <2>1. TypeOK'
    <3>1. CommandType'
      BY <1>5 DEF IInv, TypeOK, CommandType, Commands, Recheck, Finish, cpu1,
         flags, cpu2, line, history
    <3>2. TimeType'
      BY <1>5 DEF IInv, TypeOK, TimeType, Recheck, Finish, cpu1, flags, cpu2,
         line, history
    <3>3. SwitchType'
      BY <1>5 DEF IInv, TypeOK, SwitchType, Recheck, Finish, cpu1, flags, cpu2,
         line, history
    <3>4. PlaceType'
      BY <1>5 DEF IInv, TypeOK, PlaceType, Recheck, Finish, cpu1, flags, cpu2,
         line, history
    <3>5. QED
      BY <3>1, <3>2, <3>3, <3>4 DEF TypeOK, CommandType, TimeType, SwitchType, PlaceType
  <2>2. PeriodBegan'
    BY <1>5 DEF IInv, TypeOK, Commands, PeriodBegan, Recheck, Finish, cpu1,
       flags, cpu2, line, history
  <2>3. StopIsYoung'
    BY <1>5 DEF IInv, TypeOK, Commands, StopIsYoung, PeriodBegan, Recheck,
       Finish, cpu1, flags, cpu2, line, history
  <2>4. FlagsMeanCalls'
    BY <1>5 DEF IInv, TypeOK, Commands, FlagsMeanCalls, PeriodBegan,
       StopIsYoung, Recheck, Finish, cpu1, flags, cpu2, line, history
  <2>5. StartOnItsWay'
    BY <1>5 DEF IInv, TypeOK, Commands, StartOnItsWay, Reached, PeriodBegan,
       StopIsYoung, FlagsMeanCalls, Recheck, Finish, cpu1, flags, cpu2, line,
       history
  <2>6. StopOnItsWay'
    BY <1>5 DEF IInv, TypeOK, Commands, StopOnItsWay, Reached, PeriodBegan,
       StopIsYoung, FlagsMeanCalls, Recheck, Finish, cpu1, flags, cpu2, line,
       history
  <2>7. StopOnTheLine'
    BY <1>5 DEF IInv, TypeOK, Commands, StopOnTheLine, Recheck, Finish, cpu1,
       flags, cpu2, line, history
  <2>8. QED
    BY <2>1, <2>2, <2>3, <2>4, <2>5, <2>6, <2>7 DEF IInv
<1>6. CASE AckStop
  <2>1. TypeOK'
    <3>1. CommandType'
      BY <1>6 DEF IInv, TypeOK, CommandType, Commands, AckStop, cpu1, flags,
         cpu2, line, history
    <3>2. TimeType'
      BY <1>6 DEF IInv, TypeOK, TimeType, AckStop, cpu1, flags, cpu2, line,
         history
    <3>3. SwitchType'
      BY <1>6 DEF IInv, TypeOK, SwitchType, AckStop, cpu1, flags, cpu2, line,
         history
    <3>4. PlaceType'
      BY <1>6 DEF IInv, TypeOK, PlaceType, AckStop, cpu1, flags, cpu2, line,
         history
    <3>5. QED
      BY <3>1, <3>2, <3>3, <3>4 DEF TypeOK, CommandType, TimeType, SwitchType, PlaceType
  <2>2. PeriodBegan'
    BY <1>6 DEF IInv, TypeOK, Commands, PeriodBegan, AckStop, cpu1, flags,
       cpu2, line, history
  <2>3. StopIsYoung'
    BY <1>6 DEF IInv, TypeOK, Commands, StopIsYoung, PeriodBegan, AckStop,
       cpu1, flags, cpu2, line, history
  <2>4. FlagsMeanCalls'
    BY <1>6 DEF IInv, TypeOK, Commands, FlagsMeanCalls, PeriodBegan,
       StopIsYoung, AckStop, cpu1, flags, cpu2, line, history
  <2>5. StartOnItsWay'
    BY <1>6 DEF IInv, TypeOK, Commands, StartOnItsWay, Reached, PeriodBegan,
       StopIsYoung, FlagsMeanCalls, AckStop, cpu1, flags, cpu2, line, history
  <2>6. StopOnItsWay'
    BY <1>6 DEF IInv, TypeOK, Commands, StopOnItsWay, Reached, PeriodBegan,
       StopIsYoung, FlagsMeanCalls, AckStop, cpu1, flags, cpu2, line, history
  <2>7. StopOnTheLine'
    BY <1>6 DEF IInv, TypeOK, Commands, StopOnTheLine, AckStop, cpu1, flags,
       cpu2, line, history
  <2>8. QED
    BY <2>1, <2>2, <2>3, <2>4, <2>5, <2>6, <2>7 DEF IInv
<1>7. CASE AckStart
  <2>1. TypeOK'
    <3>1. CommandType'
      BY <1>7 DEF IInv, TypeOK, CommandType, Commands, AckStart, Finish, cpu1,
         flags, cpu2, line, history
    <3>2. TimeType'
      BY <1>7 DEF IInv, TypeOK, TimeType, AckStart, Finish, cpu1, flags, cpu2,
         line, history
    <3>3. SwitchType'
      BY <1>7 DEF IInv, TypeOK, SwitchType, AckStart, Finish, cpu1, flags,
         cpu2, line, history
    <3>4. PlaceType'
      BY <1>7 DEF IInv, TypeOK, PlaceType, AckStart, Finish, cpu1, flags, cpu2,
         line, history
    <3>5. QED
      BY <3>1, <3>2, <3>3, <3>4 DEF TypeOK, CommandType, TimeType, SwitchType, PlaceType
  <2>2. PeriodBegan'
    BY <1>7 DEF IInv, TypeOK, Commands, PeriodBegan, AckStart, Finish, cpu1,
       flags, cpu2, line, history
  <2>3. StopIsYoung'
    BY <1>7 DEF IInv, TypeOK, Commands, StopIsYoung, PeriodBegan, AckStart,
       Finish, cpu1, flags, cpu2, line, history
  <2>4. FlagsMeanCalls'
    BY <1>7 DEF IInv, TypeOK, Commands, FlagsMeanCalls, PeriodBegan,
       StopIsYoung, AckStart, Finish, cpu1, flags, cpu2, line, history
  <2>5. StartOnItsWay'
    BY <1>7 DEF IInv, TypeOK, Commands, StartOnItsWay, Reached, PeriodBegan,
       StopIsYoung, FlagsMeanCalls, AckStart, Finish, cpu1, flags, cpu2, line,
       history
  <2>6. StopOnItsWay'
    BY <1>7 DEF IInv, TypeOK, Commands, StopOnItsWay, Reached, PeriodBegan,
       StopIsYoung, FlagsMeanCalls, AckStart, Finish, cpu1, flags, cpu2, line,
       history
  <2>7. StopOnTheLine'
    BY <1>7 DEF IInv, TypeOK, Commands, StopOnTheLine, AckStart, Finish, cpu1,
       flags, cpu2, line, history
  <2>8. QED
    BY <2>1, <2>2, <2>3, <2>4, <2>5, <2>6, <2>7 DEF IInv
<1>8. CASE FrameDone
  <2>1. TypeOK'
    <3>1. CommandType'
      BY <1>8 DEF IInv, TypeOK, CommandType, Commands, FrameDone, cpu1, flags,
         cpu2, line, history
    <3>2. TimeType'
      BY <1>8 DEF IInv, TypeOK, TimeType, FrameDone, cpu1, flags, cpu2, line,
         history
    <3>3. SwitchType'
      BY <1>8 DEF IInv, TypeOK, SwitchType, FrameDone, cpu1, flags, cpu2, line,
         history
    <3>4. PlaceType'
      BY <1>8 DEF IInv, TypeOK, PlaceType, FrameDone, cpu1, flags, cpu2, line,
         history
    <3>5. QED
      BY <3>1, <3>2, <3>3, <3>4 DEF TypeOK, CommandType, TimeType, SwitchType, PlaceType
  <2>2. PeriodBegan'
    BY <1>8 DEF IInv, TypeOK, Commands, PeriodBegan, FrameDone, cpu1, flags,
       cpu2, line, history
  <2>3. StopIsYoung'
    BY <1>8 DEF IInv, TypeOK, Commands, StopIsYoung, PeriodBegan, FrameDone,
       cpu1, flags, cpu2, line, history
  <2>4. FlagsMeanCalls'
    BY <1>8 DEF IInv, TypeOK, Commands, FlagsMeanCalls, PeriodBegan,
       StopIsYoung, FrameDone, cpu1, flags, cpu2, line, history
  <2>5. StartOnItsWay'
    BY <1>8 DEF IInv, TypeOK, Commands, StartOnItsWay, Reached, PeriodBegan,
       StopIsYoung, FlagsMeanCalls, FrameDone, cpu1, flags, cpu2, line, history
  <2>6. StopOnItsWay'
    BY <1>8 DEF IInv, TypeOK, Commands, StopOnItsWay, Reached, PeriodBegan,
       StopIsYoung, FlagsMeanCalls, FrameDone, cpu1, flags, cpu2, line, history
  <2>7. StopOnTheLine'
    <3>1. lastSent' = lastSent /\ ~txActive' /\ txActive
      BY <1>8 DEF FrameDone
    <3>2. ASSUME lastSent = "stop" PROVE cells' = "stopped" \/ frameLost'
      <4>1. CASE txCmd = "stop"
        BY <1>8, <4>1 DEF FrameDone
      <4>2. CASE txCmd # "stop"
        <5>1. txCmd = "none" /\ (cells = "stopped" \/ frameLost)
          BY <3>1, <3>2, <4>2 DEF IInv, StopOnTheLine
        <5>2. QED
          BY <1>8, <5>1 DEF FrameDone, IInv, TypeOK
      <4>3. QED
        BY <4>1, <4>2
    <3>3. QED
      BY <3>1, <3>2 DEF StopOnTheLine
  <2>8. QED
    BY <2>1, <2>2, <2>3, <2>4, <2>5, <2>6, <2>7 DEF IInv
<1>9. CASE Tick
  <2>1. TypeOK'
    <3>1. CommandType'
      BY <1>9 DEF IInv, TypeOK, CommandType, Commands, Tick, cpu1, flags, cpu2,
         line, history
    <3>2. TimeType'
      BY <1>9 DEF IInv, TypeOK, TimeType, Tick, cpu1, flags, cpu2, line,
         history
    <3>3. SwitchType'
      BY <1>9 DEF IInv, TypeOK, SwitchType, Tick, cpu1, flags, cpu2, line,
         history
    <3>4. PlaceType'
      BY <1>9 DEF IInv, TypeOK, PlaceType, Tick, cpu1, flags, cpu2, line,
         history
    <3>5. QED
      BY <3>1, <3>2, <3>3, <3>4 DEF TypeOK, CommandType, TimeType, SwitchType, PlaceType
  <2>2. PeriodBegan'
    BY <1>9 DEF IInv, TypeOK, Commands, PeriodBegan, Tick, cpu1, flags, cpu2,
       line, history
  <2>3. StopIsYoung'
    BY <1>9 DEF IInv, TypeOK, Commands, StopIsYoung, PeriodBegan, Tick, cpu1,
       flags, cpu2, line, history
  <2>4. FlagsMeanCalls'
    BY <1>9 DEF IInv, TypeOK, Commands, FlagsMeanCalls, PeriodBegan,
       StopIsYoung, Tick, cpu1, flags, cpu2, line, history
  <2>5. StartOnItsWay'
    BY <1>9 DEF IInv, TypeOK, Commands, StartOnItsWay, Reached, PeriodBegan,
       StopIsYoung, FlagsMeanCalls, Tick, cpu1, flags, cpu2, line, history
  <2>6. StopOnItsWay'
    BY <1>9 DEF IInv, TypeOK, Commands, StopOnItsWay, Reached, PeriodBegan,
       StopIsYoung, FlagsMeanCalls, Tick, cpu1, flags, cpu2, line, history
  <2>7. StopOnTheLine'
    BY <1>9 DEF IInv, TypeOK, Commands, StopOnTheLine, Tick, cpu1, flags, cpu2,
       line, history
  <2>8. QED
    BY <2>1, <2>2, <2>3, <2>4, <2>5, <2>6, <2>7 DEF IInv
<1>10. CASE UNCHANGED vars
  <2>1. TypeOK'
    BY <1>10 DEF IInv, TypeOK, Commands, vars, cpu1, flags, cpu2, line, history
  <2>2. PeriodBegan'
    BY <1>10 DEF IInv, PeriodBegan, vars, cpu1, flags, cpu2, line, history
  <2>3. StopIsYoung'
    BY <1>10 DEF IInv, StopIsYoung, vars, cpu1, flags, cpu2, line, history
  <2>4. FlagsMeanCalls'
    BY <1>10 DEF IInv, FlagsMeanCalls, vars, cpu1, flags, cpu2, line, history
  <2>5. StartOnItsWay'
    BY <1>10 DEF IInv, StartOnItsWay, Reached, vars, cpu1, flags, cpu2, line,
       history
  <2>6. StopOnItsWay'
    BY <1>10 DEF IInv, StopOnItsWay, Reached, vars, cpu1, flags, cpu2, line,
       history
  <2>7. StopOnTheLine'
    BY <1>10 DEF IInv, StopOnTheLine, vars, cpu1, flags, cpu2, line, history
  <2>8. QED
    BY <2>1, <2>2, <2>3, <2>4, <2>5, <2>6, <2>7 DEF IInv
<1>11. QED
  BY <1>1, <1>2, <1>3, <1>4, <1>5, <1>6, <1>7, <1>8, <1>9, <1>10 DEF Next, RunTx

\* The invariant holds in every reachable state.
THEOREM InvHolds == Spec => []IInv
<1>1. Init => IInv
  BY InitInv
<1>2. IInv /\ [Next]_vars => IInv'
  BY StepInv
<1>3. QED
  BY <1>1, <1>2, PTL DEF Spec

-----------------------------------------------------------------------------
(* The results.                                                            *)

\* Types, and no command in hand between two passes of runTx.
THEOREM TypeCorrect == Spec => []TypeOK
<1>1. IInv => TypeOK
  BY DEF IInv
<1>2. QED
  BY <1>1, InvHolds, PTL

\* A command that is no longer pending was sent last, or was signalled too late
\* for the frame that acknowledged it (Controller::runTx).
THEOREM CommandReachesLineHolds == Spec => []CommandReachesLine
<1>1. IInv => CommandReachesLine
  BY DEF IInv, TypeOK, Commands, StartOnItsWay, StopOnItsWay, Reached, CommandReachesLine
<1>2. QED
  BY <1>1, InvHolds, PTL

\* Cells that run on after a stop have missed its frame, or it came too late.
THEOREM StoppedUnlessLostHolds == Spec => []StoppedUnlessLost
<1>1. IInv => StoppedUnlessLost
  BY DEF IInv, StopOnItsWay, Reached, StopOnTheLine, StoppedUnlessLost
<1>2. QED
  BY <1>1, InvHolds, PTL

\* No start is put on the line after a stop was signalled, but for the one in the
\* frame just composed.
THEOREM NoStartAfterStopHolds == Spec => NoStartAfterStop
<1>1. IInv /\ [Next]_vars =>
        [txActive' /\ ~txActive /\ cmd = "start" => wanted = "start" \/ late # "no"]_vars
  <2> SUFFICES ASSUME IInv, Next, txActive', ~txActive, cmd = "start"
               PROVE  wanted = "start" \/ late # "no"
    BY DEF vars
  <2>1. Send
    BY DEF Next, RunTx, Start, Stop, Compose, Recheck, Finish, AckStop, AckStart,
       FrameDone, Tick, line
  <2>2. pc = "composed" /\ sigStart
    BY <2>1 DEF Send, IInv, FlagsMeanCalls
  <2>3. wanted \in {"start", "stop"}
    BY <2>2 DEF IInv, TypeOK, Commands, FlagsMeanCalls
  <2>4. CASE wanted = "stop"
    BY <2>2, <2>4 DEF IInv, FlagsMeanCalls, StopOnItsWay
  <2>5. QED
    BY <2>3, <2>4
<1>2. QED
  BY <1>1, InvHolds, PTL DEF Spec, NoStartAfterStop

=============================================================================
