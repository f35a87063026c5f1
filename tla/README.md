# A formal model of the fuel cell converter

The firmware runs on a dual-core TMS320F2837xD. It charges a traction battery
from a stack of five fuel cells: a DC/DC power stage, a relay between the cells
and the converter, a CAN link to the battery management system (BMS) and to a
service tool, and a CAN line to the cells that is bit-banged over GPIO pins.
The modules in this directory model the parts of it whose correctness depends
on the order in which commands, interrupts, two processors, timers and lost
frames meet. Paths below are relative to `src/cpu1/src` unless they say
otherwise.

## Inventory

| component | state | operations | interacts with |
|---|---|---|---|
| state machine (`fuelcell/fsm`) | current state, time stamp, `WAIT`'s next state and delay, current ramp, failure count | `startup`, `startCharging`, `shutdown`, `emergencyShutdown`, `run` of each state | called by every interrupt and command; drives converter, controller, syslog |
| converter (`fuelcell/converter`) | PWM, relay, filters, PI controllers, limits | `start`, `stop`, relay, the ADC and PWM interrupt handlers | state machine, syslog |
| controller (`fuelcell/controller`) | shared cell data, debounce of errors, the flags SIG_START and SIG_STOP | `start`, `stop` (CPU1), `runTx`, `runRx` (CPU2), `checkErrors` | both CPUs, transceiver, syslog |
| transceiver (`canbygpio`) | bit buffers, `txActive`, `rxDataReady` | `send`, `recv`, edge and clock interrupts | controller, pins |
| system log (`sys/syslog`) | error register, mask, warnings, message queue | set, reset, enable, disable, messages | everybody, both CPUs |
| CAN server (`ucanopen`) | mailboxes, raw flags, processed data, reception flags, SDO answer | `onFrameReceived` (interrupt), `run` | BMS, service tool, converter, object dictionary |
| system clock, watchdog (`drivers/mcu/cputimers`, `clocktasks`) | time, watchdog timer, task time stamps | tick interrupt, `runTasks`, resets | syslog, controller |
| boot (`main.cpp`, `cpu2/src/main.cpp`) | handshake flags | configuration, clock reset, start of the interrupts | both CPUs |
| ring (`include/emb/emb_queue.h`) | array, front, back, size | `push`, `front`, `pop` | the messages of the system log |
| settings, command line, board support, `emb` filters and algorithms, other drivers | | | not modelled, see below |

What is hard here:

* **Interleaving.** The same state object is driven from the main loop
  (commands), from the PWM event interrupt (`run`) and from the output voltage
  interrupt (`shutdown`). `CriticalSection` enables the interrupts when it is
  left, also inside an interrupt handler, so handlers nest.
* **Two processors** that share flags and data without locks, and whose clocks
  start at different moments.
* **Failure.** Frames to the cells are not acknowledged; a full mailbox drops
  frames; cells fall silent; launches fail and are retried a limited number of
  times; the device is reset while the cells run.
* **Time.** Delays between states, a watchdog for the BMS, a shared debounce
  timer for the faults of the cells, a connection timeout.

Correct means, per component: the power stage is energised only in the states
that watch over it (state machine, converter); a command reaches the cells or
there is a named reason (controller, transceiver); silence and faults are
noticed in bounded time and not invented (controller, clock); frames are
answered once and in order and the link's watchdog alarms only for a reason
(server, watchdog); a frame that a transceiver returns is a frame that was sent,
unmixed and not out of order (transceiver); messages are kept in order, and only
a full log loses them (system log).

## Modules

| module | what it is | state and actions, in the code |
|---|---|---|
| `ChargeCycle` | what the state machine promises: launch, connect, charge, stop, isolate | abstract |
| `ConverterFsm` | the state machine with its surroundings, a handler per step | variables are named after the fields; `RunX` is `X_State::run`, `Shutdown` is `shutdown` of every state, `Rpdo...`/`Sdo...` are the CAN commands, `VoltageOutSample`, `ProtectionSample`, `CheckErrors`, `WatchdogTimeout` the sources of errors |
| `ConverterPreempt` | the same handlers one machine-level effect at a time, with nesting interrupts | `todo[t]` is what thread `t` still has to do; a call is expanded with the state object that is current when it is made and keeps that object |
| `StartStopSignal` | a start or stop on its way from CPU1 to the cells | `Controller::start`, `stop`; `runTx` read by read (`Compose`, `Send`, `Recheck`, `AckStop`, `AckStart`); `FrameDone` is the end of the transmission |
| `FuelcellMonitor` | how CPU1 judges what CPU2 has received | two clocks, `runRx` (`Report`), `isConnectionOk`, `checkErrors` |
| `FrameQueue` | what the CAN server promises: two places per kind of frame, answered once and in turn | abstract |
| `BmsLink` | the CAN server and the watchdog of the link, access by access | `Receive` is `onFrameReceived`, `Look`/`Process`/`Clear` are `processRawRdo`, `RespondTo...` the RPDO responses, `ProcessRequest` the SDO service, `Send` is `sendSdoResponse` |
| `FrameLine` | what a line that carries whole frames promises, lossless or lossy | abstract |
| `Transceiver` | the two interrupts of the transceiver against `send` and `recv` | `OnRxStart`, `OnClockInterrupt` (`ShiftOut`, `SampleIn`, `TerminateRx`); `Generate` and `Activate` are the halves of `send`, `Look`, `Copy`, `Parse`, `Finish` the stages of `recv`; a bit is abstracted to the frame it belongs to |
| `CanFrame` | the bits of a frame: checksum, stuffing, sampling, parsing | `TxCanBitStream` is `generateTxCanFrame`, `Samples` what `onClockInterrupt` stores, `Parsed` is `parseRxCanFrame`; a `...Step` operator is the body of a loop over the bits |
| `MessageLog` | what the message log promises: a bounded log, a hand-over from the second processor | abstract |
| `SyslogMessages` | the ring of messages, its readers and writers on two processors | `AddMessage`, `ReadMessage`, `PopMessage` with `emb::Queue`; `LookPop` ... `AckAdd` are `processIpcSignals`, `Serve` and `Pop` the halves of `getSyslogMessage`; `Cpu2Store`, `Cpu2Signal`, `Cpu2Pop` CPU2's versions |
| `MC...` | the instances that TLC checks | |
| `...Proofs` | theorems about `ConverterFsm`, `StartStopSignal`, `FuelcellMonitor`, `BmsLink`, `SyslogMessages`, `Transceiver`, `ConverterPreempt`, `CanFrame` | |

`ConverterFsm` INSTANCEs `ChargeCycle`, `BmsLink` INSTANCEs `FrameQueue`,
`SyslogMessages` INSTANCEs `MessageLog` and `Transceiver` INSTANCEs `FrameLine` twice,
lossless for the frames it sends and lossy for those it receives; each is shown to
implement the abstract module under a refinement mapping (`Phase`, `Queue`,
`Queue` with `Flagged` and `answer`, histories of the frames). The modules meet at operations: the link's `RespondToCommand` is the
state machine's `Rpdo...`, the state machine's `cellCommand` is what
`StartStopSignal` carries, where `FrameDone` stands for what `Transceiver` does in many
steps; `Transceiver` refuses every buffer that is not one frame throughout, which is an
ideal of the 15-bit checksum that the code compares (`CanFrame` shows what the checksum
does of one wrong bit; a mixture of two frames differs in many and passes with small
probability); the state machine's `linkOk` and the errors of `CheckErrors` are what
`FuelcellMonitor` computes.

Some hazards are named inside the properties as exceptions: a command called between
the two looks of `runTx`, a lost frame, a report from CPU1's future, a dropped frame, a
stuffed frame with a run at its start. Such a property does not say that the case is
harmless, but that there is no other.

Definitions named `X_Something` above a definition `X` are mutants: `X` with a
plausible bug. For each property one of them makes TLC find a violation, so
that no property holds whatever the code does.

## Runs

| run | properties | what it shows |
|---|---|---|
| `fsm_safety` | `TypeOK`, `EnergyFlow`, `RelayFollowsCycle`, `NoChargeIntoFullBattery`, `CellSupervision`, `Lockout`, `RampStartsLow`, `NoCellErrorAfterStop`, `CycleSafety` | no order of handlers breaks the energy path, the relay, the masking, the lockout or the order of the cycle |
| `fsm_liveness` | `ImplementsCycle`, `ErrorIsolates`, `LinkEndsPowerup` | a launch ends, a shutdown ends isolated, an error isolates, the power-up ends |
| `preempt` | `TypeOK`, `GatesWatched`, `RelayFollowsState`, `ErrorBlocksGates` | what survives when handlers are preempted anywhere |
| `preempt_mask` | `NoCellErrorAfterStop` (violated) | the mask of the cell errors does not survive, see below |
| `start_stop` | `TypeOK`, `CommandReachesLine`, `StoppedUnlessLost`, `NoStartAfterStop`, `StopIsServed` | a command reaches the line unless it falls between the two looks of `runTx` |
| `monitor` | `TypeOK`, `LossHasReason`, `SilenceIsNoticed`, `FaultIsNoticed`, `RaisedIsLasting` | bounds on detection, and no detection without cause but one |
| `link_time` | `TypeOK`, `SilenceIsKnown`, `AlarmHasReason` | the watchdog with ticks anywhere in the main loop |
| `link_frames` | `NewestInForce`, `FramesInTurn`, `FramesAnswered`, `RequestIsAnswered` | the frames with the CAN interrupt anywhere in the main loop |
| `syslog` | `TypeOK`, `ImplementsLog` | the ring, CPU2's word and the flags are a bounded log, a request is shown the message that it removes, and a hand-over is taken over |
| `transceiver` | `TypeOK`, `FrameWithRoomArrives`, `ImplementsLines` | frames go out whole, once and in turn; none comes in mixed or out of order; one that has room is not lost |
| `can_frame` | `ReturnsWhatWasSent` | parse after compose is the identity; a disturbed frame is not taken for a good one |
| `can_frame_noise` | `DataFitsBuffer` (violated) | the parser believes a disturbed length code, see below |

**Bounds.** `ConverterFsm`: one cell error, two protection errors (`OVP_OUT`, which
comes with the voltage sample, and one other), because the code treats all
errors of a kind alike; delays of one or two ticks, with the order of the real
ones (a relaunch delay and a launch longer than the rest); two failures instead
of `MAX_FAILURE_COUNT`; a ramp of three steps, which has a first, an inner and a
last one. `MaxElapsed` stops the count of time in a state once every delay is
over: no comparison can tell more. The liveness run takes delays of 0 and 1,
which keeps every wait at least one tick long. `ConverterPreempt` has no
constants: the errors are two classes, the timers are choices, and a wait does
not expire under the handler it began under (the shortest delay is seconds).
`StartStopSignal`: a frame may be longer than the period, so the transceiver
can be busy when the next frame is due; in the device a frame takes less than 1 ms
and the period is 200 ms, and the model allows more than can happen. `FuelcellMonitor`: two cells, one of
them the master, eight ticks, delays of two; `TIME_MODULUS` stands for 2^64 and
is what makes the underflow of a time difference visible. Time is bounded by
`MaxTime` there, so the run allows the end of time (`CHECK_DEADLOCK FALSE`); but
for that run and those of `CanFrame` a deadlock would be an error. `BmsLink`: one kind of frame with
commands and the service data object, a period of three ticks and one tick
within a pass; the content run has two contents, a known and an unknown request
and no time. `SyslogMessages`: a ring of three places instead of 32, which wraps with
any number of messages in it. `Transceiver`: a frame of two parsed bits and one
more, a buffer one cell longer than that and a transmission one bit longer again,
in the order of the real numbers (98, 111, 112, 113); at most three clock interrupts
between two looks of `recv`, which is longer than a bit and longer than the pause
between two frames, and of the order of a frame of this length; three frames come
in, so that one can be torn and two more be lost or repeated.
The code has no bound on a pass of CPU2's main loop; `MAX_PASS` names the one that
`FrameWithRoomArrives` is relative to. `CanFrame` has the real numbers of bits; the
frames are few, chosen for their runs of equal bits (identifiers 0, 0x180, 0x7FF,
data full of runs, mixed, and short), two of them in a row so that the second is
parsed from a used buffer, and one bit disturbed anywhere but in the start bit,
whose edge starts the collection. Its run ends when the frames are used up
(`CHECK_DEADLOCK FALSE`). The proofs lift the bounds for the safety properties
of all modules; one bound stays in one theorem, `MaxFlips <= 1` of `CanFrame`.

**Fairness.** The PWM event interrupt and the clock interrupt are enabled once,
before the main loop, and never disabled (`Pwm::stop` blocks outputs, not the
counter), so both recur for ever: weak fairness of `PwmEvent` and `Tick` in
`ConverterFsm`. In `ConverterPreempt` a pending interrupt stays pending until it is
taken and interrupts leave time for the main loop: strong fairness of the PWM
event and of each thread. The main loops contain no blocking call: weak fairness
of `RunTx` and of `MainLoop` (in `BmsLink` and `SyslogMessages`); the transceiver's clock shifts every frame out: weak
fairness of `FrameDone`. Nothing is assumed of commands, cells, frames or
measurements.

## Proofs

Every safety property of a passing run is proved for every value of the
constants that satisfies the named assumptions of the modules (disjoint kinds of
errors; a positive failure limit; `0 < RefMin < RefMax`; `TPDO_PERIOD + FRAME_MAX <
RESTART_DELAY`; the clocks do not wrap; `WATCHDOG_PERIOD + 2 * MAX_PASS <= MaxTime`;
a ring of one place or more, and messages of CPU2 that are none of CPU1's; a frame
is parsed before it ends and ends before the buffer is full; identifiers of 11 bits
and at most eight bytes of data). `ReturnsWhatWasSent` alone takes a hypothesis more,
see `CanFrameProofs`. Each proof module defines an `IInv` and proves `Init => IInv`,
`IInv /\ [Next]_vars => IInv'`, one lemma per handler.

* `ConverterFsmProofs`. `EnergyFlow`, `CellSupervision` and `Lockout` are not
  inductive alone: a charge starts in READY with the PWM off (`EnergyFlow`), the
  relay closed (`RelayFollowsCycle`) and the cells told to run, which needs
  `CommandFollowsCycle`: from the launch to the stop the last command was a start.
  `Connected` and `Stopping` count a wait to the state it leads to, which is what
  lets the invariants pass through `WAIT`. The same invariant gives the action
  property `NoCellErrorAfterStop`, and `CycleSafety`, the refinement of
  `ChargeCycle!Safety`, handler by handler.
* `StartStopSignalProofs`. The invariant follows a command: it is in its flag, or
  in the frame that `runTx` is composing, or it was sent, or it was called between
  the two looks (`StartOnItsWay`, `StopOnItsWay`); and a pending stop is younger than
  a period or the frame that keeps the line busy (`StopIsYoung`), so the delays of
  the state machine keep a start from meeting the stop before it.
* `FuelcellMonitorProofs`. The invariant bounds the lead of CPU2's clock by the
  turn of the timers, ties each time stamp to the silence of its cell, and says
  what the last check saw and how long ago that was.
* `BmsLinkProofs`. The invariant says where the frames of each kind are while the
  main loop is at a given place; bounds the watchdog timer from below by the
  silence; and gives the refinement of `FrameQueue!Safety`: each access is an
  accept, a serve or a stutter on `Queue`.
* `SyslogMessagesProofs`. The remainders of the ring are done once: `RingAdd` and
  `RingPop` say that an access is an `Append` or a `Tail` of the sequence that the
  ring stands for. The refinement of `MessageLog!Safety` is then one lemma per
  access. That a request is shown the message that it removes, although reading and
  removing are two calls, needs `ReadIsFront`: between the two nobody changes the front.
* `TransceiverProofs`. With the sizes of the code (113, 98, 111, 112) the state space
  is out of TLC's reach; the proof covers them. Sending: what is in the stream and
  what has been shifted out are one frame. Receiving: the order of the returned
  frames hangs on the first cell of the buffer, which takes the first bit of a frame
  and no other, and a collection outlasts its frame (`Passed`), so a frame that was
  returned twice has left the first cell before the flag is set again
  (`AtMostTwice`). `FrameWithRoomArrives` needs `RoomKept`: the flag is looked at and
  cleared within two passes, and until then nobody writes a buffer with room.
* `ConverterPreemptProofs`. The module has no constants, so its run is exhaustive;
  the proof says why. What a thread has still to do is a sequence of operations, and
  the invariant is one of rely and guarantee: for each operation in which situation it
  may be pending (`Home`), for a few what must come before or after it in its thread
  (`Ordered`). Situations exclude each other where two threads would disturb one
  another: while a handler of a running converter is under way the converter is
  `Live`, because a wait does not expire under the handler that began it. `GatesWatched`
  and `RelayFollowsState` speak of the moments between two handlers and are not
  inductive; `GatesOK` and `RelayOK` say at every moment which pending operation makes
  up for a disagreement: if the outputs are on outside the states that watch over them,
  the main loop has still to go to `CHARGING_START`; and every pending sequence that
  leaves those states blocks the outputs first.
* `CanFrameProofs`. The run has three identifiers and three data fields; the proof has
  all. The loops over the bits are recursive functions. The induction theorems of the
  library take an operator as a parameter and cannot be used, so induction goes over
  sets of numbers (`Induction`, from the well-foundedness of `<`), and a loop is
  reasoned about through its trace (`Recursion`, `LoopTrace`). `UnpackFrame`: the
  parser undoes the composer. `UnpackWrong`: one step of the checksum register can be
  undone (`CrcStepBack`), so two streams that differ in one bit end in different
  registers. `Recovered`: composer and parser count the same runs from the first change of
  level on (`Coupled`), which comes in time if the frame does not begin with five
  equal bits. `TakenUp`: the sampler never counts more than seven bits of the
  frame as one run, and stops at ten. `IInv` ties the buffer to the line as far as it
  was sampled, whatever it held before. `OneWrongBitIsFound` needs no bound: it is
  `ReturnsWhatWasSent` for each frame of which no bit or one was disturbed.
  `ReturnsFrame` is `ReturnsWhatWasSent` itself, under `MaxFlips <= 1`, as in the run. What
  the checksum does to a frame with several wrong bits is not claimed.

Only model-checked: liveness (`ImplementsCycle`, `ErrorIsolates`,
`LinkEndsPowerup`, `ErrorBlocksGates`, `StopIsServed`, `FramesAnswered`,
`RequestIsAnswered`, and of `ImplementsLog` that a hand-over is taken over), which
TLAPS does not reach.

## What the model says about the code

* **The mask of the cell errors can stay off after a stop** (run `preempt_mask`).
  `Controller::stop` masks them with the comment "fuel cell errors must not be
  registered after stop" (`fuelcell_controller.h:151`). `STARTUP_State::run` in the
  PWM interrupt unmasks them; a shutdown that preempts it, or that it preempts,
  leaves them unmasked until the next stop.
* `EnergyFlow`, `NoChargeIntoFullBattery` and `CellSupervision` hold for handlers
  taken as steps and are claimed for no more than that: under preemption the
  state and the flag of the PWM can disagree for the duration of the handlers
  involved, or longer. `GatesWatched`, `RelayFollowsState` and `ErrorBlocksGates`
  are what remains true then.
* **A false loss of the cells is possible.** `SystemClock::reset` sets the count to
  zero and not the timer, and the tick pending on CPU2 is taken at once: CPU2's
  clock leads by up to two ticks, and a report younger than the lead makes
  `now() - recvTimestamp` underflow in `isConnectionOk`. `LossHasReason` names the
  case.
* A shutdown for BATTERY_CHARGED that preempts `startCharging` can be overwritten by its
  transition to CHARGING_START. `GatesWatched` holds then (the outputs are on in a state
  that watches them) and `ErrorBlocksGates` speaks of errors only: neither shows it.
* **A command called between the two looks of `runTx`** is acknowledged unsent;
  `CommandReachesLine` and `StoppedUnlessLost` name the case. A lost frame is not
  repeated.
* A shutdown that arrives in `WAIT` only stops the PWM; the wait goes on to where it
  led. A service tool that repeats RESET FAULTS within the watchdog period keeps
  the loss of the BMS out of the register.
* The entry named "RELAY OFF" (`objectdictionary.cpp:197`) is expected to be named
  "POWERDOWN" by `sdoservice_test.cpp:20` of the tests.

* **The length code of a frame is believed before the checksum is checked** (run
  `can_frame_noise`). The comment at `canbygpio.h:45` says 0-8 bytes; one disturbed
  bit of an eight-byte frame makes it nine or more, and `parseRxCanFrame` writes as
  many into the eight words of its caller before it refuses the frame.
* **Stuffing does not survive a run at the start.** `parseRxCanFrame` compares the
  first bit with the -1 the buffer was filled with, not with itself, so it finds the
  first stuff bit of a frame with an identifier below 0x080 one bit late.
  `ReturnsWhatWasSent` names the case (`RunAtTheStart`). No user enables stuffing.
* **`recv` looks at a flag and not at the collection.** A parser that is late copies
  a buffer that the next frame is being collected into: mostly the checksum refuses
  the mixture, and both frames may be lost; if the new frame is nearly complete, it
  is returned and returned again when its collection ends. `FrameLine` therefore
  lets a lossy line hand a frame over twice; the controller overwrites the same
  readings and takes a new time stamp. `FrameWithRoomArrives` says when nothing is
  lost. The receiver collects 112 bits and ends in the 113th, a frame and its pause
  have 111: frames that follow each other at once are not all met at their start.
* **No request of the service tool is lost in the server.** The comment at
  `sdoservice.h:204` says that the server's interrupt calls `processRsdo`; it is called
  from the main loop (`ucanopen_server.h:355`), and `processRequest` resets the flag of
  the request in the same pass. The branch that reports SDO_REQUEST_LOST is never taken
  in the single-core mode that `main.cpp` selects, and no interrupt writes a message
  into the ring.
* A short frame whose length code is disturbed can pass the checksum for another
  length; the controller acts on a length of eight only, and that needs all frames
  on the line to have eight bytes.

`relay` stands for the pin the relay hangs on; in CRD300 builds `turnRelayOn` and
`turnRelayOff` are empty.

## Not modelled

`stopCharging()` has no caller, so `CHARGING_STOP` is unreachable and left out; the
handler of the trip interrupt only acknowledges: it is registered
(`fuelcell_converter.cpp:70`) and enabled (`main.cpp:375`), but the trip-zone pin is
set up for hardware revision 2 and CRD300 only, and the handler changes no state. Settings, sensor scaling, board support, the command line
(debug builds only) and the register-level drivers hold no protocol. In the
mode with bit stuffing a frame ends at ten equal bits, and what is left of a
disturbed frame is collected as another one: `CanFrame` models the first and not the
second, and no user selects that mode. CPU2's halves of `addMessage` and `popMessage`
have no caller yet and are modelled as called at any time; CPU2's error register is
never written. The PI controllers and filters, the periodic transmissions, the
handshake of the boot and the single object dictionary entries are not modelled
yet. `now()` is taken to be read in one piece, although it has two words. Most of
the repository is the vendor's driver library and register definitions, which hold
constants and register accesses: there is no behaviour of this program in them to
model.

## Plan

Done, in this order: the state machine and its cycle; its preemption; the start and
stop signals; the monitoring of the cells; the CAN link; the messages of the system
log; the transceiver and its frames; proofs about all of these.

Next:

1. `Boot`: the handshake of the two CPUs up to the states that `FuelcellMonitor`,
   `SyslogMessages` and `ConverterFsm` start from; the task list of `SystemClock` with
   the delayed reset; `now()` read word by word.
2. `PowerStage`: the current limit and controllers across start, ramp and stop.
3. `emb` algorithms (clamp, interpolation, median filter, search) against reference
   definitions.
