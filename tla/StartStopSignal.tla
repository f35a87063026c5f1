--------------------------- MODULE StartStopSignal ---------------------------
(***************************************************************************)
(* How a start or stop of the fuel cells gets from CPU1 to the cells       *)
(* (fuelcell/controller).  Controller::start and stop, on CPU1, set an     *)
(* inter-processor flag each.  Controller::runTx, in the main loop of      *)
(* CPU2, turns the flags into the command of a periodic frame, hands the   *)
(* frame to the CAN-by-GPIO transceiver and acknowledges the flags.  The   *)
(* two CPUs run truly in parallel, so runTx is modelled read by read.      *)
(***************************************************************************)
EXTENDS Naturals

CONSTANTS
  TPDO_PERIOD,   \* the period of the frames
  FRAME_MAX,     \* the longest a frame can keep the transceiver busy
  RESTART_DELAY  \* DELAY_BEFORE_SHUTDOWN + DELAY_AFTER_SHUTDOWN (fsm.cpp): the
                 \* shortest time from a stop to the next start

\* In milliseconds: 200 + 2 < 7000.
ASSUME TimingAssumption ==
  /\ TPDO_PERIOD \in Nat \ {0} /\ FRAME_MAX \in Nat /\ RESTART_DELAY \in Nat
  /\ TPDO_PERIOD + FRAME_MAX < RESTART_DELAY

VARIABLES
  wanted,      \* what CPU1 called last: "none", "start" or "stop"
  sinceStop,   \* the time since Controller::stop, counted up to RESTART_DELAY
  sigStart,    \* the flag SIG_START
  sigStop,     \* the flag SIG_STOP
  pc,          \* where runTx is
  cmd,         \* tpdo.cmd: "none" (0), "start" (0x96) or "stop" (0x69)
  sinceTx,     \* now() - timeTxPrev, counted up to TPDO_PERIOD
  txActive,    \* Transceiver::m_txActive
  txAge,       \* the time the frame has been on the line
  txCmd,       \* the command in that frame
  lastSent,    \* history: the last command accepted by the transceiver
  cells,       \* the fuel cells: "running" or "stopped"
  late,        \* history: the last call came after the look at the flags that
               \* composed a frame ("looked"), and the frame went out ("missed")
  frameLost    \* history: the frame with the last command was not received

cpu1 == <<wanted, sinceStop>>
flags == <<sigStart, sigStop>>
cpu2 == <<pc, cmd, sinceTx>>
line == <<txActive, txAge, txCmd, cells>>
history == <<lastSent, late, frameLost>>
vars == <<cpu1, flags, cpu2, line, history>>

Commands == {"none", "start", "stop"}

\* Types; only an idle runTx has no command in hand.
TypeOK ==
  /\ wanted \in Commands /\ cmd \in Commands
  /\ lastSent \in Commands /\ txCmd \in Commands
  /\ sinceStop \in 0 .. RESTART_DELAY
  /\ sinceTx \in 0 .. TPDO_PERIOD
  /\ txAge \in 0 .. FRAME_MAX
  /\ sigStart \in BOOLEAN /\ sigStop \in BOOLEAN /\ txActive \in BOOLEAN
  /\ late \in {"no", "looked", "missed"} /\ frameLost \in BOOLEAN
  /\ pc \in {"idle", "composed", "sent", "ackStop", "ackBoth", "ackStart"}
  /\ cells \in {"running", "stopped"}
  /\ pc = "idle" => cmd = "none"

Init ==
  /\ wanted = "none" /\ sinceStop = 0
  /\ sigStart = FALSE /\ sigStop = FALSE
  /\ pc = "idle" /\ cmd = "none" /\ sinceTx = 0
  /\ txActive = FALSE /\ txAge = 0 /\ txCmd = "none" /\ cells = "stopped"
  /\ lastSent = "none" /\ late = "no" /\ frameLost = FALSE

-----------------------------------------------------------------------------
(* CPU1.                                                                   *)

Lateness ==
  CASE pc = "composed" -> "looked" [] pc = "sent" -> "missed" [] OTHER -> "no"

\* Controller::start, called by STANDBY_State::startup only.
Start ==
  /\ wanted = "none" \/ (wanted = "stop" /\ sinceStop = RESTART_DELAY)
  /\ wanted' = "start"
  /\ sigStart' = TRUE
  /\ late' = Lateness
  /\ UNCHANGED <<sinceStop, sigStop, cpu2, line, lastSent, frameLost>>

\* Controller::stop, called by the shutdown of a launched converter.
Stop ==
  /\ wanted = "start"
  /\ wanted' = "stop" /\ sinceStop' = 0
  /\ sigStop' = TRUE
  /\ late' = Lateness
  /\ UNCHANGED <<sigStart, cpu2, line, lastSent, frameLost>>

-----------------------------------------------------------------------------
(* CPU2: Controller::runTx.                                                *)

\* Mutant: the start flag is looked at first.
Compose_StartFirst ==
  /\ pc = "idle" /\ sinceTx = TPDO_PERIOD
  /\ cmd' = IF sigStart THEN "start" ELSE IF sigStop THEN "stop" ELSE "none"
  /\ pc' = "composed"
  /\ UNCHANGED <<cpu1, flags, sinceTx, line, history>>

\* The period is over: the command of the frame is chosen, a stop first.
Compose ==
  /\ pc = "idle" /\ sinceTx = TPDO_PERIOD
  /\ cmd' = IF sigStop THEN "stop" ELSE IF sigStart THEN "start" ELSE "none"
  /\ pc' = "composed"
  /\ UNCHANGED <<cpu1, flags, sinceTx, line, history>>

\* Mutant: what send returned is not looked at.
Send_ResultIgnored ==
  /\ pc = "composed" /\ pc' = "sent"
  /\ \/ /\ txActive
        /\ UNCHANGED <<line, history>>
     \/ /\ ~txActive
        /\ txActive' = TRUE /\ txAge' = 0 /\ txCmd' = cmd
        /\ lastSent' = IF cmd = "none" THEN lastSent ELSE cmd
        /\ frameLost' = (frameLost /\ cmd = "none")
        /\ late' = IF late = "looked" THEN "missed" ELSE late
        /\ UNCHANGED cells
  /\ UNCHANGED <<cpu1, flags, cmd, sinceTx>>

\* Transceiver::send, which refuses a frame while one is on the line; then the
\* flags stay as they are and the next pass of the main loop tries again.
Send ==
  /\ pc = "composed"
  /\ \/ /\ txActive
        /\ pc' = "idle" /\ cmd' = "none"
        /\ late' = IF late = "looked" THEN "no" ELSE late
        /\ UNCHANGED <<line, lastSent, frameLost>>
     \/ /\ ~txActive
        /\ txActive' = TRUE /\ txAge' = 0 /\ txCmd' = cmd
        /\ lastSent' = IF cmd = "none" THEN lastSent ELSE cmd
        /\ frameLost' = (frameLost /\ cmd = "none")
        /\ pc' = "sent"
        /\ late' = IF late = "looked" THEN "missed" ELSE late
        /\ UNCHANGED <<cmd, cells>>
  /\ UNCHANGED <<cpu1, flags, sinceTx>>

\* Mutant: tpdo.cmd outlives the pass that has sent it.
Finish_CmdKept ==
  /\ pc' = "idle" /\ sinceTx' = 0 /\ UNCHANGED cmd

\* runTx returns: tpdo is gone, and the next period begins.
Finish ==
  /\ pc' = "idle" /\ cmd' = "none" /\ sinceTx' = 0

\* The flags are read again to choose what to acknowledge.
Recheck ==
  /\ pc = "sent"
  /\ \/ sigStop /\ pc' = "ackStop" /\ UNCHANGED <<cmd, sinceTx>>
     \/ ~sigStop /\ sigStart /\ pc' = "ackStart" /\ UNCHANGED <<cmd, sinceTx>>
     \/ ~sigStop /\ ~sigStart /\ Finish
  /\ UNCHANGED <<cpu1, flags, line, history>>

\* Mutant: the stop flag is not acknowledged.
AckStop_Missing ==
  /\ pc = "ackStop"
  /\ pc' = "ackBoth"
  /\ UNCHANGED <<cpu1, flags, cmd, sinceTx, line, history>>

AckStop ==
  /\ pc = "ackStop"
  /\ sigStop' = FALSE
  /\ pc' = "ackBoth"
  /\ UNCHANGED <<cpu1, sigStart, cmd, sinceTx, line, history>>

\* Mutant: a stop leaves the start flag standing.
AckStart_OnlyAlone ==
  /\ pc \in {"ackBoth", "ackStart"}
  /\ sigStart' = (sigStart /\ pc = "ackBoth")
  /\ Finish
  /\ UNCHANGED <<cpu1, sigStop, line, history>>

AckStart ==
  /\ pc \in {"ackBoth", "ackStart"}
  /\ sigStart' = FALSE
  /\ Finish
  /\ UNCHANGED <<cpu1, sigStop, line, history>>

-----------------------------------------------------------------------------
(* The line and time.                                                      *)

\* The clock interrupt has shifted the frame out; nothing acknowledges it, so
\* the cells may have missed it.
FrameDone ==
  /\ txActive /\ txActive' = FALSE
  /\ \/ /\ cells' = CASE txCmd = "start" -> "running"
                      [] txCmd = "stop" -> "stopped"
                      [] OTHER -> cells
        /\ UNCHANGED frameLost
     \/ /\ frameLost' = (frameLost \/ txCmd # "none")
        /\ UNCHANGED cells
  /\ UNCHANGED <<cpu1, flags, cpu2, txAge, txCmd, lastSent, late>>

\* A tick is longer than a pass of CPU2's main loop.
Tick ==
  /\ pc = "idle"
  /\ sinceTx = TPDO_PERIOD => txActive
  /\ txActive => txAge < FRAME_MAX
  /\ sinceTx' = IF sinceTx < TPDO_PERIOD THEN sinceTx + 1 ELSE sinceTx
  /\ sinceStop' = IF sinceStop < RESTART_DELAY THEN sinceStop + 1 ELSE sinceStop
  /\ txAge' = IF txActive THEN txAge + 1 ELSE txAge
  /\ UNCHANGED <<wanted, flags, pc, cmd, txActive, txCmd, cells, history>>

RunTx == Compose \/ Send \/ Recheck \/ AckStop \/ AckStart

Next == Start \/ Stop \/ RunTx \/ FrameDone \/ Tick

\* CPU2's main loop and the clock interrupts of both CPUs never stop.
Spec == Init /\ [][Next]_vars /\ WF_vars(RunTx) /\ WF_vars(FrameDone) /\ WF_vars(Tick)

-----------------------------------------------------------------------------
(* Properties.                                                             *)

\* A command that is no longer pending was the last one sent, except when it was
\* signalled between the two looks runTx takes at its flag: then it is
\* acknowledged although the frame says something else.  The delays of the state
\* machine keep a start from meeting the stop before it.
CommandReachesLine ==
  wanted # "none" /\ ~sigStop /\ ~sigStart /\ pc = "idle" => lastSent = wanted \/ late = "missed"

\* Cells that run although a stop was sent for have missed a frame, or the stop
\* was late: nothing else leaves them running.
StoppedUnlessLost ==
  wanted = "stop" /\ ~sigStop /\ pc = "idle" /\ ~txActive =>
    cells = "stopped" \/ frameLost \/ late = "missed"

\* No frame tells the cells to start after the converter was told to stop, but
\* for the one that was composed before.
NoStartAfterStop ==
  [][txActive' /\ ~txActive /\ cmd = "start" => wanted = "start" \/ late # "no"]_vars

\* A signalled stop is taken from its flag.
StopIsServed == sigStop ~> ~sigStop
=============================================================================
