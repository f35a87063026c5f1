--------------------------- MODULE FuelcellMonitor ---------------------------
(***************************************************************************)
(* How CPU1 judges the fuel cells (fuelcell/controller): CPU2 receives     *)
(* their frames and stores them with the time of its own clock; CPU1 reads *)
(* the shared data and compares the times with the time of ITS clock.      *)
(* Controller::isConnectionOk decides whether the link is up, and          *)
(* Controller::checkErrors, a task of CPU1's clock, raises the errors.     *)
(* Both clocks count the ticks of timers of the same rate, set to zero in  *)
(* turn at the end of the boot.                                            *)
(***************************************************************************)
EXTENDS Naturals, FiniteSets

CONSTANTS
  Cells,                    \* the fuel cells, FUELCELL_COUNT of them
  Master,                   \* the cell with index 0
  MasterFaults,             \* faults of which only the Master's report counts
  CellFaults,               \* faults of any cell
  UnderVoltage,             \* FUELCELL_UV: the filtered voltage is too low
  CONNECTION_WAIT,
  ERROR_PROPAGATION_DELAY,
  CHECK_PERIOD,             \* the period of taskCheckFuelcellErrors
  TIME_MODULUS,             \* 2^64: the clocks are uint64_t
  MaxTime                   \* bound: the last tick

ASSUME MonitorAssumption ==
  /\ IsFiniteSet(Cells) /\ Master \in Cells
  /\ UnderVoltage \in CellFaults
  /\ "RS_CONNECTION_LOST" \notin MasterFaults \cup CellFaults
  /\ CONNECTION_WAIT \in Nat /\ ERROR_PROPAGATION_DELAY \in Nat
  /\ CHECK_PERIOD \in Nat \ {0} /\ MaxTime \in Nat /\ TIME_MODULUS \in Nat
  /\ CONNECTION_WAIT + MaxTime + 2 < TIME_MODULUS

Faults == MasterFaults \cup CellFaults

VARIABLES
  now1,            \* CPU1's clock
  now2,            \* CPU2's clock
  running2,        \* CPU2 has reset its clock and entered its main loop
  turn,            \* the timer that ticks next
  recvTimestamp,   \* s_data.recvTimestamp
  status,          \* the faults in the last report of each cell
  registered,      \* m_isErrorRegistered
  regTimestamp,    \* m_errorRegTimestamp
  errorPrev,       \* the static of checkErrors
  checkTimestamp,  \* m_taskTimestamps of the task
  raised,          \* the errors set by the last check
  silence,         \* history: CPU1's ticks since the last frame of each cell
  faultFor,        \* history: CPU1's ticks since each fault appeared
  badFor           \* history: CPU1's ticks since a check saw no fault

clocks  == <<now1, now2, running2, turn>>
data    == <<recvTimestamp, status>>
check   == <<registered, regTimestamp, errorPrev, checkTimestamp, raised>>
history == <<silence, faultFor, badFor>>
vars    == <<clocks, data, check, history>>

\* Types; CPU2's clock runs ahead of CPU1's by two ticks at most.
TypeOK ==
  /\ now1 \in 0 .. MaxTime /\ now2 \in 0 .. MaxTime + 2
  /\ now2 <= now1 + 2
  /\ running2 \in BOOLEAN /\ turn \in {1, 2}
  /\ recvTimestamp \in [Cells -> 0 .. MaxTime + 2]
  /\ status \in [Cells -> SUBSET Faults]
  /\ registered \in BOOLEAN /\ errorPrev \in BOOLEAN
  /\ regTimestamp \in 0 .. MaxTime /\ checkTimestamp \in 0 .. MaxTime
  /\ raised \subseteq Faults \cup {"RS_CONNECTION_LOST"}
  /\ silence \in [Cells -> 0 .. MaxTime]
  /\ faultFor \in [Faults -> 0 .. MaxTime]
  /\ badFor \in 0 .. MaxTime

\* CPU1 has reset its clock and tells CPU2 that it is ready.  The voltage filters
\* start from zero.
Init ==
  /\ now1 = 0 /\ now2 = 0 /\ running2 = FALSE /\ turn \in {1, 2}
  /\ recvTimestamp = [c \in Cells |-> 0]
  /\ status = [c \in Cells |-> {UnderVoltage}]
  /\ registered = FALSE /\ regTimestamp = 0 /\ errorPrev = FALSE
  /\ checkTimestamp = 0 /\ raised = {}
  /\ silence = [c \in Cells |-> 0]
  /\ faultFor = [f \in Faults |-> 0] /\ badFor = 0

-----------------------------------------------------------------------------
(* What CPU1 computes from the shared data.                                *)

\* now - before in uint64_t
Elapsed(now, before) ==
  IF before <= now THEN now - before ELSE TIME_MODULUS - (before - now)

\* Mutant: the longest silence allowed is a loss already.
IsConnectionOk_OffByOne ==
  /\ now1 > CONNECTION_WAIT
  /\ \A c \in Cells : Elapsed(now1, recvTimestamp[c]) < CONNECTION_WAIT

\* Mutant: one cell that reports is enough.
IsConnectionOk_AnyCell ==
  /\ now1 > CONNECTION_WAIT
  /\ \E c \in Cells : Elapsed(now1, recvTimestamp[c]) <= CONNECTION_WAIT

\* Controller::isConnectionOk
IsConnectionOk ==
  /\ now1 > CONNECTION_WAIT
  /\ \A c \in Cells : Elapsed(now1, recvTimestamp[c]) <= CONNECTION_WAIT

\* hasError() ... minCellVoltage() < ABSOLUTE_MIN_VOLTAGE
CurrentFaults == (status[Master] \cap MasterFaults) \cup
                 ((UNION {status[c] : c \in Cells}) \cap CellFaults)

-----------------------------------------------------------------------------
(* CPU1.                                                                   *)

Due == now1 >= checkTimestamp + CHECK_PERIOD

\* Mutant: a fault that is gone is not forgotten.
CheckErrors_NotForgotten ==
  LET expired == registered /\ Elapsed(now1, regTimestamp) > ERROR_PROPAGATION_DELAY
      error   == CurrentFaults # {}
  IN /\ Due
     /\ raised' = (IF expired THEN CurrentFaults ELSE {})
                  \cup (IF IsConnectionOk THEN {} ELSE {"RS_CONNECTION_LOST"})
     /\ registered' = (registered \/ error)
     /\ regTimestamp' = IF error /\ ~registered THEN now1 ELSE regTimestamp
     /\ errorPrev' = error
     /\ checkTimestamp' = now1
     /\ badFor' = IF error THEN badFor ELSE 0
     /\ UNCHANGED <<clocks, data, silence, faultFor>>

\* Mutant: every check that sees a fault registers it anew.
CheckErrors_Restarted ==
  LET expired == registered /\ Elapsed(now1, regTimestamp) > ERROR_PROPAGATION_DELAY
      error   == CurrentFaults # {}
  IN /\ Due
     /\ raised' = (IF expired THEN CurrentFaults ELSE {})
                  \cup (IF IsConnectionOk THEN {} ELSE {"RS_CONNECTION_LOST"})
     /\ registered' = error
     /\ regTimestamp' = IF error THEN now1 ELSE regTimestamp
     /\ errorPrev' = error
     /\ checkTimestamp' = now1
     /\ badFor' = IF error THEN badFor ELSE 0
     /\ UNCHANGED <<clocks, data, silence, faultFor>>

\* Controller::checkErrors: the faults share one delay, which starts with the
\* first check that sees any of them and ends with the first that sees none.
CheckErrors ==
  LET expired == registered /\ Elapsed(now1, regTimestamp) > ERROR_PROPAGATION_DELAY
      error   == CurrentFaults # {}
  IN /\ Due
     /\ raised' = (IF expired THEN CurrentFaults ELSE {})
                  \cup (IF IsConnectionOk THEN {} ELSE {"RS_CONNECTION_LOST"})
     /\ registered' = (error /\ (registered \/ ~errorPrev))
     /\ regTimestamp' = IF error /\ ~errorPrev THEN now1 ELSE regTimestamp
     /\ errorPrev' = error
     /\ checkTimestamp' = now1
     /\ badFor' = IF error THEN badFor ELSE 0
     /\ UNCHANGED <<clocks, data, silence, faultFor>>

\* CPU1's SystemClock::onInterrupt; a tick is longer than a pass of the main loop.
Tick1 ==
  /\ turn = 1 /\ ~Due /\ now1 < MaxTime
  /\ now1' = now1 + 1 /\ turn' = 2
  /\ silence' = [c \in Cells |-> silence[c] + 1]
  /\ faultFor' = [f \in Faults |-> IF f \in CurrentFaults THEN faultFor[f] + 1 ELSE 0]
  /\ badFor' = badFor + 1
  /\ UNCHANGED <<now2, running2, data, check>>

-----------------------------------------------------------------------------
(* CPU2.                                                                   *)

\* CPU2 answers within a tick of CPU1.  SystemClock::reset zeroes the count and
\* not the timer, whose interrupt has been pending since long and is taken as
\* soon as interrupts are enabled: the clock shows 1 at once.
StartCpu2 ==
  /\ ~running2
  /\ running2' = TRUE /\ now2' = 1
  /\ UNCHANGED <<now1, turn, data, check, history>>

\* Mutant: CPU2's timer has half the period.
Tick2_HalfPeriod ==
  /\ turn = 2 /\ running2
  /\ now2' = now2 + 2 /\ turn' = 1
  /\ UNCHANGED <<now1, running2, data, check, history>>

\* CPU2's SystemClock::onInterrupt.
Tick2 ==
  /\ turn = 2 /\ running2
  /\ now2' = now2 + 1 /\ turn' = 1
  /\ UNCHANGED <<now1, running2, data, check, history>>

\* Controller::runRx: the report of a cell.
Report(c, faults) ==
  /\ running2
  /\ faults \subseteq (IF c = Master THEN Faults ELSE CellFaults)
  /\ status' = [status EXCEPT ![c] = faults]
  /\ recvTimestamp' = [recvTimestamp EXCEPT ![c] = now2]
  /\ silence' = [silence EXCEPT ![c] = 0]
  /\ faultFor' = [f \in Faults |-> IF f \in CurrentFaults' THEN faultFor[f] ELSE 0]
  /\ UNCHANGED <<clocks, check, badFor>>

Next ==
  \/ CheckErrors \/ Tick1 \/ StartCpu2 \/ Tick2
  \/ \E c \in Cells, faults \in SUBSET Faults : Report(c, faults)

Spec == Init /\ [][Next]_vars

-----------------------------------------------------------------------------
(* Properties.                                                             *)

\* A link is judged lost only for a reason: a cell has been silent for as long as
\* CONNECTION_WAIT, or CPU2's clock is ahead and a frame that has just come is
\* from CPU1's future: now() - recvTimestamp is then a huge unsigned number.
LossHasReason ==
  now1 > CONNECTION_WAIT /\ ~IsConnectionOk =>
    \E c \in Cells : silence[c] > CONNECTION_WAIT \/ recvTimestamp[c] > now1

\* A cell that stays silent is noticed by a check: within the wait, the lead of
\* CPU2's clock and one period.
SilenceIsNoticed ==
  (\E c \in Cells : silence[c] > CONNECTION_WAIT + 2 + CHECK_PERIOD) =>
    "RS_CONNECTION_LOST" \in raised

\* A fault that stays is raised: one period to see it, the delay, and one period
\* to look again, whatever other faults come and go on the same timer.
FaultIsNoticed ==
  \A f \in Faults :
    faultFor[f] > ERROR_PROPAGATION_DELAY + 2 * CHECK_PERIOD => f \in raised

\* No glitch is raised: while a fault is raised, no check for longer than the
\* delay has found the cells without a fault.
RaisedIsLasting == raised \cap Faults # {} => badFor > ERROR_PROPAGATION_DELAY
=============================================================================
