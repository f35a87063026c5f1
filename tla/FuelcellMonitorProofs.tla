------------------------ MODULE FuelcellMonitorProofs ------------------------
(***************************************************************************)
(* The monitor's safety for every number of cells, set of faults, wait,    *)
(* delay, period and width of the clocks.                                  *)
(*                                                                         *)
(* Neither clock knows the other, so the argument goes through the history *)
(* variables: how far CPU2's clock leads (ClockLead) bounds what a time    *)
(* stamp says of the silence of its cell (StampsTellSilence), and what the *)
(* last check saw is what was there a period ago at most (LastCheck...).   *)
(***************************************************************************)
EXTENDS FuelcellMonitor, TLAPS

\* CPU2 leads by one or two ticks before CPU1's timer ticks, and by one less
\* before its own does.
ClockLead ==
  IF running2 THEN IF turn = 1 THEN now1 + 1 <= now2 /\ now2 <= now1 + 2
                               ELSE now1 <= now2 /\ now2 <= now1 + 1
              ELSE now2 = 0 /\ now1 <= 1 /\ (turn = 1 => now1 = 0)

StampsTellSilence ==
  \A c \in Cells :
    /\ silence[c] <= now1
    /\ now1 <= recvTimestamp[c] + silence[c]
    /\ recvTimestamp[c] + silence[c] <= now1 + 2
    /\ recvTimestamp[c] <= now2

\* The task is never late.
CheckIsDue ==
  /\ checkTimestamp <= now1 /\ now1 <= checkTimestamp + CHECK_PERIOD
  /\ regTimestamp <= now1
  /\ registered = errorPrev

LastCheckSawSilence ==
  \A c \in Cells :
    silence[c] > CONNECTION_WAIT + 2 + (now1 - checkTimestamp) =>
      "RS_CONNECTION_LOST" \in raised

\* A fault older than the last check was registered within a period, and raised
\* by that check if the delay was over.
LastCheckSawFault ==
  \A f \in Faults :
    /\ faultFor[f] <= now1
    /\ faultFor[f] > 0 => f \in CurrentFaults
    /\ faultFor[f] > now1 - checkTimestamp =>
         registered /\ regTimestamp + faultFor[f] <= now1 + CHECK_PERIOD
    /\ faultFor[f] > ERROR_PROPAGATION_DELAY + CHECK_PERIOD + (now1 - checkTimestamp) =>
         f \in raised

BadSinceRegistered ==
  /\ registered => now1 <= regTimestamp + badFor
  /\ badFor <= now1

IInv ==
  /\ TypeOK
  /\ ClockLead /\ StampsTellSilence
  /\ CheckIsDue /\ LastCheckSawSilence /\ LastCheckSawFault
  /\ BadSinceRegistered /\ RaisedIsLasting

\* TypeOK in three parts, by the kind of the variables.
ClockType ==
  /\ now1 \in 0 .. MaxTime /\ now2 \in 0 .. MaxTime + 2
  /\ now2 <= now1 + 2
  /\ running2 \in BOOLEAN /\ turn \in {1, 2}

DataType ==
  /\ recvTimestamp \in [Cells -> 0 .. MaxTime + 2]
  /\ status \in [Cells -> SUBSET Faults]
  /\ silence \in [Cells -> 0 .. MaxTime]
  /\ faultFor \in [Faults -> 0 .. MaxTime]

CheckType ==
  /\ registered \in BOOLEAN /\ errorPrev \in BOOLEAN
  /\ regTimestamp \in 0 .. MaxTime /\ checkTimestamp \in 0 .. MaxTime
  /\ raised \subseteq Faults \cup {"RS_CONNECTION_LOST"}
  /\ badFor \in 0 .. MaxTime

\* The type invariant is the conjunction of the three parts.
LEMMA TypeInParts == TypeOK <=> ClockType /\ DataType /\ CheckType
  BY DEF TypeOK, ClockType, DataType, CheckType

\* Only a fault of the cells is found.
LEMMA CurrentAreFaults == CurrentFaults \subseteq Faults
<1>1. status[Master] \cap MasterFaults \subseteq Faults
  BY DEF Faults
<1>2. (UNION {status[c] : c \in Cells}) \cap CellFaults \subseteq Faults
  BY DEF Faults
<1>3. QED
  BY <1>1, <1>2 DEF CurrentFaults

-----------------------------------------------------------------------------
(* The invariant is inductive.                                             *)

\* The invariant holds when CPU1 tells CPU2 that it is ready.
LEMMA InitInv == Init => IInv
<1> SUFFICES ASSUME Init PROVE IInv
  OBVIOUS
<1> USE MonitorAssumption DEF Init
<1>0. running2 \in BOOLEAN /\ registered \in BOOLEAN /\ errorPrev \in BOOLEAN
  BY Zenon
<1>1. TypeOK
  <2>1. ClockType
    BY <1>0 DEF ClockType
  <2>2. DataType
    BY DEF DataType, Faults
  <2>3. CheckType
    <3>1. raised \subseteq Faults \cup {"RS_CONNECTION_LOST"}
      OBVIOUS
    <3>2. QED
      BY <1>0, <3>1 DEF CheckType
  <2>4. QED
    BY <2>1, <2>2, <2>3, TypeInParts
<1>2. ClockLead /\ StampsTellSilence
  BY DEF ClockLead, StampsTellSilence
<1>3. CheckIsDue
  <2>1. registered = errorPrev
    BY Zenon
  <2>2. QED
    BY <2>1 DEF CheckIsDue
<1>4. LastCheckSawSilence
  BY DEF LastCheckSawSilence
<1>5. LastCheckSawFault
  BY DEF LastCheckSawFault
<1>6. BadSinceRegistered /\ RaisedIsLasting
  BY DEF BadSinceRegistered, RaisedIsLasting
<1>7. QED
  BY <1>1, <1>2, <1>3, <1>4, <1>5, <1>6 DEF IInv

\* A frame: the stamp is taken from the clock that leads.
LEMMA ReportInv ==
  ASSUME IInv, NEW c \in Cells, NEW faults \in SUBSET Faults, Report(c, faults)
  PROVE  IInv'
<1> USE MonitorAssumption
<1>0. UNCHANGED <<now1, now2, running2, turn, registered, regTimestamp, errorPrev,
                  checkTimestamp, raised, badFor>>
  BY DEF Report, clocks, check
<1>1. TypeOK'
  <2>1. ClockType'
    BY <1>0 DEF IInv, TypeOK, ClockType
  <2>2. DataType'
    BY DEF IInv, TypeOK, DataType, Report
  <2>3. CheckType'
    BY <1>0 DEF IInv, TypeOK, CheckType
  <2>4. QED
    BY <2>1, <2>2, <2>3 DEF TypeOK, ClockType, DataType, CheckType
<1>2. ClockLead'
  BY <1>0 DEF IInv, ClockLead
<1>3. StampsTellSilence'
  BY <1>0 DEF IInv, TypeOK, ClockLead, StampsTellSilence, Report
<1>4. CheckIsDue'
  BY <1>0 DEF IInv, CheckIsDue
<1>5. LastCheckSawSilence'
  BY <1>0 DEF IInv, TypeOK, CheckIsDue, LastCheckSawSilence, Report
<1>6. LastCheckSawFault'
  <2> SUFFICES ASSUME NEW f \in Faults PROVE
         /\ faultFor'[f] <= now1
         /\ faultFor'[f] > 0 => f \in CurrentFaults'
         /\ faultFor'[f] > now1 - checkTimestamp =>
              registered /\ regTimestamp + faultFor'[f] <= now1 + CHECK_PERIOD
         /\ faultFor'[f] > ERROR_PROPAGATION_DELAY + CHECK_PERIOD + (now1 - checkTimestamp) =>
              f \in raised
    BY <1>0 DEF LastCheckSawFault
  <2>1. CASE f \in CurrentFaults'
    BY <2>1 DEF IInv, LastCheckSawFault, Report
  <2>2. CASE f \notin CurrentFaults'
    <3>1. faultFor'[f] = 0
      BY <2>2 DEF Report
    <3>2. QED
      BY <3>1 DEF IInv, TypeOK, CheckIsDue
  <2>3. QED
    BY <2>1, <2>2
<1>7. BadSinceRegistered' /\ RaisedIsLasting'
  BY <1>0 DEF IInv, BadSinceRegistered, RaisedIsLasting
<1>8. QED
  BY <1>1, <1>2, <1>3, <1>4, <1>5, <1>6, <1>7 DEF IInv

\* The task: it looks at a cell that has been silent for longer than the wait and
\* the lead, or at a fault that is registered and old enough, and raises it.
LEMMA CheckErrorsInv == IInv /\ CheckErrors => IInv'
<1> SUFFICES ASSUME IInv, CheckErrors PROVE IInv'
  OBVIOUS
<1> USE MonitorAssumption
<1> DEFINE expired == registered /\ Elapsed(now1, regTimestamp) > ERROR_PROPAGATION_DELAY
           error   == CurrentFaults # {}
<1>0. UNCHANGED <<now1, now2, running2, turn, recvTimestamp, status, silence, faultFor>>
  BY DEF CheckErrors, clocks, data
<1>a. /\ raised' = (IF expired THEN CurrentFaults ELSE {})
                   \cup (IF IsConnectionOk THEN {} ELSE {"RS_CONNECTION_LOST"})
      /\ registered' = (error /\ (registered \/ ~errorPrev))
      /\ regTimestamp' = IF error /\ ~errorPrev THEN now1 ELSE regTimestamp
      /\ errorPrev' = error
      /\ checkTimestamp' = now1
      /\ badFor' = IF error THEN badFor ELSE 0
  BY DEF CheckErrors
<1>b. /\ now1 \in Nat /\ checkTimestamp \in Nat /\ regTimestamp \in Nat /\ badFor \in Nat
      /\ registered \in BOOLEAN /\ errorPrev \in BOOLEAN
      /\ \A c \in Cells : silence[c] \in Nat /\ recvTimestamp[c] \in Nat
      /\ \A f \in Faults : faultFor[f] \in Nat
  BY DEF IInv, TypeOK
<1>c. CurrentFaults' = CurrentFaults
  BY <1>0 DEF CurrentFaults
<1>d. Elapsed(now1, regTimestamp) = now1 - regTimestamp
  BY DEF IInv, CheckIsDue, Elapsed
<1>e. registered = errorPrev
  BY DEF IInv, CheckIsDue
<1>f. registered' = error
  BY <1>a, <1>b, <1>e
<1> HIDE DEF expired, error
<1>1. TypeOK'
  <2>1. ClockType'
    BY <1>0 DEF IInv, TypeOK, ClockType
  <2>2. DataType'
    BY <1>0 DEF IInv, TypeOK, DataType
  <2>3. CheckType'
    <3>1. raised' \subseteq Faults \cup {"RS_CONNECTION_LOST"}
      BY <1>a, CurrentAreFaults
    <3>2. /\ regTimestamp' \in 0 .. MaxTime /\ checkTimestamp' \in 0 .. MaxTime
          /\ badFor' \in 0 .. MaxTime
      BY <1>a DEF IInv, TypeOK
    <3>3. registered' \in BOOLEAN /\ errorPrev' \in BOOLEAN
      BY <1>a, <1>f DEF error
    <3>4. QED
      BY <3>1, <3>2, <3>3 DEF CheckType
  <2>4. QED
    BY <2>1, <2>2, <2>3 DEF TypeOK, ClockType, DataType, CheckType
<1>2. ClockLead' /\ StampsTellSilence'
  BY <1>0 DEF IInv, ClockLead, StampsTellSilence
<1>3. CheckIsDue'
  <2>1. regTimestamp' <= now1
    BY <1>a, <1>b DEF IInv, CheckIsDue
  <2>2. registered' = errorPrev'
    BY <1>a, <1>f
  <2>3. QED
    BY <2>1, <2>2, <1>0, <1>a, <1>b DEF CheckIsDue
<1>4. LastCheckSawSilence'
  <2> SUFFICES ASSUME NEW c \in Cells, silence[c] > CONNECTION_WAIT + 2
               PROVE  "RS_CONNECTION_LOST" \in raised'
    BY <1>0, <1>a, <1>b DEF LastCheckSawSilence
  <2>1. recvTimestamp[c] + silence[c] <= now1 + 2 /\ silence[c] <= now1
    BY DEF IInv, StampsTellSilence
  <2>2. recvTimestamp[c] <= now1 /\ now1 - recvTimestamp[c] > CONNECTION_WAIT
    BY <2>1, <1>b
  <2>3. ~ (Elapsed(now1, recvTimestamp[c]) <= CONNECTION_WAIT)
    BY <2>2, <1>b DEF Elapsed
  <2>4. QED
    BY <2>3, <1>a DEF IsConnectionOk
<1>5. LastCheckSawFault'
  <2> SUFFICES ASSUME NEW f \in Faults PROVE
         /\ faultFor[f] <= now1
         /\ faultFor[f] > 0 => f \in CurrentFaults
         /\ faultFor[f] > 0 =>
              registered' /\ regTimestamp' + faultFor[f] <= now1 + CHECK_PERIOD
         /\ faultFor[f] > ERROR_PROPAGATION_DELAY + CHECK_PERIOD => f \in raised'
    BY <1>0, <1>a, <1>b, <1>c DEF LastCheckSawFault
  <2>1. faultFor[f] <= now1 /\ (faultFor[f] > 0 => f \in CurrentFaults)
    BY DEF IInv, LastCheckSawFault
  <2>2. ASSUME faultFor[f] > 0
        PROVE  registered' /\ regTimestamp' + faultFor[f] <= now1 + CHECK_PERIOD
    <3>1. error
      BY <2>1, <2>2 DEF error
    <3>2. CASE errorPrev
      <4>1. regTimestamp' = regTimestamp
        BY <1>a, <3>2
      <4>2. CASE faultFor[f] > now1 - checkTimestamp
        BY <4>1, <4>2, <3>1, <1>f DEF IInv, LastCheckSawFault
      <4>3. CASE ~ (faultFor[f] > now1 - checkTimestamp)
        BY <4>1, <4>3, <3>1, <1>f, <1>b DEF IInv, CheckIsDue
      <4>4. QED
        BY <4>2, <4>3
    <3>3. CASE ~errorPrev
      <4>1. ~ (faultFor[f] > now1 - checkTimestamp)
        BY <3>3, <1>e DEF IInv, LastCheckSawFault
      <4>2. regTimestamp' = now1
        BY <3>1, <3>3, <1>a
      <4>3. faultFor[f] <= CHECK_PERIOD
        BY <4>1, <1>b DEF IInv, CheckIsDue
      <4>4. QED
        BY <4>2, <4>3, <3>1, <1>b, <1>f
    <3>4. QED
      BY <3>2, <3>3, <1>b
  <2>3. ASSUME faultFor[f] > ERROR_PROPAGATION_DELAY + CHECK_PERIOD PROVE f \in raised'
    <3>1. faultFor[f] > now1 - checkTimestamp
      BY <2>3, <1>b DEF IInv, CheckIsDue
    <3>2. registered /\ regTimestamp + faultFor[f] <= now1 + CHECK_PERIOD
      BY <3>1 DEF IInv, LastCheckSawFault
    <3>3. now1 - regTimestamp > ERROR_PROPAGATION_DELAY
      BY <2>3, <3>2, <1>b
    <3>4. expired
      BY <3>2, <3>3, <1>d DEF expired
    <3>5. f \in CurrentFaults
      BY <2>1, <2>3, <1>b
    <3>6. QED
      BY <3>4, <3>5, <1>a
  <2>4. QED
    BY <2>1, <2>2, <2>3
<1>6. BadSinceRegistered'
  <2>1. badFor' <= now1
    BY <1>a, <1>b DEF IInv, BadSinceRegistered
  <2>2. ASSUME registered' PROVE now1 <= regTimestamp' + badFor'
    <3>1. error
      BY <2>2, <1>f
    <3>2. QED
      BY <3>1, <1>a, <1>b, <1>e DEF IInv, BadSinceRegistered
  <2>3. QED
    BY <2>1, <2>2, <1>0 DEF BadSinceRegistered
<1>7. RaisedIsLasting'
  <2> SUFFICES ASSUME raised' \cap Faults # {} PROVE badFor' > ERROR_PROPAGATION_DELAY
    BY DEF RaisedIsLasting
  <2>1. expired /\ error
    BY <1>a DEF error, Faults
  <2>2. now1 - regTimestamp > ERROR_PROPAGATION_DELAY /\ registered
    BY <2>1, <1>d DEF expired
  <2>3. QED
    BY <2>1, <2>2, <1>a, <1>b DEF IInv, BadSinceRegistered
<1>8. QED
  BY <1>1, <1>2, <1>3, <1>4, <1>5, <1>6, <1>7 DEF IInv

\* CPU1's tick makes everything a tick older.
LEMMA Tick1Inv == IInv /\ Tick1 => IInv'
<1> SUFFICES ASSUME IInv, Tick1 PROVE IInv'
  OBVIOUS
<1> USE MonitorAssumption
<1>0. UNCHANGED <<now2, running2, recvTimestamp, status, registered, regTimestamp,
                  errorPrev, checkTimestamp, raised>>
  BY DEF Tick1, data, check
<1>a. /\ turn = 1 /\ turn' = 2 /\ now1 < MaxTime /\ now1' = now1 + 1
      /\ now1 < checkTimestamp + CHECK_PERIOD
      /\ \A c \in Cells : silence'[c] = silence[c] + 1
      /\ badFor' = badFor + 1
  BY DEF Tick1, Due, IInv, TypeOK
<1>c. CurrentFaults' = CurrentFaults
  BY <1>0 DEF CurrentFaults
<1>d. \A f \in Faults : faultFor'[f] = IF f \in CurrentFaults THEN faultFor[f] + 1 ELSE 0
  BY DEF Tick1
<1>2. ClockLead'
  BY <1>0, <1>a DEF IInv, TypeOK, ClockLead
<1>3. StampsTellSilence'
  BY <1>0, <1>a DEF IInv, TypeOK, StampsTellSilence
<1>4. CheckIsDue'
  BY <1>0, <1>a DEF IInv, TypeOK, CheckIsDue
<1>5. LastCheckSawSilence'
  BY <1>0, <1>a DEF IInv, TypeOK, LastCheckSawSilence
<1>6. LastCheckSawFault'
  <2> SUFFICES ASSUME NEW f \in Faults PROVE
         /\ faultFor'[f] <= now1 + 1
         /\ faultFor'[f] > 0 => f \in CurrentFaults
         /\ faultFor'[f] > now1 + 1 - checkTimestamp =>
              registered /\ regTimestamp + faultFor'[f] <= now1 + 1 + CHECK_PERIOD
         /\ faultFor'[f] > ERROR_PROPAGATION_DELAY + CHECK_PERIOD + (now1 + 1 - checkTimestamp) =>
              f \in raised
    <3>1. /\ now1' = now1 + 1 /\ UNCHANGED <<checkTimestamp, regTimestamp, registered, raised>>
          /\ CurrentFaults' = CurrentFaults
      BY <1>0, <1>a, <1>c
    <3>2. now1 \in Nat /\ checkTimestamp \in Nat /\ regTimestamp \in Nat
      BY DEF IInv, TypeOK
    <3>3. QED
      BY <3>1, <3>2 DEF LastCheckSawFault
  <2>1. faultFor[f] \in Nat /\ now1 \in Nat /\ checkTimestamp \in Nat /\ regTimestamp \in Nat
    BY DEF IInv, TypeOK
  <2>2. CASE f \in CurrentFaults
    <3>1. faultFor'[f] = faultFor[f] + 1
      BY <2>2, <1>d
    <3>2. QED
      BY <2>1, <2>2, <3>1 DEF IInv, LastCheckSawFault
  <2>3. CASE f \notin CurrentFaults
    <3>1. faultFor'[f] = 0
      BY <2>3, <1>d
    <3>2. QED
      BY <2>1, <3>1 DEF IInv, CheckIsDue
  <2>4. QED
    BY <2>2, <2>3
<1>7. BadSinceRegistered'
  BY <1>0, <1>a DEF IInv, TypeOK, BadSinceRegistered
<1>8. RaisedIsLasting'
  BY <1>0, <1>a DEF IInv, TypeOK, RaisedIsLasting
<1>1. TypeOK'
  <2>1. ClockType'
    BY <1>0, <1>a DEF IInv, TypeOK, ClockType
  <2>2. DataType'
    <3>1. silence' \in [Cells -> 0 .. MaxTime]
      <4>1. \A c \in Cells : silence[c] \in Nat /\ silence[c] <= now1
        BY DEF IInv, TypeOK, StampsTellSilence
      <4>2. QED
        BY <4>1, <1>a DEF Tick1, IInv, TypeOK
    <3>2. faultFor' \in [Faults -> 0 .. MaxTime]
      <4>1. \A f \in Faults : faultFor[f] \in Nat /\ faultFor[f] <= now1
        BY DEF IInv, TypeOK, LastCheckSawFault
      <4>2. QED
        BY <4>1, <1>a DEF Tick1, IInv, TypeOK
    <3>3. QED
      BY <3>1, <3>2, <1>0 DEF IInv, TypeOK, DataType
  <2>3. CheckType'
    BY <1>0, <1>a DEF IInv, TypeOK, CheckType, BadSinceRegistered
  <2>4. QED
    BY <2>1, <2>2, <2>3 DEF TypeOK, ClockType, DataType, CheckType
<1>9. QED
  BY <1>1, <1>2, <1>3, <1>4, <1>5, <1>6, <1>7, <1>8 DEF IInv

\* CPU2's clock: its start and its tick keep the lead within its bounds.
LEMMA Cpu2Inv == IInv /\ (StartCpu2 \/ Tick2) => IInv'
<1> SUFFICES ASSUME IInv, StartCpu2 \/ Tick2 PROVE IInv'
  OBVIOUS
<1> USE MonitorAssumption
<1>0. UNCHANGED <<now1, recvTimestamp, status, registered, regTimestamp, errorPrev,
                  checkTimestamp, raised, silence, faultFor, badFor>>
  BY DEF StartCpu2, Tick2, data, check, history
<1>1. ClockLead' /\ now2 <= now2'
  BY <1>0 DEF IInv, TypeOK, ClockLead, StartCpu2, Tick2
<1>2. TypeOK'
  <2>1. ClockType'
    <3>1. now1 \in 0 .. MaxTime /\ now1' = now1 /\ now2' \in Nat
      BY <1>0 DEF IInv, TypeOK, StartCpu2, Tick2
    <3>2. running2' = TRUE /\ turn' \in {1, 2}
      BY DEF IInv, TypeOK, StartCpu2, Tick2
    <3>3. now2' <= now1 + 2
      BY <1>1, <3>1, <3>2 DEF ClockLead
    <3>4. QED
      BY <3>1, <3>2, <3>3 DEF ClockType
  <2>2. DataType'
    BY <1>0 DEF IInv, TypeOK, DataType
  <2>3. CheckType'
    BY <1>0 DEF IInv, TypeOK, CheckType
  <2>4. QED
    BY <2>1, <2>2, <2>3 DEF TypeOK, ClockType, DataType, CheckType
<1>3. StampsTellSilence'
  BY <1>0, <1>1, <1>2 DEF IInv, TypeOK, StampsTellSilence
<1>4. CheckIsDue' /\ LastCheckSawSilence'
  BY <1>0 DEF IInv, CheckIsDue, LastCheckSawSilence
<1>5. LastCheckSawFault'
  BY <1>0 DEF IInv, LastCheckSawFault, CurrentFaults
<1>6. BadSinceRegistered' /\ RaisedIsLasting'
  BY <1>0 DEF IInv, BadSinceRegistered, RaisedIsLasting
<1>7. QED
  BY <1>1, <1>2, <1>3, <1>4, <1>5, <1>6 DEF IInv

\* Every step of either CPU and of the cells keeps the invariant.
THEOREM StepInv == IInv /\ [Next]_vars => IInv'
<1> SUFFICES ASSUME IInv, [Next]_vars PROVE IInv'
  OBVIOUS
<1>1. CASE CheckErrors
  BY <1>1, CheckErrorsInv
<1>2. CASE Tick1
  BY <1>2, Tick1Inv
<1>3. CASE StartCpu2 \/ Tick2
  BY <1>3, Cpu2Inv
<1>4. CASE \E c \in Cells, faults \in SUBSET Faults : Report(c, faults)
  BY <1>4, ReportInv
<1>5. CASE UNCHANGED vars
  BY <1>5 DEF vars, clocks, data, check, history, IInv, TypeOK, ClockLead,
     StampsTellSilence, CheckIsDue, LastCheckSawSilence, LastCheckSawFault,
     CurrentFaults, BadSinceRegistered, RaisedIsLasting
<1>6. QED
  BY <1>1, <1>2, <1>3, <1>4, <1>5 DEF Next

\* The invariant holds in every reachable state.
THEOREM InvHolds == Spec => []IInv
<1>1. IInv /\ [Next]_vars => IInv'
  BY StepInv
<1>2. QED
  BY <1>1, InitInv, PTL DEF Spec

-----------------------------------------------------------------------------
(* The results.                                                            *)

\* Types, and the bound on the lead of CPU2's clock (SystemClock::reset).
THEOREM TypeCorrect == Spec => []TypeOK
<1>1. IInv => TypeOK
  BY DEF IInv
<1>2. QED
  BY <1>1, InvHolds, PTL

\* isConnectionOk calls a link lost only if a cell was silent for longer than
\* CONNECTION_WAIT or CPU2's clock is ahead of CPU1's.
THEOREM LossHasReasonHolds == Spec => []LossHasReason
<1>1. IInv => LossHasReason
  <2> SUFFICES ASSUME IInv, now1 > CONNECTION_WAIT, ~IsConnectionOk
               PROVE  \E c \in Cells : silence[c] > CONNECTION_WAIT \/ recvTimestamp[c] > now1
    BY DEF LossHasReason
  <2>1. PICK c \in Cells : ~ (Elapsed(now1, recvTimestamp[c]) <= CONNECTION_WAIT)
    BY DEF IsConnectionOk
  <2>2. now1 \in Nat /\ recvTimestamp[c] \in Nat /\ silence[c] \in Nat /\ CONNECTION_WAIT \in Nat
    BY MonitorAssumption DEF IInv, TypeOK
  <2>3. now1 <= recvTimestamp[c] + silence[c]
    BY DEF IInv, StampsTellSilence
  <2>4. silence[c] > CONNECTION_WAIT \/ recvTimestamp[c] > now1
    BY <2>1, <2>2, <2>3 DEF Elapsed
  <2>5. QED
    BY <2>4
<1>2. QED
  BY <1>1, InvHolds, PTL

\* A cell that stays silent raises RS_CONNECTION_LOST in time (checkErrors).
THEOREM SilenceIsNoticedHolds == Spec => []SilenceIsNoticed
<1>1. IInv => SilenceIsNoticed
  BY MonitorAssumption DEF IInv, TypeOK, CheckIsDue, LastCheckSawSilence, SilenceIsNoticed
<1>2. QED
  BY <1>1, InvHolds, PTL

\* A fault that stays is raised in time, whatever the other faults do, although
\* all faults share one delay (checkErrors).
THEOREM FaultIsNoticedHolds == Spec => []FaultIsNoticed
<1>1. IInv => FaultIsNoticed
  <2> SUFFICES ASSUME IInv, NEW f \in Faults,
                      faultFor[f] > ERROR_PROPAGATION_DELAY + 2 * CHECK_PERIOD
               PROVE  f \in raised
    BY DEF FaultIsNoticed
  <2>1. faultFor[f] > ERROR_PROPAGATION_DELAY + CHECK_PERIOD + (now1 - checkTimestamp)
    BY MonitorAssumption DEF IInv, TypeOK, CheckIsDue
  <2>2. QED
    BY <2>1 DEF IInv, LastCheckSawFault
<1>2. QED
  BY <1>1, InvHolds, PTL

\* No fault is raised before the delay is over (checkErrors).
THEOREM RaisedIsLastingHolds == Spec => []RaisedIsLasting
<1>1. IInv => RaisedIsLasting
  BY DEF IInv
<1>2. QED
  BY <1>1, InvHolds, PTL

=============================================================================
