--------------------------- MODULE BmsLinkProofs ---------------------------
(***************************************************************************)
(* The safety of the CAN server and of the watchdog for every number of    *)
(* objects, every content of the frames, every period and every length of  *)
(* a pass.                                                                 *)
(*                                                                         *)
(* A mailbox belongs to the interrupt while hasRaw is FALSE and to the     *)
(* main loop while it is TRUE; the processed data is empty before the      *)
(* mailbox is looked at and again when the pass ends (ReceivedWhere).  So  *)
(* the queue of an object is what the two hold together (FramesInTurn).    *)
(* For the watchdog, time is bounded by passes: a frame is taken from its  *)
(* mailbox in the pass that follows its arrival at the latest              *)
(* (CommandIsRecent).                                                      *)
(***************************************************************************)
EXTENDS BmsLink, SequenceTheorems, TLAPS

\* Only the objects that the pass has processed and not yet responded to have
\* their flag set.
ReceivedWhere ==
  \A o \in Objects : received[o] =>
    \/ pc \in {"look", "process"} /\ o < obj
    \/ pc = "clear" /\ o <= obj
    \/ pc \in {"respond", "reset"} /\ o >= obj

InMailbox(o) == hasRaw[o] /\ ~(pc = "clear" /\ obj = o)
InData(o) == received[o] /\ ~(pc = "reset" /\ obj = o)

\* Where the last frame of each kind is, unless it was dropped.
NewestIsSomewhere ==
  \A o \in Objects \ dropped :
    arrived[o] = IF InMailbox(o) THEN mailbox[o] ELSE IF InData(o) THEN data[o] ELSE served[o]

\* The pass is beyond the look at the mailbox.
Passed(o) == pc \in {"respond", "reset", "send"} \/ o < obj

\* A command that waits came in this pass or in the one before; one that came
\* after the look at its mailbox came in this pass.
CommandIsRecent ==
  \A o \in Commands :
    /\ hasRaw[o] \/ received[o] => silence <= passAge + MAX_PASS
    /\ hasRaw[o] /\ Passed(o) => silence <= passAge

\* The watchdog is no further than the silence, unless a command waits.
TimerHasReason ==
  (\A o \in Commands : ~InMailbox(o) /\ ~InData(o)) => watchdogTimer <= silence

\* The watchdog is as far as the silence, but for two passes, unless the service
\* tool has reset it.
TimerKeepsUp ==
  lost \/ sinceClear <= watchdogTimer \/ silence <= watchdogTimer + 2 * MAX_PASS

BoxType ==
  /\ mailbox \in [Objects -> Contents] /\ data \in [Objects -> Contents]
  /\ mailbox[Rsdo] \in Requests \cup {"none"} /\ data[Rsdo] \in Requests \cup {"none"}
  /\ arrived \in [Objects -> Contents] /\ served \in [Objects -> Contents]
  /\ dropped \subseteq Objects
FlagType == hasRaw \in [Objects -> BOOLEAN] /\ received \in [Objects -> BOOLEAN]
PlaceType ==
  /\ pc \in {"look", "process", "clear", "respond", "reset", "send"}
  /\ obj \in Objects
AnswerType ==
  /\ tsdo \in Requests \cup {"none"} /\ tsdoReady \in BOOLEAN
  /\ sent \in Requests \cup {"none"}
AgeType ==
  /\ watchdogTimer \in 0 .. WATCHDOG_PERIOD - 1 /\ lost \in BOOLEAN
  /\ passAge \in 0 .. MAX_PASS /\ silence \in 0 .. MaxTime /\ sinceClear \in 0 .. MaxTime
InUse ==
  /\ pc \in {"process", "clear"} => hasRaw[obj]
  /\ pc \in {"clear", "reset"} => received[obj]

IInv ==
  /\ BoxType /\ FlagType /\ PlaceType /\ AnswerType /\ AgeType /\ InUse
  /\ ReceivedWhere /\ NewestIsSomewhere
  /\ CommandIsRecent /\ TimerHasReason /\ TimerKeepsUp

-----------------------------------------------------------------------------
\* The parts of the type invariant.
LEMMA TypeInParts ==
  TypeOK <=> BoxType /\ FlagType /\ PlaceType /\ AnswerType /\ AgeType /\ InUse
  BY DEF TypeOK, BoxType, FlagType, PlaceType, AnswerType, AgeType, InUse

\* What is assumed of the watchdog and of the passes of the main loop.
LEMMA Bounds ==
  /\ WATCHDOG_PERIOD \in Nat /\ WATCHDOG_PERIOD >= 1
  /\ MAX_PASS \in Nat /\ MaxTime \in Nat
  BY LinkAssumption

\* The invariant holds when the server and the watchdog are enabled.
LEMMA InitInv == Init => IInv
<1> SUFFICES ASSUME Init PROVE IInv
  OBVIOUS
<1>0. 1 \in Objects /\ Rsdo \in Objects
  BY LinkAssumption DEF Objects, Rsdo
<1>1. BoxType
  BY <1>0 DEF Init, BoxType, Contents
<1>2. FlagType /\ PlaceType /\ AnswerType /\ InUse
  BY <1>0 DEF Init, FlagType, PlaceType, AnswerType, InUse
<1>3. AgeType
  <2>1. 0 \in 0 .. WATCHDOG_PERIOD - 1 /\ 0 \in 0 .. MAX_PASS /\ 0 \in 0 .. MaxTime
    BY Bounds
  <2>2. QED
    BY <2>1, Zenon DEF Init, AgeType
<1>4. ReceivedWhere /\ NewestIsSomewhere
  BY DEF Init, ReceivedWhere, NewestIsSomewhere, InMailbox, InData
<1>5. CommandIsRecent
  BY LinkAssumption DEF Init, CommandIsRecent, Objects, Rsdo
<1>6. TimerHasReason /\ TimerKeepsUp
  BY LinkAssumption DEF Init, TimerHasReason, TimerKeepsUp
<1>7. QED
  BY <1>1, <1>2, <1>3, <1>4, <1>5, <1>6 DEF IInv

\* The interrupt fills a free mailbox only.
LEMMA ReceiveInv ==
  ASSUME IInv, NEW o \in Objects, NEW v \in Content[o], Receive(o, v)
  PROVE  IInv'
<1>1. BoxType'
  <2>1. v \in Contents /\ (o = Rsdo => v \in Requests \cup {"none"})
    BY DEF Content, Contents
  <2>2. Rsdo \in Objects
    BY LinkAssumption DEF Objects, Rsdo
  <2>3. /\ mailbox' \in [Objects -> Contents] /\ data' \in [Objects -> Contents]
        /\ arrived' \in [Objects -> Contents] /\ served' \in [Objects -> Contents]
        /\ dropped' \subseteq Objects
    BY <2>1 DEF IInv, BoxType, Receive, isr, loop
  <2>4. mailbox'[Rsdo] \in Requests \cup {"none"} /\ data'[Rsdo] \in Requests \cup {"none"}
    BY <2>1, <2>2 DEF IInv, BoxType, Receive, isr, loop
  <2>5. QED
    BY <2>3, <2>4 DEF BoxType
<1>2. FlagType'
  BY DEF IInv, FlagType, Receive, isr, loop
<1>3. PlaceType'
  BY DEF IInv, PlaceType, Receive, loop
<1>4. AnswerType'
  BY DEF IInv, AnswerType, Receive, loop
<1>5. AgeType'
  BY LinkAssumption DEF IInv, AgeType, Receive, link
<1>6. InUse'
  BY DEF IInv, InUse, FlagType, PlaceType, Receive, isr, loop
<1>7. ReceivedWhere'
  BY DEF IInv, ReceivedWhere, Receive, loop
<1>8. NewestIsSomewhere'
  BY LinkAssumption DEF IInv, NewestIsSomewhere, InUse, InMailbox, InData, BoxType,
     FlagType, Rsdo, Receive, isr, loop
<1>9. CommandIsRecent'
  <2>1. passAge \in Nat /\ silence \in Nat /\ MAX_PASS \in Nat /\ passAge' = passAge
    BY Bounds DEF IInv, AgeType, Receive
  <2>2. CASE o \in Commands
    <3>1. silence' = 0
      BY <2>2 DEF Receive
    <3>2. silence' <= passAge' /\ silence' <= passAge' + MAX_PASS
      BY <2>1, <3>1
    <3>3. QED
      BY <3>2 DEF CommandIsRecent
  <2>3. CASE o \notin Commands
    <3>1. silence' = silence /\ pc' = pc /\ obj' = obj /\ received' = received
      BY <2>3 DEF Receive, loop
    <3>2. \A c \in Commands : hasRaw'[c] = hasRaw[c]
      BY <2>3, LinkAssumption DEF IInv, FlagType, Receive, isr, Objects, Rsdo
    <3>3. QED
      BY <2>1, <3>1, <3>2 DEF IInv, CommandIsRecent, Passed
  <2>4. QED
    BY <2>2, <2>3
<1>10. TimerHasReason'
  <2>1. pc' = pc /\ obj' = obj /\ received' = received /\ watchdogTimer' = watchdogTimer
    BY DEF Receive, loop, link
  <2>2. CASE o \in Commands
    <3>1. hasRaw'[o]
      BY DEF IInv, FlagType, Receive, isr
    <3>2. pc = "clear" /\ obj = o => received[o]
      BY DEF IInv, InUse
    <3>3. InMailbox(o)' \/ InData(o)'
      BY <2>1, <3>1, <3>2 DEF InMailbox, InData
    <3>4. QED
      BY <2>2, <3>3, Zenon DEF TimerHasReason
  <2>3. CASE o \notin Commands
    <3>1. silence' = silence
      BY <2>3 DEF Receive
    <3>2. \A c \in Commands : hasRaw'[c] = hasRaw[c]
      BY <2>3, LinkAssumption DEF IInv, FlagType, Receive, isr, Objects, Rsdo
    <3>3. QED
      BY <2>1, <3>1, <3>2 DEF IInv, TimerHasReason, InMailbox, InData
  <2>4. QED
    BY <2>2, <2>3
<1>11. TimerKeepsUp'
  BY LinkAssumption DEF IInv, TimerKeepsUp, AgeType, Receive, link
<1>12. QED
  BY <1>1, <1>2, <1>3, <1>4, <1>5, <1>6, <1>7, <1>8, <1>9, <1>10, <1>11 DEF IInv

\* Time passes in the pass and in the silence alike.
LEMMA TickInv == IInv /\ Tick => IInv'
<1> SUFFICES ASSUME IInv, Tick PROVE IInv'
  OBVIOUS
<1>1. BoxType'
  BY DEF IInv, BoxType, Tick, isr, loop, traffic
<1>2. FlagType'
  BY DEF IInv, FlagType, Tick, isr, loop
<1>3. PlaceType'
  BY DEF IInv, PlaceType, Tick, loop
<1>4. AnswerType'
  BY DEF IInv, AnswerType, Tick, loop
<1>5. AgeType'
  BY LinkAssumption DEF IInv, AgeType, Tick, Older
<1>6. InUse'
  BY DEF IInv, InUse, Tick, isr, loop
<1>7. ReceivedWhere'
  BY DEF IInv, ReceivedWhere, Tick, loop
<1>8. NewestIsSomewhere'
  BY DEF IInv, NewestIsSomewhere, InMailbox, InData, Tick, isr, loop, traffic
<1>9. CommandIsRecent'
  BY LinkAssumption DEF IInv, CommandIsRecent, Passed, AgeType, Tick, Older, isr, loop
<1>10. TimerHasReason'
  BY LinkAssumption DEF IInv, TimerHasReason, InMailbox, InData, AgeType, Tick, Older,
     isr, loop
<1>11. TimerKeepsUp'
  <2>1. /\ watchdogTimer \in Nat /\ silence \in Nat /\ sinceClear \in Nat
        /\ 2 * MAX_PASS \in Nat
    BY Bounds DEF IInv, AgeType
  <2>2. silence' <= silence + 1 /\ sinceClear' <= sinceClear + 1
        /\ silence' \in Nat /\ sinceClear' \in Nat
    BY <2>1 DEF Tick, Older
  <2>3. CASE watchdogTimer + 1 >= WATCHDOG_PERIOD
    BY <2>3 DEF Tick, TimerKeepsUp
  <2>4. CASE ~(watchdogTimer + 1 >= WATCHDOG_PERIOD)
    <3>1. watchdogTimer' = watchdogTimer + 1
      BY <2>4 DEF Tick
    <3>2. CASE lost
      BY <3>2 DEF Tick, TimerKeepsUp
    <3>3. CASE sinceClear <= watchdogTimer
      <4>1. sinceClear' <= watchdogTimer'
        BY <2>1, <2>2, <3>1, <3>3
      <4>2. QED
        BY <4>1 DEF TimerKeepsUp
    <3>4. CASE silence <= watchdogTimer + 2 * MAX_PASS
      <4>1. silence' <= watchdogTimer' + 2 * MAX_PASS
        BY <2>1, <2>2, <3>1, <3>4
      <4>2. QED
        BY <4>1 DEF TimerKeepsUp
    <3>5. QED
      BY <3>2, <3>3, <3>4 DEF IInv, TimerKeepsUp
  <2>5. QED
    BY <2>3, <2>4
<1>12. QED
  BY <1>1, <1>2, <1>3, <1>4, <1>5, <1>6, <1>7, <1>8, <1>9, <1>10, <1>11 DEF IInv

\* A mailbox that is empty is passed.
LEMMA LookInv == IInv /\ Look => IInv'
<1> SUFFICES ASSUME IInv, Look PROVE IInv'
  OBVIOUS
<1>1. BoxType'
  BY DEF IInv, BoxType, Look, isr, traffic
<1>2. FlagType'
  BY DEF IInv, FlagType, Look, isr
<1>3. PlaceType'
  BY LinkAssumption DEF IInv, PlaceType, Objects, Rsdo, Look, GoTo, NextMailbox
<1>4. AnswerType'
  BY DEF IInv, AnswerType, Look
<1>5. AgeType'
  BY DEF IInv, AgeType, Look, link, ages
<1>6. InUse'
  BY DEF InUse, Look, GoTo, NextMailbox, isr
<1>7. ReceivedWhere'
  BY DEF IInv, ReceivedWhere, PlaceType, Objects, Look, GoTo, NextMailbox
<1>8. NewestIsSomewhere'
  BY DEF IInv, NewestIsSomewhere, InMailbox, InData, Look, GoTo, NextMailbox, isr,
     traffic
<1>9. CommandIsRecent'
  BY LinkAssumption DEF IInv, CommandIsRecent, Passed, PlaceType, Objects, Rsdo, Look,
     GoTo, NextMailbox, isr, ages
<1>10. TimerHasReason'
  BY DEF IInv, TimerHasReason, InMailbox, InData, Look, GoTo, NextMailbox, isr, link,
     ages
<1>11. TimerKeepsUp'
  BY DEF IInv, TimerKeepsUp, Look, link, ages
<1>12. QED
  BY <1>1, <1>2, <1>3, <1>4, <1>5, <1>6, <1>7, <1>8, <1>9, <1>10, <1>11 DEF IInv

\* The frame is in the data and in the mailbox, which still belongs to the main loop.
LEMMA ProcessInv == IInv /\ Process => IInv'
<1> SUFFICES ASSUME IInv, Process PROVE IInv'
  OBVIOUS
<1>1. BoxType'
  BY LinkAssumption DEF IInv, BoxType, PlaceType, Objects, Rsdo, Process, isr, traffic
<1>2. FlagType'
  BY DEF IInv, FlagType, Process, isr
<1>3. PlaceType'
  BY DEF IInv, PlaceType, Process, GoTo
<1>4. AnswerType'
  BY DEF IInv, AnswerType, Process
<1>5. AgeType'
  BY DEF IInv, AgeType, Process, link, ages
<1>6. InUse'
  BY DEF IInv, InUse, FlagType, PlaceType, Process, GoTo, isr
<1>7. ReceivedWhere'
  BY LinkAssumption DEF IInv, ReceivedWhere, FlagType, PlaceType, Objects, Rsdo,
     Process, GoTo
<1>8. NewestIsSomewhere'
  BY LinkAssumption DEF IInv, NewestIsSomewhere, ReceivedWhere, InUse, InMailbox,
     InData, BoxType, FlagType, Rsdo, Process, GoTo, isr, traffic
<1>9. CommandIsRecent'
  BY LinkAssumption DEF IInv, CommandIsRecent, InUse, Passed, FlagType, Objects, Rsdo,
     Process, GoTo, isr, ages
<1>10. TimerHasReason'
  BY LinkAssumption DEF IInv, TimerHasReason, InMailbox, InData, FlagType, Objects,
     Rsdo, Process, GoTo, isr, link, ages
<1>11. TimerKeepsUp'
  BY DEF IInv, TimerKeepsUp, Process, link, ages
<1>12. QED
  BY <1>1, <1>2, <1>3, <1>4, <1>5, <1>6, <1>7, <1>8, <1>9, <1>10, <1>11 DEF IInv

\* The mailbox goes back to the interrupt.
LEMMA ClearInv == IInv /\ Clear => IInv'
<1> SUFFICES ASSUME IInv, Clear PROVE IInv'
  OBVIOUS
<1>1. BoxType'
  BY DEF IInv, BoxType, Clear, traffic
<1>2. FlagType'
  BY DEF IInv, FlagType, Clear
<1>3. PlaceType'
  BY LinkAssumption DEF IInv, PlaceType, Objects, Rsdo, Clear, GoTo, NextMailbox
<1>4. AnswerType'
  BY DEF IInv, AnswerType, Clear
<1>5. AgeType'
  BY DEF IInv, AgeType, Clear, link, ages
<1>6. InUse'
  BY DEF InUse, Clear, GoTo, NextMailbox
<1>7. ReceivedWhere'
  BY DEF IInv, ReceivedWhere, PlaceType, Objects, Clear, GoTo, NextMailbox
<1>8. NewestIsSomewhere'
  BY DEF IInv, NewestIsSomewhere, InMailbox, InData, FlagType, Clear, GoTo, NextMailbox,
     traffic
<1>9. CommandIsRecent'
  BY LinkAssumption DEF IInv, CommandIsRecent, Passed, FlagType, PlaceType, Objects,
     Rsdo, Clear, GoTo, NextMailbox, ages
<1>10. TimerHasReason'
  BY DEF IInv, TimerHasReason, InMailbox, InData, Clear, GoTo, NextMailbox, link, ages
<1>11. TimerKeepsUp'
  BY DEF IInv, TimerKeepsUp, Clear, link, ages
<1>12. QED
  BY <1>1, <1>2, <1>3, <1>4, <1>5, <1>6, <1>7, <1>8, <1>9, <1>10, <1>11 DEF IInv

\* An object without a frame is skipped.
LEMMA NothingReceivedInv == IInv /\ NothingReceived => IInv'
<1> SUFFICES ASSUME IInv, NothingReceived PROVE IInv'
  OBVIOUS
<1>1. BoxType'
  BY DEF IInv, BoxType, NothingReceived, isr, traffic
<1>2. FlagType'
  BY DEF IInv, FlagType, NothingReceived, isr
<1>3. PlaceType'
  BY LinkAssumption DEF IInv, PlaceType, Objects, Rsdo, NothingReceived, GoTo,
     NextResponse
<1>4. AnswerType'
  BY DEF IInv, AnswerType, NothingReceived
<1>5. AgeType'
  BY DEF IInv, AgeType, NothingReceived, link, ages
<1>6. InUse'
  BY DEF InUse, NothingReceived, GoTo, NextResponse
<1>7. ReceivedWhere'
  BY LinkAssumption DEF IInv, ReceivedWhere, PlaceType, Objects, Rsdo, NothingReceived,
     GoTo, NextResponse
<1>8. NewestIsSomewhere'
  BY DEF IInv, NewestIsSomewhere, InMailbox, InData, NothingReceived, GoTo,
     NextResponse, isr, traffic
<1>9. CommandIsRecent'
  BY DEF IInv, CommandIsRecent, Passed, NothingReceived, isr, ages
<1>10. TimerHasReason'
  BY DEF IInv, TimerHasReason, InMailbox, InData, NothingReceived, GoTo, NextResponse,
     isr, link, ages
<1>11. TimerKeepsUp'
  BY DEF IInv, TimerKeepsUp, NothingReceived, link, ages
<1>12. QED
  BY <1>1, <1>2, <1>3, <1>4, <1>5, <1>6, <1>7, <1>8, <1>9, <1>10, <1>11 DEF IInv

\* A command feeds the watchdog.
LEMMA RespondToCommandInv == IInv /\ RespondToCommand => IInv'
<1> SUFFICES ASSUME IInv, RespondToCommand PROVE IInv'
  OBVIOUS
<1>1. BoxType'
  BY DEF IInv, BoxType, RespondToCommand, Responded, isr, traffic
<1>2. FlagType'
  BY DEF IInv, FlagType, RespondToCommand, Responded, isr
<1>3. PlaceType'
  BY DEF IInv, PlaceType, RespondToCommand, Responded, GoTo
<1>4. AnswerType'
  BY DEF IInv, AnswerType, RespondToCommand, Responded
<1>5. AgeType'
  <2>1. 0 \in 0 .. WATCHDOG_PERIOD - 1 /\ 0 \in 0 .. MaxTime
    BY Bounds
  <2>2. lost' \in BOOLEAN
    BY Zenon DEF IInv, AgeType, RespondToCommand, MayClearErrors
  <2>3. /\ watchdogTimer' = 0 /\ passAge' = passAge /\ silence' = silence
        /\ sinceClear' = 0 \/ sinceClear' = sinceClear
    BY Zenon DEF RespondToCommand, MayClearErrors, Responded
  <2>4. QED
    BY <2>1, <2>2, <2>3, Zenon DEF IInv, AgeType
<1>6. InUse'
  BY DEF InUse, RespondToCommand, Responded, GoTo
<1>7. ReceivedWhere'
  BY DEF IInv, ReceivedWhere, RespondToCommand, Responded, GoTo
<1>8. NewestIsSomewhere'
  BY DEF IInv, NewestIsSomewhere, InMailbox, InData, BoxType, RespondToCommand,
     Responded, GoTo, isr, traffic
<1>9. CommandIsRecent'
  BY DEF IInv, CommandIsRecent, Passed, RespondToCommand, Responded, isr
<1>10. TimerHasReason'
  BY DEF IInv, TimerHasReason, AgeType, RespondToCommand, Responded
<1>11. TimerKeepsUp'
  BY LinkAssumption DEF IInv, TimerKeepsUp, CommandIsRecent, AgeType, RespondToCommand,
     Responded
<1>12. QED
  BY <1>1, <1>2, <1>3, <1>4, <1>5, <1>6, <1>7, <1>8, <1>9, <1>10, <1>11 DEF IInv

\* Another frame does not.
LEMMA RespondToOtherInv == IInv /\ RespondToOther => IInv'
<1> SUFFICES ASSUME IInv, RespondToOther PROVE IInv'
  OBVIOUS
<1>1. BoxType'
  BY DEF IInv, BoxType, RespondToOther, Responded, isr, traffic
<1>2. FlagType'
  BY DEF IInv, FlagType, RespondToOther, Responded, isr
<1>3. PlaceType'
  BY DEF IInv, PlaceType, RespondToOther, Responded, GoTo
<1>4. AnswerType'
  BY DEF IInv, AnswerType, RespondToOther, Responded
<1>5. AgeType'
  BY DEF IInv, AgeType, RespondToOther, Responded, link
<1>6. InUse'
  BY DEF InUse, RespondToOther, Responded, GoTo
<1>7. ReceivedWhere'
  BY DEF IInv, ReceivedWhere, RespondToOther, Responded, GoTo
<1>8. NewestIsSomewhere'
  BY DEF IInv, NewestIsSomewhere, InMailbox, InData, BoxType, RespondToOther, Responded,
     GoTo, isr, traffic
<1>9. CommandIsRecent'
  BY DEF IInv, CommandIsRecent, Passed, RespondToOther, Responded, isr
<1>10. TimerHasReason'
  BY DEF IInv, TimerHasReason, InMailbox, InData, RespondToOther, Responded, GoTo, isr,
     link
<1>11. TimerKeepsUp'
  BY DEF IInv, TimerKeepsUp, RespondToOther, Responded, link
<1>12. QED
  BY <1>1, <1>2, <1>3, <1>4, <1>5, <1>6, <1>7, <1>8, <1>9, <1>10, <1>11 DEF IInv

\* A request may reset the watchdog or clear the errors.
LEMMA ProcessRequestInv == IInv /\ ProcessRequest => IInv'
<1> SUFFICES ASSUME IInv, ProcessRequest PROVE IInv'
  OBVIOUS
<1>1. BoxType'
  BY DEF IInv, BoxType, ProcessRequest, Responded, isr, traffic
<1>2. FlagType'
  BY DEF IInv, FlagType, ProcessRequest, Responded, isr
<1>3. PlaceType'
  BY DEF IInv, PlaceType, ProcessRequest, Responded, GoTo
<1>4. AnswerType'
  BY DEF IInv, AnswerType, BoxType, ProcessRequest, Responded
<1>5. AgeType'
  <2>1. 0 \in 0 .. WATCHDOG_PERIOD - 1 /\ 0 \in 0 .. MaxTime
    BY Bounds
  <2>2. /\ watchdogTimer' = 0 \/ watchdogTimer' = watchdogTimer
        /\ lost' = FALSE \/ lost' = lost
        /\ sinceClear' = 0 \/ sinceClear' = sinceClear
        /\ passAge' = passAge /\ silence' = silence
    BY Zenon DEF ProcessRequest, MayClearErrors, Responded, link
  <2>3. lost' \in BOOLEAN
    BY <2>2, Zenon DEF IInv, AgeType
  <2>4. QED
    BY <2>1, <2>2, <2>3, Zenon DEF IInv, AgeType
<1>6. InUse'
  BY DEF InUse, ProcessRequest, Responded, GoTo
<1>7. ReceivedWhere'
  BY DEF IInv, ReceivedWhere, ProcessRequest, Responded, GoTo
<1>8. NewestIsSomewhere'
  BY DEF IInv, NewestIsSomewhere, InMailbox, InData, BoxType, ProcessRequest, Responded,
     GoTo, isr, traffic
<1>9. CommandIsRecent'
  BY DEF IInv, CommandIsRecent, Passed, ProcessRequest, Responded, isr
<1>10. TimerHasReason'
  <2>1. Rsdo \notin Commands
    BY LinkAssumption DEF Rsdo
  <2>2. \A o \in Commands :
          /\ ~InMailbox(o)' => ~InMailbox(o)
          /\ ~InData(o)' => ~InData(o)
    <3>1. /\ pc = "respond" /\ obj' = Rsdo
          /\ hasRaw' = hasRaw /\ received' = received
      BY Zenon DEF ProcessRequest, Responded, GoTo, isr
    <3>2. QED
      BY <2>1, <3>1 DEF InMailbox, InData
  <2>3. watchdogTimer' = 0 \/ watchdogTimer' = watchdogTimer
    BY Zenon DEF ProcessRequest, link
  <2>4. silence' = silence
    BY DEF ProcessRequest, Responded
  <2>5. watchdogTimer' <= silence' \/ watchdogTimer' = watchdogTimer
    BY <2>3, <2>4 DEF IInv, AgeType
  <2>6. QED
    BY <2>2, <2>4, <2>5, SMT DEF IInv, TimerHasReason
<1>11. TimerKeepsUp'
  <2>1. watchdogTimer \in Nat /\ 0 \in Nat
    BY Bounds DEF IInv, AgeType
  <2>2. silence' = silence
    BY DEF ProcessRequest, Responded
  <2>3. \/ sinceClear' = 0 /\ watchdogTimer' = 0
        \/ sinceClear' = 0 /\ watchdogTimer' = watchdogTimer
        \/ /\ lost' = lost /\ sinceClear' = sinceClear
           /\ watchdogTimer' = watchdogTimer
    BY Zenon DEF ProcessRequest, MayClearErrors, link
  <2>4. CASE sinceClear' = 0 /\ watchdogTimer' \in Nat
    <3>1. sinceClear' <= watchdogTimer'
      BY <2>4
    <3>2. QED
      BY <3>1 DEF TimerKeepsUp
  <2>5. CASE /\ lost' = lost /\ sinceClear' = sinceClear
             /\ watchdogTimer' = watchdogTimer
    BY <2>2, <2>5, Zenon DEF IInv, TimerKeepsUp
  <2>6. QED
    BY <2>1, <2>3, <2>4, <2>5
<1>12. QED
  BY <1>1, <1>2, <1>3, <1>4, <1>5, <1>6, <1>7, <1>8, <1>9, <1>10, <1>11 DEF IInv

\* The data is empty again.
LEMMA ResetInv == IInv /\ Reset => IInv'
<1> SUFFICES ASSUME IInv, Reset PROVE IInv'
  OBVIOUS
<1>1. BoxType'
  BY DEF IInv, BoxType, Reset, isr, traffic
<1>2. FlagType'
  BY DEF IInv, FlagType, Reset, isr
<1>3. PlaceType'
  BY LinkAssumption DEF IInv, PlaceType, Objects, Rsdo, Reset, GoTo, NextResponse
<1>4. AnswerType'
  BY DEF IInv, AnswerType, Reset
<1>5. AgeType'
  BY DEF IInv, AgeType, Reset, link, ages
<1>6. InUse'
  BY DEF InUse, Reset, GoTo, NextResponse
<1>7. ReceivedWhere'
  BY LinkAssumption DEF IInv, ReceivedWhere, FlagType, PlaceType, Objects, Rsdo, Reset,
     GoTo, NextResponse
<1>8. NewestIsSomewhere'
  BY DEF IInv, NewestIsSomewhere, InMailbox, InData, FlagType, Reset, GoTo,
     NextResponse, isr, traffic
<1>9. CommandIsRecent'
  BY DEF IInv, CommandIsRecent, Passed, Reset, isr, ages
<1>10. TimerHasReason'
  BY DEF IInv, TimerHasReason, InMailbox, InData, Reset, GoTo, NextResponse, isr, link,
     ages
<1>11. TimerKeepsUp'
  BY DEF IInv, TimerKeepsUp, Reset, link, ages
<1>12. QED
  BY <1>1, <1>2, <1>3, <1>4, <1>5, <1>6, <1>7, <1>8, <1>9, <1>10, <1>11 DEF IInv

\* A new pass begins with the data of all objects empty.
LEMMA SendInv == IInv /\ Send => IInv'
<1> SUFFICES ASSUME IInv, Send PROVE IInv'
  OBVIOUS
<1>1. BoxType'
  BY DEF IInv, BoxType, Send, isr, traffic
<1>2. FlagType'
  BY DEF IInv, FlagType, Send, isr
<1>3. PlaceType'
  BY LinkAssumption DEF PlaceType, Objects, Rsdo, Send, GoTo
<1>4. AnswerType'
  BY DEF IInv, AnswerType, Send
<1>5. AgeType'
  BY LinkAssumption DEF IInv, AgeType, Send, link
<1>6. InUse'
  BY DEF InUse, Send, GoTo
<1>7. ReceivedWhere'
  BY DEF IInv, ReceivedWhere, Send
<1>8. NewestIsSomewhere'
  BY DEF IInv, NewestIsSomewhere, InMailbox, InData, Send, GoTo, isr, traffic
<1>9. CommandIsRecent'
  BY LinkAssumption DEF IInv, CommandIsRecent, ReceivedWhere, Passed, AgeType, Objects,
     Rsdo, Send, GoTo, isr
<1>10. TimerHasReason'
  BY DEF IInv, TimerHasReason, InMailbox, InData, Send, GoTo, isr, link
<1>11. TimerKeepsUp'
  BY DEF IInv, TimerKeepsUp, Send, link
<1>12. QED
  BY <1>1, <1>2, <1>3, <1>4, <1>5, <1>6, <1>7, <1>8, <1>9, <1>10, <1>11 DEF IInv

\* Every step of the interrupts and of the main loop keeps the invariant.
THEOREM StepInv == IInv /\ [Next]_vars => IInv'
<1> SUFFICES ASSUME IInv, [Next]_vars PROVE IInv'
  OBVIOUS
<1>1. CASE \E o \in Objects : \E v \in Content[o] : Receive(o, v)
  BY <1>1, ReceiveInv
<1>2. CASE Tick
  BY <1>2, TickInv
<1>3. CASE MainLoop
  BY <1>3, LookInv, ProcessInv, ClearInv, NothingReceivedInv, RespondToCommandInv,
     RespondToOtherInv, ProcessRequestInv, ResetInv, SendInv DEF MainLoop
<1>4. CASE UNCHANGED vars
  <2>1. BoxType' /\ FlagType' /\ PlaceType' /\ AnswerType' /\ AgeType' /\ InUse'
    BY <1>4 DEF IInv, BoxType, FlagType, PlaceType, AnswerType, AgeType, InUse, vars, isr,
       loop, link, traffic, ages
  <2>2. ReceivedWhere' /\ NewestIsSomewhere'
    BY <1>4 DEF IInv, ReceivedWhere, NewestIsSomewhere, InMailbox, InData, vars, isr, loop,
       traffic
  <2>3. CommandIsRecent' /\ TimerHasReason' /\ TimerKeepsUp'
    BY <1>4 DEF IInv, CommandIsRecent, Passed, TimerHasReason, TimerKeepsUp, InMailbox,
       InData, vars, isr, loop, link, ages
  <2>4. QED
    BY <2>1, <2>2, <2>3 DEF IInv
<1>5. QED
  BY <1>1, <1>2, <1>3, <1>4 DEF Next

\* The invariant holds in every reachable state.
THEOREM InvHolds == Spec => []IInv
  BY InitInv, StepInv, PTL DEF Spec

-----------------------------------------------------------------------------
(* The queues of the frames.                                               *)

\* Two frames in a row, one, or none.
LEMMA Rows ==
  ASSUME NEW d, NEW m
  PROVE  /\ <<d>> \o <<m>> = <<d, m>>
         /\ <<d>> \o <<>> = <<d>> /\ <<>> \o <<m>> = <<m>>
         /\ <<>> \o <<>> = <<>>
         /\ Append(<<d>>, m) = <<d, m>>
<1> DEFINE S == {d, m}
<1>1. <<d>> \in Seq(S) /\ <<m>> \in Seq(S) /\ <<>> \in Seq(S)
  OBVIOUS
<1>2. <<d>> \o <<>> = <<d>> /\ <<>> \o <<m>> = <<m>> /\ <<>> \o <<>> = <<>>
  BY <1>1, ConcatEmptySeq
<1>3. <<d>> \o <<m>> = <<d, m>>
  <2>1. <<d>> \o <<m>> \in Seq(S) /\ Len(<<d>> \o <<m>>) = 2
    BY <1>1, ConcatProperties
  <2>2. <<d, m>> \in Seq(S) /\ Len(<<d, m>>) = 2
    OBVIOUS
  <2>3. ASSUME NEW i \in 1 .. 2
        PROVE  (<<d>> \o <<m>>)[i] = <<d, m>>[i]
    <3>1. Len(<<d>>) = 1 /\ Len(<<m>>) = 1 /\ i \in 1 .. Len(<<d>>) + Len(<<m>>)
      OBVIOUS
    <3>2. (<<d>> \o <<m>>)[i] = IF i <= Len(<<d>>) THEN <<d>>[i] ELSE <<m>>[i - Len(<<d>>)]
      BY <1>1, <3>1, ConcatProperties, Zenon
    <3>3. CASE i = 1
      BY <3>1, <3>2, <3>3
    <3>4. CASE i = 2
      BY <3>1, <3>2, <3>4
    <3>5. QED
      BY <3>3, <3>4
  <2>4. QED
    BY <2>1, <2>2, <2>3, SeqEqual
<1>4. Append(<<d>>, m) = <<d, m>>
  BY <1>1, <1>3, AppendIsConcat
<1>5. QED
  BY <1>2, <1>3, <1>4

\* The queue of an object is what its processed data and its mailbox hold.
LEMMA QueueNow ==
  ASSUME NEW o
  PROVE  /\ InData(o) /\ InMailbox(o) => Queue(o) = <<data[o], mailbox[o]>>
         /\ InData(o) /\ ~InMailbox(o) => Queue(o) = <<data[o]>>
         /\ ~InData(o) /\ InMailbox(o) => Queue(o) = <<mailbox[o]>>
         /\ ~InData(o) /\ ~InMailbox(o) => Queue(o) = <<>>
<1>1. Queue(o) = (IF InData(o) THEN <<data[o]>> ELSE <<>>) \o
                 (IF InMailbox(o) THEN <<mailbox[o]>> ELSE <<>>)
  BY DEF Queue, InData, InMailbox
<1>2. QED
  BY <1>1, Rows, Zenon

\* The same after a step.
LEMMA QueueNext ==
  ASSUME NEW o
  PROVE  /\ InData(o)' /\ InMailbox(o)' => Queue(o)' = <<data'[o], mailbox'[o]>>
         /\ InData(o)' /\ ~InMailbox(o)' => Queue(o)' = <<data'[o]>>
         /\ ~InData(o)' /\ InMailbox(o)' => Queue(o)' = <<mailbox'[o]>>
         /\ ~InData(o)' /\ ~InMailbox(o)' => Queue(o)' = <<>>
<1>1. Queue(o)' = (IF InData(o)' THEN <<data'[o]>> ELSE <<>>) \o
                  (IF InMailbox(o)' THEN <<mailbox'[o]>> ELSE <<>>)
  BY DEF Queue, InData, InMailbox
<1>2. QED
  BY <1>1, Rows, Zenon

\* A step that answers nothing and lets nothing in keeps every queue.
LEMMA QueuesKept ==
  ASSUME \A o \in Objects : Queue(o)' = Queue(o), served' = served
  PROVE  UNCHANGED Frames!vars
  BY DEF Frames!vars

\* Looking, and the end of a pass, move no frame.
LEMMA LookStep == IInv /\ (Look \/ NothingReceived \/ Send \/ Tick) => UNCHANGED Frames!vars
<1> SUFFICES ASSUME IInv, Look \/ NothingReceived \/ Send \/ Tick PROVE UNCHANGED Frames!vars
  OBVIOUS
<1>1. /\ data' = data /\ mailbox' = mailbox /\ hasRaw' = hasRaw /\ received' = received
      /\ served' = served
  BY DEF Look, NothingReceived, Send, Tick, isr, loop
<1>2. (pc = pc' /\ obj = obj') \/ (pc' \notin {"clear", "reset"} /\ pc \notin {"clear", "reset"})
  BY DEF Look, NothingReceived, Send, Tick, GoTo, NextMailbox, NextResponse, loop
<1>3. \A o \in Objects : Queue(o)' = Queue(o)
  BY <1>1, <1>2 DEF Queue
<1>4. QED
  BY <1>1, <1>3, QueuesKept

\* Processing moves the frame from the mailbox to the data, which is empty.
LEMMA ProcessStep == IInv /\ Process => UNCHANGED Frames!vars
<1> SUFFICES ASSUME IInv, Process PROVE UNCHANGED Frames!vars
  OBVIOUS
<1>1. obj \in Objects /\ hasRaw[obj] /\ pc = "process"
  BY DEF IInv, PlaceType, InUse, Process
<1>2. ~received[obj]
  BY <1>1, LinkAssumption DEF IInv, ReceivedWhere, Objects, Rsdo
<1>3. /\ data' = [data EXCEPT ![obj] = mailbox[obj]]
      /\ received' = [received EXCEPT ![obj] = TRUE]
      /\ mailbox' = mailbox /\ hasRaw' = hasRaw /\ served' = served
      /\ pc' = "clear" /\ obj' = obj
  BY <1>2 DEF Process, GoTo, isr
<1>4. ASSUME NEW o \in Objects, o = obj
      PROVE  Queue(o)' = Queue(o)
  <2>1. Queue(o) = <<mailbox[o]>>
    BY <1>1, <1>2, <1>4, QueueNow DEF InData, InMailbox
  <2>2. InData(o)' /\ ~InMailbox(o)' /\ data'[o] = mailbox[o]
    BY <1>1, <1>3, <1>4 DEF IInv, BoxType, FlagType, InData, InMailbox
  <2>3. QED
    BY <2>1, <2>2, QueueNext
<1>5. ASSUME NEW o \in Objects, o # obj
      PROVE  Queue(o)' = Queue(o)
  <2>1. /\ data'[o] = data[o] /\ received'[o] = received[o]
        /\ mailbox'[o] = mailbox[o] /\ hasRaw'[o] = hasRaw[o]
    BY <1>3, <1>5 DEF IInv, BoxType, FlagType
  <2>2. QED
    BY <1>3, <1>5, <2>1 DEF Queue
<1>6. QED
  BY <1>3, <1>4, <1>5, QueuesKept

\* Releasing the mailbox and resetting the flag come after the frame has moved on.
LEMMA ReleaseStep == IInv /\ (Clear \/ Reset) => UNCHANGED Frames!vars
<1> SUFFICES ASSUME IInv, Clear \/ Reset PROVE UNCHANGED Frames!vars
  OBVIOUS
<1>1. obj \in Objects /\ data' = data /\ mailbox' = mailbox /\ served' = served
  BY DEF IInv, PlaceType, Clear, Reset, isr
<1>2. \A o \in Objects : InData(o)' = InData(o) /\ InMailbox(o)' = InMailbox(o)
  <2>1. CASE Clear
    BY <1>1, <2>1 DEF IInv, FlagType, Clear, GoTo, NextMailbox, InData, InMailbox
  <2>2. CASE Reset
    BY <1>1, <2>2 DEF IInv, FlagType, Reset, GoTo, NextResponse, InData, InMailbox, isr
  <2>3. QED
    BY <2>1, <2>2
<1>3. \A o \in Objects : Queue(o)' = Queue(o)
  BY <1>1, <1>2, QueueNow, QueueNext
<1>4. QED
  BY <1>1, <1>3, QueuesKept

\* A frame that finds its mailbox free is appended to its queue.
LEMMA ReceiveStep ==
  ASSUME IInv, NEW o \in Objects, NEW v \in Content[o], Receive(o, v)
  PROVE  Frames!Accept(o) \/ UNCHANGED Frames!vars
<1>1. /\ data' = data /\ received' = received /\ pc' = pc /\ obj' = obj /\ served' = served
  BY DEF Receive, loop
<1>2. CASE hasRaw[o]
  <2>1. mailbox' = mailbox /\ hasRaw' = hasRaw
    BY <1>2 DEF Receive, isr
  <2>2. \A p \in Objects : Queue(p)' = Queue(p)
    BY <1>1, <2>1 DEF Queue
  <2>3. QED
    BY <1>1, <2>2, QueuesKept
<1>3. CASE ~hasRaw[o]
  <2>1. /\ mailbox' = [mailbox EXCEPT ![o] = v]
        /\ hasRaw' = [hasRaw EXCEPT ![o] = TRUE]
    BY <1>3 DEF Receive, isr
  <2>2. ~(pc = "clear" /\ obj = o)
    BY <1>3 DEF IInv, InUse
  <2>3. ~InMailbox(o) /\ InMailbox(o)' /\ mailbox'[o] = v /\ (InData(o)' <=> InData(o))
    BY <1>1, <1>3, <2>1, <2>2 DEF IInv, BoxType, FlagType, InMailbox, InData
  <2>4. Queue(o)' = Append(Queue(o), v) /\ Len(Queue(o)) < 2
    <3>1. CASE InData(o)
      <4>1. Queue(o) = <<data[o]>> /\ Queue(o)' = <<data[o], v>>
        BY <1>1, <2>3, <3>1, QueueNow, QueueNext, Zenon
      <4>2. Append(<<data[o]>>, v) = <<data[o], v>>
        BY Rows, Zenon
      <4>3. Len(<<data[o]>>) < 2
        OBVIOUS
      <4>4. QED
        BY <4>1, <4>2, <4>3
    <3>2. CASE ~InData(o)
      <4>1. Queue(o) = <<>> /\ Queue(o)' = <<v>>
        BY <2>3, <3>2, QueueNow, QueueNext, Zenon
      <4>2. Append(<<>>, v) = <<v>> /\ Len(<<>>) < 2
        OBVIOUS
      <4>3. QED
        BY <4>1, <4>2
    <3>3. QED
      BY <3>1, <3>2
  <2>5. ASSUME NEW p \in Objects, p # o
        PROVE  Queue(p)' = Queue(p)
    <3>1. hasRaw'[p] = hasRaw[p] /\ mailbox'[p] = mailbox[p]
      BY <2>1, <2>5 DEF IInv, BoxType, FlagType
    <3>2. QED
      BY <1>1, <3>1 DEF Queue
  <2>6. QED
    BY <1>1, <2>4, <2>5 DEF Frames!Accept
<1>4. QED
  BY <1>2, <1>3

\* A response serves the head of the queue, which is in the processed data.
LEMMA RespondStep ==
  IInv /\ (RespondToCommand \/ RespondToOther \/ ProcessRequest)
    => \E o \in Objects : Frames!Serve(o)
<1> SUFFICES ASSUME IInv, RespondToCommand \/ RespondToOther \/ ProcessRequest
             PROVE  \E o \in Objects : Frames!Serve(o)
  OBVIOUS
<1>1. /\ pc = "respond" /\ pc' = "reset" /\ obj' = obj /\ received[obj]
      /\ data' = data /\ received' = received /\ mailbox' = mailbox /\ hasRaw' = hasRaw
      /\ served' = [served EXCEPT ![obj] = data[obj]]
  BY DEF RespondToCommand, RespondToOther, ProcessRequest, Responded, GoTo, isr
<1>2. PICK o \in Objects : o = obj
  BY DEF IInv, PlaceType
<1>3. InData(o) /\ ~InData(o)' /\ (InMailbox(o)' <=> InMailbox(o))
  BY <1>1, <1>2 DEF InData, InMailbox
<1>4. Queue(o) # <<>> /\ Head(Queue(o)) = data[o] /\ Queue(o)' = Tail(Queue(o))
  <2>1. CASE InMailbox(o)
    <3>1. Queue(o) = <<data[o], mailbox[o]>> /\ Queue(o)' = <<mailbox[o]>>
      BY <1>1, <1>3, <2>1, QueueNow, QueueNext, Zenon
    <3>2. /\ <<data[o], mailbox[o]>> # <<>>
          /\ Head(<<data[o], mailbox[o]>>) = data[o]
          /\ Tail(<<data[o], mailbox[o]>>) = <<mailbox[o]>>
      OBVIOUS
    <3>3. QED
      BY <3>1, <3>2
  <2>2. CASE ~InMailbox(o)
    <3>1. Queue(o) = <<data[o]>> /\ Queue(o)' = <<>>
      BY <1>1, <1>3, <2>2, QueueNow, QueueNext, Zenon
    <3>2. /\ <<data[o]>> # <<>> /\ Head(<<data[o]>>) = data[o] /\ Tail(<<data[o]>>) = <<>>
      OBVIOUS
    <3>3. QED
      BY <3>1, <3>2
  <2>3. QED
    BY <2>1, <2>2
<1>5. ASSUME NEW p \in Objects, p # o
      PROVE  Queue(p)' = Queue(p)
  BY <1>1, <1>2, <1>5 DEF Queue
<1>6. Frames!Serve(o)
  BY <1>1, <1>2, <1>4, <1>5 DEF Frames!Serve
<1>7. QED
  BY <1>6

-----------------------------------------------------------------------------
(* The results.                                                            *)

\* The types, and that a mailbox is emptied and a flag reset only when in use.
THEOREM TypeCorrect == Spec => []TypeOK
<1>1. IInv => TypeOK
  BY TypeInParts DEF IInv
<1>2. QED
  BY <1>1, InvHolds, PTL

\* When no frame of a kind waits, the last one on the bus is in force, unless it
\* was dropped (Server::onFrameReceived, processRawRdo).
THEOREM NewestInForceHolds == Spec => []NewestInForce
<1>1. IInv => NewestInForce
  <2> SUFFICES ASSUME IInv, NEW o \in Objects, Queue(o) = <<>>, o \notin dropped
               PROVE  served[o] = arrived[o]
    BY DEF NewestInForce
  <2>1. ~InData(o) /\ ~InMailbox(o)
    BY QueueNow
  <2>2. QED
    BY <2>1, Zenon DEF IInv, NewestIsSomewhere
<1>2. QED
  BY <1>1, InvHolds, PTL

\* A silent BMS is in the error register (SystemClock::onInterrupt), however often
\* the service tool clears it.
THEOREM SilenceIsKnownHolds == Spec => []SilenceIsKnown
<1>1. IInv => SilenceIsKnown
  <2> SUFFICES ASSUME IInv, silence >= WATCHDOG_PERIOD + 2 * MAX_PASS,
                      sinceClear >= WATCHDOG_PERIOD
               PROVE  lost
    BY DEF SilenceIsKnown
  <2>1. watchdogTimer \in Nat /\ watchdogTimer < WATCHDOG_PERIOD
    BY Bounds DEF IInv, AgeType
  <2>2. silence \in Nat /\ sinceClear \in Nat /\ 2 * MAX_PASS \in Nat
    BY Bounds DEF IInv, AgeType
  <2>3. ~(sinceClear <= watchdogTimer) /\ ~(silence <= watchdogTimer + 2 * MAX_PASS)
    BY <2>1, <2>2, Bounds
  <2>4. QED
    BY <2>3 DEF IInv, TimerKeepsUp
<1>2. QED
  BY <1>1, InvHolds, PTL

\* A loss of the link is raised only after a period without a command, or while a
\* command waits for the main loop.
THEOREM AlarmHasReasonHolds == Spec => AlarmHasReason
<1>1. IInv /\ IInv' /\ [Next]_vars =>
        [lost' /\ ~lost => silence' >= WATCHDOG_PERIOD \/ \E o \in Commands : Queue(o) # <<>>]_vars
  <2> SUFFICES ASSUME IInv, Next, lost', ~lost, \A o \in Commands : Queue(o) = <<>>
               PROVE  silence' >= WATCHDOG_PERIOD
    BY DEF vars, link
  <2>1. Tick
    BY DEF Next, MainLoop, Receive, Look, Process, Clear, NothingReceived, RespondToCommand,
       RespondToOther, ProcessRequest, MayClearErrors, Reset, Send, link
  <2>2. watchdogTimer + 1 >= WATCHDOG_PERIOD /\ silence' = Older(silence)
    BY <2>1 DEF Tick
  <2>3. \A o \in Commands : ~InData(o) /\ ~InMailbox(o)
    BY QueueNow
  <2>4. watchdogTimer <= silence
    BY <2>3 DEF IInv, TimerHasReason
  <2>5. watchdogTimer \in Nat /\ silence \in Nat /\ silence <= MaxTime
    BY Bounds DEF IInv, AgeType
  <2>6. WATCHDOG_PERIOD \in Nat /\ WATCHDOG_PERIOD <= MaxTime /\ MaxTime \in Nat
    BY LinkAssumption
  <2>7. QED
    BY <2>2, <2>4, <2>5, <2>6 DEF Older
<1>2. QED
  BY <1>1, InvHolds, PTL DEF Spec, AlarmHasReason

\* The mailboxes and the processed data implement the queues of FrameQueue: an
\* accepted frame is never overwritten, skipped or responded to twice.
THEOREM FramesInTurnHolds == Spec => FramesInTurn
<1>1. Init => Frames!Init
  <2> SUFFICES ASSUME Init PROVE Frames!Init
    OBVIOUS
  <2>1. \A o \in Objects : ~InData(o) /\ ~InMailbox(o)
    BY DEF Init, InData, InMailbox
  <2>2. \A o \in Objects : Queue(o) = <<>>
    BY <2>1, QueueNow
  <2>3. QED
    BY <2>2 DEF Init, Frames!Init
<1>2. IInv /\ [Next]_vars => [Frames!Next]_Frames!vars
  <2> SUFFICES ASSUME IInv, [Next]_vars PROVE Frames!Next \/ UNCHANGED Frames!vars
    OBVIOUS
  <2>1. CASE \E o \in Objects : \E v \in Content[o] : Receive(o, v)
    BY <2>1, ReceiveStep DEF Frames!Next
  <2>2. CASE Tick
    BY <2>2, LookStep
  <2>3. CASE MainLoop
    BY <2>3, LookStep, ProcessStep, ReleaseStep, RespondStep DEF MainLoop, Frames!Next
  <2>4. CASE UNCHANGED vars
    <3>1. \A o \in Objects : Queue(o)' = Queue(o)
      BY <2>4 DEF vars, isr, loop, Queue
    <3>2. QED
      BY <2>4, <3>1, QueuesKept DEF vars
  <2>5. QED
    BY <2>1, <2>2, <2>3, <2>4 DEF Next
<1>3. QED
  BY <1>1, <1>2, InvHolds, PTL DEF Spec, FramesInTurn, Frames!Safety
=============================================================================
