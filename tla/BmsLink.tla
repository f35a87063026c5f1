------------------------------ MODULE BmsLink ------------------------------
(***************************************************************************)
(* The CAN server that links the converter to the battery management       *)
(* system (BMS) and the service tool (ucanopen), with the watchdog of the  *)
(* link (SystemClock).  The interrupt of the CAN controller puts a frame   *)
(* into the mailbox of its kind, if the mailbox is free.  The main loop    *)
(* empties the mailboxes (Server::processRawRdo), responds to what was in  *)
(* them (RpdoService::respondToProcessedRpdo, SdoService::processRequest)  *)
(* and sends the answer to a request (Server::sendSdoResponse).  Both      *)
(* interrupts preempt the main loop anywhere, so it is modelled access by  *)
(* access.                                                                 *)
(***************************************************************************)
EXTENDS Naturals, Sequences

CONSTANTS
  Pdos,             \* the number of process data objects, RPDO1 to RPDO4
  Commands,         \* those that carry a command of the BMS: RPDO2 and RPDO3
  Values,           \* the contents of a process data object
  Requests,         \* the requests of the service tool (see KnownRequests)
  WATCHDOG_PERIOD,
  MAX_PASS,         \* the ticks that may fall into one pass of the main loop
  MaxTime           \* bound: the histories count up to here

Rsdo == Pdos + 1

\* "read" is any request that is answered and changes nothing here; a request
\* for an entry that is not in the dictionary is "unknown".
KnownRequests == {"read", "RESET FAULTS", "STARTUP"}

ASSUME LinkAssumption ==
  /\ Pdos \in Nat /\ Commands \subseteq 1 .. Pdos
  /\ "none" \notin Values /\ Requests \subseteq KnownRequests \cup {"unknown"}
  /\ WATCHDOG_PERIOD \in Nat \ {0} /\ MAX_PASS \in Nat /\ MaxTime \in Nat
  /\ WATCHDOG_PERIOD + 2 * MAX_PASS <= MaxTime

Objects == 1 .. Rsdo

Content == [o \in Objects |-> IF o = Rsdo THEN Requests ELSE Values]

VARIABLES
  mailbox,        \* m_msgObjects[o].data
  hasRaw,         \* m_hasRawRdo
  pc,             \* where the main loop is ...
  obj,            \* ... and with which object
  data,           \* s_rpdoProcessedData and s_rsdoData
  received,       \* the flags RPDO1_RECEIVED ... RSDO_RECEIVED
  tsdo,           \* s_tsdoData
  tsdoReady,      \* the flag TSDO_READY
  watchdogTimer,  \* SystemClock::m_watchdogTimer
  lost,           \* Syslog: the error CAN_CONNECTION_LOST
  sent,           \* history: the answer that was sent to the last request, or none yet
  arrived,        \* history: the last frame of each kind on the bus
  dropped,        \* history: the kinds whose last frame was dropped
  served,         \* history: the frame of each kind responded to last
  passAge,        \* history: the ticks in this pass of the main loop
  silence,        \* history: the ticks since the last command on the bus
  sinceClear      \* history: the ticks since the error register was cleared

isr     == <<mailbox, hasRaw>>
loop    == <<pc, obj, data, received, tsdo, tsdoReady, sent>>
link    == <<watchdogTimer, lost>>
traffic == <<arrived, dropped>>
ages    == <<passAge, silence, sinceClear>>
vars    == <<isr, loop, link, traffic, served, ages>>

Contents == Values \cup Requests \cup {"none"}

\* Types; the steps that empty a mailbox or reset a flag find it in use.
TypeOK ==
  /\ mailbox \in [Objects -> Contents] /\ data \in [Objects -> Contents]
  /\ mailbox[Rsdo] \in Requests \cup {"none"} /\ data[Rsdo] \in Requests \cup {"none"}
  /\ hasRaw \in [Objects -> BOOLEAN] /\ received \in [Objects -> BOOLEAN]
  /\ pc \in {"look", "process", "clear", "respond", "reset", "send"}
  /\ obj \in Objects
  /\ tsdo \in Requests \cup {"none"} /\ tsdoReady \in BOOLEAN
  /\ sent \in Requests \cup {"none"}
  /\ watchdogTimer \in 0 .. WATCHDOG_PERIOD - 1 /\ lost \in BOOLEAN
  /\ arrived \in [Objects -> Contents] /\ served \in [Objects -> Contents]
  /\ dropped \subseteq Objects
  /\ passAge \in 0 .. MAX_PASS /\ silence \in 0 .. MaxTime /\ sinceClear \in 0 .. MaxTime
  /\ pc \in {"process", "clear"} => hasRaw[obj]
  /\ pc \in {"clear", "reset"} => received[obj]

\* The server and the watchdog have just been enabled.
Init ==
  /\ mailbox = [o \in Objects |-> "none"] /\ hasRaw = [o \in Objects |-> FALSE]
  /\ data = [o \in Objects |-> "none"] /\ received = [o \in Objects |-> FALSE]
  /\ pc = "look" /\ obj = 1
  /\ tsdo = "none" /\ tsdoReady = FALSE /\ sent = "none"
  /\ watchdogTimer = 0 /\ lost = FALSE
  /\ arrived = [o \in Objects |-> "none"] /\ dropped = {}
  /\ served = [o \in Objects |-> "none"]
  /\ passAge = 0 /\ silence = 0 /\ sinceClear = 0

-----------------------------------------------------------------------------
(* The interrupts.                                                         *)

\* Mutant: a frame that finds the mailbox full overwrites it.
Receive_Overwrites(o, v) ==
  /\ mailbox' = [mailbox EXCEPT ![o] = v] /\ hasRaw' = [hasRaw EXCEPT ![o] = TRUE]
  /\ arrived' = [arrived EXCEPT ![o] = v]
  /\ silence' = IF o \in Commands THEN 0 ELSE silence
  /\ UNCHANGED <<loop, link, dropped, served, passAge, sinceClear>>

\* Server::onFrameReceived: the frame stays in the controller, to be overwritten
\* by the next one, if the mailbox is full.
Receive(o, v) ==
  /\ \/ /\ ~hasRaw[o]
        /\ mailbox' = [mailbox EXCEPT ![o] = v] /\ hasRaw' = [hasRaw EXCEPT ![o] = TRUE]
        /\ dropped' = dropped \ {o}
     \/ hasRaw[o] /\ dropped' = dropped \cup {o} /\ UNCHANGED isr
  /\ arrived' = [arrived EXCEPT ![o] = v]
  /\ silence' = IF o \in Commands THEN 0 ELSE silence
  /\ UNCHANGED <<loop, link, served, passAge, sinceClear>>

Older(age) == IF age < MaxTime THEN age + 1 ELSE age

\* Mutant: the watchdog barks once.
Tick_BarksOnce ==
  /\ passAge < MAX_PASS
  /\ watchdogTimer' = IF watchdogTimer < WATCHDOG_PERIOD - 1 THEN watchdogTimer + 1
                      ELSE watchdogTimer
  /\ lost' = (lost \/ watchdogTimer + 1 = WATCHDOG_PERIOD - 1)
  /\ passAge' = passAge + 1
  /\ silence' = Older(silence) /\ sinceClear' = Older(sinceClear)
  /\ UNCHANGED <<isr, loop, traffic, served>>

\* SystemClock::onInterrupt, with taskWatchdogTimeout and resetWatchdog.
Tick ==
  /\ passAge < MAX_PASS
  /\ LET timeout == watchdogTimer + 1 >= WATCHDOG_PERIOD
     IN /\ watchdogTimer' = IF timeout THEN 0 ELSE watchdogTimer + 1
        /\ lost' = (lost \/ timeout)
  /\ passAge' = passAge + 1
  /\ silence' = Older(silence) /\ sinceClear' = Older(sinceClear)
  /\ UNCHANGED <<isr, loop, traffic, served>>

-----------------------------------------------------------------------------
(* The main loop: Server::run.                                             *)

GoTo(place, o) == pc' = place /\ obj' = o

\* Mutant: the loop ends before the service data object.
NextMailbox_PdosOnly == IF obj < Pdos THEN GoTo("look", obj + 1) ELSE GoTo("respond", 1)

\* The next object of the loop of processRawRdo, or the first one to respond to.
NextMailbox == IF obj < Rsdo THEN GoTo("look", obj + 1) ELSE GoTo("respond", 1)

NextResponse == IF obj < Rsdo THEN GoTo("respond", obj + 1) ELSE GoTo("send", 1)

\* Mutant: the mailbox is released before its content is taken.
Look_ReleasesEarly ==
  /\ pc = "look"
  /\ IF hasRaw[obj] THEN GoTo("process", obj) ELSE NextMailbox
  /\ hasRaw' = [hasRaw EXCEPT ![obj] = FALSE]
  /\ UNCHANGED <<mailbox, data, received, tsdo, tsdoReady, sent, link, traffic, served, ages>>

Look ==
  /\ pc = "look"
  /\ IF hasRaw[obj] THEN GoTo("process", obj) ELSE NextMailbox
  /\ UNCHANGED <<isr, data, received, tsdo, tsdoReady, sent, link, traffic, served, ages>>

\* RpdoService::processRpdo1 to processRpdo4, and SdoService::processRsdo, which
\* would lose a request if the one before it had not been processed: it has been,
\* in the same pass, or FramesInTurn would not hold.
Process ==
  /\ pc = "process"
  /\ \/ /\ obj # Rsdo \/ ~received[obj]
        /\ data' = [data EXCEPT ![obj] = mailbox[obj]]
        /\ received' = [received EXCEPT ![obj] = TRUE]
     \/ obj = Rsdo /\ received[obj] /\ UNCHANGED <<data, received>>
  /\ GoTo("clear", obj)
  /\ UNCHANGED <<isr, tsdo, tsdoReady, sent, link, traffic, served, ages>>

Clear ==
  /\ pc = "clear"
  /\ hasRaw' = [hasRaw EXCEPT ![obj] = FALSE]
  /\ NextMailbox
  /\ UNCHANGED <<mailbox, data, received, tsdo, tsdoReady, sent, link, traffic, served, ages>>

\* Syslog::resetErrorsWarnings, or not: STANDBY_State::startup calls it only for
\* a further launch after a failed one (see ConverterFsm).
MayClearErrors ==
  \/ lost' = FALSE /\ sinceClear' = 0
  \/ UNCHANGED <<lost, sinceClear>>

NothingReceived ==
  /\ pc = "respond" /\ ~received[obj]
  /\ NextResponse
  /\ UNCHANGED <<isr, data, received, tsdo, tsdoReady, sent, link, traffic, served, ages>>

Responded ==
  /\ served' = [served EXCEPT ![obj] = data[obj]]
  /\ GoTo("reset", obj)
  /\ UNCHANGED <<isr, data, received, traffic, passAge, silence>>

\* Mutant: a command is no sign of life.
RespondToCommand_NotFed ==
  /\ pc = "respond" /\ received[obj] /\ obj \in Commands
  /\ MayClearErrors
  /\ Responded
  /\ UNCHANGED <<watchdogTimer, tsdo, tsdoReady, sent>>

\* _respondToProcessedRpdo2 and _respondToProcessedRpdo3; what the converter
\* does with the command is the subject of ConverterFsm.
RespondToCommand ==
  /\ pc = "respond" /\ received[obj] /\ obj \in Commands
  /\ watchdogTimer' = 0
  /\ MayClearErrors
  /\ Responded
  /\ UNCHANGED <<tsdo, tsdoReady, sent>>

\* _respondToProcessedRpdo1 and _respondToProcessedRpdo4.
RespondToOther ==
  /\ pc = "respond" /\ received[obj] /\ obj \notin Commands \cup {Rsdo}
  /\ Responded
  /\ UNCHANGED <<link, tsdo, tsdoReady, sent, sinceClear>>

\* Mutant: the answer is made but not announced.
ProcessRequest_NotReady ==
  /\ pc = "respond" /\ received[obj] /\ obj = Rsdo
  /\ \/ /\ data[obj] = "RESET FAULTS"
        /\ watchdogTimer' = 0 /\ lost' = FALSE /\ sinceClear' = 0
     \/ data[obj] = "STARTUP" /\ MayClearErrors /\ UNCHANGED watchdogTimer
     \/ data[obj] \notin {"RESET FAULTS", "STARTUP"} /\ UNCHANGED <<link, sinceClear>>
  /\ tsdo' = IF data[obj] = "unknown" THEN tsdo ELSE data[obj]
  /\ sent' = "none"
  /\ Responded /\ UNCHANGED tsdoReady

\* SdoService::processRequest, with the task or the read access of the entry.
ProcessRequest ==
  /\ pc = "respond" /\ received[obj] /\ obj = Rsdo
  /\ \/ /\ data[obj] = "RESET FAULTS"
        /\ watchdogTimer' = 0 /\ lost' = FALSE /\ sinceClear' = 0
     \/ data[obj] = "STARTUP" /\ MayClearErrors /\ UNCHANGED watchdogTimer
     \/ data[obj] \notin {"RESET FAULTS", "STARTUP"} /\ UNCHANGED <<link, sinceClear>>
  /\ IF data[obj] = "unknown" THEN UNCHANGED <<tsdo, tsdoReady>>
                              ELSE tsdo' = data[obj] /\ tsdoReady' = TRUE
  /\ sent' = "none"
  /\ Responded

\* Mutant: the flag of what was responded to stays set.
Reset_FlagKept ==
  /\ pc = "reset"
  /\ NextResponse
  /\ UNCHANGED <<isr, data, received, tsdo, tsdoReady, sent, link, traffic, served, ages>>

\* resetIpcFlag, the last statement of every response.
Reset ==
  /\ pc = "reset"
  /\ received' = [received EXCEPT ![obj] = FALSE]
  /\ NextResponse
  /\ UNCHANGED <<isr, data, tsdo, tsdoReady, sent, link, traffic, served, ages>>

\* Server::sendSdoResponse, and the rest of the pass: the periodic frames, the
\* clock tasks, the temperatures.
Send ==
  /\ pc = "send" /\ GoTo("look", 1)
  /\ tsdoReady' = FALSE
  /\ sent' = IF tsdoReady THEN tsdo ELSE sent
  /\ passAge' = 0
  /\ UNCHANGED <<isr, data, received, tsdo, link, traffic, served, silence, sinceClear>>

MainLoop ==
  \/ Look \/ Process \/ Clear
  \/ NothingReceived \/ RespondToCommand \/ RespondToOther \/ ProcessRequest \/ Reset
  \/ Send

Next ==
  \/ \E o \in Objects : \E v \in Content[o] : Receive(o, v)
  \/ Tick
  \/ MainLoop

\* The interrupts leave time for the main loop, which never blocks.
Spec == Init /\ [][Next]_vars /\ WF_vars(MainLoop)

-----------------------------------------------------------------------------
(* Properties.                                                             *)

\* The frames of a kind that were accepted and not yet responded to: one may be
\* in the processed data and one in the mailbox.
Queue(o) ==
  (IF received[o] /\ ~(pc = "reset" /\ obj = o) THEN <<data[o]>> ELSE <<>>) \o
  (IF hasRaw[o] /\ ~(pc = "clear" /\ obj = o) THEN <<mailbox[o]>> ELSE <<>>)

Frames == INSTANCE FrameQueue WITH queue <- [o \in Objects |-> Queue(o)]

\* However the interrupt and the main loop interleave, an accepted frame is never
\* overwritten, torn, skipped or responded to twice.
FramesInTurn == Frames!Safety

\* Moreover every accepted frame is responded to.
FramesAnswered == Frames!Spec

\* When nothing is waiting, the last frame of each kind on the bus is the one in
\* force, unless it was dropped: the newest frame is, not the oldest.
NewestInForce ==
  \A o \in Objects : Queue(o) = <<>> => served[o] = arrived[o] \/ o \in dropped

\* A loss of the link is raised only if no command has come for the whole period
\* or one has come and the main loop has not got round to it.
AlarmHasReason ==
  [][lost' /\ ~lost => silence' >= WATCHDOG_PERIOD \/ \E o \in Commands : Queue(o) # <<>>]_vars

\* A silent BMS is in the error register, however often the service tool clears
\* it: a period and two passes after the last command, and a period after the
\* register was cleared.
SilenceIsKnown ==
  silence >= WATCHDOG_PERIOD + 2 * MAX_PASS /\ sinceClear >= WATCHDOG_PERIOD => lost

\* Each time a request for a known entry has been processed, an answer is sent,
\* to this request: an answer to the one before it does not count.
RequestIsAnswered ==
  \A r \in Requests \cap KnownRequests :
    pc = "reset" /\ obj = Rsdo /\ served[Rsdo] = r ~> sent = r
=============================================================================
