--------------------------- MODULE SyslogMessages ---------------------------
(***************************************************************************)
(* The messages of the system log (sys/syslog): a ring (emb::Queue) in the *)
(* memory of CPU1, which CPU1's main loop writes and which the service     *)
(* tool empties, a message per request.  CPU2 cannot write the ring: it    *)
(* leaves a message in a word of its own memory and raises a flag, which   *)
(* CPU1's main loop looks at.                                              *)
(*                                                                         *)
(* CPU1's addMessage and popMessage are critical sections and so are       *)
(* steps; readMessage is none, and reading and removing a message are two  *)
(* calls.  No interrupt of CPU1 calls any of them: processRsdo, which has  *)
(* a call of addMessage, is called from the main loop, where it finds the  *)
(* request before it processed (see BmsLink).  CPU2's half of addMessage   *)
(* and popMessage has no caller in this version; it is modelled as called  *)
(* at any time.                                                            *)
(***************************************************************************)
EXTENDS Naturals, Sequences

CONSTANTS
  Capacity,        \* 32
  BOOT_MESSAGES,   \* the messages that the boot leaves in the ring
  Cpu2Messages     \* the messages of CPU2

\* The boot of both CPUs leaves 6 messages.
ASSUME SyslogAssumption ==
  /\ Capacity \in Nat \ {0} /\ BOOT_MESSAGES \in 0 .. Capacity
  /\ Cpu2Messages \cap {"NO_MESSAGE", "DEVICE_READY", "DEVICE_SW_RESET"} = {}

Messages == {"DEVICE_READY", "DEVICE_SW_RESET"} \cup Cpu2Messages

VARIABLES
  data,         \* Queue::m_data
  front,        \* Queue::m_front
  back,         \* Queue::m_back
  size,         \* Queue::m_size
  pc,           \* where the main loop of CPU1 is
  got,          \* what getSyslogMessage has read and not yet removed
  answer,       \* what getSyslogMessage has last answered the service tool
  addFlag,      \* the flag ADD_MESSAGE of CPU2
  popFlag,      \* the flag POP_MESSAGE of CPU2
  cpu2Message,  \* m_cpu2Message
  pc2           \* CPU2 has stored its message and not yet raised the flag

ring  == <<data, front, back, size>>
cpu1  == <<pc, got, answer>>
flags == <<addFlag, popFlag>>
cpu2  == <<cpu2Message, pc2>>
vars  == <<ring, cpu1, flags, cpu2>>

\* Types; the fields of the ring agree, and CPU2 leaves alone what it has flagged.
TypeOK ==
  /\ data \in [0 .. Capacity - 1 -> Messages]
  /\ front \in 0 .. Capacity - 1 /\ back \in 0 .. Capacity - 1
  /\ size \in 0 .. Capacity
  /\ size > 0 => back = (front + size - 1) % Capacity
  /\ pc \in {"signals", "ackPop", "add", "ackAdd", "serve", "taken"}
  /\ got \in Messages \cup {"NO_MESSAGE"} /\ answer \in Messages \cup {"NO_MESSAGE"}
  /\ addFlag \in BOOLEAN /\ popFlag \in BOOLEAN
  /\ cpu2Message \in Cpu2Messages \cup {"NO_MESSAGE"}
  /\ pc2 \in {"idle", "stored"}
  /\ addFlag => cpu2Message # "NO_MESSAGE" /\ pc2 = "idle"
  /\ pc2 = "stored" => cpu2Message # "NO_MESSAGE"
  /\ pc = "ackAdd" => addFlag

\* The main loop begins.  CPU2's Syslog::init has cleared the ring as well, in
\* vain: the memory belongs to CPU1.
Init ==
  /\ data = [i \in 0 .. Capacity - 1 |-> "DEVICE_READY"]
  /\ front = 0 /\ size = BOOT_MESSAGES
  /\ back = IF BOOT_MESSAGES = 0 THEN 0 ELSE BOOT_MESSAGES - 1
  /\ pc = "signals" /\ got = "NO_MESSAGE" /\ answer = "NO_MESSAGE"
  /\ addFlag = FALSE /\ popFlag = FALSE
  /\ cpu2Message = "NO_MESSAGE" /\ pc2 = "idle"

-----------------------------------------------------------------------------
(* The ring: Queue::push, front and pop under the guards of addMessage,    *)
(* readMessage and popMessage.                                             *)

\* Mutant: the place after the last one is not the first one.
AddMessage_NoWrap(m) ==
  \/ size = Capacity /\ UNCHANGED ring
  \/ /\ size < Capacity
     /\ back' = IF size = 0 THEN front ELSE back + 1
     /\ data' = [data EXCEPT ![back'] = m]
     /\ size' = size + 1
     /\ UNCHANGED front

\* CPU1's addMessage: a message that comes when the ring is full is dropped.
AddMessage(m) ==
  \/ size = Capacity /\ UNCHANGED ring
  \/ /\ size < Capacity
     /\ back' = IF size = 0 THEN front ELSE (back + 1) % Capacity
     /\ data' = [data EXCEPT ![back'] = m]
     /\ size' = size + 1
     /\ UNCHANGED front

ReadMessage == IF size = 0 THEN "NO_MESSAGE" ELSE data[front]

\* CPU1's popMessage.
PopMessage ==
  \/ size = 0 /\ UNCHANGED ring
  \/ /\ size > 0
     /\ front' = (front + 1) % Capacity
     /\ size' = size - 1
     /\ UNCHANGED <<data, back>>

-----------------------------------------------------------------------------
(* CPU1's main loop: processIpcSignals, then the CAN server.               *)

\* processIpcSignals removes a message for CPU2, ...
LookPop ==
  /\ pc = "signals"
  /\ \/ popFlag /\ PopMessage /\ pc' = "ackPop"
     \/ ~popFlag /\ UNCHANGED ring /\ pc' = "add"
  /\ UNCHANGED <<got, answer, flags, cpu2>>

AckPop ==
  /\ pc = "ackPop"
  /\ popFlag' = FALSE /\ pc' = "add"
  /\ UNCHANGED <<ring, got, answer, addFlag, cpu2>>

\* ... and takes a message of CPU2 over.  CPU2 waits for the acknowledgement.
LookAdd ==
  /\ pc = "add"
  /\ \/ addFlag /\ AddMessage(cpu2Message) /\ pc' = "ackAdd"
     \/ ~addFlag /\ UNCHANGED ring /\ pc' = "serve"
  /\ UNCHANGED <<got, answer, flags, cpu2>>

AckAdd ==
  /\ pc = "ackAdd"
  /\ addFlag' = FALSE /\ pc' = "serve"
  /\ UNCHANGED <<ring, got, answer, popFlag, cpu2>>

\* The server serves one request at most: another object, resetDevice, or the
\* first half of getSyslogMessage.
Serve ==
  /\ pc = "serve"
  /\ \/ UNCHANGED <<ring, got>> /\ pc' = "signals"
     \/ AddMessage("DEVICE_SW_RESET") /\ UNCHANGED got /\ pc' = "signals"
     \/ UNCHANGED ring /\ got' = ReadMessage /\ pc' = "taken"
  /\ UNCHANGED <<answer, flags, cpu2>>

\* getSyslogMessage removes the front, whatever the front is by now, and answers
\* with what it has read.
Pop ==
  /\ pc = "taken"
  /\ PopMessage
  /\ pc' = "signals" /\ answer' = got /\ got' = "NO_MESSAGE"
  /\ UNCHANGED <<flags, cpu2>>

MainLoop == LookPop \/ AckPop \/ LookAdd \/ AckAdd \/ Serve \/ Pop

-----------------------------------------------------------------------------
(* CPU2.                                                                   *)

\* Mutant: the flag of the last message is not looked at.
Cpu2Store_Hasty(m) ==
  /\ pc2 = "idle"
  /\ cpu2Message' = m /\ pc2' = "stored"
  /\ UNCHANGED <<ring, cpu1, flags>>

\* CPU2's addMessage; it returns at once while its last message is flagged.
Cpu2Store(m) ==
  /\ pc2 = "idle" /\ ~addFlag
  /\ cpu2Message' = m /\ pc2' = "stored"
  /\ UNCHANGED <<ring, cpu1, flags>>

Cpu2Signal ==
  /\ pc2 = "stored"
  /\ addFlag' = TRUE /\ pc2' = "idle"
  /\ UNCHANGED <<ring, cpu1, popFlag, cpu2Message>>

\* CPU2's popMessage; a request that meets an unacknowledged one is lost in it.
Cpu2Pop ==
  /\ popFlag' = TRUE
  /\ UNCHANGED <<ring, cpu1, addFlag, cpu2>>

Next ==
  \/ MainLoop \/ Cpu2Signal \/ Cpu2Pop
  \/ \E m \in Cpu2Messages : Cpu2Store(m)

\* The main loop of CPU1 contains no blocking call.
Spec == Init /\ [][Next]_vars /\ WF_vars(MainLoop)

-----------------------------------------------------------------------------
(* Properties.                                                             *)

\* The messages in the ring, the oldest first.
Queue == [i \in 1 .. size |-> data[(front + i - 1) % Capacity]]

\* The message that CPU2 has flagged and CPU1 has not yet put into the ring.
Flagged == IF addFlag /\ pc # "ackAdd" THEN cpu2Message ELSE "NO_MESSAGE"

Log == INSTANCE MessageLog WITH
  NO_MESSAGE <- "NO_MESSAGE", log <- Queue, pending <- Flagged, shown <- answer

\* The ring, the word and the flags implement a bounded log: no message is lost
\* but for a full ring, none changes, overtakes another or is put in twice, what
\* CPU2 has flagged is taken over, and the service tool is shown the message
\* that its request removes, although reading and removing are two calls.
ImplementsLog == Log!Spec
=============================================================================
