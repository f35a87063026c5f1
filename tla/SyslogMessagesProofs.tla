------------------------ MODULE SyslogMessagesProofs ------------------------
(***************************************************************************)
(* The message log for every capacity of the ring and all messages of      *)
(* CPU2.                                                                   *)
(*                                                                         *)
(* The arithmetic of the ring is done once, in RingAdd and RingPop: the    *)
(* ring changes as the sequence it stands for, by an Append or by a Tail.  *)
(* The refinement of MessageLog then speaks of sequences and of who may    *)
(* change them: between the reading and the removal of a message nobody    *)
(* does, so that the message removed is the one shown (ReadIsFront).       *)
(***************************************************************************)
EXTENDS SyslogMessages, SequenceTheorems, TLAPS

RingType ==
  /\ data \in [0 .. Capacity - 1 -> Messages]
  /\ front \in 0 .. Capacity - 1 /\ back \in 0 .. Capacity - 1
  /\ size \in 0 .. Capacity
  /\ size > 0 => back = (front + size - 1) % Capacity

ControlType ==
  /\ pc \in {"signals", "ackPop", "add", "ackAdd", "serve", "taken"}
  /\ got \in Messages \cup {"NO_MESSAGE"} /\ answer \in Messages \cup {"NO_MESSAGE"}
  /\ addFlag \in BOOLEAN /\ popFlag \in BOOLEAN
  /\ cpu2Message \in Cpu2Messages \cup {"NO_MESSAGE"}
  /\ pc2 \in {"idle", "stored"}
  /\ addFlag => cpu2Message # "NO_MESSAGE" /\ pc2 = "idle"
  /\ pc2 = "stored" => cpu2Message # "NO_MESSAGE"
  /\ pc = "ackAdd" => addFlag

\* What getSyslogMessage has read is the front of the ring.
ReadIsFront == pc = "taken" => got = ReadMessage

IInv == RingType /\ ControlType /\ ReadIsFront

-----------------------------------------------------------------------------
(* The ring.                                                               *)

\* The place that is n places behind place f, without the remainder.
Place(f, n) == IF f + n < Capacity THEN f + n ELSE f + n - Capacity

\* A place less than one whole turn behind another: a single subtraction.
LEMMA RingRemainder ==
  ASSUME NEW c \in Nat \ {0}, NEW f \in 0 .. c - 1, NEW n \in 0 .. c
  PROVE  (f + n) % c = IF f + n < c THEN f + n ELSE f + n - c
  BY SMTT(30)

\* The remainders of the code are places.
LEMMA PlaceIsMod ==
  ASSUME NEW f \in 0 .. Capacity - 1, NEW n \in 0 .. Capacity
  PROVE  (f + n) % Capacity = Place(f, n) /\ Place(f, n) \in 0 .. Capacity - 1
<1>1. Capacity \in Nat \ {0}
  BY SyslogAssumption
<1>2. (f + n) % Capacity = Place(f, n)
  BY <1>1, RingRemainder DEF Place
<1>. QED
  BY <1>1, <1>2 DEF Place

\* The place of the last of n messages.
LEMMA LastPlaceIsMod ==
  ASSUME NEW f \in 0 .. Capacity - 1, NEW n \in 1 .. Capacity
  PROVE  (f + n - 1) % Capacity = Place(f, n - 1)
<1>1. n - 1 \in 0 .. Capacity /\ f + n - 1 = f + (n - 1)
  BY SyslogAssumption
<1>2. (f + (n - 1)) % Capacity = Place(f, n - 1)
  BY <1>1, PlaceIsMod
<1>. QED
  BY <1>1, <1>2

\* n places behind the place m places behind f.
LEMMA PlaceAdds ==
  ASSUME NEW f \in 0 .. Capacity - 1, NEW m \in 0 .. Capacity, NEW n \in 0 .. Capacity,
         m + n <= Capacity
  PROVE  Place(Place(f, m), n) = Place(f, m + n)
  BY SyslogAssumption DEF Place

\* Two places less than a whole turn behind f differ.
LEMMA PlacesDiffer ==
  ASSUME NEW f \in 0 .. Capacity - 1, NEW m \in 0 .. Capacity - 1, NEW n \in 0 .. Capacity - 1,
         m # n
  PROVE  Place(f, m) # Place(f, n)
  BY SyslogAssumption DEF Place

\* The sequence that a ring stands for.
RingSeq(d, f, n) == [i \in 1 .. n |-> d[Place(f, i - 1)]]

\* Its length, its elements, its type.
LEMMA RingSeqIs ==
  ASSUME NEW d \in [0 .. Capacity - 1 -> Messages], NEW f \in 0 .. Capacity - 1,
         NEW n \in 0 .. Capacity
  PROVE  /\ RingSeq(d, f, n) \in Seq(Messages) /\ Len(RingSeq(d, f, n)) = n
         /\ \A i \in 1 .. n : RingSeq(d, f, n)[i] = d[Place(f, i - 1)]
<1>. Capacity \in Nat \ {0}
  BY SyslogAssumption
<1>1. ASSUME NEW i \in 1 .. n PROVE d[Place(f, i - 1)] \in Messages
  <2>1. i - 1 \in 0 .. Capacity
    OBVIOUS
  <2>. QED
    BY <2>1, PlaceIsMod
<1>2. RingSeq(d, f, n) \in [1 .. n -> Messages]
  BY <1>1 DEF RingSeq
<1>3. n \in Nat
  OBVIOUS
<1>. QED
  BY <1>2, <1>3 DEF RingSeq

\* The sequence of the ring, with and without remainders.
LEMMA QueueIsRingSeq ==
  ASSUME NEW d, NEW f \in 0 .. Capacity - 1, NEW n \in 0 .. Capacity
  PROVE  [i \in 1 .. n |-> d[(f + i - 1) % Capacity]] = RingSeq(d, f, n)
<1>. Capacity \in Nat \ {0}
  BY SyslogAssumption
<1>1. ASSUME NEW i \in 1 .. n PROVE d[(f + i - 1) % Capacity] = d[Place(f, i - 1)]
  <2>1. i - 1 \in 0 .. Capacity /\ f + i - 1 = f + (i - 1)
    OBVIOUS
  <2>2. (f + (i - 1)) % Capacity = Place(f, i - 1)
    BY <2>1, PlaceIsMod
  <2>. QED
    BY <2>1, <2>2
<1>. QED
  BY <1>1 DEF RingSeq

\* The ring of a state, as a sequence; the last place is that of the last message.
LEMMA QueueNow ==
  ASSUME RingType
  PROVE  /\ Queue = RingSeq(data, front, size)
         /\ size > 0 => back = Place(front, size - 1)
<1>1. front \in 0 .. Capacity - 1 /\ size \in 0 .. Capacity
  BY DEF RingType
<1>2. Queue = RingSeq(data, front, size)
  BY <1>1, QueueIsRingSeq DEF Queue
<1>3. ASSUME size > 0 PROVE back = Place(front, size - 1)
  <2>1. size \in 1 .. Capacity
    BY <1>1, <1>3, SyslogAssumption
  <2>2. (front + size - 1) % Capacity = Place(front, size - 1)
    BY <1>1, <2>1, LastPlaceIsMod
  <2>. QED
    BY <1>3, <2>2 DEF RingType
<1>. QED
  BY <1>2, <1>3

\* The length, the elements and the type of the sequence of the ring.
LEMMA QueueIs ==
  ASSUME RingType
  PROVE  /\ Queue \in Seq(Messages) /\ Len(Queue) = size
         /\ \A i \in 1 .. size : Queue[i] = data[Place(front, i - 1)]
<1>1. /\ data \in [0 .. Capacity - 1 -> Messages] /\ front \in 0 .. Capacity - 1
      /\ size \in 0 .. Capacity
  BY DEF RingType
<1>2. /\ RingSeq(data, front, size) \in Seq(Messages)
      /\ Len(RingSeq(data, front, size)) = size
      /\ \A i \in 1 .. size : RingSeq(data, front, size)[i] = data[Place(front, i - 1)]
  BY <1>1, RingSeqIs
<1>3. Queue = RingSeq(data, front, size)
  BY QueueNow
<1>. QED
  BY <1>2, <1>3

\* A ring whose fields agree after a step, and the sequence it stands for then.
LEMMA RingNext ==
  ASSUME data' \in [0 .. Capacity - 1 -> Messages],
         front' \in 0 .. Capacity - 1, back' \in 0 .. Capacity - 1, size' \in 0 .. Capacity,
         size' > 0 => back' = Place(front', size' - 1)
  PROVE  RingType' /\ Queue' = RingSeq(data', front', size')
<1>1. Queue' = RingSeq(data', front', size')
  BY QueueIsRingSeq DEF Queue
<1>2. ASSUME size' > 0 PROVE back' = (front' + size' - 1) % Capacity
  <2>1. size' \in 1 .. Capacity
    BY <1>2, SyslogAssumption
  <2>2. (front' + size' - 1) % Capacity = Place(front', size' - 1)
    BY <2>1, LastPlaceIsMod
  <2>. QED
    BY <1>2, <2>2
<1>. QED
  BY <1>1, <1>2 DEF RingType

\* addMessage: the sequence takes one more at its end, or nothing happens when the
\* ring is full.
LEMMA RingAdd ==
  ASSUME RingType, NEW m \in Messages, AddMessage(m)
  PROVE  /\ RingType'
         /\ size < Capacity => Queue' = Append(Queue, m)
         /\ size = Capacity => UNCHANGED ring
<1>. Capacity \in Nat \ {0} /\ front \in 0 .. Capacity - 1 /\ size \in 0 .. Capacity
  BY SyslogAssumption DEF RingType
<1>1. CASE size = Capacity
  <2>1. UNCHANGED ring
    BY <1>1 DEF AddMessage
  <2>. QED
    BY <1>1, <2>1 DEF RingType, ring
<1>2. CASE size < Capacity
  <2>0. /\ back' = IF size = 0 THEN front ELSE (back + 1) % Capacity
        /\ data' = [data EXCEPT ![back'] = m]
        /\ size' = size + 1 /\ front' = front
    BY <1>2 DEF AddMessage
  <2>1. back' = Place(front, size)
    <3>1. CASE size = 0
      BY <3>1, <2>0 DEF Place
    <3>2. CASE size > 0
      <4>1. back = Place(front, size - 1)
        BY <3>2, QueueNow
      <4>2. back \in 0 .. Capacity - 1 /\ 1 \in 0 .. Capacity
        BY DEF RingType
      <4>3. (back + 1) % Capacity = Place(back, 1)
        BY <4>2, PlaceIsMod
      <4>4. size - 1 \in 0 .. Capacity /\ (size - 1) + 1 = size
        BY <3>2
      <4>5. Place(Place(front, size - 1), 1) = Place(front, size)
        BY <4>2, <4>4, PlaceAdds
      <4>. QED
        BY <2>0, <3>2, <4>1, <4>3, <4>5
    <3>. QED
      BY <3>1, <3>2
  <2>2. Place(front, size) \in 0 .. Capacity - 1
    BY PlaceIsMod
  <2>3. data' \in [0 .. Capacity - 1 -> Messages]
    BY <2>0, <2>1, <2>2 DEF RingType
  <2>4. RingType' /\ Queue' = RingSeq(data', front, size + 1)
    <3>1. (size + 1) - 1 = size
      OBVIOUS
    <3>. QED
      BY <2>0, <2>1, <2>2, <2>3, <1>2, <3>1, RingNext
  <2>5. ASSUME NEW n \in 0 .. size - 1 PROVE data'[Place(front, n)] = data[Place(front, n)]
    <3>1. n \in 0 .. Capacity - 1 /\ n \in 0 .. Capacity /\ n # size
      OBVIOUS
    <3>2. Place(front, n) # Place(front, size) /\ Place(front, n) \in 0 .. Capacity - 1
      BY <1>2, <3>1, PlacesDiffer, PlaceIsMod
    <3>. QED
      BY <2>0, <2>1, <3>2 DEF RingType
  <2>6. data'[Place(front, size)] = m
    BY <2>0, <2>1, <2>2 DEF RingType
  <2>7. Queue' = Append(Queue, m)
    <3>1. /\ Queue \in Seq(Messages) /\ Len(Queue) = size
          /\ \A i \in 1 .. size : Queue[i] = data[Place(front, i - 1)]
      BY QueueIs
    <3>2. /\ Queue' \in Seq(Messages) /\ Len(Queue') = size + 1
          /\ \A i \in 1 .. size + 1 : Queue'[i] = data'[Place(front, i - 1)]
      <4>1. size + 1 \in 0 .. Capacity
        BY <1>2
      <4>. QED
        BY <4>1, <2>3, <2>4, RingSeqIs
    <3>3. ASSUME NEW i \in 1 .. size PROVE Queue'[i] = Queue[i]
      <4>1. i - 1 \in 0 .. size - 1 /\ i \in 1 .. size + 1
        OBVIOUS
      <4>. QED
        BY <4>1, <3>1, <3>2, <2>5
    <3>4. Queue'[size + 1] = m
      <4>1. size + 1 \in 1 .. size + 1 /\ (size + 1) - 1 = size
        OBVIOUS
      <4>. QED
        BY <4>1, <3>2, <2>6
    <3>5. /\ Append(Queue, m) \in Seq(Messages) /\ Len(Append(Queue, m)) = size + 1
          /\ \A i \in 1 .. size : Append(Queue, m)[i] = Queue[i]
          /\ Append(Queue, m)[size + 1] = m
      BY <3>1, AppendProperties
    <3>6. \A i \in 1 .. size + 1 : Queue'[i] = Append(Queue, m)[i]
      BY <3>3, <3>4, <3>5
    <3>. QED
      BY <3>2, <3>5, <3>6, SeqEqual
  <2>8. size # Capacity
    BY <1>2
  <2>. QED
    BY <2>4, <2>7, <2>8
<1>. QED
  BY <1>1, <1>2

\* popMessage: the sequence loses its head.
LEMMA RingPop ==
  ASSUME RingType, PopMessage
  PROVE  /\ RingType'
         /\ size > 0 => Queue # <<>> /\ Queue' = Tail(Queue) /\ Head(Queue) = data[front]
         /\ size = 0 => UNCHANGED ring
<1>. Capacity \in Nat \ {0} /\ front \in 0 .. Capacity - 1 /\ size \in 0 .. Capacity
  BY SyslogAssumption DEF RingType
<1>1. CASE size = 0
  <2>1. UNCHANGED ring
    BY <1>1 DEF PopMessage
  <2>. QED
    BY <1>1, <2>1 DEF RingType, ring
<1>2. CASE size > 0
  <2>0. front' = (front + 1) % Capacity /\ size' = size - 1 /\ data' = data /\ back' = back
    BY <1>2 DEF PopMessage
  <2>. 1 \in 0 .. Capacity
    OBVIOUS
  <2>1. front' = Place(front, 1) /\ front' \in 0 .. Capacity - 1
    BY <2>0, PlaceIsMod
  <2>2. ASSUME NEW n \in 0 .. size - 1 PROVE Place(front', n) = Place(front, n + 1)
    <3>1. n \in 0 .. Capacity /\ 1 + n <= Capacity /\ 1 + n = n + 1
      OBVIOUS
    <3>2. Place(Place(front, 1), n) = Place(front, 1 + n)
      BY <3>1, PlaceAdds
    <3>. QED
      BY <2>1, <3>1, <3>2
  <2>3. RingType' /\ Queue' = RingSeq(data, front', size - 1)
    <3>1. ASSUME size' > 0 PROVE back' = Place(front', size' - 1)
      <4>1. size - 2 \in 0 .. size - 1 /\ (size - 2) + 1 = size - 1 /\ size' - 1 = size - 2
        BY <2>0, <3>1
      <4>2. back = Place(front, size - 1)
        BY <1>2, QueueNow
      <4>. QED
        BY <4>1, <4>2, <2>0, <2>2
    <3>2. /\ data' \in [0 .. Capacity - 1 -> Messages] /\ back' \in 0 .. Capacity - 1
          /\ size' \in 0 .. Capacity
      BY <1>2, <2>0 DEF RingType
    <3>. QED
      BY <3>1, <3>2, <2>0, <2>1, RingNext
  <2>4. /\ Queue \in Seq(Messages) /\ Len(Queue) = size
        /\ \A i \in 1 .. size : Queue[i] = data[Place(front, i - 1)]
    BY QueueIs
  <2>5. Queue # <<>> /\ Head(Queue) = data[front]
    <3>1. Queue # <<>> /\ Head(Queue) = Queue[1]
      BY <2>4, <1>2
    <3>2. Place(front, 1 - 1) = front
      BY DEF Place
    <3>. QED
      BY <3>1, <3>2, <2>4, <1>2
  <2>6. Queue' = Tail(Queue)
    <3>1. /\ Queue' \in Seq(Messages) /\ Len(Queue') = size - 1
          /\ \A i \in 1 .. size - 1 : Queue'[i] = data[Place(front', i - 1)]
      <4>1. size - 1 \in 0 .. Capacity /\ data \in [0 .. Capacity - 1 -> Messages]
        BY <1>2 DEF RingType
      <4>. QED
        BY <4>1, <2>1, <2>3, RingSeqIs
    <3>2. /\ Tail(Queue) \in Seq(Messages) /\ Len(Tail(Queue)) = size - 1
          /\ \A i \in 1 .. size - 1 : Tail(Queue)[i] = Queue[i + 1]
      BY <2>4, <2>5, HeadTailProperties
    <3>3. ASSUME NEW i \in 1 .. size - 1 PROVE Queue'[i] = Tail(Queue)[i]
      <4>1. i - 1 \in 0 .. size - 1 /\ (i - 1) + 1 = (i + 1) - 1 /\ i + 1 \in 1 .. size
        OBVIOUS
      <4>2. Place(front', i - 1) = Place(front, (i + 1) - 1)
        BY <4>1, <2>2
      <4>. QED
        BY <4>1, <4>2, <3>1, <3>2, <2>4
    <3>. QED
      BY <3>1, <3>2, <3>3, SeqEqual
  <2>. QED
    BY <1>2, <2>3, <2>5, <2>6
<1>. QED
  BY <1>1, <1>2

-----------------------------------------------------------------------------
(* The inductive invariant.                                                *)

\* The boot leaves a ring whose fields agree, and nothing is read or flagged.
LEMMA InitInv == Init => IInv
<1>. SUFFICES ASSUME Init PROVE IInv
  OBVIOUS
<1>1. Capacity \in Nat \ {0} /\ BOOT_MESSAGES \in 0 .. Capacity
  BY SyslogAssumption
<1>2. data \in [0 .. Capacity - 1 -> Messages]
  BY DEF Init, Messages
<1>3. ASSUME size > 0 PROVE back = (front + size - 1) % Capacity
  <2>1. size \in 1 .. Capacity /\ 0 \in 0 .. Capacity - 1
    BY <1>1, <1>3 DEF Init
  <2>2. (0 + size - 1) % Capacity = Place(0, size - 1)
    BY <2>1, LastPlaceIsMod
  <2>3. Place(0, size - 1) = size - 1 /\ back = size - 1 /\ front = 0
    BY <1>1, <2>1 DEF Place, Init
  <2>. QED
    BY <2>2, <2>3
<1>4. RingType
  <2>1. front \in 0 .. Capacity - 1 /\ size \in 0 .. Capacity /\ back \in 0 .. Capacity - 1
    BY <1>1 DEF Init
  <2>. QED
    BY <1>2, <1>3, <2>1 DEF RingType
<1>5. ControlType /\ ReadIsFront
  BY DEF Init, ControlType, ReadIsFront
<1>. QED
  BY <1>4, <1>5 DEF IInv

\* processIpcSignals: the main loop is not between the reading and the removal of a
\* message, and CPU2 waits for the acknowledgement.
LEMMA SignalsStep ==
  ASSUME IInv, LookPop \/ AckPop \/ LookAdd \/ AckAdd
  PROVE  IInv'
<1>. RingType /\ ControlType
  BY DEF IInv
<1>1. RingType'
  <2>1. CASE PopMessage
    BY <2>1, RingPop
  <2>2. CASE addFlag /\ AddMessage(cpu2Message)
    <3>1. cpu2Message \in Messages
      BY <2>2 DEF ControlType, Messages
    <3>. QED
      BY <2>2, <3>1, RingAdd
  <2>3. CASE UNCHANGED ring
    BY <2>3 DEF RingType, ring
  <2>. QED
    BY <2>1, <2>2, <2>3 DEF LookPop, AckPop, LookAdd, AckAdd
<1>2. ControlType' /\ pc' # "taken"
  <2>1. CASE LookPop
    BY <2>1 DEF LookPop, ControlType, flags, cpu2
  <2>2. CASE AckPop
    BY <2>2 DEF AckPop, ControlType, cpu2
  <2>3. CASE LookAdd
    BY <2>3 DEF LookAdd, ControlType, flags, cpu2
  <2>4. CASE AckAdd
    BY <2>4 DEF AckAdd, ControlType, cpu2
  <2>. QED
    BY <2>1, <2>2, <2>3, <2>4
<1>. QED
  BY <1>1, <1>2 DEF IInv, ReadIsFront

\* The server: what it has read is the front.
LEMMA ServeStep ==
  ASSUME IInv, Serve
  PROVE  IInv'
<1>. RingType /\ ControlType /\ UNCHANGED <<answer, flags, cpu2>> /\ pc = "serve"
  BY DEF IInv, Serve
<1>1. CASE UNCHANGED <<ring, got>> /\ pc' = "signals"
  BY <1>1 DEF IInv, RingType, ControlType, ReadIsFront, ring, flags, cpu2
<1>2. CASE AddMessage("DEVICE_SW_RESET") /\ UNCHANGED got /\ pc' = "signals"
  <2>1. RingType'
    BY <1>2, RingAdd DEF Messages
  <2>. QED
    BY <1>2, <2>1 DEF IInv, ControlType, ReadIsFront, flags, cpu2
<1>3. CASE UNCHANGED ring /\ got' = ReadMessage /\ pc' = "taken"
  <2>1. size > 0 => data[front] \in Messages
    BY DEF RingType
  <2>2. size = 0 \/ size > 0
    BY SyslogAssumption DEF RingType
  <2>3. got' \in Messages \cup {"NO_MESSAGE"}
    BY <1>3, <2>1, <2>2 DEF ReadMessage
  <2>4. RingType' /\ ControlType'
    BY <1>3, <2>3 DEF RingType, ControlType, ring, flags, cpu2
  <2>5. ReadIsFront'
    BY <1>3 DEF ReadIsFront, ReadMessage, ring
  <2>. QED
    BY <2>4, <2>5 DEF IInv
<1>. QED
  BY <1>1, <1>2, <1>3 DEF Serve

\* The removal of a message.
LEMMA PopStep ==
  ASSUME IInv, Pop
  PROVE  IInv'
<1>1. RingType'
  BY RingPop DEF Pop, IInv
<1>2. ControlType' /\ pc' # "taken"
  BY DEF Pop, IInv, ControlType, flags, cpu2
<1>. QED
  BY <1>1, <1>2 DEF IInv, ReadIsFront

\* CPU2 writes its word only while it is not flagged.
LEMMA Cpu2Step ==
  ASSUME IInv, Cpu2Signal \/ Cpu2Pop \/ \E m \in Cpu2Messages : Cpu2Store(m)
  PROVE  IInv'
<1>1. UNCHANGED <<ring, cpu1>>
  BY DEF Cpu2Signal, Cpu2Pop, Cpu2Store
<1>2. RingType' /\ ReadIsFront'
  BY <1>1 DEF IInv, RingType, ReadIsFront, ReadMessage, ring, cpu1
<1>3. ControlType'
  <2>1. CASE Cpu2Signal
    BY <2>1 DEF Cpu2Signal, IInv, ControlType, cpu1
  <2>2. CASE Cpu2Pop
    BY <2>2 DEF Cpu2Pop, IInv, ControlType, cpu1, cpu2
  <2>3. CASE \E m \in Cpu2Messages : Cpu2Store(m)
    <3>1. PICK m \in Cpu2Messages : Cpu2Store(m)
      BY <2>3
    <3>2. m # "NO_MESSAGE"
      BY SyslogAssumption
    <3>. QED
      BY <3>1, <3>2 DEF Cpu2Store, IInv, ControlType, cpu1, flags
  <2>. QED
    BY <2>1, <2>2, <2>3
<1>. QED
  BY <1>2, <1>3 DEF IInv

\* The invariant is inductive.
LEMMA NextInv ==
  ASSUME IInv, [Next]_vars
  PROVE  IInv'
<1>1. CASE UNCHANGED vars
  BY <1>1 DEF vars, ring, cpu1, flags, cpu2, IInv, RingType, ControlType, ReadIsFront,
     ReadMessage
<1>2. CASE Next
  BY <1>2, SignalsStep, ServeStep, PopStep, Cpu2Step DEF Next, MainLoop
<1>. QED
  BY <1>1, <1>2

\* In every state of the log the fields of the ring agree, CPU2 leaves alone what it
\* has flagged, and what getSyslogMessage has read is the front.
THEOREM InvHolds == Spec => []IInv
<1>1. Init => IInv
  BY InitInv
<1>2. IInv /\ [Next]_vars => IInv'
  BY NextInv
<1>. QED
  BY <1>1, <1>2, PTL DEF Spec

\* The ring keeps its fields in agreement whoever writes it, and CPU2 its word.
THEOREM TypeCorrect == Spec => []TypeOK
<1>1. IInv => TypeOK
  BY DEF IInv, RingType, ControlType, TypeOK
<1>. QED
  BY <1>1, InvHolds, PTL

-----------------------------------------------------------------------------
(* The ring, the word and the flags implement the log.                     *)

\* addMessage by whomever, with the flags left alone, adds or is dropped.
LEMMA LogAdd ==
  ASSUME IInv, NEW m \in Messages, AddMessage(m), Flagged' = Flagged, answer' = answer
  PROVE  [Log!Next]_(Log!vars)
<1>. RingType /\ size \in 0 .. Capacity /\ Len(Queue) = size
  BY QueueIs DEF IInv, RingType
<1>1. CASE size = Capacity
  <2>1. UNCHANGED ring
    BY <1>1, RingAdd
  <2>. QED
    BY <2>1 DEF Log!vars, Queue, ring
<1>2. CASE size < Capacity
  <2>1. Queue' = Append(Queue, m)
    BY <1>2, RingAdd
  <2>2. Log!Add(m)
    BY <1>2, <2>1 DEF Log!Add
  <2>. QED
    BY <2>2 DEF Log!Next
<1>. QED
  BY <1>1, <1>2, SyslogAssumption

\* popMessage for CPU2 takes the first message unseen.
LEMMA LogDiscard ==
  ASSUME IInv, PopMessage, Flagged' = Flagged, answer' = answer
  PROVE  [Log!Next]_(Log!vars)
<1>. RingType /\ size \in 0 .. Capacity
  BY DEF IInv, RingType
<1>1. CASE size = 0
  <2>1. UNCHANGED ring
    BY <1>1, RingPop
  <2>. QED
    BY <2>1 DEF Log!vars, Queue, ring
<1>2. CASE size > 0
  <2>1. Log!Discard
    BY <1>2, RingPop DEF Log!Discard
  <2>. QED
    BY <2>1 DEF Log!Next
<1>. QED
  BY <1>1, <1>2, SyslogAssumption

\* getSyslogMessage: what it has read is what it removes.
LEMMA LogRead ==
  ASSUME IInv, Pop
  PROVE  [Log!Next]_(Log!vars)
<1>. /\ RingType /\ size \in 0 .. Capacity /\ PopMessage
     /\ got = ReadMessage /\ answer' = got
  BY DEF IInv, RingType, ReadIsFront, Pop
<1>1. Flagged' = Flagged
  BY DEF Pop, Flagged, flags, cpu2
<1>2. CASE size = 0
  <2>1. UNCHANGED ring /\ Queue = <<>> /\ answer' = "NO_MESSAGE"
    BY <1>2, RingPop, QueueIs DEF ReadMessage
  <2>2. Queue' = Queue
    BY <2>1 DEF Queue, ring
  <2>3. Log!Read
    BY <1>1, <2>1, <2>2 DEF Log!Read
  <2>. QED
    BY <2>3 DEF Log!Next
<1>3. CASE size > 0
  <2>1. Queue # <<>> /\ Queue' = Tail(Queue) /\ Head(Queue) = data[front]
    BY <1>3, RingPop
  <2>2. answer' = data[front]
    BY <1>3 DEF ReadMessage
  <2>3. Log!Read
    BY <1>1, <2>1, <2>2 DEF Log!Read
  <2>. QED
    BY <2>3 DEF Log!Next
<1>. QED
  BY <1>2, <1>3, SyslogAssumption

\* A step that changes neither the ring nor what is flagged or shown is none of the log.
LEMMA LogStutter ==
  ASSUME UNCHANGED ring, Flagged' = Flagged, answer' = answer
  PROVE  [Log!Next]_(Log!vars)
  BY DEF Log!vars, Queue, ring

\* CPU1 takes the message of CPU2 over: once, until the flag is acknowledged.
LEMMA LogTransfer ==
  ASSUME IInv, LookAdd
  PROVE  [Log!Next]_(Log!vars)
<1>1. CASE ~addFlag
  <2>1. UNCHANGED <<ring, answer>> /\ Flagged' = Flagged
    BY <1>1 DEF LookAdd, Flagged, flags
  <2>. QED
    BY <2>1, LogStutter
<1>2. CASE addFlag
  <2>1. /\ AddMessage(cpu2Message)
        /\ Flagged = cpu2Message /\ Flagged' = "NO_MESSAGE" /\ answer' = answer
    BY <1>2 DEF LookAdd, Flagged, flags, cpu2
  <2>2. cpu2Message # "NO_MESSAGE" /\ cpu2Message \in Messages
    BY <1>2 DEF IInv, ControlType, Messages
  <2>3. RingType /\ size \in 0 .. Capacity /\ Len(Queue) = size
    BY QueueIs DEF IInv, RingType
  <2>4. Queue' = IF Len(Queue) < Capacity THEN Append(Queue, Flagged) ELSE Queue
    <3>1. CASE size < Capacity
      BY <3>1, <2>1, <2>2, <2>3, RingAdd
    <3>2. CASE size = Capacity
      <4>1. UNCHANGED ring
        BY <3>2, <2>1, <2>2, <2>3, RingAdd
      <4>2. Queue' = Queue
        BY <4>1 DEF Queue, ring
      <4>. QED
        BY <3>2, <4>2, <2>3, SyslogAssumption
    <3>. QED
      BY <3>1, <3>2, <2>3, SyslogAssumption
  <2>5. Log!Transfer
    BY <2>1, <2>2, <2>4 DEF Log!Transfer
  <2>. QED
    BY <2>5 DEF Log!Next
<1>. QED
  BY <1>1, <1>2 DEF IInv, ControlType

\* Every step of the system is one of the log or none.
LEMMA LogStep ==
  ASSUME IInv, [Next]_vars
  PROVE  [Log!Next]_(Log!vars)
<1>. ControlType
  BY DEF IInv
<1>1. CASE LookPop
  <2>1. Flagged' = Flagged /\ answer' = answer
    BY <1>1 DEF LookPop, Flagged, flags, cpu2
  <2>. QED
    BY <1>1, <2>1, LogDiscard, LogStutter DEF LookPop
<1>2. CASE AckPop \/ AckAdd
  <2>1. UNCHANGED <<ring, answer>> /\ Flagged' = Flagged
    BY <1>2 DEF AckPop, AckAdd, Flagged, cpu2
  <2>. QED
    BY <2>1, LogStutter
<1>3. CASE LookAdd
  BY <1>3, LogTransfer
<1>4. CASE Serve
  <2>1. Flagged' = Flagged /\ answer' = answer
    BY <1>4 DEF Serve, Flagged, flags, cpu2
  <2>2. "DEVICE_SW_RESET" \in Messages
    BY DEF Messages
  <2>. QED
    BY <1>4, <2>1, <2>2, LogAdd, LogStutter DEF Serve
<1>5. CASE Pop
  BY <1>5, LogRead
<1>6. CASE Cpu2Signal
  <2>1. /\ UNCHANGED ring /\ Flagged = "NO_MESSAGE"
        /\ Flagged' = cpu2Message /\ cpu2Message \in Messages /\ answer' = answer
    BY <1>6 DEF Cpu2Signal, Flagged, ControlType, cpu1, Messages
  <2>2. Log!HandOver(cpu2Message)
    BY <2>1 DEF Log!HandOver, Queue, ring
  <2>. QED
    BY <2>1, <2>2 DEF Log!Next
<1>7. CASE Cpu2Pop
  <2>1. UNCHANGED <<ring, answer>> /\ Flagged' = Flagged
    BY <1>7 DEF Cpu2Pop, Flagged, cpu1, cpu2
  <2>. QED
    BY <2>1, LogStutter
<1>8. CASE \E m \in Cpu2Messages : Cpu2Store(m)
  <2>1. UNCHANGED <<ring, answer>> /\ Flagged' = Flagged
    BY <1>8 DEF Cpu2Store, Flagged, flags, cpu1
  <2>. QED
    BY <2>1, LogStutter
<1>9. CASE UNCHANGED vars
  <2>1. UNCHANGED <<ring, answer>> /\ Flagged' = Flagged
    BY <1>9 DEF vars, Flagged, ring, flags, cpu1, cpu2
  <2>. QED
    BY <2>1, LogStutter
<1>. QED
  BY <1>1, <1>2, <1>3, <1>4, <1>5, <1>6, <1>7, <1>8, <1>9 DEF Next, MainLoop

\* The ring, CPU2's word and the flags implement the bounded log: messages leave in
\* the order in which they came, CPU2's are put in once, and getSyslogMessage shows
\* what it removes.
THEOREM LogSafetyHolds == Spec => Log!Safety
<1>1. Init => Log!Init
  <2>. SUFFICES ASSUME Init PROVE Log!Init
    OBVIOUS
  <2>1. Queue \in Seq(Messages) /\ Len(Queue) = size /\ size \in 0 .. Capacity
    BY InitInv, QueueIs DEF IInv, RingType
  <2>2. Flagged = "NO_MESSAGE" /\ answer = "NO_MESSAGE"
    BY DEF Init, Flagged
  <2>. QED
    BY <2>1, <2>2, SyslogAssumption DEF Log!Init
<1>2. IInv /\ [Next]_vars => [Log!Next]_(Log!vars)
  BY LogStep
<1>. QED
  BY <1>1, <1>2, InvHolds, PTL DEF Spec, Log!Safety
=============================================================================
