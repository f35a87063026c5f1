------------------------- MODULE TransceiverProofs -------------------------
(***************************************************************************)
(* The transceiver for every length of a frame, of the buffer and of a     *)
(* pass of the main loop.                                                  *)
(*                                                                         *)
(* Sending.  The stream and what has been shifted out of it are one frame  *)
(* (OneFrameOut).  Receiving.  The order of what recv returns hangs on the *)
(* first cell of the buffer alone: a collection fills it, once, while the  *)
(* first bit of a frame is on the line, and outlasts that frame (Passed).  *)
(* So a frame that was returned twice has left the first cell before the   *)
(* flag is set again (AtMostTwice).  A frame with room around it meets a   *)
(* flag that is clear and a buffer that nobody writes (RoomKept).          *)
(***************************************************************************)
EXTENDS Transceiver, SequenceTheorems, TLAPS

TxType ==
  /\ clkFlag \in {0, 1} /\ txActive \in BOOLEAN /\ txIdx \in 0 .. TX_BITS
  /\ txStream \in [1 .. TX_BITS -> 0 .. MaxTxFrames]
  /\ composed \in 0 .. MaxTxFrames
  /\ outBits \in Seq(1 .. MaxTxFrames) /\ Len(outBits) <= TX_BITS
  /\ out \in Seq(0 .. MaxTxFrames)
  /\ pc \in {"tx", "generated", "rx", "copy", "parsed"}

RxType ==
  /\ clkFlag \in {0, 1}
  /\ rxActive \in BOOLEAN /\ rxDataReady \in BOOLEAN /\ pinEnabled \in BOOLEAN
  /\ edge \in BOOLEAN /\ roomy \in BOOLEAN /\ rxSyncFlag \in {0, 1}
  /\ rxIdx \in 0 .. RX_STREAM_SIZE
  /\ rxStream \in [Cells -> 0 .. MaxRxFrames]
  /\ frames \in 0 .. MaxRxFrames /\ lineHalf \in 0 .. 2 * FRAME_BITS
  /\ rxCopy \in Seq(0 .. MaxRxFrames) /\ Len(rxCopy) <= PARSED_BITS
  /\ received \in Seq(1 .. MaxRxFrames)
  /\ pass \in 0 .. MAX_PASS /\ sinceRx \in 0 .. ROOM + 1
  /\ collected \in 0 .. MaxRxFrames
  /\ edge => pinEnabled
  /\ rxActive <=> ~pinEnabled

\* What is composed and not yet out is in the stream, and what has been shifted out
\* of the stream is of the same frame.
OneFrameOut ==
  /\ \A i \in 1 .. Len(out) : out[i] = i
  /\ pc = "generated" => ~txActive
  /\ composed = IF pc = "generated" \/ txActive THEN Len(out) + 1 ELSE Len(out)
  /\ pc = "generated" \/ txActive => \A i \in 1 .. TX_BITS : txStream[i] = composed
  /\ txActive => Len(outBits) = txIdx /\ \A i \in 1 .. Len(outBits) : outBits[i] = composed
  /\ ~txActive => outBits = <<>>

Parsing == pc \in {"copy", "parsed"}

\* While recv parses, the flag stays set, and only then there is a copy.
FlagHeld ==
  /\ Parsing => rxDataReady
  /\ ~Parsing => rxCopy = <<>>

\* Frame k is not on the line any more.
Over(k) == frames > k \/ LineIdle

\* The first bit of frame k can not be sampled any more: the frame is over, or a
\* collection that began with it keeps pace with the line.
Passed(k) ==
  \/ Over(k)
  \/ /\ rxActive /\ rxIdx >= 1
     /\ lineHalf >= IF clkFlag = rxSyncFlag THEN 2 * rxIdx - 1 ELSE 2 * rxIdx

\* The collection under way, if any, has not yet written the first cell.
Resting == ~rxActive \/ rxIdx = 0

Last == IF received = <<>> THEN 0 ELSE received[Len(received)]

Twice == Len(received) > 1 /\ received[Len(received) - 1] = Last

\* The first cell, the first cell of the copy and the last frame returned are in
\* the order in which frames begin, and of frames whose first bit has passed.
FirstCell ==
  /\ Last <= frames /\ (Last # 0 => Passed(Last))
  /\ rxStream[1] # 0 =>
       Last <= rxStream[1] /\ rxStream[1] <= frames /\ Passed(rxStream[1])
  /\ rxCopy # <<>> /\ rxCopy[1] # 0 =>
       /\ Last <= rxCopy[1] /\ rxCopy[1] <= frames /\ Passed(rxCopy[1])
       /\ rxStream[1] # 0 => rxCopy[1] <= rxStream[1]

\* A frame that was returned and is about to be returned again is over, and has only
\* the end of its collection to thank for that.
OnceMore ==
  /\ Last # 0 /\ pc # "parsed" /\ rxDataReady /\ rxStream[1] = Last => Over(Last) /\ Resting
  /\ Last # 0 /\ pc = "copy" /\ rxCopy # <<>> /\ rxCopy[1] = Last =>
       Over(Last) /\ (rxStream[1] = Last => Resting)

\* A frame that was returned twice leaves the first cell before the flag is set.
AtMostTwice ==
  Twice =>
    /\ Over(Last)
    /\ rxStream[1] = Last => (~rxDataReady \/ pc = "parsed") /\ Resting
    /\ pc = "copy" /\ rxCopy # <<>> => rxCopy[1] # Last

Arrived == \E i \in DOMAIN received : received[i] = collected

\* The flag is looked at in the pass in which it is set or in the next one, and
\* cleared in the pass after; until then nobody writes a buffer with room.
RoomKept ==
  /\ rxDataReady /\ ~Parsing => sinceRx <= pass
  /\ Parsing => sinceRx <= MAX_PASS + pass
  /\ rxActive /\ roomy => sinceRx > ROOM
  /\ collected # 0 /\ sinceRx > ROOM => Arrived
  /\ collected # 0 /\ sinceRx <= ROOM =>
       /\ ~rxActive /\ \A i \in Cells : rxStream[i] = collected
       /\ \/ Arrived
          \/ rxDataReady /\ ~Parsing
          \/ pc = "copy" /\ \A i \in 1 .. Len(rxCopy) : rxCopy[i] = collected

TxInv == TxType /\ OneFrameOut

RxInv == RxType /\ FlagHeld /\ FirstCell /\ OnceMore /\ AtMostTwice /\ RoomKept

IInv == TxInv /\ RxInv

\* The bounds of the buffer and of the frame, as the lemmas use them.
LEMMA Sizes ==
  /\ TX_BITS \in Nat \ {0} /\ PARSED_BITS \in Nat \ {0} /\ FRAME_BITS \in Nat
  /\ RX_STREAM_SIZE \in Nat /\ PARSED_BITS <= FRAME_BITS /\ FRAME_BITS < RX_STREAM_SIZE
  /\ MAX_PASS \in Nat \ {0} /\ ROOM \in Nat /\ ROOM = 2 * MAX_PASS
  /\ MaxTxFrames \in Nat /\ MaxRxFrames \in Nat /\ 1 \in Cells
  BY TransceiverAssumption DEF ROOM, Cells

\* The last frame returned is one of those that were sent, if there is one.
LEMMA LastIs ==
  ASSUME RxType
  PROVE  Last \in Nat /\ (Last = 0 <=> received = <<>>)
<1>1. CASE received = <<>>
  BY <1>1 DEF Last
<1>2. CASE received # <<>>
  <2>1. received \in Seq(1 .. MaxRxFrames) /\ Last = received[Len(received)]
    BY <1>2 DEF Last, RxType
  <2>2. Len(received) \in 1 .. Len(received)
    BY <1>2, <2>1
  <2>3. received[Len(received)] \in 1 .. MaxRxFrames
    BY <2>1, <2>2, ElementOfSeq
  <2>. QED
    BY <1>2, <2>1, <2>3, Sizes
<1>. QED
  BY <1>1, <1>2

\* What a step of the receiving half leaves alone it keeps.
LEMMA RxStutter ==
  ASSUME RxInv, UNCHANGED <<clkFlag, rx, rxDataReady, line, rxCopy, pass, received, rxLog>>,
         ~Parsing, ~Parsing'
  PROVE  RxInv'
<1>1. RxType'
  BY DEF RxInv, RxType, rx, line, rxLog
<1>2. FlagHeld' /\ FirstCell'
  BY DEF RxInv, FlagHeld, FirstCell, Last, Passed, Over, LineIdle, rx, line
<1>3. pc # "parsed" /\ pc' # "copy" /\ pc' # "parsed"
  BY DEF Parsing
<1>4. OnceMore' /\ AtMostTwice'
  BY <1>3 DEF RxInv, OnceMore, AtMostTwice, Last, Twice, Over, LineIdle, Resting, rx, line
<1>5. RoomKept'
  BY DEF RxInv, RoomKept, Arrived, Parsing, rx, rxLog
<1>. QED
  BY <1>1, <1>2, <1>4, <1>5 DEF RxInv

\* What a step of the sending half leaves alone it keeps.
LEMMA TxStutter ==
  ASSUME TxInv, UNCHANGED <<clkFlag, tx, txLog>>,
         pc' \in {"tx", "generated", "rx", "copy", "parsed"},
         pc' = "generated" <=> pc = "generated"
  PROVE  TxInv'
<1>1. TxType'
  BY DEF TxInv, TxType, tx, txLog
<1>2. OneFrameOut'
  BY DEF TxInv, OneFrameOut, tx, txLog
<1>. QED
  BY <1>1, <1>2 DEF TxInv

\* The system starts with nothing composed, collected or returned.
LEMMA InitInv == Init => IInv
<1>. SUFFICES ASSUME Init PROVE IInv
  OBVIOUS
<1>1. TxInv
  <2>1. <<>> \in Seq(1 .. MaxTxFrames) /\ <<>> \in Seq(0 .. MaxTxFrames) /\ Len(<<>>) = 0
    OBVIOUS
  <2>2. txStream \in [1 .. TX_BITS -> 0 .. MaxTxFrames]
    BY Sizes DEF Init
  <2>3. TxType
    <3>1. /\ clkFlag = 0 /\ txActive = FALSE /\ txIdx = 0 /\ composed = 0 /\ outBits = <<>>
          /\ out = <<>> /\ pc = "tx"
      BY DEF Init
    <3>2. txActive \in BOOLEAN
      BY <3>1
    <3>3. txIdx \in 0 .. TX_BITS /\ composed \in 0 .. MaxTxFrames
      BY <3>1, Sizes
    <3>4. /\ outBits \in Seq(1 .. MaxTxFrames) /\ Len(outBits) <= TX_BITS
          /\ out \in Seq(0 .. MaxTxFrames)
      BY <2>1, <3>1, Sizes
    <3>. QED
      BY <3>1, <2>2, <3>2, <3>3, <3>4 DEF TxType
  <2>4. OneFrameOut
    BY <2>1 DEF Init, OneFrameOut
  <2>. QED
    BY <2>3, <2>4 DEF TxInv
<1>2. RxType
  <2>1. <<>> \in Seq(0 .. MaxRxFrames) /\ <<>> \in Seq(1 .. MaxRxFrames) /\ Len(<<>>) = 0
    OBVIOUS
  <2>2. rxStream \in [Cells -> 0 .. MaxRxFrames]
    BY Sizes DEF Init
  <2>. QED
    <3>1. /\ clkFlag = 0 /\ rxActive = FALSE /\ rxSyncFlag = 0 /\ rxIdx = 0 /\ rxDataReady = FALSE
          /\ pinEnabled = TRUE /\ edge \in BOOLEAN /\ frames = 0 /\ lineHalf = 2 * FRAME_BITS
          /\ rxCopy = <<>> /\ received = <<>> /\ pass = 0
          /\ sinceRx = ROOM + 1 /\ roomy = FALSE /\ collected = 0
      BY DEF Init
    <3>2. /\ rxActive \in BOOLEAN /\ rxDataReady \in BOOLEAN /\ pinEnabled \in BOOLEAN
          /\ roomy \in BOOLEAN /\ (edge => pinEnabled) /\ (rxActive <=> ~pinEnabled)
      BY <3>1
    <3>3. /\ rxSyncFlag \in {0, 1} /\ rxIdx \in 0 .. RX_STREAM_SIZE
          /\ frames \in 0 .. MaxRxFrames /\ lineHalf \in 0 .. 2 * FRAME_BITS
          /\ pass \in 0 .. MAX_PASS /\ sinceRx \in 0 .. ROOM + 1 /\ collected \in 0 .. MaxRxFrames
      BY <3>1, Sizes
    <3>4. /\ rxCopy \in Seq(0 .. MaxRxFrames) /\ Len(rxCopy) <= PARSED_BITS
          /\ received \in Seq(1 .. MaxRxFrames)
      BY <2>1, <3>1, Sizes
    <3>. QED
      BY <3>1, <2>2, <3>2, <3>3, <3>4 DEF RxType
<1>3. rxStream[1] = 0
  BY Sizes DEF Init
<1>4. FlagHeld /\ FirstCell /\ OnceMore /\ AtMostTwice
  BY <1>3, Sizes DEF Init, FlagHeld, Parsing, FirstCell, OnceMore, AtMostTwice, Last, Twice
<1>5. RoomKept
  BY Sizes DEF Init, RoomKept, Parsing
<1>. QED
  BY <1>1, <1>2, <1>4, <1>5 DEF IInv, RxInv

-----------------------------------------------------------------------------
(* The sending half.                                                       *)

\* generateTxCanFrame: the stream is all of the new frame, and nobody shifts it out.
LEMMA GenerateTx ==
  ASSUME TxInv, Generate
  PROVE  TxInv'
<1>1. composed' = composed + 1 /\ composed' \in 0 .. MaxTxFrames
  BY Sizes DEF TxInv, TxType, Generate
<1>2. txStream' = [i \in 1 .. TX_BITS |-> composed']
  BY DEF Generate
<1>3. txStream' \in [1 .. TX_BITS -> 0 .. MaxTxFrames] /\ \A i \in 1 .. TX_BITS : txStream'[i] = composed'
  BY <1>1, <1>2
<1>4. TxType'
  BY <1>1, <1>3 DEF TxInv, TxType, Generate
<1>5. OneFrameOut'
  BY <1>1, <1>3 DEF TxInv, OneFrameOut, Generate
<1>. QED
  BY <1>4, <1>5 DEF TxInv

\* The flag goes up when the stream is complete and its index is 0.
LEMMA ActivateTx ==
  ASSUME TxInv, Activate
  PROVE  TxInv'
<1>1. TxType'
  BY Sizes DEF TxInv, TxType, Activate, txLog
<1>2. outBits = <<>> /\ Len(outBits) = 0
  BY DEF TxInv, OneFrameOut, Activate
<1>3. OneFrameOut'
  BY <1>2 DEF TxInv, OneFrameOut, Activate, txLog
<1>. QED
  BY <1>1, <1>3 DEF TxInv

\* A bit is shifted out: it is of the frame that the stream holds.
LEMMA ShiftBit ==
  ASSUME TxInv, clkFlag' \in {0, 1}, UNCHANGED <<pc, txActive, txStream, composed, out>>,
         txActive, txIdx < TX_BITS, txIdx' = txIdx + 1,
         outBits' = Append(outBits, txStream[txIdx + 1])
  PROVE  TxInv'
<1>. TxType /\ OneFrameOut
  BY DEF TxInv
<1>1. txIdx + 1 \in 1 .. TX_BITS /\ composed \in 1 .. MaxTxFrames
  <2>1. Len(out) \in Nat
    BY DEF TxType
  <2>. QED
    BY <2>1, Sizes DEF TxType, OneFrameOut
<1>2. txStream[txIdx + 1] = composed
  BY <1>1 DEF OneFrameOut
<1>3. outBits \in Seq(1 .. MaxTxFrames) /\ Len(outBits) = txIdx
      /\ \A i \in 1 .. Len(outBits) : outBits[i] = composed
  BY DEF TxType, OneFrameOut
<1>4. /\ outBits' \in Seq(1 .. MaxTxFrames) /\ Len(outBits') = txIdx + 1
      /\ \A i \in 1 .. Len(outBits') : outBits'[i] = composed
  BY <1>1, <1>2, <1>3, AppendProperties DEF TxType
<1>5. TxType'
  BY <1>1, <1>4, Sizes DEF TxType
<1>6. OneFrameOut'
  BY <1>4 DEF OneFrameOut
<1>. QED
  BY <1>5, <1>6 DEF TxInv

\* After the last bit: what went out is one frame, in its turn.
LEMMA ShiftEnd ==
  ASSUME TxInv, clkFlag' \in {0, 1}, UNCHANGED <<pc, txIdx, txStream, composed>>,
         txActive, txIdx = TX_BITS, txActive' = FALSE, outBits' = <<>>,
         out' = Append(out, IF \A i \in 1 .. TX_BITS : outBits[i] = outBits[1]
                            THEN outBits[1] ELSE 0)
  PROVE  TxInv' /\ composed = Len(out) + 1 /\ out' = Append(out, composed)
<1>. TxType /\ OneFrameOut
  BY DEF TxInv
<1>1. composed = Len(out) + 1 /\ pc # "generated"
  BY DEF OneFrameOut
<1>2. \A i \in 1 .. TX_BITS : outBits[i] = composed
  BY DEF OneFrameOut
<1>3. 1 \in 1 .. TX_BITS
  BY Sizes
<1>4. out' = Append(out, composed)
  BY <1>2, <1>3
<1>5. /\ out' \in Seq(0 .. MaxTxFrames) /\ Len(out') = Len(out) + 1
      /\ \A i \in 1 .. Len(out') : out'[i] = i
  <2>1. out \in Seq(0 .. MaxTxFrames) /\ composed \in 0 .. MaxTxFrames /\ Len(out) \in Nat
        /\ \A i \in 1 .. Len(out) : out[i] = i
    BY DEF TxType, OneFrameOut
  <2>2. /\ out' \in Seq(0 .. MaxTxFrames) /\ Len(out') = Len(out) + 1
        /\ \A i \in 1 .. Len(out) : out'[i] = out[i]
        /\ out'[Len(out) + 1] = composed
    BY <2>1, <1>4, AppendProperties
  <2>. QED
    BY <2>1, <2>2, <1>1
<1>6. outBits' \in Seq(1 .. MaxTxFrames) /\ Len(outBits') = 0
  OBVIOUS
<1>7. TxType'
  <2>1. txActive' \in BOOLEAN
    OBVIOUS
  <2>2. pc' \in {"tx", "generated", "rx", "copy", "parsed"} /\ composed' \in 0 .. MaxTxFrames
        /\ txIdx' \in 0 .. TX_BITS /\ txStream' \in [1 .. TX_BITS -> 0 .. MaxTxFrames]
    BY DEF TxType
  <2>3. Len(outBits') <= TX_BITS
    BY <1>6, Sizes
  <2>. QED
    BY <1>5, <1>6, <2>1, <2>2, <2>3 DEF TxType
<1>8. OneFrameOut'
  BY <1>1, <1>5, <1>6 DEF OneFrameOut
<1>. QED
  BY <1>1, <1>4, <1>7, <1>8 DEF TxInv

\* The clock interrupt, sending.
LEMMA ClockTx ==
  ASSUME TxInv, OnClockInterrupt
  PROVE  TxInv' /\ (out' # out => composed = Len(out) + 1 /\ out' = Append(out, composed))
<1>1. clkFlag' \in {0, 1} /\ UNCHANGED <<pc, composed>> /\ ShiftOut
  BY DEF OnClockInterrupt, TxInv, TxType
<1>2. CASE UNCHANGED <<tx, outBits, out>>
  <2>1. TxType'
    BY <1>1, <1>2 DEF TxInv, TxType, tx
  <2>2. OneFrameOut'
    BY <1>1, <1>2 DEF TxInv, OneFrameOut, tx
  <2>. QED
    BY <1>2, <2>1, <2>2 DEF TxInv
<1>3. CASE /\ txActive /\ clkFlag' = 1 /\ txIdx < TX_BITS
           /\ txIdx' = txIdx + 1
           /\ outBits' = Append(outBits, txStream[txIdx + 1])
           /\ UNCHANGED <<txActive, txStream, out>>
  BY <1>1, <1>3, ShiftBit
<1>4. CASE /\ txActive /\ clkFlag' = 1 /\ txIdx = TX_BITS
           /\ txActive' = FALSE
           /\ out' = Append(out, IF \A i \in 1 .. TX_BITS : outBits[i] = outBits[1]
                                 THEN outBits[1] ELSE 0)
           /\ outBits' = <<>>
           /\ UNCHANGED <<txIdx, txStream>>
  BY <1>1, <1>4, ShiftEnd
<1>. QED
  BY <1>1, <1>2, <1>3, <1>4 DEF ShiftOut

\* Every step of the system.
LEMMA NextTx ==
  ASSUME TxInv, [Next]_vars
  PROVE  TxInv'
<1>1. CASE FrameBegins \/ OnRxStart
  <2>1. UNCHANGED <<clkFlag, tx, txLog, pc>>
    BY <1>1 DEF FrameBegins, OnRxStart, cpu
  <2>. QED
    BY <2>1, TxStutter DEF TxInv, TxType
<1>2. CASE OnClockInterrupt
  BY <1>2, ClockTx
<1>3. CASE SkipTx \/ Look \/ Copy \/ Parse \/ Finish
  <2>1. UNCHANGED <<clkFlag, tx, txLog>> /\ pc # "generated"
    BY <1>3 DEF SkipTx, Look, Copy, Parse, Finish
  <2>2. pc' \in {"tx", "rx", "copy", "parsed"}
    BY <1>3 DEF SkipTx, Look, Copy, Parse, Finish
  <2>. QED
    BY <2>1, <2>2, TxStutter
<1>4. CASE Generate
  BY <1>4, GenerateTx
<1>5. CASE Activate
  BY <1>5, ActivateTx
<1>6. CASE UNCHANGED vars
  <2>1. UNCHANGED <<clkFlag, tx, txLog, pc>>
    BY <1>6 DEF vars, cpu
  <2>. QED
    BY <2>1, TxStutter DEF TxInv, TxType
<1>. QED
  BY <1>1, <1>2, <1>3, <1>4, <1>5, <1>6 DEF Next, MainLoop

-----------------------------------------------------------------------------
(* The receiving half: the line and the interrupts.                        *)

\* A new frame begins when the last one is over.
LEMMA FrameBeginsRx ==
  ASSUME RxInv, FrameBegins
  PROVE  RxInv'
<1>. /\ RxType /\ FlagHeld /\ FirstCell /\ OnceMore /\ AtMostTwice /\ RoomKept
     /\ LineIdle /\ frames < MaxRxFrames /\ frames' = frames + 1 /\ lineHalf' = 0
     /\ edge' = pinEnabled
     /\ UNCHANGED <<clkFlag, rxActive, rxSyncFlag, rxIdx, rxStream, pinEnabled, rxDataReady,
                    pc, rxCopy, pass, received, sinceRx, roomy, collected>>
  BY DEF RxInv, FrameBegins, cpu, rxLog
<1>1. RxType'
  BY Sizes DEF RxType
<1>2. FlagHeld' /\ RoomKept'
  BY DEF FlagHeld, RoomKept, Parsing, Arrived
<1>3. Last' = Last /\ Twice' = Twice /\ frames \in Nat /\ Resting' = Resting
  BY DEF Last, Twice, RxType, Resting
<1>4. FirstCell'
  <2>1. rxStream[1] \in Nat /\ (rxCopy # <<>> => rxCopy[1] \in Nat) /\ Last \in Nat
    BY LastIs, Sizes DEF RxType
  <2>. QED
    BY <1>3, <2>1 DEF FirstCell, Passed, Over
<1>5. OnceMore' /\ AtMostTwice'
  <2>1. Last <= frames /\ Last \in Nat
    BY LastIs DEF FirstCell
  <2>2. Over(Last)'
    BY <1>3, <2>1 DEF Over
  <2>. QED
    BY <1>3, <2>2 DEF OnceMore, AtMostTwice
<1>. QED
  BY <1>1, <1>2, <1>4, <1>5 DEF RxInv

\* onRxStart: no collection is under way, so what has passed is over.
LEMMA OnRxStartRx ==
  ASSUME RxInv, OnRxStart
  PROVE  RxInv'
<1>. /\ RxType /\ FlagHeld /\ FirstCell /\ OnceMore /\ AtMostTwice /\ RoomKept
     /\ edge /\ rxSyncFlag' = 1 - clkFlag /\ rxIdx' = 0 /\ rxActive' = TRUE
     /\ pinEnabled' = FALSE /\ edge' = FALSE
     /\ roomy' = (sinceRx > ROOM)
     /\ collected' = IF sinceRx > ROOM THEN collected ELSE 0
     /\ UNCHANGED <<clkFlag, rxStream, rxDataReady, frames, lineHalf, pc, rxCopy, pass,
                    received, sinceRx>>
  BY DEF RxInv, OnRxStart, cpu, line
<1>0. ~rxActive
  BY DEF RxType
<1>1. RxType'
  <2>1. rxActive' \in BOOLEAN /\ pinEnabled' \in BOOLEAN /\ edge' \in BOOLEAN
        /\ (edge' => pinEnabled') /\ (rxActive' <=> ~pinEnabled')
    OBVIOUS
  <2>2. rxSyncFlag' \in {0, 1}
    BY DEF RxType
  <2>3. rxIdx' \in 0 .. RX_STREAM_SIZE /\ collected' \in 0 .. MaxRxFrames
    BY Sizes DEF RxType
  <2>4. roomy' \in BOOLEAN
    OBVIOUS
  <2>. QED
    BY <2>1, <2>2, <2>3, <2>4 DEF RxType
<1>2. FlagHeld' /\ Last' = Last /\ Twice' = Twice /\ Resting'
  BY DEF FlagHeld, Parsing, Last, Twice, Resting
<1>3. FirstCell'
  BY <1>0, <1>2 DEF FirstCell, Passed, Over, LineIdle
<1>4. OnceMore' /\ AtMostTwice'
  BY <1>2 DEF OnceMore, AtMostTwice, Over, LineIdle
<1>5. RoomKept'
  <2>1. CASE sinceRx > ROOM
    <3>1. collected' = collected /\ Arrived' = Arrived /\ ~(sinceRx <= ROOM)
      BY <2>1, Sizes DEF Arrived, RxType
    <3>. QED
      BY <2>1, <3>1 DEF RoomKept, Parsing
  <2>2. CASE ~(sinceRx > ROOM)
    BY <2>2 DEF RoomKept, Parsing
  <2>. QED
    BY <2>1, <2>2
<1>. QED
  BY <1>1, <1>2, <1>3, <1>4, <1>5 DEF RxInv

\* The clock interrupt, whatever it does to the collection.
LEMMA ClockCommon ==
  ASSUME RxInv, OnClockInterrupt
  PROVE  /\ clkFlag' = 1 - clkFlag /\ clkFlag' \in {0, 1}
         /\ pass < MAX_PASS /\ pass' = pass + 1 /\ pass' \in 0 .. MAX_PASS
         /\ UNCHANGED <<rxSyncFlag, pc, rxCopy, received, roomy, frames>>
         /\ lineHalf' = IF LineIdle THEN lineHalf ELSE lineHalf + 1
         /\ lineHalf' \in 0 .. 2 * FRAME_BITS /\ (LineIdle => LineIdle')
         /\ Last' = Last /\ Twice' = Twice /\ (Parsing' <=> Parsing)
         /\ (pinEnabled' \in BOOLEAN => edge' \in BOOLEAN /\ (edge' => pinEnabled'))
<1>1. /\ clkFlag' = 1 - clkFlag /\ pass < MAX_PASS /\ pass' = pass + 1
      /\ UNCHANGED <<rxSyncFlag, pc, rxCopy, received, roomy, frames>> /\ LineMoves
  BY DEF OnClockInterrupt, LineMoves
<1>2. clkFlag' \in {0, 1} /\ pass' \in 0 .. MAX_PASS
  BY <1>1, Sizes DEF RxInv, RxType
<1>3. /\ lineHalf' = IF LineIdle THEN lineHalf ELSE lineHalf + 1
      /\ edge' = FALSE \/ edge' = pinEnabled'
  BY <1>1 DEF LineMoves
<1>4. lineHalf' \in 0 .. 2 * FRAME_BITS /\ (LineIdle => LineIdle')
  BY <1>3, Sizes DEF LineIdle, RxInv, RxType
<1>5. Last' = Last /\ Twice' = Twice /\ (Parsing' <=> Parsing)
  BY <1>1 DEF Last, Twice, Parsing
<1>6. pinEnabled' \in BOOLEAN => edge' \in BOOLEAN /\ (edge' => pinEnabled')
  BY <1>3
<1>. QED
  BY <1>1, <1>2, <1>3, <1>4, <1>5, <1>6

\* A clock interrupt that does not sample: the line gains half a bit on the
\* collection.
LEMMA ClockBetween ==
  ASSUME RxInv, OnClockInterrupt, ~(rxActive /\ clkFlag' = rxSyncFlag),
         sinceRx' = Count(sinceRx),
         UNCHANGED <<rxActive, rxIdx, rxStream, pinEnabled, rxDataReady, collected>>
  PROVE  RxInv'
<1>. /\ RxType /\ FlagHeld /\ FirstCell /\ OnceMore /\ AtMostTwice /\ RoomKept
     /\ clkFlag' = 1 - clkFlag /\ clkFlag' \in {0, 1}
     /\ pass < MAX_PASS /\ pass' = pass + 1 /\ pass' \in 0 .. MAX_PASS
     /\ UNCHANGED <<rxSyncFlag, pc, rxCopy, received, roomy, frames>>
     /\ lineHalf' = IF LineIdle THEN lineHalf ELSE lineHalf + 1
     /\ lineHalf' \in 0 .. 2 * FRAME_BITS /\ (LineIdle => LineIdle')
     /\ Last' = Last /\ Twice' = Twice /\ (Parsing' <=> Parsing)
     /\ edge' \in BOOLEAN /\ (edge' => pinEnabled')
  BY ClockCommon DEF RxInv, RxType
<1>1. sinceRx' \in 0 .. ROOM + 1 /\ sinceRx' = IF sinceRx > ROOM THEN sinceRx ELSE sinceRx + 1
  BY Sizes DEF Count, RxType
<1>2. RxType'
  BY <1>1 DEF RxType
<1>3. FlagHeld' /\ Resting' = Resting
  BY DEF FlagHeld, Resting
<1>4. ASSUME NEW k \in Nat, Passed(k)
      PROVE  \/ frames > k \/ LineIdle'
             \/ /\ rxActive /\ rxIdx >= 1
                /\ lineHalf' >= IF clkFlag' = rxSyncFlag THEN 2 * rxIdx - 1 ELSE 2 * rxIdx
  BY <1>4 DEF Passed, Over, RxType, LineIdle
<1>5. FirstCell'
  <2>1. rxStream[1] \in Nat /\ (rxCopy # <<>> => rxCopy[1] \in Nat) /\ Last \in Nat
    BY LastIs, Sizes DEF RxType
  <2>. QED
    BY <2>1, <1>4 DEF FirstCell, Passed, Over
<1>6. OnceMore' /\ AtMostTwice'
  BY <1>3 DEF OnceMore, AtMostTwice, Over
<1>7. RoomKept'
  <2>1. Arrived' = Arrived
    BY DEF Arrived
  <2>. QED
    BY <2>1, <1>1, Sizes DEF RoomKept, RxType, FlagHeld, Parsing
<1>. QED
  BY <1>2, <1>3, <1>5, <1>6, <1>7 DEF RxInv

\* A clock interrupt that samples: the first cell takes the first bit of the frame on
\* the line, and of no frame that is over.
LEMMA ClockSample ==
  ASSUME RxInv, OnClockInterrupt, rxActive, clkFlag' = rxSyncFlag, rxIdx < RX_STREAM_SIZE,
         rxIdx' = rxIdx + 1,
         rxStream' = [i \in Cells |-> IF i = rxIdx' THEN Sample(i) ELSE rxStream[i]],
         sinceRx' = Count(sinceRx),
         UNCHANGED <<rxActive, pinEnabled, rxDataReady, collected>>
  PROVE  RxInv'
<1>. /\ RxType /\ FlagHeld /\ FirstCell /\ OnceMore /\ AtMostTwice /\ RoomKept
     /\ clkFlag' = 1 - clkFlag /\ clkFlag' \in {0, 1}
     /\ pass < MAX_PASS /\ pass' = pass + 1 /\ pass' \in 0 .. MAX_PASS
     /\ UNCHANGED <<rxSyncFlag, pc, rxCopy, received, roomy, frames>>
     /\ lineHalf' = IF LineIdle THEN lineHalf ELSE lineHalf + 1
     /\ lineHalf' \in 0 .. 2 * FRAME_BITS /\ (LineIdle => LineIdle')
     /\ Last' = Last /\ Twice' = Twice /\ (Parsing' <=> Parsing)
     /\ edge' \in BOOLEAN /\ (edge' => pinEnabled')
  BY ClockCommon DEF RxInv, RxType
<1>1. sinceRx' \in 0 .. ROOM + 1 /\ sinceRx' = IF sinceRx > ROOM THEN sinceRx ELSE sinceRx + 1
  BY Sizes DEF Count, RxType
<1>2. RxType'
  <2>1. \A i \in Cells : Sample(i) \in 0 .. MaxRxFrames
    BY Sizes DEF Sample, RxType
  <2>2. rxStream' \in [Cells -> 0 .. MaxRxFrames]
    BY <2>1 DEF RxType
  <2>3. rxIdx' \in 0 .. RX_STREAM_SIZE
    BY Sizes DEF RxType
  <2>. QED
    BY <1>1, <2>2, <2>3 DEF RxType
<1>3. FlagHeld'
  BY DEF FlagHeld
<1>4. ASSUME rxIdx = 0 PROVE FirstCell' /\ OnceMore' /\ AtMostTwice'
  <2>1. rxStream'[1] = Sample(1)
    BY <1>4, Sizes
  <2>2. rxStream'[1] # 0 => rxStream'[1] = frames /\ ~LineIdle
    BY <2>1 DEF Sample
  <2>3. ASSUME NEW k \in Nat, Passed(k)
        PROVE  frames > k \/ LineIdle
    BY <2>3, <1>4 DEF Passed, Over
  <2>4. rxStream'[1] # 0 => lineHalf' >= 1
    BY <2>2 DEF RxType
  <2>5. rxStream[1] \in Nat /\ (rxCopy # <<>> => rxCopy[1] \in Nat) /\ Last \in Nat /\ frames \in Nat
    BY LastIs, Sizes DEF RxType
  <2>6. FirstCell'
    <3>1. Last <= frames /\ (Last # 0 => frames > Last \/ LineIdle')
      BY <2>3, <2>5 DEF FirstCell
    <3>2. rxCopy # <<>> /\ rxCopy[1] # 0 =>
            Last <= rxCopy[1] /\ rxCopy[1] <= frames /\ (frames > rxCopy[1] \/ LineIdle')
      BY <2>3, <2>5 DEF FirstCell
    <3>3. rxIdx' = 1 /\ rxActive'
      BY <1>4
    <3>4. /\ Last' <= frames' /\ (Last' # 0 => Passed(Last)')
          /\ rxStream'[1] # 0 => Last' <= rxStream'[1] /\ rxStream'[1] <= frames'
      BY <2>2, <2>5, <3>1 DEF Passed, Over
    <3>5. rxStream'[1] # 0 => Passed(rxStream[1])'
      <4>1. clkFlag' = rxSyncFlag'
        OBVIOUS
      <4>2. rxIdx' >= 1 /\ 2 * rxIdx' - 1 = 1
        BY <3>3
      <4>. QED
        BY <2>4, <3>3, <4>1, <4>2 DEF Passed
    <3>6. rxCopy' # <<>> /\ rxCopy'[1] # 0 =>
            /\ Last' <= rxCopy'[1] /\ rxCopy'[1] <= frames' /\ Passed(rxCopy[1])'
            /\ rxStream'[1] # 0 => rxCopy'[1] <= rxStream'[1]
      BY <2>2, <2>5, <3>2 DEF Passed, Over
    <3>. QED
      BY <3>4, <3>5, <3>6 DEF FirstCell
  <2>7. Last # 0 => rxStream'[1] # Last
    BY <2>2, <2>3, <2>5 DEF FirstCell
  <2>8. OnceMore' /\ AtMostTwice'
    <3>1. Twice => Last # 0
      BY LastIs DEF Twice, RxType
    <3>. QED
      BY <2>7, <3>1 DEF OnceMore, AtMostTwice, Over
  <2>. QED
    BY <2>6, <2>8
<1>5. ASSUME rxIdx > 0 PROVE FirstCell' /\ OnceMore' /\ AtMostTwice'
  <2>1. rxStream'[1] = rxStream[1] /\ ~Resting /\ ~Resting'
    BY <1>5, Sizes DEF RxType, Resting
  <2>2. ASSUME NEW k \in Nat, Passed(k)
        PROVE  \/ frames > k \/ LineIdle'
               \/ lineHalf' >= 2 * rxIdx' - 1
    BY <2>2, <1>5 DEF Passed, Over, RxType, LineIdle
  <2>3. rxStream[1] \in Nat /\ (rxCopy # <<>> => rxCopy[1] \in Nat) /\ Last \in Nat /\ frames \in Nat
        /\ rxIdx' >= 1
    BY LastIs, Sizes DEF RxType
  <2>4. FirstCell'
    BY <1>5, <2>1, <2>2, <2>3 DEF FirstCell, Passed, Over
  <2>5. OnceMore' /\ AtMostTwice'
    BY <2>1 DEF OnceMore, AtMostTwice, Over
  <2>. QED
    BY <2>4, <2>5
<1>6. RoomKept'
  <2>1. Arrived' = Arrived
    BY DEF Arrived
  <2>2. collected # 0 => sinceRx > ROOM
    BY Sizes DEF RoomKept, RxType
  <2>. QED
    BY <2>1, <2>2, <1>1, Sizes DEF RoomKept, RxType, FlagHeld, Parsing
<1>. QED
  BY <1>2, <1>3, <1>4, <1>5, <1>6 DEF RxInv, RxType

\* terminateRx: the frame that began with the collection is over.
LEMMA ClockTerminate ==
  ASSUME RxInv, OnClockInterrupt, rxActive, clkFlag' = rxSyncFlag, rxIdx = RX_STREAM_SIZE,
         TerminateRx
  PROVE  RxInv'
<1>. /\ RxType /\ FlagHeld /\ FirstCell /\ OnceMore /\ AtMostTwice /\ RoomKept
     /\ clkFlag' = 1 - clkFlag /\ clkFlag' \in {0, 1}
     /\ pass < MAX_PASS /\ pass' = pass + 1 /\ pass' \in 0 .. MAX_PASS
     /\ UNCHANGED <<rxSyncFlag, pc, rxCopy, received, roomy, frames>>
     /\ lineHalf' = IF LineIdle THEN lineHalf ELSE lineHalf + 1
     /\ lineHalf' \in 0 .. 2 * FRAME_BITS /\ (LineIdle => LineIdle')
     /\ Last' = Last /\ Twice' = Twice /\ (Parsing' <=> Parsing)
  BY ClockCommon DEF RxInv
<1>0. /\ rxActive' = FALSE /\ pinEnabled' = TRUE /\ rxDataReady' = TRUE
      /\ sinceRx' = 0 /\ rxIdx' = rxIdx /\ rxStream' = rxStream
      /\ collected' = IF roomy /\ \A i \in Cells : rxStream[i] = rxStream[1]
                      THEN rxStream[1] ELSE 0
  BY DEF TerminateRx
<1>1. rxActive' \in BOOLEAN /\ rxDataReady' \in BOOLEAN /\ pinEnabled' \in BOOLEAN
      /\ edge' \in BOOLEAN /\ (edge' => pinEnabled') /\ (rxActive' <=> ~pinEnabled')
  BY <1>0, ClockCommon
<1>2. RxType'
  <2>1. collected' \in 0 .. MaxRxFrames /\ sinceRx' \in 0 .. ROOM + 1
    BY <1>0, Sizes DEF RxType
  <2>. QED
    BY <1>0, <1>1, <2>1 DEF RxType
<1>3. FlagHeld' /\ Resting' /\ ~Resting
  BY <1>0, Sizes DEF FlagHeld, Resting
<1>4. ASSUME NEW k \in Nat, Passed(k)
      PROVE  frames > k \/ LineIdle'
  <2>1. clkFlag # rxSyncFlag
    BY DEF RxType
  <2>2. lineHalf >= 2 * rxIdx => FALSE
    BY Sizes DEF RxType
  <2>. QED
    BY <1>4, <2>1, <2>2 DEF Passed, Over
<1>5. rxStream[1] \in Nat /\ (rxCopy # <<>> => rxCopy[1] \in Nat) /\ Last \in Nat
  BY LastIs, Sizes DEF RxType
<1>6. FirstCell'
  BY <1>0, <1>4, <1>5 DEF FirstCell, Passed, Over
<1>7. OnceMore'
  <2>1. Last # 0 => frames > Last \/ LineIdle'
    BY <1>4, <1>5 DEF FirstCell
  <2>. QED
    BY <1>0, <1>3, <2>1 DEF OnceMore, Over
<1>8. AtMostTwice'
  BY <1>0, <1>3 DEF AtMostTwice, Over
<1>9. RoomKept'
  <2>1. CASE roomy
    <3>1. sinceRx > ROOM /\ sinceRx \in Nat
      BY <2>1, Sizes DEF RoomKept, RxType
    <3>2. ~rxDataReady /\ ~Parsing
      BY <3>1, Sizes DEF RoomKept, RxType, FlagHeld
    <3>3. collected' # 0 => \A i \in Cells : rxStream'[i] = collected'
      BY <1>0
    <3>. QED
      BY <1>0, <3>2, <3>3, Sizes DEF RoomKept, RxType
  <2>2. CASE ~roomy
    <3>1. collected' = 0
      BY <1>0, <2>2
    <3>. QED
      BY <1>0, <3>1, Sizes DEF RoomKept, RxType
  <2>. QED
    BY <2>1, <2>2
<1>. QED
  BY <1>2, <1>3, <1>6, <1>7, <1>8, <1>9 DEF RxInv

\* The clock interrupt, receiving.
LEMMA ClockRx ==
  ASSUME RxInv, OnClockInterrupt
  PROVE  RxInv'
<1>1. SampleIn
  BY DEF OnClockInterrupt
<1>. QED
  BY <1>1, ClockBetween, ClockSample, ClockTerminate DEF SampleIn

-----------------------------------------------------------------------------
(* The receiving half: recv.                                               *)

\* recv looks at the flag in every pass.
LEMMA LookRx ==
  ASSUME RxInv, Look
  PROVE  RxInv'
<1>. /\ RxType /\ FlagHeld /\ FirstCell /\ OnceMore /\ AtMostTwice /\ RoomKept
     /\ pc = "rx" /\ pc' = IF rxDataReady THEN "copy" ELSE "tx"
     /\ rxCopy' = <<>> /\ pass' = 0
     /\ UNCHANGED <<clkFlag, rxActive, rxSyncFlag, rxIdx, rxStream, pinEnabled, edge,
                    rxDataReady, frames, lineHalf, received, sinceRx, roomy, collected>>
  BY DEF RxInv, Look, rx, line, rxLog
<1>1. RxType'
  <2>1. rxCopy' \in Seq(0 .. MaxRxFrames) /\ Len(rxCopy') <= PARSED_BITS /\ pass' \in 0 .. MAX_PASS
    BY Sizes
  <2>. QED
    BY <2>1 DEF RxType
<1>2. FlagHeld'
  BY DEF FlagHeld, Parsing
<1>3. Last' = Last /\ Twice' = Twice /\ Arrived' = Arrived /\ Resting' = Resting
  BY DEF Last, Twice, Arrived, Resting
<1>4. FirstCell' /\ OnceMore' /\ AtMostTwice'
  BY <1>3 DEF FirstCell, OnceMore, AtMostTwice, Passed, Over, LineIdle
<1>5. RoomKept'
  BY <1>3, Sizes DEF RoomKept, RxType, Parsing
<1>. QED
  BY <1>1, <1>2, <1>4, <1>5 DEF RxInv

\* A cell is copied; the first one is no frame that was returned twice.
LEMMA CopyRx ==
  ASSUME RxInv, Copy
  PROVE  RxInv'
<1>. /\ RxType /\ FlagHeld /\ FirstCell /\ OnceMore /\ AtMostTwice /\ RoomKept
     /\ pc = "copy" /\ Len(rxCopy) < PARSED_BITS
     /\ rxCopy' = Append(rxCopy, rxStream[Len(rxCopy) + 1])
     /\ UNCHANGED <<clkFlag, rxActive, rxSyncFlag, rxIdx, rxStream, pinEnabled, edge, pass, pc,
                    rxDataReady, frames, lineHalf, received, sinceRx, roomy, collected>>
  BY DEF RxInv, Copy, rx, line, rxLog
<1>0. /\ rxCopy \in Seq(0 .. MaxRxFrames) /\ Len(rxCopy) \in Nat
      /\ Len(rxCopy) + 1 \in Cells /\ rxStream[Len(rxCopy) + 1] \in 0 .. MaxRxFrames
  <2>1. rxCopy \in Seq(0 .. MaxRxFrames) /\ Len(rxCopy) \in Nat
    BY DEF RxType
  <2>2. Len(rxCopy) + 1 \in Cells
    BY <2>1, Sizes DEF Cells
  <2>. QED
    BY <2>1, <2>2 DEF RxType
<1>1. /\ rxCopy' \in Seq(0 .. MaxRxFrames) /\ Len(rxCopy') = Len(rxCopy) + 1
      /\ \A i \in 1 .. Len(rxCopy) : rxCopy'[i] = rxCopy[i]
      /\ rxCopy'[Len(rxCopy) + 1] = rxStream[Len(rxCopy) + 1]
  BY <1>0, AppendProperties
<1>2. RxType' /\ FlagHeld'
  BY <1>0, <1>1, Sizes DEF RxType, FlagHeld, Parsing
<1>3. Last' = Last /\ Twice' = Twice /\ Arrived' = Arrived /\ Resting' = Resting
  BY DEF Last, Twice, Arrived, Resting
<1>4. ASSUME rxCopy = <<>> PROVE FirstCell' /\ OnceMore' /\ AtMostTwice'
  <2>1. rxCopy'[1] = rxStream[1] /\ rxDataReady
    BY <1>1, <1>4 DEF FlagHeld, Parsing
  <2>2. rxStream[1] \in Nat
    BY Sizes DEF RxType
  <2>3. FirstCell'
    BY <1>3, <2>1, <2>2 DEF FirstCell, Passed, Over, LineIdle
  <2>4. OnceMore' /\ AtMostTwice'
    BY <1>3, <2>1 DEF OnceMore, AtMostTwice, Over, LineIdle
  <2>. QED
    BY <2>3, <2>4
<1>5. ASSUME rxCopy # <<>> PROVE FirstCell' /\ OnceMore' /\ AtMostTwice'
  <2>1. 1 \in 1 .. Len(rxCopy)
    BY <1>0, <1>5
  <2>2. rxCopy'[1] = rxCopy[1] /\ rxCopy' # <<>>
    BY <1>0, <1>1, <2>1
  <2>3. FirstCell'
    BY <1>3, <1>5, <2>2 DEF FirstCell, Passed, Over, LineIdle
  <2>4. OnceMore' /\ AtMostTwice'
    BY <1>3, <1>5, <2>2 DEF OnceMore, AtMostTwice, Over, LineIdle
  <2>. QED
    BY <2>3, <2>4
<1>6. RoomKept'
  <2>1. ASSUME collected # 0, sinceRx <= ROOM, ~Arrived
        PROVE  \A i \in 1 .. Len(rxCopy') : rxCopy'[i] = collected
    <3>1. /\ \A i \in 1 .. Len(rxCopy) : rxCopy[i] = collected
          /\ \A i \in Cells : rxStream[i] = collected
      BY <2>1 DEF RoomKept, Parsing
    <3>2. rxStream[Len(rxCopy) + 1] = collected
      BY <1>0, <3>1
    <3>. QED
      BY <1>0, <1>1, <3>1, <3>2
  <2>. QED
    BY <1>3, <2>1 DEF RoomKept, Parsing
<1>. QED
  BY <1>2, <1>4, <1>5, <1>6 DEF RxInv

\* The parser: it returns the frame of the first cell or nothing.
LEMMA ParseRx ==
  ASSUME RxInv, Parse
  PROVE  RxInv' /\ (received' # received =>
                      /\ rxCopy[1] \in 1 .. frames /\ rxCopy[1] >= Last
                      /\ ~(Twice /\ rxCopy[1] = Last)
                      /\ received' = Append(received, rxCopy[1]))
<1>. /\ RxType /\ FlagHeld /\ FirstCell /\ OnceMore /\ AtMostTwice /\ RoomKept
     /\ pc = "copy" /\ pc' = "parsed" /\ Len(rxCopy) = PARSED_BITS
     /\ received' = IF rxCopy[1] # 0 /\ \A i \in Cells : rxCopy[i] = rxCopy[1]
                    THEN Append(received, rxCopy[1]) ELSE received
     /\ UNCHANGED <<clkFlag, rxActive, rxSyncFlag, rxIdx, rxStream, pinEnabled, edge, pass,
                    rxCopy, rxDataReady, frames, lineHalf, sinceRx, roomy, collected>>
  BY DEF RxInv, Parse, rx, line, rxLog
<1>0. /\ rxCopy \in Seq(0 .. MaxRxFrames) /\ received \in Seq(1 .. MaxRxFrames)
      /\ Len(received) \in Nat /\ 1 \in 1 .. Len(rxCopy) /\ rxCopy # <<>>
      /\ rxCopy[1] \in 0 .. MaxRxFrames
  <2>1. rxCopy \in Seq(0 .. MaxRxFrames) /\ received \in Seq(1 .. MaxRxFrames)
        /\ Len(received) \in Nat /\ 1 \in 1 .. Len(rxCopy)
    BY Sizes DEF RxType
  <2>2. rxCopy[1] \in 0 .. MaxRxFrames
    BY <2>1, ElementOfSeq
  <2>. QED
    BY <2>1, <2>2
<1>1. Parsing /\ Parsing' /\ rxDataReady /\ FlagHeld' /\ Resting' = Resting
  BY DEF Parsing, FlagHeld, Resting
<1>2. CASE received' = received
  <2>1. Last' = Last /\ Twice' = Twice /\ Arrived' = Arrived
    BY <1>2 DEF Last, Twice, Arrived
  <2>2. RxType'
    BY <1>2 DEF RxType
  <2>3. FirstCell' /\ OnceMore' /\ AtMostTwice'
    BY <1>1, <2>1 DEF FirstCell, OnceMore, AtMostTwice, Passed, Over, LineIdle
  <2>4. RoomKept'
    <3>1. ASSUME collected # 0, sinceRx <= ROOM PROVE Arrived
      <4>1. SUFFICES ASSUME ~Arrived PROVE FALSE
        OBVIOUS
      <4>2. \A i \in 1 .. Len(rxCopy) : rxCopy[i] = collected
        BY <1>1, <3>1, <4>1 DEF RoomKept
      <4>3. rxCopy[1] = collected /\ \A i \in Cells : rxCopy[i] = rxCopy[1]
        BY <1>0, <4>2 DEF Cells
      <4>4. received' = Append(received, rxCopy[1])
        BY <3>1, <4>3
      <4>5. Len(Append(received, rxCopy[1])) = Len(received) + 1
        BY <1>0
      <4>. QED
        BY <1>0, <1>2, <4>4, <4>5
    <3>. QED
      BY <1>1, <2>1, <3>1 DEF RoomKept
  <2>. QED
    BY <1>1, <1>2, <2>2, <2>3, <2>4 DEF RxInv
<1>3. CASE received' # received
  <2>1. rxCopy[1] # 0 /\ (\A i \in Cells : rxCopy[i] = rxCopy[1])
        /\ received' = Append(received, rxCopy[1])
    BY <1>3
  <2>2. rxCopy[1] \in 1 .. MaxRxFrames
    BY <1>0, <2>1
  <2>3. /\ received' \in Seq(1 .. MaxRxFrames) /\ Len(received') = Len(received) + 1
        /\ \A i \in 1 .. Len(received) : received'[i] = received[i]
        /\ received'[Len(received) + 1] = rxCopy[1]
    <3>1. ASSUME NEW k \in 1 .. MaxRxFrames
          PROVE  /\ Append(received, k) \in Seq(1 .. MaxRxFrames)
                 /\ Len(Append(received, k)) = Len(received) + 1
                 /\ \A i \in 1 .. Len(received) : Append(received, k)[i] = received[i]
                 /\ Append(received, k)[Len(received) + 1] = k
      BY <1>0, AppendProperties
    <3>2. /\ Append(received, rxCopy[1]) \in Seq(1 .. MaxRxFrames)
          /\ Len(Append(received, rxCopy[1])) = Len(received) + 1
          /\ \A i \in 1 .. Len(received) : Append(received, rxCopy[1])[i] = received[i]
          /\ Append(received, rxCopy[1])[Len(received) + 1] = rxCopy[1]
      BY <2>2, <3>1, Zenon
    <3>3. received' = Append(received, rxCopy[1])
      BY <2>1
    <3>. QED
      BY <3>2, <3>3, Zenon
  <2>4. Last' = rxCopy[1]
    BY <1>0, <2>3 DEF Last
  <2>5. Twice' => Last = rxCopy[1] /\ Last # 0
    <3>1. SUFFICES ASSUME Twice' PROVE Last = rxCopy[1] /\ Last # 0
      OBVIOUS
    <3>2. Len(received) \in 1 .. Len(received) /\ received'[Len(received)] = rxCopy[1]
      BY <1>0, <2>3, <2>4, <3>1 DEF Twice
    <3>3. received # <<>> /\ Last = rxCopy[1]
      BY <1>0, <2>3, <3>2 DEF Last
    <3>. QED
      BY <2>1, <3>3
  <2>6. RxType'
    BY <2>3 DEF RxType
  <2>7. FirstCell'
    BY <1>0, <2>1, <2>4 DEF FirstCell, Passed, Over, LineIdle
  <2>8. OnceMore' /\ AtMostTwice'
    BY <1>0, <1>1, <2>4, <2>5 DEF OnceMore, AtMostTwice, Over, LineIdle
  <2>9. RoomKept'
    <3>1. Arrived => Arrived'
      BY <1>0, <2>3 DEF Arrived
    <3>2. rxCopy[1] = collected => Arrived'
      <4>1. Len(received) + 1 \in DOMAIN received'
        BY <1>0, <2>3
      <4>. QED
        BY <2>3, <4>1 DEF Arrived
    <3>3. ASSUME collected # 0, sinceRx <= ROOM PROVE Arrived'
      BY <1>0, <1>1, <3>1, <3>2, <3>3 DEF RoomKept
    <3>. QED
      BY <1>1, <3>1, <3>3 DEF RoomKept
  <2>10. rxCopy[1] \in 1 .. frames /\ rxCopy[1] >= Last
    BY <1>0, <2>1, <2>2, LastIs DEF FirstCell, RxType
  <2>11. ~(Twice /\ rxCopy[1] = Last)
    BY <1>0 DEF AtMostTwice
  <2>. QED
    BY <1>1, <2>1, <2>6, <2>7, <2>8, <2>9, <2>10, <2>11 DEF RxInv
<1>. QED
  BY <1>2, <1>3

\* recv clears the flag: what had room has been returned.
LEMMA FinishRx ==
  ASSUME RxInv, Finish
  PROVE  RxInv'
<1>. /\ RxType /\ FlagHeld /\ FirstCell /\ OnceMore /\ AtMostTwice /\ RoomKept
     /\ pc = "parsed" /\ pc' = "tx" /\ rxDataReady' = FALSE /\ rxCopy' = <<>>
     /\ UNCHANGED <<clkFlag, rxActive, rxSyncFlag, rxIdx, rxStream, pinEnabled, edge, pass,
                    frames, lineHalf, received, sinceRx, roomy, collected>>
  BY DEF RxInv, Finish, rx, line, rxLog
<1>1. RxType'
  <2>1. rxDataReady' \in BOOLEAN
    OBVIOUS
  <2>2. rxCopy' \in Seq(0 .. MaxRxFrames) /\ Len(rxCopy') <= PARSED_BITS
    BY Sizes
  <2>. QED
    BY <2>1, <2>2 DEF RxType
<1>2. Last' = Last /\ Twice' = Twice /\ Arrived' = Arrived /\ Resting' = Resting
      /\ Parsing /\ ~Parsing' /\ FlagHeld'
  BY DEF Last, Twice, Arrived, Resting, Parsing, FlagHeld
<1>3. FirstCell'
  BY <1>2 DEF FirstCell, Passed, Over, LineIdle
<1>4. OnceMore' /\ AtMostTwice'
  BY <1>2 DEF OnceMore, AtMostTwice, Over, LineIdle
<1>5. RoomKept'
  BY <1>2 DEF RoomKept
<1>. QED
  BY <1>1, <1>2, <1>3, <1>4, <1>5 DEF RxInv

\* Every step of the system.
LEMMA NextRx ==
  ASSUME RxInv, [Next]_vars
  PROVE  RxInv'
<1>1. CASE SkipTx \/ Generate \/ Activate
  BY <1>1, RxStutter DEF SkipTx, Generate, Activate, Parsing
<1>2. CASE Look \/ Copy \/ Parse \/ Finish
  BY <1>2, LookRx, CopyRx, ParseRx, FinishRx
<1>3. CASE UNCHANGED vars
  <2>1. UNCHANGED <<clkFlag, rx, rxDataReady, line, rxCopy, pass, received, rxLog, pc>>
    BY <1>3 DEF vars, cpu
  <2>2. RxType'
    BY <2>1 DEF RxInv, RxType, rx, line, rxLog
  <2>3. FlagHeld' /\ FirstCell' /\ OnceMore' /\ AtMostTwice'
    BY <2>1 DEF RxInv, FlagHeld, FirstCell, OnceMore, AtMostTwice, Last, Twice, Passed, Over,
       LineIdle, Resting, Parsing, rx, line
  <2>4. RoomKept'
    BY <2>1 DEF RxInv, RoomKept, Arrived, Parsing, rx, rxLog
  <2>. QED
    BY <2>2, <2>3, <2>4 DEF RxInv
<1>. QED
  BY <1>1, <1>2, <1>3, FrameBeginsRx, OnRxStartRx, ClockRx DEF Next, MainLoop

-----------------------------------------------------------------------------
(* The theorems.                                                           *)

\* In every state the stream is of one frame, the flag is held while recv parses, and
\* the first cell, the copy and what was returned are in the order of the frames.
THEOREM InvHolds == Spec => []IInv
<1>1. Init => IInv
  BY InitInv
<1>2. IInv /\ [Next]_vars => IInv'
  BY NextTx, NextRx DEF IInv
<1>. QED
  BY <1>1, <1>2, PTL DEF Spec

\* No index leaves its buffer, and the interrupt of the pin is off exactly while a
\* frame is collected.
THEOREM TypeCorrect == Spec => []TypeOK
<1>1. IInv => TypeOK
  BY DEF IInv, TxInv, RxInv, TxType, RxType, TypeOK
<1>. QED
  BY <1>1, InvHolds, PTL

\* A frame that was collected whole with room around it has been returned within two
\* passes of the main loop.
THEOREM FrameWithRoomArrivesHolds == Spec => []FrameWithRoomArrives
<1>1. IInv => FrameWithRoomArrives
  BY DEF IInv, RxInv, RoomKept, Arrived, FrameWithRoomArrives
<1>. QED
  BY <1>1, InvHolds, PTL

\* A step of the system is one of the line to the fuel cells or none: frames go out
\* whole, in their turn and once.
LEMMA SendingStep ==
  ASSUME IInv, [Next]_vars
  PROVE  [Sending!Next]_(Sending!vars)
<1>. TxType /\ OneFrameOut
  BY DEF IInv, TxInv
<1>1. CASE Generate
  <2>1. Sending!Begin
    BY <1>1 DEF Generate, Sending!Begin
  <2>. QED
    BY <2>1 DEF Sending!Next
<1>2. CASE OnClockInterrupt
  <2>1. composed' = composed
    BY <1>2 DEF OnClockInterrupt
  <2>2. CASE out' = out
    BY <2>1, <2>2 DEF Sending!vars
  <2>3. CASE out' # out
    <3>1. composed = Len(out) + 1 /\ out' = Append(out, composed)
      BY <1>2, <2>3, ClockTx DEF IInv
    <3>2. out \in Seq(0 .. MaxTxFrames) /\ Len(out) \in Nat
      BY DEF TxType
    <3>3. Sending!LastHanded = Len(out)
      BY <3>2 DEF Sending!LastHanded, OneFrameOut
    <3>4. Sending!HandOver(composed) /\ composed \in 1 .. composed
      BY <2>1, <3>1, <3>2, <3>3 DEF Sending!HandOver
    <3>. QED
      BY <3>4 DEF Sending!Next
  <2>. QED
    BY <2>2, <2>3
<1>3. CASE \/ FrameBegins \/ OnRxStart \/ SkipTx \/ Activate \/ Look \/ Copy \/ Parse \/ Finish
           \/ UNCHANGED vars
  <2>1. UNCHANGED txLog
    BY <1>3 DEF FrameBegins, OnRxStart, SkipTx, Activate, Look, Copy, Parse, Finish, vars
  <2>. QED
    BY <2>1 DEF Sending!vars, txLog
<1>. QED
  BY <1>1, <1>2, <1>3 DEF Next, MainLoop

\* A step of the system is one of the line from the fuel cells or none: what recv
\* returns was sent, and no frame comes after a later one or a third time.
LEMMA ReceivingStep ==
  ASSUME IInv, [Next]_vars
  PROVE  [Receiving!Next]_(Receiving!vars)
<1>1. CASE FrameBegins
  <2>1. Receiving!Begin
    BY <1>1 DEF FrameBegins, Receiving!Begin
  <2>. QED
    BY <2>1 DEF Receiving!Next
<1>2. CASE Parse
  <2>1. frames' = frames
    BY <1>2 DEF Parse, line
  <2>2. CASE received' = received
    BY <2>1, <2>2 DEF Receiving!vars
  <2>3. CASE received' # received
    <3>1. /\ rxCopy[1] \in 1 .. frames /\ rxCopy[1] >= Last
          /\ ~(Twice /\ rxCopy[1] = Last)
          /\ received' = Append(received, rxCopy[1])
      BY <1>2, <2>3, ParseRx DEF IInv
    <3>2. Receiving!LastHanded = Last
      BY DEF Receiving!LastHanded, Last
    <3>3. ~Receiving!HandedTwice(rxCopy[1])
      BY <3>1, <3>2 DEF Receiving!HandedTwice, Twice
    <3>4. Receiving!HandOver(rxCopy[1])
      BY <2>1, <3>1, <3>2, <3>3 DEF Receiving!HandOver
    <3>. QED
      BY <3>1, <3>4 DEF Receiving!Next
  <2>. QED
    BY <2>2, <2>3
<1>3. CASE \/ OnRxStart \/ OnClockInterrupt \/ SkipTx \/ Generate \/ Activate \/ Look \/ Copy
           \/ Finish \/ UNCHANGED vars
  <2>1. UNCHANGED <<frames, received>>
    BY <1>3 DEF OnRxStart, OnClockInterrupt, LineMoves, SkipTx, Generate, Activate, Look, Copy,
       Finish, vars, line
  <2>. QED
    BY <2>1 DEF Receiving!vars
<1>. QED
  BY <1>1, <1>2, <1>3 DEF Next, MainLoop

\* Both directions implement a line of frames, whatever the interrupts overwrite.
THEOREM ImplementsLinesHolds == Spec => ImplementsLines
<1>1. Init => Sending!Init /\ Receiving!Init
  BY DEF Init, Sending!Init, Receiving!Init
<1>2. IInv /\ [Next]_vars => [Sending!Next]_(Sending!vars)
  BY SendingStep
<1>3. IInv /\ [Next]_vars => [Receiving!Next]_(Receiving!vars)
  BY ReceivingStep
<1>. QED
  BY <1>1, <1>2, <1>3, InvHolds, PTL
     DEF Spec, ImplementsLines, Sending!Safety, Receiving!Safety
=============================================================================
