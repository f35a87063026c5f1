---------------------------- MODULE Transceiver ----------------------------
(***************************************************************************)
(* The CAN-by-GPIO transceiver of CPU2 (canbygpio) without bit stuffing.   *)
(* Two interrupts work on the pins: onRxStart at the first falling edge of *)
(* a frame, and onClockInterrupt at twice the bit rate, which shifts the   *)
(* bits out and samples them.  Controller::run in the main loop composes   *)
(* frames (send) and parses them (recv).  The main loop and the interrupts *)
(* share the bit streams and the flags m_txActive and m_rxDataReady.       *)
(*                                                                         *)
(* A bit is abstracted to the frame it belongs to.  A cell of the receive  *)
(* buffer holds k if it holds the bit of frame k that belongs there, and 0 *)
(* otherwise; the cells after the checksum are not kept, nobody reads      *)
(* them.  A buffer that is not one frame throughout is refused.  This is   *)
(* an ideal: the code compares a checksum of 15 bits, which a mixture of   *)
(* two frames passes with small probability (CanFrame shows what it does   *)
(* of one wrong bit).  The clocks of the two ends of the line do not drift *)
(* during a frame.                                                         *)
(***************************************************************************)
EXTENDS Naturals, Sequences

CONSTANTS
  TX_BITS,          \* the bits that are shifted out for a frame: 113
  PARSED_BITS,      \* the bits of a frame from its start to its checksum: 98
  FRAME_BITS,       \* the bits until the line may be used again: 111
  RX_STREAM_SIZE,   \* 112
  MAX_PASS,         \* the most clock interrupts between two looks of recv
  MaxTxFrames,      \* bound: the frames sent
  MaxRxFrames       \* bound: the frames of the fuel cells

ASSUME TransceiverAssumption ==
  /\ TX_BITS \in Nat \ {0} /\ PARSED_BITS \in Nat \ {0} /\ FRAME_BITS \in Nat /\ RX_STREAM_SIZE \in Nat
  /\ PARSED_BITS <= FRAME_BITS /\ FRAME_BITS < RX_STREAM_SIZE
  /\ MAX_PASS \in Nat \ {0}
  /\ MaxTxFrames \in Nat /\ MaxRxFrames \in Nat

VARIABLES
  clkFlag,      \* m_clkFlag
  txActive,     \* m_txActive
  txIdx,        \* m_txIdx
  txStream,     \* txCanBitStream
  composed,     \* history: the number of frames composed
  outBits,      \* history: the bits of the frame that is being shifted out
  out,          \* history: the frames that have been shifted out
  rxActive,     \* m_rxActive
  rxSyncFlag,   \* m_rxSyncFlag
  rxIdx,        \* m_rxIdx
  rxStream,     \* rxCanBitStream
  rxDataReady,  \* m_rxDataReady
  pinEnabled,   \* the interrupt of m_rxPin is enabled
  edge,         \* the interrupt of m_rxPin is pending
  frames,       \* the number of frames that the fuel cells have sent
  lineHalf,     \* half-bits of the last of them that have gone by
  pc,           \* where Controller::run is
  rxCopy,       \* the cells that parseRxCanFrame has copied (rxBitStream)
  received,     \* history: the frames that recv has returned
  pass,         \* clock interrupts since recv last looked at m_rxDataReady
  sinceRx,      \* history: clock interrupts since the last collection ended
  roomy,        \* history: the collection under way began late enough
  collected     \* history: the frame collected last if it was a whole one and
                \* no other collection was near it, 0 otherwise

tx      == <<txActive, txIdx, txStream>>
rx      == <<rxActive, rxSyncFlag, rxIdx, rxStream, pinEnabled, edge>>
line    == <<frames, lineHalf>>
cpu     == <<pc, rxCopy, pass>>
txLog   == <<composed, outBits, out>>
rxLog   == <<sinceRx, roomy, collected>>
vars    == <<clkFlag, tx, rx, rxDataReady, line, cpu, txLog, received, rxLog>>

\* The longest time from the end of a collection to the end of its parsing.
ROOM == 2 * MAX_PASS

Cells == 1 .. PARSED_BITS

\* Types; an index stays in its buffer, and the pin's interrupt is off while a
\* frame is collected.
TypeOK ==
  /\ clkFlag \in {0, 1} /\ rxSyncFlag \in {0, 1}
  /\ \A b \in {txActive, rxActive, rxDataReady, pinEnabled, edge, roomy} : b \in BOOLEAN
  /\ txIdx \in 0 .. TX_BITS
  /\ txStream \in [1 .. TX_BITS -> 0 .. MaxTxFrames]
  /\ composed \in 0 .. MaxTxFrames
  /\ outBits \in Seq(1 .. MaxTxFrames) /\ Len(outBits) <= TX_BITS
  /\ out \in Seq(0 .. MaxTxFrames)
  /\ rxIdx \in 0 .. RX_STREAM_SIZE
  /\ rxStream \in [Cells -> 0 .. MaxRxFrames]
  /\ frames \in 0 .. MaxRxFrames /\ lineHalf \in 0 .. 2 * FRAME_BITS
  /\ pc \in {"tx", "generated", "rx", "copy", "parsed"}
  /\ rxCopy \in Seq(0 .. MaxRxFrames) /\ Len(rxCopy) <= PARSED_BITS
  /\ received \in Seq(1 .. MaxRxFrames)
  /\ pass \in 0 .. MAX_PASS /\ sinceRx \in 0 .. ROOM + 1
  /\ collected \in 0 .. MaxRxFrames
  /\ edge => pinEnabled
  /\ rxActive <=> ~pinEnabled

\* CPU2 enables interrupts and enters its main loop.  An edge may have come in
\* since the constructor: a collection then begins that holds no whole frame.
Init ==
  /\ clkFlag = 0
  /\ txActive = FALSE /\ txIdx = 0 /\ txStream = [i \in 1 .. TX_BITS |-> 0]
  /\ composed = 0 /\ outBits = <<>> /\ out = <<>>
  /\ rxActive = FALSE /\ rxSyncFlag = 0 /\ rxIdx = 0
  /\ rxStream = [i \in Cells |-> 0]
  /\ rxDataReady = FALSE /\ pinEnabled = TRUE /\ edge \in BOOLEAN
  /\ frames = 0 /\ lineHalf = 2 * FRAME_BITS
  /\ pc = "tx" /\ rxCopy = <<>> /\ received = <<>> /\ pass = 0
  /\ sinceRx = ROOM + 1 /\ roomy = FALSE /\ collected = 0

-----------------------------------------------------------------------------
(* The line from the fuel cells.                                           *)

LineIdle == lineHalf = 2 * FRAME_BITS

\* The place in the last frame of the bit that is on the line.
LineBit == lineHalf \div 2 + 1

\* A cell begins a frame with a falling edge, at any phase of the clock.
FrameBegins ==
  /\ LineIdle /\ ~edge /\ frames < MaxRxFrames
  /\ frames' = frames + 1 /\ lineHalf' = 0
  /\ edge' = pinEnabled
  /\ UNCHANGED <<clkFlag, tx, rxActive, rxSyncFlag, rxIdx, rxStream, pinEnabled,
                 rxDataReady, cpu, txLog, received, rxLog>>

\* Half a bit goes by.  A bit of the frame may begin with a falling edge of its
\* own, but not one of the recessive end.
LineMoves ==
  /\ lineHalf' = IF LineIdle THEN lineHalf ELSE lineHalf + 1
  /\ \/ edge' = FALSE
     \/ lineHalf' % 2 = 0 /\ lineHalf' \div 2 < PARSED_BITS /\ edge' = pinEnabled'
  /\ UNCHANGED frames

-----------------------------------------------------------------------------
(* The interrupts.                                                         *)

\* onRxStart goes before a clock interrupt that is pending as well.
OnRxStart ==
  /\ edge
  /\ rxSyncFlag' = 1 - clkFlag
  /\ rxIdx' = 0 /\ rxActive' = TRUE
  /\ pinEnabled' = FALSE /\ edge' = FALSE
  /\ roomy' = (sinceRx > ROOM)
  /\ collected' = IF sinceRx > ROOM THEN collected ELSE 0
  /\ UNCHANGED <<clkFlag, tx, rxStream, rxDataReady, line, cpu, txLog, received,
                 sinceRx>>

\* onClockInterrupt, sending: with the clock flag set, the next bit, or the
\* idle level after the last one.
ShiftOut ==
  \/ /\ ~(txActive /\ clkFlag' = 1)
     /\ UNCHANGED <<tx, outBits, out>>
  \/ /\ txActive /\ clkFlag' = 1 /\ txIdx < TX_BITS
     /\ txIdx' = txIdx + 1
     /\ outBits' = Append(outBits, txStream[txIdx + 1])
     /\ UNCHANGED <<txActive, txStream, out>>
  \/ /\ txActive /\ clkFlag' = 1 /\ txIdx = TX_BITS
     /\ txActive' = FALSE
     /\ out' = Append(out, IF \A i \in 1 .. TX_BITS : outBits[i] = outBits[1]
                           THEN outBits[1] ELSE 0)
     /\ outBits' = <<>>
     /\ UNCHANGED <<txIdx, txStream>>

\* What a sample is worth in the cell that it goes to.
Sample(cell) == IF ~LineIdle /\ LineBit = cell THEN frames ELSE 0

\* terminateRx
TerminateRx ==
  /\ rxActive' = FALSE /\ pinEnabled' = TRUE /\ rxDataReady' = TRUE
  /\ sinceRx' = 0
  /\ collected' = IF roomy /\ \A i \in Cells : rxStream[i] = rxStream[1]
                  THEN rxStream[1] ELSE 0
  /\ UNCHANGED <<rxIdx, rxStream>>

Count(n) == IF n > ROOM THEN n ELSE n + 1

\* Mutant: a frame ends one cell after the end of the buffer.
SampleIn_OffByOne ==
  \/ /\ ~(rxActive /\ clkFlag' = rxSyncFlag)
     /\ sinceRx' = Count(sinceRx)
     /\ UNCHANGED <<rxActive, rxIdx, rxStream, pinEnabled, rxDataReady, collected>>
  \/ /\ rxActive /\ clkFlag' = rxSyncFlag /\ rxIdx <= RX_STREAM_SIZE
     /\ rxIdx' = rxIdx + 1
     /\ rxStream' = [i \in Cells |-> IF i = rxIdx' THEN Sample(i) ELSE rxStream[i]]
     /\ sinceRx' = Count(sinceRx)
     /\ UNCHANGED <<rxActive, pinEnabled, rxDataReady, collected>>
  \/ /\ rxActive /\ clkFlag' = rxSyncFlag /\ rxIdx > RX_STREAM_SIZE
     /\ TerminateRx

\* onClockInterrupt, receiving: every second interrupt from the start of the
\* frame on takes a sample; the one that finds the buffer full ends the frame.
SampleIn ==
  \/ /\ ~(rxActive /\ clkFlag' = rxSyncFlag)
     /\ sinceRx' = Count(sinceRx)
     /\ UNCHANGED <<rxActive, rxIdx, rxStream, pinEnabled, rxDataReady, collected>>
  \/ /\ rxActive /\ clkFlag' = rxSyncFlag /\ rxIdx < RX_STREAM_SIZE
     /\ rxIdx' = rxIdx + 1
     /\ rxStream' = [i \in Cells |-> IF i = rxIdx' THEN Sample(i) ELSE rxStream[i]]
     /\ sinceRx' = Count(sinceRx)
     /\ UNCHANGED <<rxActive, pinEnabled, rxDataReady, collected>>
  \/ /\ rxActive /\ clkFlag' = rxSyncFlag /\ rxIdx = RX_STREAM_SIZE
     /\ TerminateRx

OnClockInterrupt ==
  /\ ~edge /\ pass < MAX_PASS
  /\ clkFlag' = 1 - clkFlag
  /\ ShiftOut /\ SampleIn /\ LineMoves
  /\ pass' = pass + 1
  /\ UNCHANGED <<rxSyncFlag, pc, rxCopy, composed, received, roomy>>

-----------------------------------------------------------------------------
(* The main loop: Controller::run.                                         *)

\* runTx has nothing to send, or send finds the last frame on the line.
SkipTx ==
  /\ pc = "tx"
  /\ pc' = "rx"
  /\ UNCHANGED <<clkFlag, tx, rx, rxDataReady, line, rxCopy, pass, txLog, received, rxLog>>

\* send: generateTxCanFrame.  The interrupt does not look at the stream before
\* the flag is set.
Generate ==
  /\ pc = "tx" /\ ~txActive /\ composed < MaxTxFrames
  /\ composed' = composed + 1
  /\ txStream' = [i \in 1 .. TX_BITS |-> composed']
  /\ pc' = "generated"
  /\ UNCHANGED <<clkFlag, txActive, txIdx, rx, rxDataReady, line, rxCopy, pass, outBits,
                 out, received, rxLog>>

\* send: m_txIdx first, then m_txActive.
Activate ==
  /\ pc = "generated"
  /\ txIdx' = 0 /\ txActive' = TRUE
  /\ pc' = "rx"
  /\ UNCHANGED <<clkFlag, txStream, rx, rxDataReady, line, rxCopy, pass, txLog,
                 received, rxLog>>

\* Mutant: recv clears the flag when it found it clear as well.
Look_ClearsAlways ==
  /\ pc = "rx"
  /\ pc' = IF rxDataReady THEN "copy" ELSE "parsed"
  /\ rxCopy' = <<>> /\ pass' = 0
  /\ UNCHANGED <<clkFlag, tx, rx, rxDataReady, line, txLog, received, rxLog>>

\* recv
Look ==
  /\ pc = "rx"
  /\ pc' = IF rxDataReady THEN "copy" ELSE "tx"
  /\ rxCopy' = <<>> /\ pass' = 0
  /\ UNCHANGED <<clkFlag, tx, rx, rxDataReady, line, txLog, received, rxLog>>

\* parseRxCanFrame copies the buffer before it looks at it.
Copy ==
  /\ pc = "copy" /\ Len(rxCopy) < PARSED_BITS
  /\ rxCopy' = Append(rxCopy, rxStream[Len(rxCopy) + 1])
  /\ UNCHANGED <<clkFlag, tx, rx, rxDataReady, line, pc, pass, txLog, received, rxLog>>

\* The copy is one frame throughout, or the (ideal) checksum finds an error.
Parse ==
  /\ pc = "copy" /\ Len(rxCopy) = PARSED_BITS
  /\ received' = IF rxCopy[1] # 0 /\ \A i \in Cells : rxCopy[i] = rxCopy[1]
                 THEN Append(received, rxCopy[1]) ELSE received
  /\ pc' = "parsed"
  /\ UNCHANGED <<clkFlag, tx, rx, rxDataReady, line, rxCopy, pass, txLog, rxLog>>

\* Mutant: recv leaves the flag set.
Finish_FlagKept ==
  /\ pc = "parsed"
  /\ rxCopy' = <<>> /\ pc' = "tx"
  /\ UNCHANGED <<clkFlag, tx, rx, rxDataReady, line, pass, txLog, received, rxLog>>

\* recv clears the flag after it has parsed.
Finish ==
  /\ pc = "parsed"
  /\ rxDataReady' = FALSE
  /\ rxCopy' = <<>> /\ pc' = "tx"
  /\ UNCHANGED <<clkFlag, tx, rx, line, pass, txLog, received, rxLog>>

MainLoop == SkipTx \/ Generate \/ Activate \/ Look \/ Copy \/ Parse \/ Finish

Next == FrameBegins \/ OnRxStart \/ OnClockInterrupt \/ MainLoop

Spec == Init /\ [][Next]_vars

-----------------------------------------------------------------------------
(* Properties.                                                             *)

Sending   == INSTANCE FrameLine WITH Lossy <- FALSE, begun <- composed, handed <- out
Receiving == INSTANCE FrameLine WITH Lossy <- TRUE, begun <- frames, handed <- received

\* Every frame that is composed goes out in one piece, in its turn and once.
\* Every frame that recv returns was sent and comes after those before it,
\* whatever the interrupts overwrite.  It may come twice: recv does not look
\* whether a collection is under way, so a parser that is late can copy a frame
\* whose last bits are still to come, and the end of the collection hands it over
\* again; more often it does not come.
ImplementsLines == Sending!Safety /\ Receiving!Safety

\* A frame is not lost for nothing: one that was collected whole, with no other
\* collection ending or beginning within two passes of the main loop, has been
\* returned when the two passes are over.  The flag that is cleared after the
\* parsing and the buffer that is overwritten can hit frames without this room.
FrameWithRoomArrives ==
  collected # 0 /\ sinceRx > ROOM => \E i \in DOMAIN received : received[i] = collected
=============================================================================
