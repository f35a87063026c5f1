------------------------------ MODULE CanFrame ------------------------------
(***************************************************************************)
(* What the CAN-by-GPIO transceiver does to the bits of a frame: it        *)
(* composes a frame with its checksum and, if asked to, its stuff bits     *)
(* (generateTxCanFrame), collects the samples of a frame into a buffer     *)
(* that keeps what it held before (onClockInterrupt), and parses the       *)
(* buffer (parseRxCanFrame).  Frames go one at a time over a line that may *)
(* disturb some of their bits; the interplay of the interrupts and the     *)
(* main loop is the subject of Transceiver.  The rest of a frame that a    *)
(* disturbed stuff bit has ended early is not collected as one more frame. *)
(*                                                                         *)
(* A bit stream is a sequence of bits that begins at index 1.              *)
(***************************************************************************)
EXTENDS Integers, Sequences, FiniteSets

CONSTANTS
  FrameIds,      \* the identifiers that are sent
  DataFields,    \* the data fields that are sent
  MaxFrames,     \* bound: the frames sent
  MaxFlips       \* bound: the bits disturbed, of all frames together

\* A data word of which eight bits go into the frame.
BYTE == 0 .. 255

ASSUME CanFrameAssumption ==
  /\ FrameIds \subseteq 0 .. 2047
  /\ DataFields \subseteq {d \in Seq(BYTE) : Len(d) <= 8}
  /\ MaxFrames \in Nat /\ MaxFlips \in Nat

VARIABLES
  stuffing,         \* BIT_STUFFING_ENABLED
  sent,             \* the frame on the line, or the last one
  noise,            \* the bits of it that were disturbed
  rxCanBitStream,   \* rxCanBitStream, the samples
  result,           \* what parseRxCanFrame made of them
  onLine,           \* the frame is on the line
  frames, flips     \* the frames sent and the bits disturbed so far

vars == <<stuffing, sent, noise, rxCanBitStream, result, onLine, frames, flips>>

STREAM_SIZE_W_BIT_STUFFING  == 200
STREAM_SIZE_WO_BIT_STUFFING == 112

-----------------------------------------------------------------------------
(* Numbers and bits, the highest bit first.                                *)

\* (n >> (width - i)) & 1 for each i; a shift halves.
Bits(n, width) ==
  LET shifted[k \in 0 .. width] == IF k = 0 THEN n ELSE shifted[k - 1] \div 2
  IN  [i \in 1 .. width |-> shifted[width - i] % 2]

Number(b) ==
  LET n[i \in 0 .. Len(b)] == IF i = 0 THEN 0 ELSE 2 * n[i - 1] + b[i]
  IN  n[Len(b)]

BytesToBits(d) ==
  [i \in 1 .. 8 * Len(d) |-> Bits(d[((i - 1) \div 8) + 1], 8)[((i - 1) % 8) + 1]]

BitsToBytes(b) == [i \in 1 .. Len(b) \div 8 |-> Number(SubSeq(b, 8 * i - 7, 8 * i))]

-----------------------------------------------------------------------------
(* The loops over the bits: what each of them does with one bit.           *)

\* 0x4599
CrcPolynomial == {0, 3, 4, 7, 8, 10, 14}

\* crcReg is the set of its bits that are 1.
CrcStep(crcReg, bit) ==
  LET crcNext == (14 \in crcReg) # (bit = 1)
  IN  {i \in 0 .. 14 : (i - 1 \in crcReg) # (crcNext /\ i \in CrcPolynomial)}

\* sameBits after one more bit; it is 0 in a run of one.
SameBits(run, bit) ==
  IF bit # run.prevBit THEN 0 ELSE IF run.same = 0 THEN 2 ELSE run.same + 1

\* After five equal bits comes a stuff bit, the first of the next run.
StuffStep(s, bit) ==
  IF SameBits(s, bit) = 5
  THEN [out |-> s.out \o <<bit, 1 - bit>>, prevBit |-> 1 - bit, same |-> 0]
  ELSE [out |-> Append(s.out, bit), prevBit |-> bit, same |-> SameBits(s, bit)]

\* Mutant: the bit after the stuff bit is compared with the bit before it.
DestuffStep_PrevKept(s, bit) ==
  IF s.skip THEN [s EXCEPT !.skip = FALSE]
  ELSE LET full == SameBits(s, bit) = 5
       IN  [out |-> Append(s.out, bit), prevBit |-> bit, skip |-> full,
            same |-> IF full THEN 0 ELSE SameBits(s, bit)]

DestuffStep(s, bit) ==
  IF s.skip THEN [s EXCEPT !.prevBit = bit, !.skip = FALSE]
  ELSE LET full == SameBits(s, bit) = 5
       IN  [out |-> Append(s.out, bit), prevBit |-> bit, skip |-> full,
            same |-> IF full THEN 0 ELSE SameBits(s, bit)]

\* A frame with stuff bits ends at the tenth of a run.
SampleStep(s, bit) ==
  IF s.same = 10 THEN s
  ELSE [count |-> s.count + 1, prevBit |-> bit, same |-> SameBits(s, bit)]

Step(loop, s, bit) ==
  CASE loop = "crc"     -> CrcStep(s, bit)
    [] loop = "stuff"   -> StuffStep(s, bit)
    [] loop = "destuff" -> DestuffStep(s, bit)
    [] loop = "sample"  -> SampleStep(s, bit)

\* The loop over the bits of b.
Over(loop, s, b) ==
  LET after[i \in 0 .. Len(b)] ==
        IF i = 0 THEN s ELSE Step(loop, after[i - 1], b[i])
  IN  after[Len(b)]

\* The same in parts of 16 bits.  Each takes the outcome of the one before it from
\* a set, so that TLC has evaluated that before it begins.
Loop(loop, s, b) ==
  LET end(k) == IF 16 * k < Len(b) THEN 16 * k ELSE Len(b)
      after[k \in 0 .. Len(b) \div 16 + 1] ==
        IF k = 0 THEN s
        ELSE CHOOSE t \in {Over(loop, mid, SubSeq(b, end(k - 1) + 1, end(k))) :
                             mid \in {after[k - 1]}} : TRUE
  IN  after[Len(b) \div 16 + 1]

Crc(b) ==
  LET crcReg == Loop("crc", {}, b)
  IN  [i \in 1 .. 15 |-> IF 15 - i \in crcReg THEN 1 ELSE 0]

Stuffed(b) ==
  Loop("stuff", [out |-> <<b[1]>>, prevBit |-> b[1], same |-> 0], Tail(b)).out

\* The first bit is compared with the -1 that rxBitStream was filled with, so a
\* run that begins with the first bit counts one bit less.
Destuffed(b) ==
  Loop("destuff", [out |-> <<b[1]>>, prevBit |-> -1, same |-> 0, skip |-> FALSE], Tail(b)).out

-----------------------------------------------------------------------------
(* generateTxCanFrame                                                      *)

TxCanBitStream(f) ==
  LET head  == <<0>> \o Bits(f.id, 11) \o <<0, 0, 0>> \o Bits(Len(f.data), 4)
      body  == head \o BytesToBits(f.data)
      frame == body \o Crc(body) \o <<1>>
  IN  (IF stuffing THEN Stuffed(frame) ELSE frame) \o [i \in 1 .. 14 |-> 1]

-----------------------------------------------------------------------------
(* onClockInterrupt: the samples of one frame.                             *)

\* What the line carries: the frame with its disturbed bits, then the idle level.
Line ==
  LET b == TxCanBitStream(sent)
  IN  [i \in 1 .. STREAM_SIZE_W_BIT_STUFFING |->
        IF i > Len(b) THEN 1 ELSE IF i \in noise THEN 1 - b[i] ELSE b[i]]

\* The number of samples taken: all that have a place, or with stuffing those up
\* to the tenth of a run.
SampleCount(b) ==
  IF stuffing THEN Loop("sample", [count |-> 0, prevBit |-> 0, same |-> 0], b).count
  ELSE STREAM_SIZE_WO_BIT_STUFFING

Samples ==
  LET b == Line
      n == SampleCount(b)
  IN  [i \in DOMAIN rxCanBitStream |-> IF i <= n THEN b[i] ELSE rxCanBitStream[i]]

-----------------------------------------------------------------------------
(* parseRxCanFrame: its return value, and the identifier and the data that *)
(* it has written by then, whether it accepts the frame or not.            *)

HeaderBits == <<1, 13, 14, 15>>

\* The number of the first header bit that is not dominant, or 0.
HeaderError(b) ==
  LET wrong == {k \in DOMAIN HeaderBits : b[HeaderBits[k]] # 0}
  IN  IF wrong = {} THEN 0 ELSE CHOOSE k \in wrong : \A j \in wrong : k <= j

Body(b, len) ==
  LET end       == 19 + 8 * len
      crcAgrees == Crc(SubSeq(b, 1, end)) = SubSeq(b, end + 1, end + 15)
  IN  [ret  |-> IF crcAgrees THEN len ELSE -5,
       id   |-> Number(SubSeq(b, 2, 12)),
       data |-> BitsToBytes(SubSeq(b, 20, end))]

Parsed(stream) ==
  LET b == IF stuffing THEN Destuffed(stream) ELSE stream
  IN  IF HeaderError(b) # 0
      THEN [ret  |-> -HeaderError(b),
            id   |-> IF b[1] # 0 THEN 0 ELSE Number(SubSeq(b, 2, 12)),
            data |-> <<>>]
      ELSE Body(b, Number(SubSeq(b, 16, 19)))

-----------------------------------------------------------------------------
NO_RESULT == [ret |-> 0, id |-> 0, data |-> <<>>]

\* Both constructors; the static streams are zero.
Init ==
  /\ stuffing \in BOOLEAN
  /\ sent = [id |-> 0, data |-> <<>>] /\ noise = {}
  /\ rxCanBitStream = [i \in 1 .. STREAM_SIZE_W_BIT_STUFFING |-> 0]
  /\ result = NO_RESULT /\ onLine = FALSE
  /\ frames = 0 /\ flips = 0

Transmit ==
  /\ ~onLine /\ frames < MaxFrames
  /\ \E id \in FrameIds, d \in DataFields : sent' = [id |-> id, data |-> d]
  /\ frames' = frames + 1
  /\ noise' = {} /\ result' = NO_RESULT /\ onLine' = TRUE
  /\ UNCHANGED <<stuffing, rxCanBitStream, flips>>

\* The line disturbs a bit, but not the falling edge that begins the frame.
Disturb ==
  /\ onLine /\ flips < MaxFlips
  /\ \E i \in 2 .. Len(TxCanBitStream(sent)) :
       /\ \A j \in noise : j < i
       /\ noise' = noise \union {i}
  /\ flips' = flips + 1
  /\ UNCHANGED <<stuffing, sent, rxCanBitStream, result, onLine, frames>>

\* The frame is collected, and parsed before the next one comes.
Receive ==
  /\ onLine
  /\ rxCanBitStream' = Samples
  /\ result' = Parsed(rxCanBitStream')
  /\ onLine' = FALSE
  /\ UNCHANGED <<stuffing, sent, noise, frames, flips>>

Next == Transmit \/ Disturb \/ Receive

Spec == Init /\ [][Next]_vars

-----------------------------------------------------------------------------
(* Properties.                                                             *)

Received == frames > 0 /\ ~onLine

Accepted == result = [ret |-> Len(sent.data), id |-> sent.id, data |-> sent.data]

\* The first run of equal bits reaches the length that is stuffed.
RunAtTheStart == sent.id < 128

\* A frame that nothing disturbed is returned as it was sent, whatever an earlier
\* frame left in the buffer, with and without stuffing; with stuffing this fails
\* for the frames that begin with five equal bits, which the destuffer miscounts.
\* Without stuffing, the one mode that is in use, a disturbed frame that comes
\* back with the length that was sent is the frame that was sent: the checksum
\* finds every other error.
ReturnsWhatWasSent ==
  Received =>
    /\ noise = {} /\ ~(stuffing /\ RunAtTheStart) => Accepted
    /\ ~stuffing /\ result.ret = Len(sent.data) => Accepted

\* The data length code is 0-8 bytes (canbygpio.h:45), and callers pass a buffer
\* of eight words; the parser writes a data field before it has checked anything
\* that depends on its length.
DataFitsBuffer == Len(result.data) <= 8
=============================================================================
