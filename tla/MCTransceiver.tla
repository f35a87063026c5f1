--------------------------- MODULE MCTransceiver ---------------------------
(***************************************************************************)
(* Transceiver for TLC: a frame has two bits that are parsed and one that  *)
(* is not, the buffer one cell more, as in the code.  A pass of the main   *)
(* loop may be longer than the pause between two frames and longer than a  *)
(* bit.  Three frames come in: one is torn, the next is missed or lost to  *)
(* the flag, and one more follows.                                         *)
(***************************************************************************)
EXTENDS Transceiver
=============================================================================
