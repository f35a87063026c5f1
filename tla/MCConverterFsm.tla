--------------------------- MODULE MCConverterFsm ---------------------------
(***************************************************************************)
(* The converter's state machine with one error of each kind and the delays *)
(* of fsm.cpp scaled down: what matters is which of two delays is longer.   *)
(***************************************************************************)
EXTENDS ConverterFsm
=============================================================================
