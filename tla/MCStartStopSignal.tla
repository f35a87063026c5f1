-------------------------- MODULE MCStartStopSignal --------------------------
(***************************************************************************)
(* A frame may take longer than a period, so that the transceiver can be   *)
(* busy when the next frame is due.                                        *)
(***************************************************************************)
EXTENDS StartStopSignal
=============================================================================
