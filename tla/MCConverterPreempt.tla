------------------------- MODULE MCConverterPreempt -------------------------
(***************************************************************************)
(* The preemptible handlers as they are: the module has no constants.      *)
(***************************************************************************)
EXTENDS ConverterPreempt
=============================================================================
