-------------------------- MODULE MCFuelcellMonitor --------------------------
(***************************************************************************)
(* Two cells, one of them the master, and one fault of each kind.          *)
(***************************************************************************)
EXTENDS FuelcellMonitor
=============================================================================
