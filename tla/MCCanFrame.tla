----------------------------- MODULE MCCanFrame -----------------------------
(***************************************************************************)
(* CanFrame for TLC: an identifier of the fuel cells, and the two whose     *)
(* bits are all equal; data of eight bytes as the controller sends them,   *)
(* full of stuff bits and mixed, and a short field.  The second frame      *)
(* comes over the samples of the first, and either may be disturbed.       *)
(***************************************************************************)
EXTENDS CanFrame

Ids    == {0, 384, 2047}
Fields == {<<0, 0, 0, 0, 0, 255, 255, 255>>, <<105, 0, 62, 120, 31, 1, 224, 7>>, <<124, 31>>}

FirstCell   == {384}
MixedFields == {<<105, 0, 62, 120, 31, 1, 224, 7>>}
=============================================================================
