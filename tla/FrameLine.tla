------------------------------ MODULE FrameLine ------------------------------
(***************************************************************************)
(* What a line that carries whole frames promises.  Frames are numbered in *)
(* the order in which they begin; a frame is handed over after it has      *)
(* begun, as one piece and in its turn.  A lossless line hands every frame *)
(* over once.  A lossy one may leave frames out, and may hand a frame over *)
(* a second time before the next one.                                      *)
(***************************************************************************)
EXTENDS Naturals, Sequences

CONSTANT Lossy

VARIABLES
  begun,    \* the number of frames that have begun
  handed    \* the frames that were handed over, the oldest first

vars == <<begun, handed>>

LastHanded == IF handed = <<>> THEN 0 ELSE handed[Len(handed)]

Init == begun = 0 /\ handed = <<>>

Begin ==
  /\ begun' = begun + 1
  /\ UNCHANGED handed

HandedTwice(k) == Len(handed) > 1 /\ handed[Len(handed) - 1] = k /\ LastHanded = k

HandOver(k) ==
  /\ \/ k = LastHanded + 1
     \/ Lossy /\ k >= LastHanded /\ ~HandedTwice(k)
  /\ handed' = Append(handed, k)
  /\ UNCHANGED begun

Next == Begin \/ \E k \in 1 .. begun : HandOver(k)

Safety == Init /\ [][Next]_vars
=============================================================================
