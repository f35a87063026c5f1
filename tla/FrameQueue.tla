----------------------------- MODULE FrameQueue -----------------------------
(***************************************************************************)
(* What the CAN server promises the sender of frames: for every kind of    *)
(* frame there is a queue of two places.  A frame that finds no place is   *)
(* dropped, a frame that was accepted is answered once, in its turn.       *)
(***************************************************************************)
EXTENDS Naturals, Sequences

CONSTANTS
  Objects,  \* the kinds of frames
  Content   \* what the frames of each kind may contain

VARIABLES
  queue,   \* the frames accepted and not yet answered, of each kind
  served   \* the frame answered last, of each kind

vars == <<queue, served>>

Init ==
  /\ queue = [o \in Objects |-> <<>>]
  /\ served = [o \in Objects |-> "none"]

Accept(o) ==
  /\ Len(queue[o]) < 2
  /\ \E v \in Content[o] : queue' = [queue EXCEPT ![o] = Append(@, v)]
  /\ UNCHANGED served

Serve(o) ==
  /\ queue[o] # <<>>
  /\ served' = [served EXCEPT ![o] = Head(queue[o])]
  /\ queue' = [queue EXCEPT ![o] = Tail(@)]

Next == \E o \in Objects : Accept(o) \/ Serve(o)

Safety == Init /\ [][Next]_vars

\* Every accepted frame is answered.
Spec == Safety /\ \A o \in Objects : WF_vars(Serve(o))
=============================================================================
