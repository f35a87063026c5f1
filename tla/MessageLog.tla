----------------------------- MODULE MessageLog -----------------------------
(***************************************************************************)
(* What the message log of the device promises, without its ring, its      *)
(* flags and its critical sections: a bounded log, messages leave it in    *)
(* the order in which they came, a message that the second processor hands *)
(* over is put into the log once, unless the log is full then, and a       *)
(* reader is shown the message that it removes.                            *)
(***************************************************************************)
EXTENDS Naturals, Sequences

CONSTANTS Capacity, Messages, NO_MESSAGE

VARIABLES
  log,      \* the messages that are waiting for a reader
  pending,  \* the message the second processor hands over, or NO_MESSAGE
  shown     \* what the last reader was shown

vars == <<log, pending, shown>>

Init ==
  /\ log \in Seq(Messages) /\ Len(log) <= Capacity
  /\ pending = NO_MESSAGE /\ shown = NO_MESSAGE

Add(m) ==
  /\ Len(log) < Capacity
  /\ log' = Append(log, m)
  /\ UNCHANGED <<pending, shown>>

\* The oldest message is shown and removed.
Read ==
  \/ log # <<>> /\ shown' = Head(log) /\ log' = Tail(log) /\ UNCHANGED pending
  \/ log = <<>> /\ shown' = NO_MESSAGE /\ UNCHANGED <<log, pending>>

\* The second processor has the oldest message removed.
Discard ==
  /\ log # <<>>
  /\ log' = Tail(log)
  /\ UNCHANGED <<pending, shown>>

HandOver(m) ==
  /\ pending = NO_MESSAGE
  /\ pending' = m
  /\ UNCHANGED <<log, shown>>

Transfer ==
  /\ pending # NO_MESSAGE
  /\ log' = IF Len(log) < Capacity THEN Append(log, pending) ELSE log
  /\ pending' = NO_MESSAGE
  /\ UNCHANGED shown

Next == Read \/ Discard \/ Transfer \/ \E m \in Messages : Add(m) \/ HandOver(m)

Safety == Init /\ [][Next]_vars

\* What was handed over is taken over.
Spec == Safety /\ WF_vars(Transfer)
=============================================================================
