-------------------------- MODULE MCSyslogMessages --------------------------
(***************************************************************************)
(* SyslogMessages for TLC: a ring of three places, which wraps with one    *)
(* message, with two and with three in it, one message of the boot, and    *)
(* two messages of CPU2 to tell one from the next.                         *)
(***************************************************************************)
EXTENDS SyslogMessages
=============================================================================
