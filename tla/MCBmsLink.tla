----------------------------- MODULE MCBmsLink -----------------------------
(***************************************************************************)
(* MCBmsLink.cfg asks about time: one command object, the requests that    *)
(* touch the watchdog or the error register, and a period of three ticks.  *)
(* MCBmsLinkFrames.cfg asks about content: an object that carries no       *)
(* command, with two contents, two requests, and no ticks.                 *)
(***************************************************************************)
EXTENDS BmsLink
=============================================================================
