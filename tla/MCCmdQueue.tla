----------------------------- MODULE MCCmdQueue -----------------------------
(***************************************************************************)
(* Two external events and one internal one, in memory for three messages. *)
(***************************************************************************)
EXTENDS CmdQueue

CONSTANTS link, route, delself
MCEvent == {link, route, delself}
=============================================================================
