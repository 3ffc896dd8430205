---------------------------- MODULE MCBotManager ----------------------------
(***************************************************************************)
(* Instances of BotManager for TLC.  ShutdownEnds is a liveness property,  *)
(* so the identities are alike but not declared symmetric.                 *)
(***************************************************************************)
EXTENDS BotManager

CONSTANTS bot1, bot2, agent, space
=============================================================================
