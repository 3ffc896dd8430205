---------------------------- MODULE MCDashboard ----------------------------
(* An instance of Dashboard for TLC: an agent and a console. *)
EXTENDS Dashboard

CONSTANTS agent, console, name, harness
=============================================================================
