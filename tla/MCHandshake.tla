---------------------------- MODULE MCHandshake ----------------------------
(* An instance of Handshake for TLC. *)
EXTENDS Handshake

CONSTANTS a1, b1

\* a1 trusts b1, which knows it by discovery only.
OneWay == {<<a1, b1>>}
=============================================================================
