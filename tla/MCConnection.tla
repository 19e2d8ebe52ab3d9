---------------------------- MODULE MCConnection ----------------------------
(* An instance of Connection for TLC: two calls, of which b may be refused,  *)
(* may not encode, and may be dropped by its caller.                         *)
EXTENDS Connection

CONSTANTS a, b

TwoCalls == {a, b}
OnlyB == {b}
=============================================================================
