---------------------------- MODULE MCJsonQuotes ----------------------------
(* Short texts of every kind of character for TLC. *)
EXTENDS JsonQuotes

CONSTANT letter
=============================================================================
