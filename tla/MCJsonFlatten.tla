---------------------------- MODULE MCJsonFlatten ----------------------------
(* Three object keys for TLC: a plain one, one with a character that escapes to *)
(* two bytes, and one with a NUL.                                              *)
EXTENDS JsonFlatten

MCNames == {[key |-> 10, bytes |-> 1, escaped |-> 0, nul |-> FALSE],
            [key |-> 11, bytes |-> 2, escaped |-> 1, nul |-> FALSE],
            [key |-> 12, bytes |-> 2, escaped |-> 0, nul |-> TRUE]}
==============================================================================
