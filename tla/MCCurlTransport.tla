--------------------------- MODULE MCCurlTransport ---------------------------
(* The transport with threads as model values for TLC. *)
EXTENDS CurlTransport

CONSTANTS worker, caller

==============================================================================
