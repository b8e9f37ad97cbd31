---------------------------- MODULE MCSyncTextApi ----------------------------
(* The synchronous exports with CAPL threads as model values for TLC. *)
EXTENDS SyncTextApi

CONSTANTS script
==============================================================================
