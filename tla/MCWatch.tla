------------------------------- MODULE MCWatch -------------------------------
(* A small instance of Watch for TLC: three scans of a server with two     *)
(* surfaces, two alert channels.                                           *)
EXTENDS Watch

CONSTANTS i1, i2, i3, v1, v2
=============================================================================
