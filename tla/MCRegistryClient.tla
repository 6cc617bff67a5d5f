-------------------------- MODULE MCRegistryClient --------------------------
(* A small instance of RegistryClient for TLC.                             *)
EXTENDS RegistryClient, TLC

CONSTANTS p1, p2
=============================================================================
