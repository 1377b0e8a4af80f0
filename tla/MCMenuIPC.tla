------------------------------ MODULE MCMenuIPC -------------------------------
(***************************************************************************)
(* A small instance of MenuIPC.                                            *)
(***************************************************************************)
EXTENDS MenuIPC
CONSTANTS a, b
TwoClients == {a, b}
OneClient == {a}
NoClient == {}
=============================================================================
