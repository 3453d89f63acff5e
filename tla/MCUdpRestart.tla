---------------------------- MODULE MCUdpRestart ----------------------------
(***************************************************************************)
(* Small instances of UdpRestart.                                          *)
(***************************************************************************)
EXTENDS UdpRestart

CONSTANTS a, b

\* One client.
OnePort == [c \in Clients |-> 1]
Addresses == [c \in Clients |-> IF c = a THEN "h1" ELSE "h2"]
TwoLines == [c \in Clients |-> 2]
LastIsStop == [c \in Clients |-> {Lines[c] - 1}]
=============================================================================
