----------------------------- MODULE MCUdpSystem -----------------------------
(***************************************************************************)
(* Small instances of UdpSystem for TLC.                                   *)
(***************************************************************************)
EXTENDS UdpSystem

CONSTANTS a, b   \* two clients

\* The ports: one that all clients were given, or one for each client.
OnePort == [c \in Clients |-> 1]
TwoPorts == [c \in Clients |-> IF c = a THEN 1 ELSE 2]
Addresses == [c \in Clients |-> IF c = a THEN "h1" ELSE "h2"]

\* The files: how many messages, and which of them are "stop".
OneLine == [c \in Clients |-> 1]
TwoLines == [c \in Clients |-> 2]
ThreeLines == [c \in Clients |-> 3]
TwoOneLines == [c \in Clients |-> IF c = a THEN 2 ELSE 1]
NoStop == [c \in Clients |-> {}]
LastIsStop == [c \in Clients |-> {Lines[c] - 1}]
FirstOfA == [c \in Clients |-> IF c = a THEN {0} ELSE {}]
=============================================================================
