----------------------------- MODULE MCTcpSystem -----------------------------
(***************************************************************************)
(* Small instances of TcpSystem.                                           *)
(***************************************************************************)
EXTENDS TcpSystem, TLC

CONSTANTS c1, c2

TwoClients == {c1, c2}

\* The files: one message each, that of the first client "stop"; or two of the
\* first client, the second one "stop".
OneAndOne == c1 :> 1 @@ c2 :> 1
FirstIsStop == c1 :> {0} @@ c2 :> {}
TwoAndOne == c1 :> 2 @@ c2 :> 1
SecondIsStop == c1 :> {1} @@ c2 :> {}

\* The texts: the zero byte of the first client's in a piece of its own; or the
\* message of the second client longer than a buffer of three pieces.
CutAndShort == c1 :> 2 @@ c2 :> 1
ShortAndLong == c1 :> 1 @@ c2 :> 3

\* The long text begins with "stop": its first piece alone reads like a message.
NoCuts == c1 :> {} @@ c2 :> {}
FrontOfLong == c1 :> {} @@ c2 :> {<<2, 2>>}
=============================================================================
