------------------------------ MODULE TcpClient ------------------------------
(***************************************************************************)
(* The TCP client, linux_tcp_client.                                       *)
(*                                                                         *)
(* It connects, sends "put" and all its messages without waiting, and then *)
(* counts "ok" answers until it has one for each message or has failed     *)
(* more than BadLimit times in a row.  Answers are told by strcmp on a     *)
(* buffer of three bytes of which recv fills two at most: the third is     *)
(* never set, and after a recv that returns nothing all three are what the *)
(* call before has left there.                                             *)
(***************************************************************************)
EXTENDS TcpConnection

CONSTANTS
  MaxTries,       \* 10: attempts to connect
  BadLimit,       \* 10: failures in a row that are borne
  TailMayDiffer,  \* whether the byte behind "ok" may be other than zero
  MayDie          \* whether a client may be killed

ASSUME TcpClientAssumption ==
  /\ MaxTries \in Nat \ {0}
  /\ BadLimit \in Nat
  /\ TailMayDiffer \in BOOLEAN
  /\ MayDie \in BOOLEAN

VARIABLES
  pc,      \* where each client is in main
  tries,   \* attempts to connect that have failed
  acked,   \* i in recvn_response_ok
  bad,     \* bad_tries
  filled   \* whether the buffer has held an "ok" before

cliVars == <<pc, tries, acked, bad, filled>>

CliTypeOK ==
  /\ pc \in [Clients -> {"connect", "send", "recv", "closed", "failed", "dead"}]
  /\ tries \in [Clients -> 0 .. MaxTries]
  /\ acked \in [Clients -> Nat]
  /\ bad \in [Clients -> 0 .. BadLimit + 1]
  /\ filled \in [Clients -> BOOLEAN]
  /\ \A c \in Clients : acked[c] <= Lines[c]

CliInit ==
  /\ pc = [c \in Clients |-> "connect"]
  /\ tries = [c \in Clients |-> 0]
  /\ acked = [c \in Clients |-> 0]
  /\ bad = [c \in Clients |-> 0]
  /\ filled = [c \in Clients |-> FALSE]

-----------------------------------------------------------------------------
\* connect succeeds as soon as the connection waits for accept.
Connect(c, listening) ==
  /\ pc[c] = "connect"
  /\ listening /\ Len(pending) < Backlog
  /\ pending' = Append(pending, c)
  /\ pc' = [pc EXCEPT ![c] = "send"]
  /\ UNCHANGED <<tries, acked, bad, filled, sent, arrived, taken, oks, ended, hungup>>

\* Nobody listens, or the queue is full: after the last attempt the client exits.
ConnectFails(c, listening) ==
  /\ pc[c] = "connect"
  /\ ~(listening /\ Len(pending) < Backlog)
  /\ tries' = [tries EXCEPT ![c] = @ + 1]
  /\ pc' = [pc EXCEPT ![c] = IF tries'[c] = MaxTries THEN "failed" ELSE @]
  /\ UNCHANGED <<acked, bad, filled, netVars>>

\* init_talk_with_server and send_client_msgs: one piece of the stream.  The
\* result of send is not looked at.
SendPiece(c) ==
  /\ pc[c] = "send"
  /\ sent' = [sent EXCEPT ![c] = @ + 1]
  /\ pc' = [pc EXCEPT ![c] = IF sent'[c] = Pieces(c) THEN "recv" ELSE @]
  /\ UNCHANGED <<tries, acked, bad, filled, arrived, taken, oks, pending, ended, hungup>>

\* Mutant: bad_tries is not counted.
CountForgiving(c, isOk) ==
  /\ acked' = [acked EXCEPT ![c] = IF isOk THEN @ + 1 ELSE @]
  /\ bad' = [bad EXCEPT ![c] = 0]

\* One turn of recvn_response_ok's loop, with what recv_response_ok returned.
Count(c, isOk) ==
  /\ acked' = [acked EXCEPT ![c] = IF isOk THEN @ + 1 ELSE @]
  /\ bad' = [bad EXCEPT ![c] = IF isOk THEN 0 ELSE @ + 1]

\* Mutant: failures are borne without limit.
WaitingForAll(c) == pc[c] = "recv" /\ acked[c] < Lines[c]

\* The loop of recvn_response_ok goes on.
Waiting(c) == pc[c] = "recv" /\ acked[c] < Lines[c] /\ bad[c] <= BadLimit

\* recv returns an "ok".
RecvOk(c) ==
  /\ Waiting(c)
  /\ oks[c] > 0
  /\ oks' = [oks EXCEPT ![c] = @ - 1]
  /\ \E isOk \in {TRUE, ~TailMayDiffer} : Count(c, isOk)
  /\ filled' = [filled EXCEPT ![c] = TRUE]
  /\ UNCHANGED <<pc, tries, sent, arrived, taken, pending, ended, hungup>>

\* recv returns nothing because the server has closed the connection.  An
\* earlier "ok" may still be in the buffer.
RecvNothing(c) ==
  /\ Waiting(c)
  /\ oks[c] = 0 /\ c \in hungup
  /\ \E isOk \in {FALSE, filled[c]} : Count(c, isOk)
  /\ UNCHANGED <<pc, tries, filled, netVars>>

\* recvn_response_ok has returned, whatever it returned; the socket is closed.
Finish(c) ==
  /\ pc[c] = "recv"
  /\ ~Waiting(c)
  /\ pc' = [pc EXCEPT ![c] = "closed"]
  /\ CloseSide(c)
  /\ UNCHANGED <<tries, acked, bad, filled>>

\* The process is killed.
Die(c) ==
  /\ MayDie
  /\ pc[c] \in {"send", "recv"}
  /\ pc' = [pc EXCEPT ![c] = "dead"]
  /\ CloseSide(c)
  /\ UNCHANGED <<tries, acked, bad, filled>>

ClientStep(c, listening) ==
  \/ Connect(c, listening)
  \/ ConnectFails(c, listening)
  \/ SendPiece(c)
  \/ RecvOk(c)
  \/ RecvNothing(c)
  \/ Finish(c)
=============================================================================
