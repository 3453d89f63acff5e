---------------------------- MODULE TcpConnection ----------------------------
(***************************************************************************)
(* The TCP connections between the clients (linux_tcp_client) and the      *)
(* server (windows_tcp_server).  None of it is code of the repository.     *)
(*                                                                         *)
(* What a client sends over its connection is fixed by its file: "put",    *)
(* then for each message the bytes in front of its text and the text.  Of  *)
(* this stream of pieces a connection has delivered the first ones; the    *)
(* server has taken some of those.  TCP keeps the order and loses nothing, *)
(* but does not keep the boundaries: the server finds in its socket        *)
(* whatever has arrived.                                                   *)
(***************************************************************************)
EXTENDS Integers, Sequences, FiniteSets

CONSTANTS
  Clients,     \* the client processes; each makes one connection
  Lines,       \* how many lines of each client's file have the right format
  TextPieces,  \* into how many pieces TCP may cut the text of its messages
  Backlog      \* how many connections wait for accept at most

ASSUME ConnectionAssumption ==
  /\ Lines \in [Clients -> Nat]
  /\ TextPieces \in [Clients -> Nat \ {0}]
  /\ Backlog \in Nat \ {0}

VARIABLES
  sent,      \* pieces the client has passed to send
  arrived,   \* pieces that have reached the server's socket
  taken,     \* pieces the server has received
  oks,       \* "ok" answers in the client's socket
  pending,   \* connections waiting for accept
  ended,     \* clients that have closed their side, or died
  hungup     \* clients whose connection the server has closed

netVars == <<sent, arrived, taken, oks, pending, ended, hungup>>

\* The pieces of a message: the bytes in front of its text, and the text.
MsgSize(c) == 1 + TextPieces[c]

\* The pieces of a client's stream: "put" and its messages.
Pieces(c) == 1 + Lines[c] * MsgSize(c)

\* The place of the first piece of message m in the stream.
HeadOf(c, m) == 2 + m * MsgSize(c)

\* The message, if any, whose first piece is piece k.
Heads(c, k) == {m \in 0 .. Lines[c] - 1 : HeadOf(c, m) = k}

NetTypeOK ==
  /\ sent \in [Clients -> Nat]
  /\ arrived \in [Clients -> Nat]
  /\ taken \in [Clients -> Nat]
  /\ \A c \in Clients : taken[c] <= arrived[c] /\ arrived[c] <= sent[c]
                          /\ sent[c] <= Pieces(c)
  /\ oks \in [Clients -> Nat]
  /\ pending \in Seq(Clients)
  /\ ended \subseteq Clients
  /\ hungup \subseteq Clients

NetInit ==
  /\ sent = [c \in Clients |-> 0]
  /\ arrived = [c \in Clients |-> 0]
  /\ taken = [c \in Clients |-> 0]
  /\ oks = [c \in Clients |-> 0]
  /\ pending = <<>>
  /\ ended = {}
  /\ hungup = {}

-----------------------------------------------------------------------------
Available(c) == arrived[c] - taken[c]

\* The end of the stream has arrived behind its last piece.
AtEnd(c) == c \in ended /\ arrived[c] = sent[c]

\* A socket is readable when it holds a piece or the end of the stream.
Readable(c) == Available(c) > 0 \/ AtEnd(c)

\* The next piece arrives, as long as there is a socket to hold it.
Arrive(c) ==
  /\ arrived[c] < sent[c] /\ c \notin hungup
  /\ arrived' = [arrived EXCEPT ![c] = @ + 1]
  /\ UNCHANGED <<sent, taken, oks, pending, ended, hungup>>

\* A client that closes, or is killed, leaves its stream to arrive.
CloseSide(c) ==
  /\ ended' = ended \cup {c}
  /\ UNCHANGED <<sent, arrived, taken, oks, pending, hungup>>

\* A side that has closed answers what still reaches it with a reset, and the
\* other side loses what it has not received yet: the server the rest of the
\* stream, the client its answers.
Reset(c) ==
  /\ sent[c] > taken[c] /\ oks[c] > 0
  /\ \/ /\ c \in ended
        /\ sent' = [sent EXCEPT ![c] = taken[c]]
        /\ arrived' = [arrived EXCEPT ![c] = taken[c]]
        /\ UNCHANGED oks
     \/ /\ c \in hungup
        /\ oks' = [oks EXCEPT ![c] = 0]
        /\ UNCHANGED <<sent, arrived>>
  /\ UNCHANGED <<taken, pending, ended, hungup>>
=============================================================================
