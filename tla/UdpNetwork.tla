----------------------------- MODULE UdpNetwork -----------------------------
(***************************************************************************)
(* The datagram network between the UDP clients (windows_udp_client) and   *)
(* the UDP server (linux_udp_server), and the kernel sockets at its ends.  *)
(* None of it is code of the repository: it is modelled from how the       *)
(* programs use sendto, recvfrom, select and epoll.                        *)
(*                                                                         *)
(* A datagram is identified by the client that sent it and the number of   *)
(* the message in it; its destination port is the one that client was      *)
(* given on its command line.  A reply carries the four bytes the server   *)
(* sends back, a message number, to one client.  Both directions are sets: *)
(* the network may lose, delay, reorder and duplicate.                     *)
(***************************************************************************)
EXTENDS Integers, FiniteSets

CONSTANTS
  Clients,  \* the running client processes
  Ports,    \* the ports the server was started with
  PortOf,   \* the server port each client was given
  Lines,    \* how many messages each client read from its file
  QueueLen  \* how many datagrams the socket queue holds

ASSUME NetworkAssumption ==
  /\ PortOf \in [Clients -> Ports]
  /\ Lines \in [Clients -> Nat]
  /\ QueueLen \in Nat \ {0}

VARIABLES
  toServer,     \* datagrams on their way to the server
  inbox,        \* datagrams in the server's socket queues
  replies,      \* message numbers on their way back
  answers,      \* message numbers in the clients' socket queues
  unreachable   \* clients with a pending "port unreachable" socket error

netVars == <<toServer, inbox, replies, answers, unreachable>>

LineNumbers(c) == 0 .. (Lines[c] - 1)

Msg == UNION {[from : {c}, num : LineNumbers(c)] : c \in Clients}

NetTypeOK ==
  /\ toServer \subseteq Msg
  /\ inbox \subseteq Msg
  /\ replies \subseteq [to : Clients, num : Nat]
  /\ answers \subseteq [to : Clients, num : Nat]
  /\ unreachable \subseteq Clients

NetInit ==
  /\ toServer = {}
  /\ inbox = {}
  /\ replies = {}
  /\ answers = {}
  /\ unreachable = {}

-----------------------------------------------------------------------------
Queued(p) == {m \in inbox : PortOf[m.from] = p}

QueuedFor(c) == {r \in answers : r.to = c}

\* A datagram reaches the server's socket; the network may keep a copy.
Deliver(m) ==
  /\ m \in toServer
  /\ Cardinality(Queued(PortOf[m.from])) < QueueLen
  /\ inbox' = inbox \cup {m}
  /\ toServer' \in {toServer, toServer \ {m}}
  /\ UNCHANGED <<replies, answers, unreachable>>

\* A datagram is lost on the way, or dropped by a full socket queue.
Lose(m) ==
  /\ m \in toServer
  /\ toServer' = toServer \ {m}
  /\ UNCHANGED <<inbox, replies, answers, unreachable>>

\* A reply is lost on the way back.
LoseReply(r) ==
  /\ r \in replies
  /\ replies' = replies \ {r}
  /\ UNCHANGED <<toServer, inbox, answers, unreachable>>

\* A reply reaches the client's socket.
DeliverReply(r) ==
  /\ r \in replies
  /\ Cardinality(QueuedFor(r.to)) < QueueLen
  /\ answers' = answers \cup {r}
  /\ replies' \in {replies, replies \ {r}}
  /\ UNCHANGED <<toServer, inbox, unreachable>>

\* No process is bound to the port: the datagram is gone and the sender's
\* socket will report an error to its next receive call.
Refuse(m) ==
  /\ m \in toServer
  /\ toServer' = toServer \ {m}
  /\ unreachable' = unreachable \cup {m.from}
  /\ UNCHANGED <<inbox, replies, answers>>
=============================================================================
