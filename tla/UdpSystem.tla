------------------------------ MODULE UdpSystem ------------------------------
(***************************************************************************)
(* The UDP pair of the repository: the clients, the server and the network *)
(* between them.                                                           *)
(***************************************************************************)
EXTENDS UdpClient, UdpServer

vars == <<cliVars, srvVars, netVars>>

Init == NetInit /\ CliInit /\ SrvInit

\* A datagram gets to the server's host.
Arrive(m) == (Bound /\ Deliver(m)) \/ (~Bound /\ Refuse(m))

Network ==
  \/ \E m \in toServer : Arrive(m) \/ Lose(m)
  \/ \E r \in replies : LoseReply(r) \/ DeliverReply(r)

Next ==
  \/ \E c \in Clients : ClientStep(c) /\ UNCHANGED srvVars
  \/ ServerStep /\ UNCHANGED cliVars
  \/ Network /\ UNCHANGED <<cliVars, srvVars>>

Spec == Init /\ [][Next]_vars

(***************************************************************************)
(* Fairness.  Client and server are loops that never wait without a        *)
(* timeout, and the operator starts the server.  A socket queue is a FIFO, *)
(* so a datagram that keeps being sent is not passed over for ever, and    *)
(* the network does not lose every copy of it; nor does it lose every      *)
(* answer of a host on which nobody is bound to the port, and recvfrom     *)
(* reports such an error before any datagram.                              *)
(***************************************************************************)
ServerFairness == WF_vars(ServerStep /\ UNCHANGED cliVars)

Fairness ==
  /\ ServerFairness
  /\ \A c \in Clients :
       /\ WF_vars(ClientStep(c) /\ UNCHANGED srvVars)
       /\ SF_vars(RecvError(c) /\ UNCHANGED srvVars)
  /\ \A m \in Msg :
       /\ SF_vars(Arrive(m) /\ UNCHANGED <<cliVars, srvVars>>)
       /\ SF_vars(RecvMsg(m) /\ UNCHANGED cliVars)
       /\ SF_vars(/\ DeliverReply([to |-> m.from, num |-> m.num])
                  /\ UNCHANGED <<cliVars, srvVars>>)
       /\ SF_vars(/\ RecvResponse(m.from, [to |-> m.from, num |-> m.num])
                  /\ UNCHANGED srvVars)

FairSpec == Spec /\ Fairness

\* For what the server does whatever the clients and the network do.
ServerFairSpec == Spec /\ ServerFairness

-----------------------------------------------------------------------------
(***************************************************************************)
(* Properties                                                              *)
(***************************************************************************)
TypeOK == NetTypeOK /\ CliTypeOK /\ SrvTypeOK

\* The record that message m should leave in msg.txt.
Line(m) == [ip |-> HostOf[m.from], port |-> PortOf[m.from], msg |-> m]

Written(m) == file[Line(m)] > 0

\* Written, or acknowledged and about to be written by the running handler.
Accepted(m) ==
  Written(m) \/ (phase = "write" /\ Record(idx, raw_msg) = Line(m))

Dropped(m) == m.num \notin datagrams[m.from]

\* A client drops a message from its list only after the server accepted it:
\* a late, repeated or stray reply never removes another message.  Number 0 is
\* excepted, because the unfilled slots of the reply buffer read as 0.
AckedWritten == \A m \in Msg : Dropped(m) /\ m.num # 0 => Accepted(m)

\* A client that leaves its loop with messages still in the list does so
\* because AckLimit of them were dropped, and all of those but number 0 were
\* really accepted: the counter and the list never drift apart.
LeavesForAReason ==
  \A c \in Clients :
    pc[c] = "done" /\ datagrams[c] # {} =>
      Cardinality({m \in Msg : m.from = c /\ Accepted(m)}) >= AckLimit - 1

\* The counter that ends the loop counts the messages dropped from the list, no
\* matter how many replies it took and what else was in them; a client stops at
\* an empty list or at AckLimit and nowhere else.
CountsAgree ==
  \A c \in Clients :
    /\ sent_msgs[c] + Cardinality(datagrams[c]) = Lines[c]
    /\ pc[c] = "done" => datagrams[c] = {} \/ sent_msgs[c] >= AckLimit

\* Where recvfrom may fail a record can stand under an address of the server's
\* own host: the port had received nothing before, or its answer to nobody.
UnderOwnAddress(r) == r.port \in FailingPorts /\ r.ip \in OwnHosts

\* Whatever is in msg.txt under the address of a client was sent by this client
\* to the port that stands there, although the buffer is shared by all ports and
\* the address is kept with the port.
RecordNamesSender ==
  \A r \in Records : file[r] > 0 =>
    \/ UnderOwnAddress(r)
    \/ r.msg # None /\ r = Line(r.msg)

\* Where recvfrom may fail on several ports the buffer of one is written with
\* the address of another, and neither AckedWritten nor RecordNamesSender holds.
\* What is left: the port in front of a record is one that clients were given,
\* and the address that of such a client, or of the server's own host.
RecordsFromPort ==
  \A r \in Records : file[r] > 0 =>
    \E c \in Clients : PortOf[c] = r.port /\ (HostOf[c] = r.ip \/ UnderOwnAddress(r))

\* And nothing gets into the file of a server under a wrong address only: the
\* text of a message written for another client, or for the server itself, also
\* stands there under the address of its sender.
WrongAddressRepeats ==
  phase \notin {"off", "failed"} =>
    \A r \in Records : file[r] > 0 /\ r.msg # None => Written(r.msg)

StopWritten == \E r \in Records : file[r] > 0 /\ IsStop(r.msg)

\* The server closes only after a "stop" was written, and after one was written
\* it never waits for another batch, whatever else that batch holds.
StopHonoured ==
  /\ phase = "closed" => StopWritten
  /\ StopWritten => phase \notin {"off", "wait", "failed"}

\* A "stop" that was received ends the server, whatever is still in the batch
\* and whatever is still queued.
StopEndsServer == stop_received ~> phase = "closed"

ServerGone == phase \in {"closed", "failed"}

\* Every client gets through its loop in the end, unless the server is gone
\* while it still holds a message other than number 0: that one alone does not
\* keep it, because the refusals of the server's host strike it out.
ClientsLeave ==
  \A c \in Clients :
    <>(pc[c] = "done" \/ (ServerGone /\ datagrams[c] \ {0} # {}))

-----------------------------------------------------------------------------
(***************************************************************************)
(* The inductive invariants.  SInv is about the server alone and holds     *)
(* however many ports there are, and whatever recvfrom does; HInv is what  *)
(* the shared buffer adds where OneBufferOnePort holds; AInv ties the      *)
(* acknowledgements under way and the clients' lists to the server.        *)
(***************************************************************************)

\* A port keeps the address of a client that was given this port, from which
\* something was received then.
PeersOnTheirPort ==
  \A p \in Ports : peer[p] \in Clients => PortOf[peer[p]] = p /\ raw_msg # None

\* The handler works on a port that clients were given, and on an address that
\* is not a client's only where recvfrom may fail.
HandlerOnPort ==
  phase \in {"reply", "write"} =>
    /\ \E c \in Clients : PortOf[c] = idx
    /\ peer[idx] \in Clients \/ idx \in FailingPorts

\* So does what comes back to the server.
EchoesOnPort ==
  \A e \in echoes : e.port \in FailingPorts /\ \E c \in Clients : PortOf[c] = e.port

\* What is in the buffer was written for its sender, or is about to be.
BufferWritten ==
  /\ phase \in {"off", "failed"} => raw_msg = None
  /\ raw_msg # None =>
       \/ Written(raw_msg)
       \/ phase \in {"reply", "write"} /\ Record(idx, raw_msg) = Line(raw_msg)

\* No number is ever added to recv_msg_numb, so no message is an old one.
NoNumberRecorded == \A e \in client_database : e.recv_msg_numb = {}

\* While the server runs, stop_received says what is in its file, and it decides
\* where the server goes at the end of a batch.
StopIsRemembered ==
  /\ phase \notin {"off", "failed"} => (stop_received <=> StopWritten)
  /\ phase = "closed" => stop_received
  /\ phase \in {"off", "wait", "failed"} => ~stop_received

SInv ==
  /\ TypeOK
  /\ PeersOnTheirPort
  /\ HandlerOnPort
  /\ EchoesOnPort
  /\ BufferWritten
  /\ NoNumberRecorded
  /\ StopIsRemembered
  /\ RecordsFromPort
  /\ WrongAddressRepeats

\* What the shared buffer needs: where recvfrom may fail, all clients use one
\* port.  Otherwise the stale buffer of one port is answered, and written, on
\* behalf of the client of another.
OneBufferOnePort ==
  FailingPorts # {} => \A c, d \in Clients : PortOf[c] = PortOf[d]

\* As long as its port keeps the address of a client, the buffer holds a message
\* of this client, the number in front of it included.
BufferMatchesPeer ==
  raw_msg # None /\ peer[PortOf[raw_msg.from]] \in Clients =>
    peer[PortOf[raw_msg.from]] = raw_msg.from /\ raw_numb = raw_msg.num

\* What the handler does for a client it does with a message that arrived on
\* the port it answers from.
HandlerMatchesBuffer ==
  phase \in {"reply", "write"} /\ peer[idx] \in Clients => idx = PortOf[raw_msg.from]

HInv == BufferMatchesPeer /\ HandlerMatchesBuffer /\ RecordNamesSender

\* The number in a reply is looked at alone, without the datagram it answers:
\* what it says of its receiver must be true of this server, or of the messages
\* in before, which are those that servers before it had accepted.
RepliesAreTrue(before) ==
  \A r \in replies \cup answers :
    LET m == [from |-> r.to, num |-> r.num]
    IN  m \in Msg /\ (Accepted(m) \/ m \in before)

DropsAreTrue(before) ==
  \A m \in Msg : Dropped(m) /\ m.num # 0 => Accepted(m) \/ m \in before

\* A server that has not truncated the file yet has nothing of its own in it.
OldFile(before) == phase = "off" => \A m \in Msg : Accepted(m) => m \in before

AInv(before) == RepliesAreTrue(before) /\ DropsAreTrue(before) /\ OldFile(before)

\* A server that did not start has written nothing.
NothingBeforeStart == phase \in {"off", "failed"} => file = EmptyFile

\* All that the server's handler relies on from one datagram to the next: every
\* reply under way is true of its receiver, and buffer, address and port agree.
IInv == SInv /\ HInv /\ AInv({}) /\ NothingBeforeStart

-----------------------------------------------------------------------------
\* The pair implements the acknowledged transfer.
Transfer == INSTANCE AckedTransfer
              WITH outstanding <- datagrams,
                   accepted <- {m \in Msg : Accepted(m)}

ImplementsTransfer == Transfer!Spec

\* What "Some msgs didnt arrive / Resending..." says: the messages that did not
\* arrive stay in the list and are sent again.
MissedAreResent == \A m \in Msg : Dropped(m) => Accepted(m)

\* What if_old_msg is for: a message received before is not written again.
WrittenOnce == \A r \in Records : file[r] <= 1
=============================================================================
