------------------------------ MODULE UdpServer ------------------------------
(***************************************************************************)
(* The UDP server, linux_udp_server: one process, one thread, several      *)
(* ports.                                                                  *)
(*                                                                         *)
(* epoll_wait returns a batch of readable ports; for each of them the      *)
(* server receives one datagram, looks its sender up, sends the message    *)
(* number back, and only then formats the message and writes it to the     *)
(* file.  A message "stop" ends the loop once its batch is finished.       *)
(*                                                                         *)
(* raw_msg, the receive buffer, is shared by all ports and never cleared;  *)
(* the address a port last received from is kept with the port, and until  *)
(* something was received it is the one the port was bound with; the       *)
(* result of recvfrom is not looked at.                                    *)
(*                                                                         *)
(* Where recvfrom fails before a port has received anything the server     *)
(* answers 0.0.0.0, which is the host it runs on: the four bytes can come  *)
(* back to the port they were sent from, and are taken for a datagram.     *)
(***************************************************************************)
EXTENDS UdpNetwork

CONSTANTS
  HostOf,       \* the IP address of each client
  StopLines,    \* which messages of each client have the text "stop"
  MaxEvents,    \* MAXEVENTS_PER_CALL
  MaxCopies,    \* bound: copies of one record beyond this are not told apart
  FailingPorts, \* the ports on which recvfrom may fail when epoll reported them
  EchoPorts,    \* bound: the ports to which an answer to 0.0.0.0 can come back
  AnyHost,      \* 0.0.0.0, the address all ports are bound with
  OwnHost,      \* 127.0.0.1, whence the server's own datagrams come back to it
  None          \* no port, or a buffer that is still all zeros

OwnHosts == {AnyHost, OwnHost}

Hosts == {HostOf[c] : c \in Clients} \cup OwnHosts

\* A line of msg.txt: the zeros of a buffer nothing has arrived in are written
\* like a message.
Records == [ip : Hosts, port : Ports, msg : Msg \cup {None}]

EmptyFile == [r \in Records |-> 0]

ASSUME ServerAssumption ==
  /\ StopLines \in [Clients -> SUBSET Nat]
  /\ MaxEvents \in Nat \ {0}
  /\ MaxCopies \in Nat \ {0}
  /\ FailingPorts \subseteq Ports /\ EchoPorts \subseteq Ports
  /\ None \notin Ports
  /\ None \notin Msg
  /\ OwnHosts \cap Clients = {}
  /\ \A c \in Clients : HostOf[c] \notin OwnHosts   \* clients are on other machines

VARIABLES
  phase,            \* where the server is
  events,           \* ports of the batch that are still to be handled
  idx,              \* the port being handled
  raw_numb,         \* the number in the first four bytes of the receive buffer
  raw_msg,          \* the message whose bytes are behind them
  peer,             \* ports[p].ip: the client port p last received from, or an
                    \* address of the server's own host
  echoes,           \* the server's datagrams to its own ports, queued there
  client_database,
  stop_received,
  file              \* how often each record was written to msg.txt

srvVars == <<phase, events, idx, raw_numb, raw_msg, peer, echoes,
             client_database, stop_received, file>>

Keys == [ip : Hosts, port : Ports, recv_msg_numb : SUBSET Nat]

SrvTypeOK ==
  /\ phase \in {"off", "wait", "recv", "reply", "write", "closed", "failed"}
  /\ events \subseteq Ports
  /\ idx \in Ports \cup {None}
  /\ raw_numb \in Nat
  /\ raw_msg \in Msg \cup {None}
  /\ peer \in [Ports -> Clients \cup OwnHosts]
  /\ echoes \subseteq [port : Ports, num : Nat]
  /\ client_database \subseteq Keys
  /\ stop_received \in BOOLEAN
  /\ file \in [Records -> 0 .. MaxCopies]

SrvInit ==
  /\ phase = "off"
  /\ events = {}
  /\ idx = None
  /\ raw_numb = 0
  /\ raw_msg = None
  /\ peer = [p \in Ports |-> AnyHost]
  /\ echoes = {}
  /\ client_database = {}
  /\ stop_received = FALSE
  /\ file = EmptyFile

-----------------------------------------------------------------------------
Bound == phase \in {"wait", "recv", "reply", "write"}

Readable == {p \in Ports : Queued(p) # {} \/ \E e \in echoes : e.port = p}

AddressOf(who) == IF who \in Clients THEN HostOf[who] ELSE who

\* ClientData of the address a port last received from: the address is that
\* of the sender, the port is the server's own.
TempClient(p) == [ip |-> AddressOf(peer[p]), port |-> p]

Entry(key) ==
  {e \in client_database : e.ip = key.ip /\ e.port = key.port}

\* Mutant: a known client is taken for a known message.
IfKnownClient(key, n) == Entry(key) # {}

\* if_old_msg, for a client that get_client_index found.
IfOldMsg(key, n) == \E e \in Entry(key) : n \in e.recv_msg_numb

IsStop(m) == m # None /\ m.num \in StopLines[m.from]

\* Mutant: a port remembers the first address it received from.
PeerKeepsFirst(p, who) == IF peer[p] = AnyHost THEN [peer EXCEPT ![p] = who] ELSE peer

\* Mutant: one address serves all ports, like the buffer.
PeerOfAllPorts(p, who) == [q \in Ports |-> who]

\* Mutant: addrlen is zero, and recvfrom stores no address.
PeerUnset(p, who) == peer

\* recvfrom stores the address of the sender.
PeerAfter(p, who) == [peer EXCEPT ![p] = who]

\* Mutant: the type of the last message decides.
StopOfLast(m) == IsStop(m)

\* stop_received is set and never cleared.
StopAfter(m) == stop_received \/ IsStop(m)

Record(p, m) == [ip |-> AddressOf(peer[p]), port |-> p, msg |-> m]

\* Mutant: the loop does not test stop_received.
NextEventForever(rest, stopped) ==
  /\ events' = rest
  /\ phase' = IF rest # {} THEN "recv" ELSE "wait"

\* The batch goes on; when it is finished the loop tests stop_received.
NextEvent(rest, stopped) ==
  /\ events' = rest
  /\ phase' = IF rest # {} THEN "recv"
              ELSE IF stopped THEN "closed" ELSE "wait"

-----------------------------------------------------------------------------
\* Mutant: msg.txt is opened to append to it.
StartAppends ==
  /\ phase = "off"
  /\ phase' = "wait"
  /\ UNCHANGED <<events, idx, raw_numb, raw_msg, peer, echoes, client_database,
                 stop_received, file, netVars>>

\* main: sockets are opened and bound, msg.txt is truncated, epoll is set up.
Start ==
  /\ phase = "off"
  /\ phase' = "wait"
  /\ file' = EmptyFile
  /\ UNCHANGED <<events, idx, raw_numb, raw_msg, peer, echoes, client_database,
                 stop_received, netVars>>

\* A port is taken, or a descriptor cannot be had: exit(-1), before the file is
\* opened or after.
StartFails ==
  /\ phase = "off"
  /\ phase' = "failed"
  /\ file' \in {file, EmptyFile}
  /\ UNCHANGED <<events, idx, raw_numb, raw_msg, peer, echoes, client_database,
                 stop_received, netVars>>

\* epoll_wait returns the readable ports, MaxEvents of them at most.
EpollWait ==
  /\ phase = "wait"
  /\ Readable # {}
  /\ events' \in {E \in SUBSET Readable :
                    \/ E = Readable /\ Cardinality(E) <= MaxEvents
                    \/ Cardinality(E) = MaxEvents}
  /\ phase' = "recv"
  /\ UNCHANGED <<idx, raw_numb, raw_msg, peer, echoes, client_database,
                 stop_received, file, netVars>>

\* recvfrom fills the buffer and the address of the port.
RecvMsg(m) ==
  /\ phase = "recv"
  /\ m \in inbox /\ PortOf[m.from] \in events
  /\ idx' = PortOf[m.from]
  /\ raw_numb' = m.num /\ raw_msg' = m
  /\ peer' = PeerAfter(idx', m.from)
  /\ inbox' = inbox \ {m}
  /\ phase' = "reply"
  /\ UNCHANGED <<events, echoes, client_database, stop_received, file, toServer,
                 replies, answers, unreachable>>

\* recvfrom returns an answer the server has sent to itself: four bytes, over the
\* number of the message that was in the buffer.
RecvEcho(e) ==
  /\ phase = "recv"
  /\ e \in echoes /\ e.port \in events
  /\ idx' = e.port
  /\ raw_numb' = e.num
  /\ peer' = PeerAfter(idx', OwnHost)
  /\ echoes' = echoes \ {e}
  /\ phase' = "reply"
  /\ UNCHANGED <<events, raw_msg, client_database, stop_received, file, netVars>>

\* recvfrom fails, the kernel having discarded the datagram: buffer and
\* address keep what they held and are used as if they had just arrived.
RecvFails(m) ==
  /\ phase = "recv"
  /\ m \in inbox /\ PortOf[m.from] \in events \cap FailingPorts
  /\ idx' = PortOf[m.from]
  /\ inbox' = inbox \ {m}
  /\ phase' = "reply"
  /\ UNCHANGED <<events, raw_numb, raw_msg, peer, echoes, client_database,
                 stop_received, file, toServer, replies, answers, unreachable>>

\* send_msg_number: to the client, or to the server's own host, where the answer
\* is lost or queued at the port it comes from.
SendMsgNumber ==
  \/ /\ peer[idx] \in Clients
     /\ replies' = replies \cup {[to |-> peer[idx], num |-> raw_numb]}
     /\ UNCHANGED echoes
  \/ /\ peer[idx] \notin Clients
     /\ \/ idx \in EchoPorts /\ echoes' = echoes \cup {[port |-> idx, num |-> raw_numb]}
        \/ UNCHANGED echoes
     /\ UNCHANGED replies

\* The sender is looked up or added, and the number is sent back.  A message
\* recorded as received from this sender goes no further.
Reply ==
  /\ phase = "reply"
  /\ LET key == TempClient(idx)
         new == [ip |-> key.ip, port |-> key.port, recv_msg_numb |-> {}]
     IN  /\ client_database' = IF Entry(key) = {}
                               THEN client_database \cup {new}
                               ELSE client_database
         /\ IF IfOldMsg(key, raw_numb)
            THEN NextEvent(events \ {idx}, stop_received)
            ELSE phase' = "write" /\ UNCHANGED events
  /\ SendMsgNumber
  /\ UNCHANGED <<idx, raw_numb, raw_msg, peer, stop_received, file, toServer,
                 inbox, answers, unreachable>>

\* assemble_client_msg and write_msg_to_file.
WriteMsg ==
  /\ phase = "write"
  /\ stop_received' = StopAfter(raw_msg)
  /\ file' = [file EXCEPT ![Record(idx, raw_msg)] =
                IF @ < MaxCopies THEN @ + 1 ELSE @]
  /\ NextEvent(events \ {idx}, stop_received')
  /\ UNCHANGED <<idx, raw_numb, raw_msg, peer, echoes, client_database, netVars>>

ServerStep ==
  \/ Start
  \/ StartFails
  \/ EpollWait
  \/ \E m \in inbox : RecvMsg(m) \/ RecvFails(m)
  \/ \E e \in echoes : RecvEcho(e)
  \/ Reply
  \/ WriteMsg
=============================================================================
