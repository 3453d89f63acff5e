------------------------------ MODULE TcpServer ------------------------------
(***************************************************************************)
(* The TCP server, windows_tcp_server.                                     *)
(*                                                                         *)
(* Its loop waits in select, accepts one connection at most, and then goes *)
(* through the table of plugged sockets in order and handles each that     *)
(* select found readable.  The table only grows.  Whatever one recv        *)
(* returns is taken for one message, becomes one record of the file and is *)
(* answered with one "ok".                                                 *)
(***************************************************************************)
EXTENDS TcpConnection

CONSTANTS
  Stops,      \* the numbers of each client's lines whose text is "stop"
  StopCuts,   \* <<k, n>>: n pieces from piece k on hold no whole message at their
              \* head, and read "stop" at the server all the same
  ZeroApart,  \* the clients whose texts have their zero byte in a piece of its own
  BufPieces,  \* how many pieces fill the buffer of 1000 bytes
  FdSetSize,  \* 64: how many sockets an fd_set holds
  MaxRecords  \* bound: records of one client that are kept

\* The pieces of a message that show in its record.
VisibleSize(c) == MsgSize(c) - (IF c \in ZeroApart THEN 1 ELSE 0)

ASSUME TcpServerAssumption ==
  /\ Stops \in [Clients -> SUBSET Nat]
  /\ ZeroApart \subseteq Clients /\ \A c \in ZeroApart : TextPieces[c] >= 2
  /\ StopCuts \in [Clients -> SUBSET (Nat \X Nat)]
  /\ \A c \in Clients : \A cut \in StopCuts[c] :
       cut[2] >= VisibleSize(c) => Heads(c, cut[1]) = {}
  /\ \A c \in Clients : Stops[c] # {} => MsgSize(c) <= BufPieces
  /\ BufPieces \in Nat /\ BufPieces >= 2
  /\ \A c \in Clients : MsgSize(c) <= 2 * BufPieces
  /\ FdSetSize \in Nat /\ FdSetSize >= 1
  /\ MaxRecords \in Nat /\ \A c \in Clients : MaxRecords >= Lines[c] * MsgSize(c)

VARIABLES
  phase,    \* where the server is in main and serveClients
  canWork,  \* server_can_work
  plugged,  \* plugged_socks
  ready,    \* read_fd: the entries of plugged still to be handled in this turn
  peer,     \* server.ip
  file      \* the records of each client in the file, in order

srvVars == <<phase, canWork, plugged, ready, peer, file>>

\* The number of a record that does not hold one whole message.
Junk == -1

\* server.ip before the first accept.
Nobody == "nobody"

Entry == [client : Clients, connected : BOOLEAN, open : BOOLEAN]

SrvTypeOK ==
  /\ phase \in {"off", "select", "turn", "closed", "failed"}
  /\ canWork \in BOOLEAN
  /\ plugged \in Seq(Entry)
  /\ ready \subseteq 1 .. Len(plugged)
  /\ peer \in Clients \cup {Nobody}
  /\ file \in [Clients -> Seq([num : Nat \cup {Junk}, name : Clients])]

SrvInit ==
  /\ phase = "off"
  /\ canWork = TRUE
  /\ plugged = <<>>
  /\ ready = {}
  /\ peer = Nobody
  /\ file = [c \in Clients |-> <<>>]

-----------------------------------------------------------------------------
Listening == phase \in {"select", "turn"}

\* Bind and Listen.
Start ==
  /\ phase = "off"
  /\ phase' = "select"
  /\ UNCHANGED <<canWork, plugged, ready, peer, file, netVars>>

StartFails ==
  /\ phase = "off"
  /\ phase' = "failed"
  /\ UNCHANGED <<canWork, plugged, ready, peer, file, netVars>>

\* The new socket goes to the end of the table.  Where the client is gone
\* already accept may fail, and its -1 is put into the table all the same.
AcceptFirst ==
  LET c == Head(pending) IN
    /\ pending' = Tail(pending)
    /\ \/ /\ plugged' = Append(plugged, [client |-> c, connected |-> FALSE, open |-> TRUE])
          /\ peer' = c
       \/ /\ c \in ended
          /\ plugged' = Append(plugged, [client |-> c, connected |-> FALSE, open |-> FALSE])
          /\ UNCHANGED peer

\* FD_SET does nothing once the set is full, and the listening socket is in it
\* first: entries that find no room are never looked at again.
Watched == {i \in DOMAIN plugged : i < FdSetSize}

\* select fails, and nothing is handled, as long as a closed socket is in the
\* set.  A timeout changes nothing.
Select ==
  /\ phase = "select"
  /\ \A i \in Watched : plugged[i].open
  /\ LET found == {i \in Watched : Readable(plugged[i].client)} IN
       /\ found # {} \/ pending # <<>>
       /\ ready' = found
  /\ \/ pending # <<>> /\ AcceptFirst
     \/ pending = <<>> /\ UNCHANGED <<pending, plugged, peer>>
  /\ phase' = "turn"
  /\ UNCHANGED <<canWork, file, sent, arrived, taken, oks, ended, hungup>>

-----------------------------------------------------------------------------
\* The entry whose turn it is.
Turn(i) == phase = "turn" /\ \A j \in ready : i <= j

\* What recv returns: the pieces that are there, as far as they fit.
Received(c) == IF Available(c) <= BufPieces THEN Available(c) ELSE BufPieces

\* The message the buffer begins with, if it holds all of it but the zero byte: the
\* buffer was cleared with zeros.
Whole(c) == IF Received(c) >= VisibleSize(c) THEN Heads(c, taken[c] + 1) ELSE {}

\* Mutant: any message of a client that says "stop" somewhere.
StopOfAny(c) == Whole(c) # {} /\ Stops[c] # {}

\* What recv has put into the buffer reads "stop", whether it is a message or a
\* part of one; this outweighs MSG_TOO_BIG.
IsStop(c) ==
  Whole(c) \cap Stops[c] # {} \/ <<taken[c] + 1, Received(c)>> \in StopCuts[c]

\* Mutant: the first recv looks at the data and leaves it in the socket.
TakenBehindPeek(c) == IF Available(c) > BufPieces THEN Available(c) ELSE 0

\* A full buffer is MSG_TOO_BIG: the socket is emptied.
TakenBy(c) == IF IsStop(c) THEN Received(c) ELSE Available(c)

\* A message longer than the buffer: its rest is emptied into the file behind
\* what the buffer held, and whatever comes after its last byte, a zero, in the
\* same recv is not written.
LongWhole(c) ==
  IF BufPieces < MsgSize(c) /\ TakenBy(c) \in MsgSize(c) .. 2 * BufPieces
  THEN Heads(c, taken[c] + 1) ELSE {}

\* What the record holds: a message, or something else.  What is emptied into
\* the file behind a whole message spoils its record, and a rest that comes in
\* parts is written with what the longer part before it has left in the buffer.
Numbers(c) ==
  IF TakenBy(c) <= BufPieces /\ Whole(c) # {} THEN Whole(c)
  ELSE LongWhole(c) \cup {Junk}

\* Mutant: the address of the first entry.
AddressOfFirst(i) == plugged[1].client

\* The record begins with server.ip, the client that was accepted last.
Address(i) == peer

Write(c, r) ==
  file' = [file EXCEPT ![c] = IF Len(@) < MaxRecords THEN Append(@, r) ELSE @]

\* Mutant: a record that holds no message is not answered.
AnswerWhole(c) ==
  oks' = IF Whole(c) # {} THEN [oks EXCEPT ![c] = @ + 1] ELSE oks

\* Mutant: what is emptied into the file is answered once more.
AnswerTooBigTwice(c) ==
  oks' = [oks EXCEPT ![c] = @ + (IF Available(c) > BufPieces THEN 2 ELSE 1)]

\* send_ok, once for each recv.
Answer(c) == oks' = [oks EXCEPT ![c] = @ + 1]

\* Mutant: only the socket that said "stop" is closed.
CloseThis(i) ==
  /\ plugged' = [plugged EXCEPT ![i].open = FALSE]
  /\ hungup' = hungup \cup {plugged[i].client}

\* STOP closes every socket of the table.
CloseAll(i) ==
  /\ plugged' = [j \in DOMAIN plugged |-> [plugged[j] EXCEPT !.open = FALSE]]
  /\ hungup' = hungup \cup {plugged[j].client : j \in DOMAIN plugged}

\* A connected client's turn: MSG, MSG_TOO_BIG or STOP.
HandleMsg(i) ==
  LET c == plugged[i].client IN
    /\ plugged[i].connected /\ plugged[i].open /\ Available(c) > 0
    /\ taken' = [taken EXCEPT ![c] = @ + TakenBy(c)]
    /\ \E n \in Numbers(c) : Write(c, [num |-> n, name |-> Address(i)])
    /\ Answer(c)
    /\ canWork' = (canWork /\ ~IsStop(c))
    /\ \/ IsStop(c) /\ CloseAll(i)
       \/ ~IsStop(c) /\ UNCHANGED <<plugged, hungup>>
    /\ UNCHANGED <<peer, sent, arrived, pending, ended>>

\* Mutant: the end of the stream closes the socket.
HandleEndCloses(i) ==
  LET c == plugged[i].client IN
    /\ plugged[i].connected
    /\ plugged[i].open => Available(c) = 0
    /\ plugged' = [plugged EXCEPT ![i].open = FALSE]
    /\ hungup' = hungup \cup {c}
    /\ UNCHANGED <<canWork, peer, file, sent, arrived, taken, oks, pending, ended>>

\* recv returns 0 at the end of the stream, or fails on a socket that STOP has
\* closed: a record without a message.  Its "ok" reaches nobody.
HandleEnd(i) ==
  LET c == plugged[i].client IN
    /\ plugged[i].connected
    /\ plugged[i].open => Available(c) = 0
    /\ Write(c, [num |-> Junk, name |-> Address(i)])
    /\ UNCHANGED <<canWork, plugged, peer, netVars>>

\* The three bytes "put".
HandlePut(i) ==
  LET c == plugged[i].client IN
    /\ ~plugged[i].connected /\ plugged[i].open /\ Available(c) > 0
    /\ taken' = [taken EXCEPT ![c] = @ + 1]
    /\ plugged' = [plugged EXCEPT ![i].connected = TRUE]
    /\ UNCHANGED <<canWork, peer, file, sent, arrived, oks, pending, ended, hungup>>

\* recv leaves the buffer unset: it may hold the "put" of an earlier call, and
\* otherwise the socket is closed and stays in the table.
HandleNoPut(i) ==
  LET c == plugged[i].client IN
    /\ ~plugged[i].connected
    /\ plugged[i].open => Available(c) = 0
    /\ \/ plugged' = [plugged EXCEPT ![i].connected = TRUE]
          /\ UNCHANGED hungup
       \/ plugged' = [plugged EXCEPT ![i].open = FALSE]
          /\ hungup' = hungup \cup {c}
    /\ UNCHANGED <<canWork, peer, file, sent, arrived, taken, oks, pending, ended>>

Handle ==
  \E i \in ready :
    /\ Turn(i)
    /\ HandleMsg(i) \/ HandleEnd(i) \/ HandlePut(i) \/ HandleNoPut(i)
    /\ ready' = ready \ {i}
    /\ UNCHANGED phase

\* The end of the turn; after STOP the server closes its own socket too, and
\* with it the connections that wait for accept.
EndTurn ==
  /\ phase = "turn" /\ ready = {}
  /\ \/ /\ canWork
        /\ phase' = "select"
        /\ UNCHANGED <<pending, hungup>>
     \/ /\ ~canWork
        /\ phase' = "closed"
        /\ pending' = <<>>
        /\ hungup' = hungup \cup {pending[k] : k \in DOMAIN pending}
  /\ UNCHANGED <<canWork, plugged, ready, peer, file, sent, arrived, taken, oks, ended>>

ServerStep == Start \/ StartFails \/ Select \/ Handle \/ EndTurn
=============================================================================
