------------------------------ MODULE TcpSystem ------------------------------
(***************************************************************************)
(* The TCP pair of the repository: clients, server and connections.        *)
(***************************************************************************)
EXTENDS TcpClient, TcpServer

vars == <<cliVars, srvVars, netVars>>

Init == NetInit /\ CliInit /\ SrvInit

Client(c) == ClientStep(c, Listening) /\ UNCHANGED srvVars
Killed(c) == Die(c) /\ UNCHANGED srvVars
Server == ServerStep /\ UNCHANGED cliVars
Network(c) == (Arrive(c) \/ Reset(c)) /\ UNCHANGED <<cliVars, srvVars>>

Next ==
  \/ Server
  \/ \E c \in Clients : Client(c) \/ Killed(c) \/ Network(c)

Spec == Init /\ [][Next]_vars

(***************************************************************************)
(* Fairness.  The operator starts the server; its loop never waits longer  *)
(* than one second.  TCP delivers what was sent.  A client runs unless it  *)
(* is killed, and blocks only in recv.                                     *)
(***************************************************************************)
Fairness ==
  /\ WF_vars(Server)
  /\ \A c \in Clients :
       /\ WF_vars(Client(c))
       /\ WF_vars(Arrive(c) /\ UNCHANGED <<cliVars, srvVars>>)

FairSpec == Spec /\ Fairness

-----------------------------------------------------------------------------
(***************************************************************************)
(* Properties                                                              *)
(***************************************************************************)
TypeOK == NetTypeOK /\ CliTypeOK /\ SrvTypeOK

\* The places of client c's records in the file that hold a message as it was
\* sent.
Recorded(c) == {k \in DOMAIN file[c] : file[c][k].num # Junk}

\* However the stream is cut into segments and coalesced, a client's messages
\* stand in the file in the order they were sent in and none stands there twice.
InOrderOnce ==
  \A c \in Clients : \A j, k \in Recorded(c) :
    j < k => file[c][j].num < file[c][k].num

\* Each record was answered once, each answer is still under way or was counted
\* by the client: while both sides are open the "ok" of the client and the
\* records of the server never drift apart.  A client that counts fewer than its
\* messages is one whose messages were coalesced or whose buffer was not ended
\* by a zero byte.
AcksCountRecords ==
  \A c \in Clients \ (ended \cup hungup) :
    /\ acked[c] + oks[c] <= Len(file[c])
    /\ ~TailMayDiffer => acked[c] + oks[c] = Len(file[c])

Position(c) == CHOOSE i \in DOMAIN plugged : plugged[i].client = c

\* A record carries the address of its sender or of a client that was accepted
\* later, never that of an earlier one.
NamesSenderOrLater ==
  \A c \in Clients : \A k \in DOMAIN file[c] :
    Position(c) <= Position(file[c][k].name)

\* The server stops serving for ever (select fails on a closed socket in the
\* table) only through a client that closed or died before its "put" was taken.
WedgedForAReason ==
  canWork => \A i \in DOMAIN plugged :
    ~plugged[i].open => plugged[i].client \in ended /\ taken[plugged[i].client] = 0

\* The last whole message recorded of client c says "stop"; or what was received
\* from c last reads "stop", although it is no message but a part of one.
SaidStop(c) ==
  \/ \E k \in Recorded(c) :
       file[c][k].num \in Stops[c] /\ \A j \in Recorded(c) : j <= k
  \/ \E cut \in StopCuts[c] : cut[1] + cut[2] = taken[c] + 1

\* The server ends only after the last thing it took from one of the clients read
\* "stop": a message that says so, or a cut of the stream behind these letters.
\* A cut of any other message ends nothing, nor does a "stop" that stands behind
\* another message in the same recv.
EndsAtStop == phase = "closed" => \E c \in Clients : SaidStop(c)

\* Once "stop" was read nothing more is received or answered, although the turn
\* goes on over the sockets behind it.
StopIsFinal ==
  [][~canWork => /\ taken' = taken
                 /\ \A c \in Clients : oks'[c] <= oks[c]]_vars

\* What a record may hold that ends the server: a message that says "stop", or a
\* part of another one if the stream can be cut behind these letters.
FinalEntries ==
  [c \in Clients |-> Stops[c] \cup IF StopCuts[c] = {} THEN {} ELSE {Junk}]

\* The pair implements the log of AnsweredLog: the file without the addresses in
\* it; a connection is over once either side has closed it.
AL == INSTANCE AnsweredLog WITH
  Writers <- Clients,
  log <- [c \in Clients |-> [k \in DOMAIN file[c] |-> file[c][k].num]],
  due <- oks,
  counted <- acked,
  gone <- ended \cup hungup,
  closed <- ~canWork,
  Final <- FinalEntries

ImplementsLog == AL!Spec

Left(c) == pc[c] \in {"closed", "failed", "dead"}

\* The connections beyond the size of an fd_set.
Unseated(c) == \E i \in DOMAIN plugged : plugged[i].client = c /\ i >= FdSetSize

\* select fails for ever on a closed socket in the set.
Wedged == canWork /\ \E i \in Watched : ~plugged[i].open


\* When the server is gone every client ends, whatever it was waiting for.
ServerGoneAllLeave == phase \in {"closed", "failed"} ~> \A c \in Clients : Left(c)
-----------------------------------------------------------------------------
(***************************************************************************)
(* The inductive invariant behind the safety properties.                   *)
(***************************************************************************)

\* What is left to send and to try, and who has closed.
StagesAgree ==
  \A c \in Clients :
    /\ pc[c] \in {"connect", "send"} => sent[c] < Pieces(c)
    /\ pc[c] = "connect" => tries[c] < MaxTries
    /\ c \in ended => pc[c] \in {"closed", "dead"}

\* A client makes one connection: it stands in the queue of accept or in the
\* table, and there once; the server hangs up on nobody else.
SeatedOnce ==
  /\ \A k, l \in DOMAIN pending : pending[k] = pending[l] => k = l
  /\ \A i, j \in DOMAIN plugged : plugged[i].client = plugged[j].client => i = j
  /\ \A k \in DOMAIN pending :
       /\ pc[pending[k]] # "connect" /\ pending[k] \notin hungup
       /\ \A i \in DOMAIN plugged : plugged[i].client # pending[k]
  /\ \A i \in DOMAIN plugged : pc[plugged[i].client] # "connect"
  /\ \A c \in hungup : pc[c] # "connect"

\* Nothing more will be found in the socket of c.
Drained(c) == AtEnd(c) /\ Available(c) = 0

\* What one entry of the table says of its client's stream and records: the
\* "put" that made it connected is taken, and each record took a piece more,
\* unless the socket had come to its end.
EntriesAgree ==
  \A i \in DOMAIN plugged :
    LET c == plugged[i].client IN
      /\ plugged[i].open => c \notin hungup
      /\ ~plugged[i].open => c \in ended \cup hungup
      /\ ~plugged[i].connected => taken[c] = 0 /\ file[c] = <<>>
      /\ plugged[i].connected => Len(file[c]) < taken[c] \/ c \in hungup \/ Drained(c)

\* Only what is in the table is received from and recorded.
OthersUntouched ==
  \A c \in Clients :
    (\A i \in DOMAIN plugged : plugged[i].client # c) => taken[c] = 0 /\ file[c] = <<>>

\* An entry waits for its turn because there is something to receive, unless
\* STOP has closed its socket: nobody else empties or closes it before.
ReadyForAReason ==
  \A i \in ready :
    LET c == plugged[i].client IN c \in hungup \/ (plugged[i].open /\ Readable(c))

\* The address in server.ip is that of the last entry whose turn can come.
PeerIsLast ==
  \A i \in DOMAIN plugged :
    i \in ready \/ plugged[i].open =>
      \E p \in DOMAIN plugged : i <= p /\ plugged[p].client = peer

\* A message that was recorded began in front of what has been taken.
RecordedWereTaken ==
  \A c \in Clients : \A k \in Recorded(c) : HeadOf(c, file[c][k].num) <= taken[c]

\* NamesSenderOrLater, without the choice of a position.
NamesArePlaced ==
  \A c \in Clients : \A k \in DOMAIN file[c] :
    \E p, q \in DOMAIN plugged :
      p <= q /\ plugged[p].client = c /\ plugged[q].client = file[c][k].name

\* STOP leaves no socket open, and after it the server only finishes its turn.
StopClosesAll ==
  /\ phase = "closed" => ~canWork
  /\ ~canWork => /\ phase \in {"turn", "closed"}
                 /\ \A i \in DOMAIN plugged : ~plugged[i].open
                 /\ \E c \in Clients : SaidStop(c)

IInv ==
  /\ TypeOK
  /\ StagesAgree
  /\ SeatedOnce
  /\ EntriesAgree
  /\ OthersUntouched
  /\ ReadyForAReason
  /\ PeerIsLast
  /\ RecordedWereTaken
  /\ InOrderOnce
  /\ AcksCountRecords
  /\ NamesArePlaced
  /\ WedgedForAReason
  /\ StopClosesAll
=============================================================================
